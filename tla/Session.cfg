SPECIFICATION FairSpec
CONSTANTS
    Daemons = {d1, d2}
    Clients = {c1, c2}
    Sessions = {def, untidy, s1}
    Default = def
    Untidy = untidy
    Inodes = {i1, i2, i3}
    None = none
    Flagged = {c1}
    MaxStarts = 2
INVARIANT StoredIsTheLastSaved
PROPERTIES IsRegister CallsEnd
CHECK_DEADLOCK FALSE
