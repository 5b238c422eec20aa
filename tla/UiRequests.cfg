CONSTANTS
    Views = {deployments, services}
    Names = {a, b}
    Namesakes = {{a, b}}
    None = None
    MaxLate = 1
SPECIFICATION FairSpec
INVARIANTS
    FlagsHaveRequest
    PaneIsWhatWasOpened
    MarksAreRows
PROPERTIES
    ListArrives
    DetailArrives
