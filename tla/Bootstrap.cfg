SPECIFICATION MCFairSpec
CONSTANTS
    Clients = {c1, c2}
    Daemons = {d1, d2, d3}
    First = d1
    Mortal = {d1}
    Versions = {v1, v2, v3}
    FirstVersions = {v1, v3}
    NoVersion = v0
    OtherRPC = {v3}
    SpawnMayFail = {c2}
    Elsewhere = {v1}
    NoSocket = NoSocket
    OtherFile = OtherFile
    NoDaemon = NoDaemon
CHECK_DEADLOCK FALSE
INVARIANTS
    NoSocketLeftBehind
    RestartMatches
PROPERTIES
    StoppedByItsOwnRPC
    BootstrapEnds
    AskedDaemonExits
    StaleSocketRemoved
