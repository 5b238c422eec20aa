SPECIFICATION Spec
CONSTANTS
    Clients = {c1}
    Daemons = {d1, d2}
    First = d1
    Mortal = {}
    Versions = {v1, v2}
    NoVersion = v0
    OtherRPC = {}
    SpawnMayFail = {}
    Elsewhere = {}
    NoSocket = NoSocket
    OtherFile = OtherFile
    NoDaemon = NoDaemon
CHECK_DEADLOCK FALSE
INVARIANTS
    UpgradeReachesDaemon
