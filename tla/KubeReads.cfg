SPECIFICATION FairSpec
CONSTANTS
    Requests = {r1, r2}
    Owners = {o1}
    Loader = loader
    Refresher = refresher
    Mixes = {{"namespaces"}, {"details"}}
    RefreshInterval = 1
    StaleAfter = 2
    FetchTimeout = 1
    TTL = 1
    ScanTimeout = 1
    SoftLimit = 0
    HardLimit = 0
    MaxChanges = 1
INVARIANTS OneClientPerContext LiveNamespacesAreRecent
PROPERTIES NamespacesConverge ChildrenAreScanned
