SPECIFICATION FairSpec
CONSTANTS
    Keys = {k1}
    Workers = {w1, w2}
    Requests = {r1, r2}
    NoKey = NoKey
    NoWorker = NoWorker
    HasWatcher = TRUE
    RefreshInterval = 1
    StaleAfter = 1
    WatchIdleAfter = 1
    MaxNow = 2
    MaxVersion = 2
INVARIANTS
    OneFetcherPerKey
    FlagsHaveOwner
    WatchCanBeCancelled
    LiveIsHealthyAndRecent
PROPERTIES
    ItemsNeverRegress
    IsSnapshotView
    CancelledWatchStops
    IdleWatchIsReaped
    PolledKeyConverges
