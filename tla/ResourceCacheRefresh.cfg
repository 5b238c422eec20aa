SPECIFICATION FairSpec
CONSTANTS
    Keys = {k1}
    Workers = {w1, w2}
    Requests = {r1, r2}
    NoKey = NoKey
    NoWorker = NoWorker
    HasWatcher = FALSE
    RefreshInterval = 1
    StaleAfter = 2
    WatchIdleAfter = 2
    MaxNow = 4
    MaxVersion = 3
PROPERTY RefreshSettles
