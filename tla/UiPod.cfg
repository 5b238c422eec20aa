SPECIFICATION FairSpec
CONSTANTS
    Pods = {p1, p2}
    Namesakes = {{p1, p2}}
    MaxContainers = 2
    MaxTicks = 2
    None = None
INVARIANTS
    LogsAreOfOneTarget
    FollowKeepsPolling
PROPERTIES
    SearchForLogsEnds
