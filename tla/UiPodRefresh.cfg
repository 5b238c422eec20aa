SPECIFICATION Spec
CONSTANTS
    Pods = {p1, p2}
    Namesakes = {}
    MaxContainers = 1
    MaxTicks = 1
    None = None
PROPERTY PollRefreshesInPlace
