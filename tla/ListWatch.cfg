SPECIFICATION AnsweredSpec
CONSTANT MaxVersion = 4
CHECK_DEADLOCK FALSE
INVARIANT MissedChangeIsReported
PROPERTIES
    IsWatchWorker
    IntactViewFollows
    CancelledLoopStops
    ViewConverges
