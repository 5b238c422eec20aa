SPECIFICATION Spec
CONSTANTS
    daemonsets = daemonsets
    nodes = nodes
    Requests = {r1, r2}
    Kinds = {daemonsets, nodes}
    Global = {nodes}
    Namespaces = {n1, n2}
    Means <- MCMeans
    Scalable = FALSE
    Restartable = TRUE
    MaxVersion = 3
SYMMETRY Symmetry
PROPERTIES ActsOnTheRow NoLostChange AnswerTellsTheOutcome IsAtomic
CHECK_DEADLOCK FALSE
