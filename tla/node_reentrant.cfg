SPECIFICATION Spec
CONSTANTS
    Msg = {a, b}
    Worker = {w1, w2}
    NumGraphs = 2
    QueueDepth = 2
    Unreadable = {}
    Faults = {}
    Empty = Empty
INVARIANT ResultsMatchHeader
CHECK_DEADLOCK FALSE
