SPECIFICATION FairSpec
CONSTANTS
    Msg = {a, b}
    Worker = {w1, w2}
    NumGraphs = 2
    QueueDepth = 1
    Unreadable = {}
    Faults = {"init", "exec", "post", "signal"}
    Empty = Empty
INVARIANTS
    NothingLeftBehind
    NoDuplicates
PROPERTY ShutdownStops
CHECK_DEADLOCK FALSE
