SPECIFICATION FairSpec
CONSTANTS
    Msg = {a, b, c}
    Worker = {w1}
    NumGraphs = 2
    QueueDepth = 2
    Unreadable = {1}
    Faults = {"init", "exec", "post", "signal"}
    Empty = Empty
INVARIANTS
    TypeOK
    NoNullManager
    ResultsMatchHeader
    ResultsComplete
PROPERTIES
    ImplementsService
    FramesAnswered
CHECK_DEADLOCK FALSE
