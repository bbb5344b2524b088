SPECIFICATION Spec
CONSTANTS
    InMem = {m1}
    OutMem = {o1, o2, o3}
    Fd = {f1}
    Handle = {h1, h2, h3, h4}
    Null = Null
    NumGraphs = 1
    NumOut <- OneGraph
    Faults = {"output"}
    RecycleFds = FALSE
INVARIANTS
    RegisteredOutputAlive
CHECK_DEADLOCK FALSE
