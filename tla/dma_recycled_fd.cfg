SPECIFICATION Spec
CONSTANTS
    InMem = {m1, m2}
    OutMem = {o1, o2}
    Fd = {f1, f2}
    Handle = {h1, h2, h3}
    Null = Null
    NumGraphs = 1
    NumOut <- OneGraph
    Faults = {}
    RecycleFds = TRUE
INVARIANTS
    InputBindingSound
CHECK_DEADLOCK FALSE
