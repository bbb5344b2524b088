SPECIFICATION CallersSpec
CONSTANTS
    InMem = {m1, m2}
    OutMem = {o1, o2}
    Fd = {f1, f2}
    Handle = {h1, h2, h3}
    Null = Null
    NumGraphs = 2
    NumOut <- ShrinkingOutputs
    Faults = {"setup", "input", "exec"}
    RecycleFds = FALSE
    Other = {t2}
    WarmUp = TRUE
INVARIANTS
    InputBindingSound
    NoHandleLost
    RegisteredOutputAlive
    
    
CHECK_DEADLOCK FALSE
