SPECIFICATION Spec
CONSTANTS
    InMem = {m1, m2}
    OutMem = {o1, o2, o3}
    Fd = {f1, f2}
    Handle = {h1, h2, h3, h4}
    Null = Null
    NumGraphs = 2
    NumOut <- GrowingOutputs
    Faults = {"setup", "deregister", "input", "output", "exec", "contextFree"}
    RecycleFds = TRUE
INVARIANTS
    OutputBindingSound
    InputHandleRegistered
    HandedOutAlive
    NoBufferLeaked
CHECK_DEADLOCK FALSE
