SPECIFICATION Spec
CONSTANTS
    BinGraphs = {2}
    SoGraphs = {2}
    Faults = {}
    Null = Null
INVARIANT NeverCrashes
CHECK_DEADLOCK FALSE
