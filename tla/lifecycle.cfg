SPECIFICATION Spec
CONSTANTS
    BinGraphs = {1, 2}
    SoGraphs = {1, 2}
    Faults <- AllFaults
    Null = Null
INVARIANTS
    CrashCauses
    ParentOutlivesChild
    NoDeviceResourceSurvives
    ReadyComplete
    BackendFreeOwn
    BinLibrariesClosed
CHECK_DEADLOCK FALSE
