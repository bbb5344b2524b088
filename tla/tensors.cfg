SPECIFICATION Spec
CONSTANTS
    Models <- ModelSet
    InputLengths <- Lengths
    Word = 64
    MaxCalls = 2
    Null = Null
INVARIANTS
    CopyInBounds
    InputTiled
    BuffersWhole
    NoLeak
    ResultOrigin
PROPERTY
    ImplementsEngine
CHECK_DEADLOCK FALSE
