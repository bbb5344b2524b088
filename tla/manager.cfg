SPECIFICATION Spec
CONSTANTS
    Nets <- NetSet
    InputLengths = {0, 2}
    MaxCalls = 3
    Null = Null
INVARIANTS
    CollectedOfThisCall
    InterpreterUsable
    NothingLeft
PROPERTY
    ImplementsEngine
CHECK_DEADLOCK FALSE
