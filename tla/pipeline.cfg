SPECIFICATION FairSpec
CONSTANTS
    Worker = {w1, w2}
    MaxImages = 3
    Depth = 2
    DepthBytes = 4
    OutputBytes = 4
INVARIANTS
    DepthFreshEnough
    RestShowsNewest
    OutputNotFreed
    ReadMapped
PROPERTY
    DepthMovesForward
    ImageShown
CHECK_DEADLOCK FALSE
