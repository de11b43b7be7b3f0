CONSTANTS
    K = 1
    N = 1
    L = 1
    MaxIterations = 2
    TpmIds <- OneId
    MaxKeys = 1
    Faults = TRUE

SPECIFICATION FairSpec

\* A session may end on both sides.
CHECK_DEADLOCK FALSE

PROPERTIES
    TurnPasses
    KeyCatchesUp
    StopPropagates
