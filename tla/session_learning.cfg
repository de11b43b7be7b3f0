CONSTANTS
    K = 2
    N = 1
    L = 1
    MaxIterations = 2
    TpmIds <- TwoIds
    MaxKeys = 1
    Faults = FALSE

SPECIFICATION Spec

\* A session may end on both sides.
CHECK_DEADLOCK FALSE

INVARIANTS
    TypeOK
    OldVectorStillLoaded
    SyncedIsNoticed
    Routed
