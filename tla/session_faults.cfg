CONSTANTS
    K = 1
    N = 1
    L = 2
    MaxIterations = 2
    TpmIds <- OneId
    MaxKeys = 2
    Faults = TRUE

SPECIFICATION Spec

\* A session may end on both sides.
CHECK_DEADLOCK FALSE

INVARIANTS
    OneTurn
    IterationsInStep
    KeysAgree
    RingsAgree
    IInv

PROPERTY
    ImplementsKeyExchange
