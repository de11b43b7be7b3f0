CONSTANTS
    t1 = t1
    t2 = t2
    MaxAttempts = 2
    Threads <- TwoThreads
    Modes = {2}
    MaxKeys = 1
    MaxMessages = 2

SPECIFICATION Spec

SYMMETRY Swap

\* No more messages, and nothing left to open.
CHECK_DEADLOCK FALSE

INVARIANT
    OncePerSide
