CONSTANTS
    t1 = t1
    t2 = t2
    MaxAttempts = 2
    Threads <- OneThread
    Modes = {2}
    MaxKeys = 2
    MaxMessages = 2

SPECIFICATION Spec

\* No more messages, and nothing left to open.
CHECK_DEADLOCK FALSE

CONSTRAINT SessionRings

INVARIANT
    SkippedKeysTried
