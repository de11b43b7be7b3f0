CONSTANTS
    t1 = t1
    t2 = t2
    MaxAttempts = 2
    Threads <- TwoThreads
    Modes = {1, 2}
    MaxKeys = 3
    MaxMessages = 2

SPECIFICATION FairSpec

\* No more messages, and nothing left to open.
CHECK_DEADLOCK FALSE

INVARIANTS
    TypeOK
    Mode1Honest
    Mode2Honest
    
    
    

PROPERTIES
    CallsShrink
    CallsEnd
