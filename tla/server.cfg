CONSTANTS
    a = a
    a1 = a1
    Rest = {t1}
    Dialers = {d1}
    Listeners = {l1}
    NoPeer = NoPeer
    Names <- AllNames
    Asked = {a}
    Longer <- Appended
    NoName = NoName
    MaxServices = 2

SPECIFICATION FairSpec

\* Once all registrations and peers are used up nothing may be left to do.
CHECK_DEADLOCK FALSE

INVARIANTS
    TypeOK
    ErasesItself
    OwnService
    StopForgets
    

PROPERTIES
    ExitStops
    RequestsShrink
    PeersWindDown
    RequestsEnd
    SessionsEnd
