CONSTANTS
    a = a
    a1 = a1
    Rest = {t1, t2}
    Dialers = {d1}
    Listeners = {l1}
    NoPeer = NoPeer
    Names <- AllNames
    Asked = {a}
    Longer <- Appended
    NoName = NoName
    MaxServices = 2

SPECIFICATION Spec

\* Once all registrations and peers are used up nothing may be left to do.
CHECK_DEADLOCK FALSE

INVARIANT
    NoConflicts
