\* Every thread may be idle for good once every source is gone.
CONSTANTS
    None = None
    Threads = {t1, t2}
    Sources = {s1, s2}
    Keys = {k1, k2}
    Objects = {o1, o2, o3, o4}
    Addresses = {a1}
SPECIFICATION FairSpec
INVARIANTS
    TypeOK
    EntryOfItsSource
PROPERTIES
    MemoSpec
    LockIsReleased
CHECK_DEADLOCK FALSE
