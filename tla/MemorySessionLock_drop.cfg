SPECIFICATION MemoryFairSpec
CONSTANTS
    Tasks = {t1, t2, t3}
    NoLock = NoLock
    MaxLocks = 3
    MayDelete = TRUE
INVARIANTS
    ExclusiveUnlessDropped
PROPERTIES
    EveryWaiterEnters
CHECK_DEADLOCK TRUE
