SPECIFICATION FairSpec
CONSTANTS
    Requests = {r1, r2}
    Nobody = Nobody
    Earlier = {a1}
    Kinds <- EveryKind
    LockLapse = "holder_dead"
    MaxIssued = 2
INVARIANTS
    ServedArchiveIsGone
PROPERTIES
    ImplementsSessionLock
    EveryRequestEnds
CHECK_DEADLOCK FALSE
