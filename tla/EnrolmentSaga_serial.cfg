SPECIFICATION Spec
CONSTANTS
    a1 = a1
    a2 = a2
    a3 = a3
    a4 = a4
    t1 = t1
    t2 = t2
    Attempts = {a1, a2, a3, a4}
    Tenants = {t1, t2}
    None = None
    NamedTenant <- OneTypo
    GatewayOf <- RightNames
    MaxActive = 1
    Lossy = {"enrol", "withdraw", "record"}
INVARIANTS
    NoMisdelivery
    FailuresCompensate
PROPERTIES
    IncompleteIsAlive
    SuccessIsWhole
CHECK_DEADLOCK FALSE
