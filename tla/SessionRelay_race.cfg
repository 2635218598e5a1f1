SPECIFICATION Spec
CONSTANTS
    Requests = {r1, r2, r3}
    Nobody = Nobody
    Earlier = {}
    Kinds <- RelayKinds
    LockLapse = "never"
    MaxIssued = 3
SYMMETRY RequestSymmetry
INVARIANTS
    TypeOK
    MutualExclusion
    NoSpentTokenPresented
    RefreshOncePerExpiry
PROPERTIES
    RetryUsesNewerToken
CHECK_DEADLOCK FALSE
