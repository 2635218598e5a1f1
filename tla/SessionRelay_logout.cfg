SPECIFICATION Spec
CONSTANTS
    Requests = {r1, r2}
    Nobody = Nobody
    Earlier = {}
    Kinds <- RelayKinds
    LockLapse = "never"
    MaxIssued = 2
SYMMETRY RequestSymmetry
INVARIANTS
    EndedStaysEnded
CHECK_DEADLOCK FALSE
