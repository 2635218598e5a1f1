SPECIFICATION ClientFairSpec
CONSTANTS
    Callers = {c1, c2}
    Nobody = Nobody
    Unconfigured = Unconfigured
    FromEnv = FALSE
    HasResolver = TRUE
    MaxEnrolments = 4
    Address <- MCAddress
    Unreachable <- MCUnreachable
    Foreign <- MCForeign
INVARIANTS
    OneColdCall
    ColdCallWhenCold
PROPERTIES
    Recovers
