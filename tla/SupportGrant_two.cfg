SPECIFICATION Spec
CONSTANTS
    Slots = {s1, s2}
    a1 = a1
    a2 = a2
    a3 = a3
    t1 = t1
    t2 = t2
    Tenants = {t1, t2}
    Asks = {a1, a2, a3}
    None = None
    TenantOf <- TwoTenants
    AboveRole <- ThirdAbove
    RefusedRevokes = FALSE
SYMMETRY SlotSymmetry
INVARIANTS
    CredentialGoesHome
    ReleasedIsRevoked
    AskedIsTraced
