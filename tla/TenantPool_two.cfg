SPECIFICATION Spec
CONSTANTS
    Replicas = {p1}
    Slots = {s1, s2}
    MaxEpoch = 3
    Nowhere = Nowhere
INVARIANTS
    CredentialFollowsCatalog
    StaleIsHonest
