SPECIFICATION Spec
CONSTANTS
  Addresses = {a, b, p}
  Trusted = {p}
  Junk = junk
  MaxFailures = 2
  Window = 1
  MaxTracked = 2
  Second = 2
  MaxForged = 1
  MaxProxies = 1
  MaxTime = 3
  Secrets = {cookie, password}
  Password = password
  CookieSecret = cookie
  Earlier = {cookie}
  ShortWrites = FALSE
  MaxBoots = 2
SYMMETRY Alike
INVARIANTS
  GuessesBounded
  RetryAfterHonest
  RunsOnStoredSecrets
PROPERTIES
  LocksHold
  SecretsSurvive
CHECK_DEADLOCK FALSE
