SPECIFICATION Spec
CONSTANTS
  Browsers = {a, b}
  Nobody = nobody
  Requests = {r, s}
  MaxLogins = 2
  MaxSessions = 2
SYMMETRY Alike
INVARIANTS
  SessionIsOwnLogin
  OneSessionPerBrowser
  SessionIsInCookie
  TransactionKept
CHECK_DEADLOCK FALSE
