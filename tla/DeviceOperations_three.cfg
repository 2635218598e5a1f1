SPECIFICATION Spec
CONSTANTS
  Requests = {r, s, t}
  Hosts = {h}
  MaxVersion = 2
SYMMETRY Alike
INVARIANTS
  PinMatchesDevice
  ClaimLeavesTrace
  ToolRunsOnce
  SessionsAreTornDown
  AnswersAreRecorded
CHECK_DEADLOCK FALSE
