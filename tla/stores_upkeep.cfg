SPECIFICATION Spec
CONSTANTS
  Process = {p, q}
  Row = {1, 2}
  PageRows = 1
  MaxCalls = 4
  MaxThrottles = 1
  MaxTroubles = 2
INVARIANTS UpkeepOK UpkeepIsDone
PROPERTIES CallsAreAnswered HeartbeatEnds
CHECK_DEADLOCK FALSE
