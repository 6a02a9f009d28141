CONSTANTS
  Transfer = {t1}
  Worker = {v1}
  Querier = {}
  Admin = {d1}
  RailAnswers <- AnyAnswer
  None = None
  MaxJobAttempts = 5
  FaultKinds = {}
  MaxFaults = 0
  MaxReposts = 1
SPECIFICATION Spec
INVARIANT SettledIsNotRefunded
CHECK_DEADLOCK FALSE
