CONSTANTS
  Transfer = {t1}
  Worker = {v1}
  Querier = {q1}
  Admin = {}
  RailAnswers <- AnyAnswer
  None = None
  MaxJobAttempts = 5
  FaultKinds = {}
  MaxFaults = 0
  MaxReposts = 0
SPECIFICATION Spec
INVARIANT RefundedOnce
CHECK_DEADLOCK FALSE
