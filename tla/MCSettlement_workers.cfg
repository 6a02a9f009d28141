CONSTANTS
  Transfer = {t1}
  Worker = {v1, v2}
  Querier = {q1}
  Admin = {}
  RailAnswers <- AnyAnswer
  None = None
  MaxJobAttempts = 5
  FaultKinds = {}
  MaxFaults = 0
  MaxReposts = 0
SPECIFICATION Spec
INVARIANTS TypeOK NeverPaidTwice RefundOnlyIfUnpaid SettledOnlyIfPaid
SYMMETRY Symmetry
CHECK_DEADLOCK FALSE
