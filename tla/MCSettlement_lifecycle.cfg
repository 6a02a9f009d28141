CONSTANTS
  Transfer = {t1, t2}
  Worker = {v1}
  Querier = {}
  Admin = {}
  RailAnswers <- AnyAnswer
  None = None
  MaxJobAttempts = 5
  FaultKinds = {"crash", "rail", "read", "save", "commit"}
  MaxFaults = 3
  MaxReposts = 0
SPECIFICATION Spec
INVARIANTS RefundedOnce SettledIsNotRefunded
PROPERTY ImplementsLifecycle
SYMMETRY Symmetry
CHECK_DEADLOCK FALSE
