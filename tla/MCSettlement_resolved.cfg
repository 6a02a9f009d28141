CONSTANTS
  Transfer = {t1}
  Worker = {v1}
  Querier = {q1}
  Admin = {d1}
  RailAnswers <- ReferencedAnswers
  None = None
  MaxJobAttempts = 5
  FaultKinds = {"crash", "rail", "read", "commit", "reversal"}
  MaxFaults = 2
  MaxReposts = 1
SPECIFICATION FairSpec
PROPERTY Resolved
CHECK_DEADLOCK FALSE
