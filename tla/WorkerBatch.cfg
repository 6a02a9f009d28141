CONSTANTS
  Transfer = {t1, t2}
  Settlement = settlement
  Opening = 1
  Float = 2
  MaxMoves = 2
  MaxBatches = 2
  MaxFaults = 1
  None = None
SPECIFICATION Spec
INVARIANT RefundsHaveLegs
CHECK_DEADLOCK FALSE
