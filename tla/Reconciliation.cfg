CONSTANTS
  Outbound = {o1, o2}
  Inbound = {i1}
  Early = {o1, i1}
  Amount = 3
  Fee = 2
  Vat = 1
  LastDay = 2
  MaxReversals = 1
  MaxFundings = 1
  MaxFaults = 1
  None = None
SPECIFICATION Spec
INVARIANT TypeOK
INVARIANT ChargesCollectedOnce
PROPERTY BalancedMeansCollected
PROPERTY QuietRunMirrors
PROPERTY EndOfDayRuns
CHECK_DEADLOCK FALSE
