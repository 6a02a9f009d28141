CONSTANTS
  r1 = r1  r2 = r2  r3 = r3
  w1 = w1  w2 = w2  w3 = w3
  S = S  I = I  V = V
  alice = alice  bob = alice
  k1 = k1  k2 = k2
  None = None
  Request <- MCRequests3
  Wallet <- MCWallet
  Settlement = S  Income = I  VatAccount = V
  Customer = {alice}
  Owner <- MCOwner
  Key = {k1, k2}
  Opening <- MCOpening
  Fee = 1  Vat = 1
  VerifiedLimit = 4  UnverifiedLimit = 4
  Commands <- MenuContended
  MaxAttempts = 2
  MaxDay = 0
  WorkerRoutes <- MCRoute
  Effects <- MCEffect
SPECIFICATION FairSpec
PROPERTY EveryRequestAnswered
CHECK_DEADLOCK FALSE
