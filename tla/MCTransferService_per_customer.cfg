CONSTANTS
  r1 = r1  r2 = r2  r3 = r3
  w1 = w1  w2 = w2  w3 = w3
  S = S  I = I  V = V
  alice = alice  bob = bob
  k1 = k1  k2 = k2
  None = None
  Request <- MCRequests2
  Wallet <- MCWallet
  Settlement = S  Income = I  VatAccount = V
  Customer = {alice, bob}
  Owner <- MCOwner
  Key = {k1, k2}
  Opening <- MCOpening
  Fee = 1  Vat = 1
  VerifiedLimit = 4  UnverifiedLimit = 2
  Commands <- MenuTwoWallets
  MaxAttempts = 2
  MaxDay = 0
  WorkerRoutes <- MCRoute
  Effects <- MCEffect
SPECIFICATION Spec
INVARIANT LimitPerCustomer
SYMMETRY Requests
CHECK_DEADLOCK FALSE
