SPECIFICATION Spec
CONSTANTS
  s1 = s1
  s2 = s2
  u1 = u1
  w1 = w1
  w2 = w2
  Servers = {s1, s2}
  Users = {u1}
  Owner <- MCOwner
  Created <- MCCreated
  Reseller = {s2}
  Foreign = {}
  Workers = {w1, w2}
  Handlers = {h1}
  Nobody = Nobody
  NoServer = NoServer
  Hour = 2
  StaleAfter = 1
  Price = 1
  MonthPrice = 2
  TopUp = 1
  FirstBalance = 2
  MaxTime = 3
  MaxBalance = 2
  MaxCrashes = 1
  MaxTopUps = 1
SYMMETRY MCWorkerSymmetry
INVARIANTS Ledger HoursMatchDebits
PROPERTY ImplementsWallet
