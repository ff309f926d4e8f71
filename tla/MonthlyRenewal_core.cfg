SPECIFICATION FairSpec
CONSTANTS
  s1 = s1
  u1 = u1
  w1 = w1
  h1 = h1
  h2 = h2 e1 = e1
  Servers = {s1}
  Users = {u1}
  Owner <- MCOwner
  Workers = {w1}
  Handlers = {h1, h2}
  Editors = {e1}
  Nobody = Nobody
  NoServer = NoServer
  Day = 1
  Month = 2
  NoticeDays = 1
  Price = 1
  TopUp = 1
  FirstBalance = 0
  FirstTerm <- MCFirstTerm
  MaxTime = 2
  MaxFunds = 2
  MaxCrashes = 1
ACTION_CONSTRAINT Apart
INVARIANT Ledger
PROPERTIES ExtensionsPaid DayBeforeRemoval OneManualRenewalAMonth TopUpRenews ExpiryHandled
