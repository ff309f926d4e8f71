SPECIFICATION FairSpec
CONSTANTS
  s1 = s1
  s2 = s2
  u1 = u1
  w1 = w1
  w2 = w2
  Servers = {s2}
  Users = {u1}
  Owner <- MCOwner
  Created <- MCCreated
  Reseller = {}
  Foreign = {s2}
  Workers = {w1}
  Handlers = {}
  Nobody = Nobody
  NoServer = NoServer
  Hour = 1
  StaleAfter = 4
  Price = 2
  MonthPrice = 4
  TopUp = 1
  FirstBalance = 0
  MaxTime = 4
  MaxBalance = 2
  MaxCrashes = 1
  MaxTopUps = 1
ACTION_CONSTRAINT Apart
PROPERTIES ArrearsSettled PurgeSparesFunded UnpaidStaysMarked
