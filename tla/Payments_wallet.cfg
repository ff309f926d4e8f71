SPECIFICATION Spec
CONSTANTS
  c1 = c1
  z1 = z1
  u1 = u1
  p1 = p1
  p2 = p2
  poller = poller
  nobody = nobody
  none = none
  Crypto = {c1}
  Zarin = {z1}
  Users = {u1}
  Payer <- MCPayer
  Sessions = {p1}
  Poller = poller
  Reliable = {c1}
  Nobody = nobody
  NoOrder = none
  Amount = 2
  Charge = 3
  FirstBalance = 0
  MaxCredits = 1
  MaxCrashes = 0
INVARIANTS WalletKeepsCredits
