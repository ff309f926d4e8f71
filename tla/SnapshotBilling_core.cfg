SPECIFICATION Spec
CONSTANTS
  a = a
  b = b
  r1 = r1
  r2 = r2
  nobody = nobody
  Snapshots = {a, b}
  Runs = {r1, r2}
  Nobody = nobody
  InitialBalance = 1
  MaxHours = 2
  MaxTopUps = 1
  MaxCrashes = 1
INVARIANTS HoursDebited PaidImageExists
PROPERTIES HourSettled
CHECK_DEADLOCK FALSE
