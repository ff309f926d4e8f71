SPECIFICATION Spec
CONSTANTS
  o1 = o1
  o2 = o2
  Orders = {o1, o2}
  KindsOf <- Both
  Price = 1
  InitialBalance = 1
  VmLimit = 1
  MaxHourly = 2
  BuildLimit = 1
  SweepAge = 3
  PageSize = 1
  Setups <- LosesAccount
  MaxCrashes = 1
ACTION_CONSTRAINT Apart
INVARIANTS Settled UnpaidOnlyByRace CleanRefusal
PROPERTIES SweepSparesCustomers OrphansSwept
CHECK_DEADLOCK FALSE
