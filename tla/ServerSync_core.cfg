SPECIFICATION Spec
CONSTANTS
  s1 = s1
  s2 = s2
  nobody = nobody
  Nobody = nobody
  Sessions = {s1, s2}
  Menus <- MCMenus
  Beat = s2
  InitialBalance = 2
  MaxPlan = 1
  MaxFailures = 1
INVARIANT BilledPlanIsThere
PROPERTIES PaidIsDone SyncKeepsVerdict OrdersApart BuildingSettles
CHECK_DEADLOCK FALSE
