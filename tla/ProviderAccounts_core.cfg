SPECIFICATION Spec
CONSTANTS
    Accounts = {1, 2}
    Servers = {s}
    Admins = {h, k}
    Limits = {0, 1}
    None = None
    MaxChanges = 3
    MaxFailures = 1
INVARIANTS AlarmsTellState ServersHaveMachines
PROPERTIES AlarmSettles
CHECK_DEADLOCK FALSE
