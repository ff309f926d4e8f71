SPECIFICATION Spec
CONSTANTS
    u1 = u1
    u2 = u2
    v = v
    x = x
    y = y
    w1 = w1
    w2 = w2
    Users = {u1, u2}
    Vms = {v}
    Uids = {x, y}
    Workers = {w1, w2}
    Nobody = Nobody
    NoUid = NoUid
    InitialBalance = 1
    MaxHours = 3
    MaxConfigs = 3
INVARIANTS HoursBilledOnce OneLiveRow DebtCollectedOnce
SYMMETRY Symmetry
CHECK_DEADLOCK FALSE
