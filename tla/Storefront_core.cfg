SPECIFICATION StorefrontSpec
CONSTANTS
    g = g
    t = t
    v = v
    Plans = {g, t, v}
    KindOf <- MCKindOf
    FirstPrice <- MCFirstPrice
    h = h
    k = k
    NewPrices = {0}
    Handlers = {h, k}
    NoPlan = NoPlan
    MaxEvents = 1
INVARIANTS ShownIsCharged NothingForFree HourlyWithoutDiscount
CHECK_DEADLOCK FALSE
SYMMETRY Symmetry
