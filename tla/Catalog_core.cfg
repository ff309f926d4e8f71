SPECIFICATION CatalogSpec
CONSTANTS
    Ids = {1, 2}
    Clicks = {c}
    Costs = {2, 3}
    Margins = {1}
    Unset = Unset
    MaxEdits = 3
    MaxFaults = 1
INVARIANT KeepsWish
PROPERTY CatalogueSettles
CHECK_DEADLOCK FALSE
