CONSTANTS
    Requests = {r1, r2}
    Refreshers = {f}
    Costs = {1}
    MaxCost = 1
    Unit = 1
    Budget = 3
    HardLimit = TRUE
    TrackerFirst = FALSE
    MaxRequests = 3
    MaxPeriods = 1
SYMMETRY RequestSymmetry
SPECIFICATION Spec
CHECK_DEADLOCK FALSE
INVARIANT RecalculationIsAccurate
