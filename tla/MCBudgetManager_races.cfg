CONSTANTS
    Requests = {r1, r2}
    Refreshers = {f}
    Costs = {1, 2}
    MaxCost = 2
    Unit = 2
    Budget = 2
    HardLimit = TRUE
    TrackerFirst = FALSE
    MaxRequests = 4
    MaxPeriods = 2
SYMMETRY RequestSymmetry
SPECIFICATION Spec
CHECK_DEADLOCK FALSE
INVARIANT OvershootBounded
INVARIANT AdmittedSawBudget
INVARIANT TruncationBounded
INVARIANT NeverOvercharges
