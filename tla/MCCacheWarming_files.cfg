CONSTANTS
    Keys = {k1, k2, k3}
    NoFile = NoFile
    Torn = Torn
    Ttl = 1
    Capacities = {2, 3}
    MaxWarm = 3
    FailureLimit = 1
    LoopStarted = TRUE
    MaxHits = 1
    MaxStarts = 2
    MaxTicks = 0
SPECIFICATION Spec
CHECK_DEADLOCK FALSE
SYMMETRY KeySymmetry
INVARIANT DumpIsWhole
PROPERTY WarmKeepsHottest
