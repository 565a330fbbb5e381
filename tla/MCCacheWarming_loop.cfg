CONSTANTS
    Keys = {k1, k2}
    NoFile = NoFile
    Torn = Torn
    Ttl = 0
    Capacities = {1}
    MaxWarm = 1
    FailureLimit = 2
    LoopStarted = TRUE
    MaxHits = 0
    MaxStarts = 1
    MaxTicks = 2
SPECIFICATION FairSpec
CHECK_DEADLOCK FALSE
PROPERTY LoopEnds
PROPERTY PeriodicallyDumps
