CONSTANTS
    None = None
    Failed = Failed
    Clients = {c1, c2}
    Models = {"m1", "m2", "m3"}
    Configs <- MCConfigs
    LayerOrders <- MCLayerOrders
    Candidates <- MCCandidates
    Warmup = 1
    Window = 1
    MaxArms = 1
    MaxRetries = 1
    MaxRequests = 3
SPECIFICATION Spec
SYMMETRY ClientSymmetry
CHECK_DEADLOCK FALSE
INVARIANTS SpreadBounded BanditBounded StatusesFresh
PROPERTIES ImplementsDispatch FallbackExhausts
