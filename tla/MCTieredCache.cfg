CONSTANTS
    a = a
    b = b
    c = c
    None = None
    Requests <- MCRequests
    Score <- MCScore
    Threshold = 80
    SemMax = 1
    SemTtl = 0
    ExactTtl = 0
    ExactMax = 1
    Clients = {c1, c2}
    MaxStores = 3
    MaxHits = 1
    MaxStall = 1
SPECIFICATION Spec
SYMMETRY CacheSymmetry
INVARIANTS GrowsOnlyWhenOvertaken StalenessBounded AnswersAreRelated
PROPERTIES SweepsOnlyExpired
