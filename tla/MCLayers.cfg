CONSTANTS
    NotFinite = NotFinite
    Best = 2
    Limit = 9
    SimpleMax = 8
    ComplexMin = 24
    SystemWeight = 5
    Several = 0
    Many = 1
    Patterns <- MCPatterns
    Gram = 2
    Parts <- MCParts
    ContextWindow = 2
    Directions = {"request", "response"}
    Candidates <- MCCandidates
    Table <- MCTable
    Types = {"batch", "bulk"}
    None = None
    MaxParts = 4
SPECIFICATION Spec
CHECK_DEADLOCK FALSE
INVARIANTS MaskedTextIsClean EveryNumberFound LayoutIgnored CopiesAreLeaks CheaperOnLowBudget
PROPERTY GateMonotone
