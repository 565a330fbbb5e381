CONSTANTS
    Handlers = {t1, t2}
    Keys = {k1, k2}
    Answers = {a1}
    NoAnswer = NoAnswer
    UsageKinds = {TRUE, FALSE}
    MaxRequests = 3
    MaxDeltas = 1
SPECIFICATION FairSpec
CHECK_DEADLOCK FALSE
INVARIANT CachedAnswersAreReal
INVARIANT RequestsAccountedFor
INVARIANT EffectsAccountedFor
INVARIANT StreamsWellFormed
PROPERTY RequestsEnd
PROPERTY ShutdownEnds
