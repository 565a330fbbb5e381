CONSTANTS
    Requests <- MCRequests
    MaxTexts = 3
    MaxNoise = 1
SPECIFICATION FairSpec
CHECK_DEADLOCK FALSE
INVARIANTS ConversationKept
PROPERTIES ImplementsTextStream StreamsEnd WholeAnswersArrive
