SPECIFICATION FairSpec
CONSTANTS
    MaxCalls = 3
    MaxMessages = 2
INVARIANTS
    TypeOK
    SentAreAnswered
PROPERTIES
    AnswersRight
    CallReturns
CHECK_DEADLOCK FALSE
