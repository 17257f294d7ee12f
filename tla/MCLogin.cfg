SPECIFICATION FairSpec
CONSTANTS
    MaxLogins = 2
    MaxRounds = 1
    PromptCounts <- MCPromptCounts
    SessionCodes <- MCSessionCodes
    ReuseSession = TRUE
INVARIANTS
    TypeOK
    RepliesMatch
    SessionAfterSlot
    SuccessIsGenuine
    NothingLeftOpen
PROPERTIES
    NoFailureAfterSuccess
    StopCompletes
    LoginResolves
CHECK_DEADLOCK FALSE
