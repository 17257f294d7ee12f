SPECIFICATION Spec
CONSTANTS
    MaxLogins = 2
    MaxRounds = 1
    PromptCounts <- MCPromptCounts
    SessionCodes <- MCSessionCodes
    ReuseSession = TRUE
INVARIANT
    ReuseOpensNoSession
CHECK_DEADLOCK FALSE
