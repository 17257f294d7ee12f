SPECIFICATION Spec
CONSTANTS
    MaxLogins = 2
    MaxRounds = 1
    PromptCounts <- MCPromptCounts
    SessionCodes <- MCSessionCodes
    ReuseSession = FALSE
INVARIANT
    EveryLoginAnswered
CHECK_DEADLOCK FALSE
