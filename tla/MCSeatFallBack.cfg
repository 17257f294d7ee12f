SPECIFICATION Spec
CONSTANTS
    Displays <- MCDisplays
    DefaultTypes <- MCDefaultTypes
    Autologin = TRUE
    Relogin = FALSE
    MaxListed = 2
    TtyLimit = 1
INVARIANT
    FallsBack
CHECK_DEADLOCK FALSE
