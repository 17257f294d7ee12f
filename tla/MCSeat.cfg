SPECIFICATION FairSpec
CONSTANTS
    Displays <- MCDisplays
    DefaultTypes <- MCDefaultTypes
    Autologin = TRUE
    Relogin = FALSE
    MaxListed = 2
    TtyLimit = 1
INVARIANTS
    TypeOK
    NoLostDisplay
    OneReplacement
PROPERTIES
    StopsEnd
    SeatComesBack
CHECK_DEADLOCK FALSE
