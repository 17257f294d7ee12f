SPECIFICATION FairSpec
CONSTANT
    SessionCodes = {0, 1}
INVARIANTS
    TypeOK
    NothingLeftRunning
PROPERTIES
    EndsWithItsParts
    StopEnds
    ClientOrEnd
CHECK_DEADLOCK FALSE
