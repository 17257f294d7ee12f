SPECIFICATION FairSpec
CONSTANTS
    seat0 = seat0
    seat1 = seat1
    Seats <- MCSeats
    MaxChanges = 4
INVARIANTS
    TypeOK
    OneSeatEach
    GraphicalSeatsOnly
PROPERTIES
    CatchesUp
CHECK_DEADLOCK FALSE
