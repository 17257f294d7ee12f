SPECIFICATION FairSpec
CONSTANTS
    Backends <- TwoBackends
    Operations <- OffAndSuspend
    SessionFiles <- OfEachType
    User = "user"
    Passwords = {"password"}
    Host = "host"
    Screens = {"screen"}
    MaxRequests = 2
    MaxInformation = 1
INVARIANTS
    TypeOK
    InOrder
    LoginsAreGenuine
    ActsOnceAsked
PROPERTIES
    GreeterEnds
CHECK_DEADLOCK FALSE
