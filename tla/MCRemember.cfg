SPECIFICATION Spec
CONSTANTS
    Files <- SomeFiles
    Dirs <- SearchedDirs
    Names <- SomeNames
    Executables <- Installed
    Dri = TRUE
    UserNames <- SortedNames
    MinimumUid = 1000
    MaximumUid = 1002
    HideUsers = {}
    HideShells = {"nologin"}
    DisableAvatarsThreshold = 0
    NeedAllUsers = FALSE
    Places <- DirAndFile
    DirOf <- InDir
    Contents <- Edits
    InitialFiles <- StateFiles
    Passwds <- SomePasswds
    Autologin <- NoAutologinSession
    MaxClock = 2
    MaxChanges = 2
    MaxLogins = 2
INVARIANTS
    TypeOK
    SavedIsLoaded
    LastIsOffered
    LoadedIsCurrent
PROPERTIES
    NothingLost
    SaveIsStable
CHECK_DEADLOCK FALSE
