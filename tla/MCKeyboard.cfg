SPECIFICATION Spec
CONSTANTS
    Keymaps <- FewLayouts
    Numlock = "off"
    MaxKeys = 3
    MaxSets = 1
    Prefix = 2
INVARIANTS
    TypeOK
    InStep
PROPERTIES
    OnlyWhatWasAsked
CHECK_DEADLOCK FALSE
