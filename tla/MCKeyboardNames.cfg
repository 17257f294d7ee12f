SPECIFICATION Spec
CONSTANTS
    Keymaps <- ManyLayouts
    Numlock = "none"
    MaxKeys = 1
    MaxSets = 0
    Prefix = 2
INVARIANTS
    NamesMatch
CHECK_DEADLOCK FALSE
