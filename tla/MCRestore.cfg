SPECIFICATION Spec
CONSTANTS
    N = 2
    Contents = {"t", "u"}
    Absent = Absent
    Dirs = {"d"}
    Root = Root
    Target <- MCTarget
    Parent <- MCParent
    MaxCrashes = 2
    MaxEdits = 2
INVARIANTS RollbackRestoresOriginal
PROPERTIES OnlyOwnOutputDestroyed AllOrNothing TransactionSettles
CHECK_DEADLOCK FALSE
