SPECIFICATION Spec
CONSTANTS
    N = 2
    Contents = {"t", "u"}
    Absent = Absent
    Dirs = {"d"}
    Root = Root
    Target <- MCTarget
    Parent <- MCParent
    MaxCrashes = 2
    MaxEdits = 0
PROPERTIES RecoverSettles
CHECK_DEADLOCK FALSE
