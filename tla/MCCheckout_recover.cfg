SPECIFICATION Spec
CONSTANTS
    N = 3
    Parent <- NestedParent
    Contents = {"o", "t", "u"}
    Absent = Absent
    Dir = Dir
    Cases <- RecoverCases
PROPERTIES RecoverSettles
CHECK_DEADLOCK FALSE
