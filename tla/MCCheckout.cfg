SPECIFICATION Spec
CONSTANTS
    N = 3
    Parent <- MCParent
    Contents = {"o", "t", "u"}
    Absent = Absent
    Dir = Dir
    Cases <- MCCases
INVARIANTS RollbackRestoresOriginal AuthorityFollowsWorktree
PROPERTIES UnforcedKeepsEdits AllOrNothing TransactionSettles
CHECK_DEADLOCK FALSE
