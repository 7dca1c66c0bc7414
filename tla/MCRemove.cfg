SPECIFICATION Spec
CONSTANTS
    N = 2
    Contents = {"o", "u"}
    Absent = Absent
    Other = Other
    Recorded <- MCRecorded
    CachedFlags = {FALSE, TRUE}
    MaxCrashes = 2
    MaxEdits = 2
    MaxFaults = 1
INVARIANTS RollbackRestoresOriginal RecoverySettles
PROPERTIES CommittedStaysRemoved UnforcedKeepsEdits AllOrNothing TransactionSettles
CHECK_DEADLOCK FALSE
