SPECIFICATION Spec
CONSTANTS
    None = None
    Volumes = {1, 2}
    Roots = {1, 2}
    MaxSession = 2
    Scenarios <- Cases
INVARIANTS TypeOK ErasedIsPurged DestroyedPastRecovery NoJobOnQuarantined
PROPERTY OperationSettles
CHECK_DEADLOCK FALSE
