SPECIFICATION Spec
CONSTANTS
    None = None
    Volumes = {1}
    Roots = {1, 2}
    MaxSession = 2
    Scenarios <- OneRestore
INVARIANT RestoreNotRefused
CHECK_DEADLOCK FALSE
