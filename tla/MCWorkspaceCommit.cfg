SPECIFICATION Spec
CONSTANTS
    None = None
    PreCommits = {1, 2}
    Requests = {1}
    MaxAttempts <- Attempts
    MaxVersion = 2
    MaxCrashes = 1
INVARIANTS TypeOK CandidateIsOwnScan PublishedStays
PROPERTIES StoredCommitsSettle
CHECK_DEADLOCK FALSE
