SPECIFICATION Spec
CONSTANTS
    Workspaces = {"wa"}
    Processes = {p1, p2}
    main = main
    dev = dev
    Branches = {main, dev}
    Objects = {"o", "x"}
    None = None
    StartObjects = {"o"}
    StartHead <- MCStartHead
    MaxCommits = 3
    MaxVersion = 4
    MaxCrashes = 2
SYMMETRY ProcessSymmetry
INVARIANTS TypeOK IndexBacked CommitsBacked RecoveryNotRefused
PROPERTIES BranchesGrow AddKeepsOthersWork
CHECK_DEADLOCK FALSE
