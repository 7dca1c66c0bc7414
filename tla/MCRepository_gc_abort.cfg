SPECIFICATION Spec
CONSTANTS
    Workspaces = {"wa", "wb"}
    Processes = {p1, p2}
    main = main
    dev = dev
    Branches = {main, dev}
    Objects = {"o", "x"}
    None = None
    StartObjects = {"o"}
    StartHead <- MCStartHead
    MaxCommits = 2
    MaxVersion = 3
    MaxCrashes = 1
SYMMETRY ProcessSymmetry
INVARIANTS IndexBacked
CHECK_DEADLOCK FALSE
