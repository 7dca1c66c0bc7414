SPECIFICATION Spec
CONSTANTS
    None = None
    Objects = {1, 2}
    Sources = {1, 2}
    Scenarios <- Cases
INVARIANTS TypeOK CompleteIsPlaced
PROPERTIES CancelledIsFinal StallKeepsNewerPlan BatchEnds
CHECK_DEADLOCK FALSE
