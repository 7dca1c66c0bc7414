SPECIFICATION Spec
CONSTANTS
    None = None
    Tasks = {t1, t2}
    Pages = 1
    MaxVersion = 1
    MaxFaults = 1
INVARIANTS OutcomeMatchesIndex DecisionsFollowed
PROPERTIES JobEnds AgentFinalizes
CHECK_DEADLOCK FALSE
