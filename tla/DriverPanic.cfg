CONSTANTS
    Callers = {c1, c2}
    First = c1
    Meeting = {"github", "vertex_search"}
    FewReplies <- AFewReplies
    Asks <- ManyAsks
    FewAsks <- AFewAsks
    NoOne = NoOne
    Timeout = 2
    OwnEvery = 1
    MaxTime = 2
SPECIFICATION Spec
INVARIANTS
    EveryOutcomeIsClassified
CHECK_DEADLOCK FALSE
