\* A full-chain request over every valid chain of four blocks.
SPECIFICATION Spec
CONSTANTS
    Chains <- MCChains
    Provider = {"p", "q"}
    Offline = {}
    Threshold = 1
    MaxAttempts = 3
    MaxExtra = 1
INVARIANTS
    TypeOK
    JoinWaits
    NoBlockLeftBehind
    BudgetBound
    AnswerIsLast
    RecordSound
