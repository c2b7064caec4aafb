\* A generated answer and the outcome of the request.
SPECIFICATION Spec
CONSTANTS
    Chains <- MCChains
    Provider = {"p", "q"}
    Offline = {}
    Threshold = 1
    MaxAttempts = 3
    MaxExtra = 1
INVARIANT AnswerIsValidOutcome
