\* A full-chain request ends, and implements DagWalk.
SPECIFICATION Spec
CONSTANTS
    Chains <- MCLiveChains
    Provider = {"p", "q"}
    Offline = {}
    Threshold = 0
    MaxAttempts = 4
    MaxExtra = 1
PROPERTIES
    EventuallyFinalized
    ImplementsDagWalk
