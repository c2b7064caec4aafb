\* First-success and legacy full-chain requests over every small valid chain.
SPECIFICATION Spec
CONSTANTS
    Chains <- MCChains
    Offline = {}
    MaxAttempts = 3
    MaxExtra = 1
INVARIANTS
    TypeOK
    WalkSound
PROPERTIES
    EventuallyFinalized
