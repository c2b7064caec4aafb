\* Two branches, one provider, limits 0 to 2, two resizes.
SPECIFICATION Spec
CONSTANTS
    c1 = c1
    c2 = c2
    Caller <- Callers
    Provider = {"p"}
    Threshold = 2
    Period = 2
    MaxTime = 4
    Limits = {0, 1, 2}
    MaxChannels = 3
    Attempts = 2
INVARIANTS
    TypeOK
    SlotsBalanced
    CooldownExact
PROPERTIES
    ImplementsBreaker
    WaiterServed
