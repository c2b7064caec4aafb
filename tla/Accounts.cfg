CONSTANTS
    Users = {u1, u2}
    Sessions = {s1}
    Ceremonies = {c1}
    Requests = {r1, r2}
    Nobody = Nobody
    TTL = 0
    CeremonyTTL = 0
    MaxTime = 1
    MaxTokens = 2
    MaxFaults = 1
SPECIFICATION Spec
SYMMETRY Symmetry
INVARIANTS
    TypeOK
    OwnersExist
    TokenWorksOnce
PROPERTIES
    EndedStaysEnded
CHECK_DEADLOCK FALSE
