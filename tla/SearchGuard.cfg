SPECIFICATION Spec
CONSTANTS
    c1 = c1
    c2 = c2
    k1 = k1
    i1 = i1
    i2 = i2
    Instants <- MCInstants
    NoQuota = NoQuota
    Callers <- MCCallers
    Keys <- MCKeys
    KeyOf <- MCKeyOf
    Quotas <- MCQuotas
    RateLimit = 1
    DailyQuota = 1
    CacheTTL = 1
    Period = 2
    Window = 2
    Retention = 1
    MaxTime = 2
    MaxRequests = 4
    MaxTrouble = 1
INVARIANTS
    TypeOK
    QuotasHold
PROPERTIES
    AppliesWithinTTL
SYMMETRY Perms
CHECK_DEADLOCK FALSE
