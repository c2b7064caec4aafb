CONSTANTS
    Chains = {c1, c2}
    Keys = {k1, k2}
    Provs = {p1, p2}
    Proxies = {x1}
    FirstChain <- OneChain
    FirstKeys <- OneKey
    FirstProvs <- OneProv
    FirstProxies <- NoProxies
    Absent = Absent
    None = None
    Admins = {a1, a2}
    Callers = {r1}
    MaxOps = 3
    MaxUses = 2
    MaxFaults = 1
SPECIFICATION Spec
INVARIANTS
    TypeOK
    BindingsHold
    IntegrityKept
CHECK_DEADLOCK FALSE
