CONSTANTS
    Users = {u1, u2}
    Calls = {c1, c2}
    NoEntry = NoEntry
    NoUser = NoUser
    TTL = 2
    NegativeTTL = 1
    MaxSize = 1
    MaxLatency = 1
    MaxTime = 3
SPECIFICATION Spec
SYMMETRY Symmetry
INVARIANTS
    VerdictLag
    CacheBounded
CHECK_DEADLOCK FALSE
