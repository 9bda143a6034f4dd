CONSTANTS
    Node = {n}
    Hidden = Hidden
    Reader = {r}
    PageSize = 1
    MaxEvents = 2
    MaxFailures = 1
    MaxCrashes = 1
    LoadMayFail = TRUE
    Caller = {a, b, c}
    MaxLoads = 3
    Key = {e1, e2, e3}
    Value = {v1, v2}
    Malformed = {v2}
    Tag = {t1, t2}
    CipherKey = {x1, x2}
    CacheUser = {u1}
    Capacity = 2
    NoValue = NoValue
    MaxWrites = 3
SPECIFICATION EntitySpec
INVARIANTS StaleHasCause
PROPERTIES NoEventSkipped CachesConverge StaleNeedsOverlap EveryCallerServed StoreSound
CHECK_DEADLOCK FALSE
