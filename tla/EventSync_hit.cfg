CONSTANTS
    Node = {n}
    Hidden = Hidden
    Reader = {r}
    PageSize = 1
    MaxEvents = 2
    MaxFailures = 0
    MaxCrashes = 0
    LoadMayFail = FALSE
SPECIFICATION ResumedSpec
INVARIANT HitFreshAsLastPoll
CHECK_DEADLOCK FALSE
