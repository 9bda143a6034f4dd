CONSTANTS
    Caller = {c1, c2}
    UserKey = {k1, k2}
    FirstKey = k1
    Address = {1, 2}
    NotLoaded = NotLoaded
    Broken = Broken
    Absent = Absent
    MaxAccountCalls = 2
    MaxEdits = 1
SPECIFICATION AccountSpec
INVARIANT NeverTheNextAddress
CHECK_DEADLOCK FALSE
