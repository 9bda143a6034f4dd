SPECIFICATION FileSpec
CONSTANTS
    Upload = {u1, u2}
    Session = {s1, s2}
    MaxDraftAttempts = 2
    MaxLosses = 1
INVARIANTS CommitsOnce
CHECK_DEADLOCK FALSE
