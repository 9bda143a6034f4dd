CONSTANTS
    NoCall = NoCall
    Call = {a, b, p}
    Refreshing = {a, b}
    MaxRetries = 1
    MaxGen = 3
    LoopRetries = 3
    MaxLogins = 2
    MaxLost = 1
SPECIFICATION HttpSpec
INVARIANTS NoTokenReuse InSync ResentIsNewer ActsAgainOnlyInDoubt WaitingIsKnown
PROPERTIES RotatedOnlyWhenExpired PersistedMonotone CallsServed
CHECK_DEADLOCK FALSE
