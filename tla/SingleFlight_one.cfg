CONSTANTS
    Caller = {c1, c2, c3, c4}
    MaxLoads = 3
SPECIFICATION FlightSpec
INVARIANT OneLoadAtATime
CHECK_DEADLOCK FALSE
