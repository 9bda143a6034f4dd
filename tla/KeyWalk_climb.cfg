CONSTANTS
    h = h d = d s = s a = a b = b
    Node = {h, d, s, a, b}
    HomeRoot = h
    DeviceRoot = {d}
    SharedRoot = {s}
    NoNode = NoNode
    Trees <- MCTrees
    Listings <- MCListings
    MaxBatch = 3
    MaxAncestry = 4
    MaxChanges = 2
SPECIFICATION WalkSpec
INVARIANTS ClimbsTheTree
CHECK_DEADLOCK FALSE
