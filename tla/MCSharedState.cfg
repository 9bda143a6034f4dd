CONSTANTS
    Lookup = {l1, l2}
    Mutation = {m1}
    Events = Events
    MaxVersion = 2
    f1 = f1
    f2 = f2
    f3 = f3
    t1 = t1
    t2 = t2
    NoFetch = NoFetch
    Fetch <- MCFetch
    Table <- MCTable
    TableOf <- MCTableOf
    MaxDeaths = 1
    MaxDenials = 1
    Content = {b1, b2}
    Thumbnail = {th}
    Width = 3
    MaxAttempts = 2
    Upload = {u1}
    Download = {d1}
    MaxPool = 2
    MaxBlocks = 4
    MaxEncrypts = 2
    MaxUploads = 2
    MaxBuffered = 1
    MaxTargets = 2
    MaxDownloads = 2
SPECIFICATION SharedSpec
INVARIANTS CacheNotBehind LookupFresh ExcludedDuringMutation RetriesBehave BlocksAccounted
    WrittenInOrder
PROPERTIES RenewedOnce NobodyWaitsForever EveryTransferEnds
CHECK_DEADLOCK FALSE
