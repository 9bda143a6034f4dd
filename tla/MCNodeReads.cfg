CONSTANTS
    h = h d = d s = s a = a b = b
    Node = {h, d, s, a, b}
    HomeRoot = h
    DeviceRoot = {d}
    SharedRoot = {s}
    NoNode = NoNode
    Trees <- MCTrees
    Listings <- MCListings
    MaxBatch = 3
    MaxAncestry = 4
    MaxChanges = 2
    Opener = {o1, o2, o3}
    MaxOpens = 4
    MaxSlips = 2
    Maker = {m1, m2}
    Chooser = {g1}
    Seeker = {s1}
    Path <- MCPath
    Batch = 1
    MaxEntries = 3
    MaxTroubles = 1
    Pager = {l}
    Row = {1, 2, 3, 4, 5}
    PhotoRow = {2, 5}
    PageSize = 2
    MaxPagings = 2
    MaxListChanges = 2
    top = top v = v w = w x = x y = y
    VisitedLink = {top, v, w, x, y}
    Directory = {top, v, w, x}
    TopLink = top
    Nowhere = Nowhere
    TopTrees <- MCTopTrees
    MaxListings = 2
    MaxUpsets = 2
    MaxOutages = 1
    pic1 = pic1 pic2 = pic2 pic3 = pic3
    Pic = {pic1, pic2, pic3}
    PicLists <- MCPicLists
    MaxIdsPerRequest = 2
    Reader = {r1}
    Uploads <- MCUploads
    Ranges <- MCRanges
    BlockSize = 2
    NoSizes = NoSizes
    NoRevision = NoRevision
    MaxRevisions = 3
    MaxReads = 1
    Stored = {p1, p2}
    PhotoName = {"a", "b"}
    Digest = {"x", "y"}
    NoDigest = NoDigest
    Wanted <- MCWanted
    ChunkSize = 1
    MaxLookups = 1
    MaxVolumeChanges = 1
    Address = {1, 2}
    UserKey = {k1, k2}
    FirstKey = k1
    Caller = {c1, c2}
    NotLoaded = NotLoaded
    Broken = Broken
    Absent = Absent
    MaxAccountCalls = 2
    MaxEdits = 1
SPECIFICATION ReadsSpec
INVARIANTS KeysResolved OnePathOneFolder ListedOnce CrawlComplete OneOutcomeEach ReadsAreSlices
    EachInputAnswered DefaultIsLowest
PROPERTIES NeverBesideActive
CHECK_DEADLOCK FALSE
