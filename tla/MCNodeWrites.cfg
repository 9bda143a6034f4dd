CONSTANTS
    Upload = {u1, u2}
    Session = {s1, s2}
    MaxDraftAttempts = 2
    MaxLosses = 2
    n1 = n1 n2 = n2 f1 = f1 f2 = f2 x = x y = y
    Item = {n1, n2}
    Anonymous = {n1}
    Folder = {f1, f2}
    Name = {x, y}
    MaxPerBatch = 2
    MaxRivals = 1
    MaxCalls = 2
    Start <- MCStart
    Renamings <- MCRenamings
    pa = pa pb = pb pu = pu pf = pf pg = pg
    Photo = {pa, pb, pu, pf, pg}
    Foreign = {pf, pg}
    Undigested = {pu}
    Unhashed = {pb}
    Requests <- MCRequests
    MaxLinks = 2
    MaxLoad = 2
    MaxRemoved = 1
    MaxAlbumCalls = 1
    MaxMeddling = 1
    e1 = e1 E1 = E1 e2 = e2
    Email = {e1, E1, e2}
    Lower <- MCLower
    ProtonUser = {e1}
    Invitees <- MCInvitees
    Owner = {o1, o2}
    HomeAddress = home
    OtherAddress = elsewhere
    NoLink = NoLink
    MaxShares = 2
    MaxInvitations = 2
    MaxUrls = 1
    MaxSharingCalls = 2
    MaxLookupFailures = 1
    Machine = {m1, m2}
    Device = {d1, d2}
    DeviceName = {"a", "b"}
    NoName = NoName
    MaxDeviceCalls = 3
    MaxDeviceFailures = 1
SPECIFICATION WritesSpec
INVARIANTS UploadsSound OutcomeTellsTruth TransferReported InviteesAreNew HandedUrlsOpen
    DeviceNamesOpen
PROPERTIES RivalNameKept PhotosSurvive
CHECK_DEADLOCK FALSE
