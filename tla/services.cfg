SPECIFICATION MCSpec
CONSTANTS
    a = a
    e = e
    h = h
    k = k
    l = l
    m = m
    n = n
    p = p
    q = q
    u = u
    v = v
    w = w
    x = x
    y = y
    za = za
    zb = zb
    ru = ru
    by = by
    DevIp = {x, y}
    DevMac = {m, n}
    DevId = {1, 2, 3}
    Flow <- MCFlow
    Sights <- MCSights
    MaxBytes = 2
    MaxCycles = 3
    MaxPuts = 1
    DnsName = {a}
    ZoneKey = {za, zb}
    DnsId = {1, 2}
    Proxy = {"dot"}
    Server = {u, v}
    DnsSlot = {p, q}
    Databases <- MCDatabases
    MaxDnsRequests = 2
    MaxDnsFaults = 1
    Link = {w, e, h}
    Tunnel = w
    Span <- MCSpan
    Keep <- MCKeep
    KeepRaw = 2
    MaxClock = 4
    MaxCarried = 2
    MaxLinkEvents = 2
    PeerId = {1, 2}
    PeerKey = {k, l}
    Address = {2, 3}
    NoAddress = 0
    PeerSlot = {p, q}
    MaxPeerRequests = 3
    MaxPeerFaults = 1
    SourceId = {1, 2}
    Country = {ru, by}
    Url = {u, v}
    FirstSource <- MCFirst
    Excluded = {a}
    GeoSlot = {p, q}
    MaxGeoRequests = 3
    MaxGeoFaults = 1
    CallSlot = {p, q}
    MaxCalls = 4
    MaxDnsCrashes = 1
    BackupSlot = {p, q}
    Retention = 1
    UploadName = {0}
    MaxBackupRequests = 3
    MaxBackupFaults = 1
SYMMETRY ServicesSymmetry
INVARIANTS
    ServicesTypeOK
    BytesKept
    OverridesCurrent
    ResolverFollowsRows
    ZonesConsistent
    BucketsAgree
    TotalsHonest
    KernelFollowsPeers
    AddressesDistinct
    LocalZoneFollows
    ExclusionsRespected
    ResolverCurrent
    SessionsShareDatabase
    RecordsHaveArchives
PROPERTY PruneKeepsEnough
CHECK_DEADLOCK FALSE
