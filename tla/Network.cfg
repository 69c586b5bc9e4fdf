SPECIFICATION MCFairSpec
CONSTANTS
    Conn = {c1, c2}
    Peer = {p1, p2}
    Nobody = Nobody
    MaxClients = 2
    PinAttempts = 2
    PinAttemptsAll = 4
    MaxTracked = 1
    LockoutMax = 2
    MaxWrong = 5
    MaxPublications = 1
    Renderer = {r1, r2}
    Address = {a1, a2}
    MissesBeforeRemoval = 2
    MaxReceivers = 2
    MaxChanges = 2
    MaxTroubles = 2
    MaxScans = 2
    Receiver = {r1}
    MaxStreams = 1
    MaxFaults = 2
    Device = {"tv", "box"}
    KindOf <- MCKindOf
    Announcements <- MCAnnouncements
    Capacity = 1
    MaxAnnounced = 3
    MaxCasts = 2
    MaxPolls = 2
    Blocks <- MCBlocks
    Location <- MCLocation
    Asked = "AVTransport"
    Framings <- MCFramings
    MaxResponse = 4
    MaxBlocks = 2
INVARIANTS
    DeviceIsHeard
    StatusTellsOutcome
PROPERTIES
    DoorHolds
    RenderersAreListed
    PeersAreListed
    ScanIsSound
    StopIsHeard
CHECK_DEADLOCK FALSE
