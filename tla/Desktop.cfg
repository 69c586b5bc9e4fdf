SPECIFICATION MCFairSpec
CONSTANTS
    None = None
    Jobs = {j1, j2}
    FirstJob = j1
    MaxEdits = 3
    MaxToggles = 1
    MaxCasts = 2
    Choice = {"a", "b"}
    Default = "a"
    MaxPicks = 2
    MaxProbes = 2
    MaxInbox = 3
    Player = p1
    NoOwner = NoOwner
    Grace = 3
    MaxStarts = 3
    Flicker = FALSE
    MaxBus = 2
    MaxMail = 2
    MaxLosses = 1
    MaxAsks = 1
INVARIANTS
    DiscoveryFollows
    QuietMeansAgreed
    ViewIsCurrent
PROPERTIES
    WindowSavesInOrder
    LeaseKeepsService
    DesktopGoesOn
CHECK_DEADLOCK FALSE
