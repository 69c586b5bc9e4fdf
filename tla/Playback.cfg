SPECIFICATION MCSpec
CONSTANTS
    None = None
    Items <- MCItems
    Photos = {"photo"}
    Urls = {"url"}
    Modes = {"cast", "upnp", "decoded"}
    Commands <- MCCommands
    QueueCap = 1
    MaxCommands = 2
    MaxReports = 2
    Picks <- MCPicks
    MaxPicks = 1
    MaxStatus = 1
    File = {"f1", "f2"}
    Contents <- MCContents
    Stream = {"radio"}
    StreamIs <- MCStreamIs
    Television <- MCTelevision
    Heights = {0, 721}
    MaxFiles = 2
    MaxWrites = 1
    MaxRequests = 1
    NoStart = NoStart
    Conn = {c1, c2, f1}
    Foreign = {f1}
    Asks <- MCAsks
    Limit = 1
    Chunk = 2
    MaxSize = 3
    MaxChanges = 1
INVARIANTS
    PlaybackIsTrue
    QueueIsPlayable
    TransfersAreSound
PROPERTIES
    NeverAnEarlierItem
CHECK_DEADLOCK FALSE
