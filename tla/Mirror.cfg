SPECIFICATION MCFairSpec
CONSTANTS
    WireCycle = 4
    MaxUnacked = 2
    NackInbox = 1
    MaxFrameId = 6
    Timed = FALSE
    Lifetime = 2
    Video = TRUE
    MaxReports = 2
    MaxNetwork = 1
    NoTime = NoTime
    Portal <- MCPortal
    Ceiling <- MCCeiling
    Captured <- MCCaptured
    Preferred = 60
    Pacer = 28000
    FloorRate = 300
    Patience = 2
    Delay = 400
    Answers <- MCAnswers
    Says <- MCSays
    FilePlayed = TRUE
    MaxWindows = 3
INVARIANTS
    CheckpointIsReal
    WindowServes
    OkIsEarned
    NothingLeftRunning
PROPERTIES
    BothGoOn
CHECK_DEADLOCK FALSE
