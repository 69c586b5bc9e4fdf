SPECIFICATION MCSpec
CONSTANTS
    Panel = panel
    Beamer = beamer
    Extra = extra
    Missing = Missing
    RestoreAttempts = 2
    MaxEdits = 2
    MaxPlugs = 1
    MaxCasts = 2
    Bits <- MCBits
    Natives = {64, 5, 241}
    Sources <- MCSources
    Limits <- MCLimits
    Rates = {30, 60}
    Encoders = {"va", "nv", "x264"}
    Cards <- MCCards
    MaxEncodings = 2
    Frames <- MCFrames
    UnitOf <- MCUnitOf
    WantedOf <- MCWantedOf
    MaxFrames = 2
    Tracks = {"audio", "video"}
    Capacity = 2
    MaxMessages = 3
    Repeats = 2
    None = None
    Sockets = {"fd1"}
    Kinds = {"screen", "file", "cast"}
    MaxSessions = 1
    Attempts = 1
    TightenAfter = 2
INVARIANTS
    DesktopIsReturned
    SinkReadsThePick
    EncoderIsRight
    StatesItsBuffer
    BusIsHeeded
    SessionIsReached
PROPERTIES
    HandedOverOnce
CHECK_DEADLOCK FALSE
