SPECIFICATION FairSpec
CONSTANTS
    Ports = {1, 2}
    UserConfigs = {{}, {2}}
    DiskFails = TRUE
    MaxRefusals = 1
    ConnectAttempts = 2
    Encoders = 1
    SessionAttempts = 2
    MaxCasts = 1
    MaxCrashes = 1
INVARIANTS
    PortsAreReturned
PROPERTIES
    SilenceEnds
    KeepsPromise
CHECK_DEADLOCK FALSE
