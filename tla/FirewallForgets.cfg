SPECIFICATION Spec
CONSTANTS
    Ports = {1, 2}
    UserConfigs = {{}}
    DiskFails = FALSE
    MaxRefusals = 2
    ConnectAttempts = 1
    Encoders = 1
    SessionAttempts = 1
    MaxCasts = 2
    MaxCrashes = 0
INVARIANT OursOnRecord
CHECK_DEADLOCK FALSE
