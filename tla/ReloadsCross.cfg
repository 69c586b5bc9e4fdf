SPECIFICATION Spec
CONSTANTS
    None = None
    Jobs = {j1, j2}
    MaxEdits = 2
    MaxToggles = 0
    MaxCasts = 1
PROPERTIES
    CastSeesEdits
CHECK_DEADLOCK FALSE
