SPECIFICATION Spec
CHECK_DEADLOCK FALSE
CONSTANTS
    None = None
    Sockets = {"fd1"}
    Kinds = {"screen", "file", "cast"}
    MaxSessions = 2
    Attempts = 2
    TightenAfter = 2
INVARIANTS
    GivenUpIsNatural
