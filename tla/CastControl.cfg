SPECIFICATION FairSpec
CONSTANTS
    EventQueue = 1
    MaxExtras = 1
INVARIANTS
    NobodyLeftWaiting
    EndIsOrderly
PROPERTIES
    SessionsEnd
CHECK_DEADLOCK FALSE
