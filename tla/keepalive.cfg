SPECIFICATION FairSpec
CONSTANTS
    IsServer = TRUE
    Interval = 4
    Timeout = 3
    MaxEcho = 2
    MaxRetries = 2
    MaxLosses = 2
    LateCallbacks = FALSE
INVARIANTS
    TypeOK
    KeepaliveAwake
    HealthyLinkKept
PROPERTIES
    DeadPathDetected
    HearsRequests
CHECK_DEADLOCK FALSE
