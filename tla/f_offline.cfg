SPECIFICATION FairSpec
CONSTANTS
    IsServer = TRUE
    Interval = 4
    Timeout = 3
    MaxEcho = 2
    MaxRetries = 2
    MaxLosses = 1
    LateCallbacks = FALSE
PROPERTIES
    ComesBack
CHECK_DEADLOCK FALSE
