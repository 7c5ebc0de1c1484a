SPECIFICATION FairSpec
CONSTANTS
    ControlCap = 1
    WriteCap = 1
    PahoSlack = 1
    MaxSent = 5
INVARIANTS TypeOK OnlyKnownWaits
PROPERTIES CircleIsFinal CatchesUp
CHECK_DEADLOCK FALSE
