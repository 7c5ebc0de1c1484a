SPECIFICATION RotationSpec
CONSTANTS
    Contents <- MCContents
    Away <- MCAway
    PlatformManual = 0
    MaxRetries = 2
    MaxEdits = 2
    SlowReads = FALSE
    SlowConnect = TRUE
INVARIANTS RotationTypeOK InUseUsable SameAsRestart
PROPERTIES NeverGoesBack LatestConfigWins RotationMeets
CHECK_DEADLOCK FALSE
