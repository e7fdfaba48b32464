SPECIFICATION IdleSpec
CONSTANTS
    MaxEpoch = 6
    MaxActive = 2
CHECK_DEADLOCK FALSE
PROPERTIES IdleIsTold
