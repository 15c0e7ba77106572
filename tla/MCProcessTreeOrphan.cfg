SPECIFICATION TreeSpec
CONSTANTS
    MaxPid = 3
    MaxBirths = 3
PROPERTY NothingLives
CHECK_DEADLOCK FALSE
