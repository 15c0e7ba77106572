SPECIFICATION TreeSpec
CONSTANTS
    MaxPid = 3
    MaxBirths = 3
PROPERTY SignalsOnlyOurs
CHECK_DEADLOCK FALSE
