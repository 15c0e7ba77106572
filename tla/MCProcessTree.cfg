SPECIFICATION TreeSpec
CONSTANTS
    MaxPid = 3
    MaxBirths = 3
INVARIANT
    SparesStrangers
PROPERTIES
    ProofIsTrue
    RefusalTriedAll
CHECK_DEADLOCK FALSE
