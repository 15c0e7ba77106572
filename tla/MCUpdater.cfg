SPECIFICATION FairSpec
CONSTANTS
    Versions = {v1, v2}
    None = None
    MaxManual = 2
    StrayErrors = {TRUE, FALSE}
INVARIANTS
    OneAtATime
PROPERTIES
    NothingIsForever
    InstallIsGated
CHECK_DEADLOCK FALSE
