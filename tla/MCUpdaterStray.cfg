SPECIFICATION Spec
CONSTANTS
    Versions = {v1}
    None = None
    MaxManual = 1
    StrayErrors = {TRUE}
INVARIANTS
    InstallerAlone
CHECK_DEADLOCK FALSE
