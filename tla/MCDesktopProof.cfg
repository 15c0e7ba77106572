SPECIFICATION Spec
CONSTANTS
    Daemons = {d1, d2}
    None = None
    MaxWaiting = 1
PROPERTIES
    FailedProofGoesOn
CHECK_DEADLOCK FALSE
