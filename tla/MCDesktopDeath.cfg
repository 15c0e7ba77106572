SPECIFICATION Spec
CONSTANTS
    Daemons = {d1, d2}
    None = None
    MaxWaiting = 1
INVARIANTS
    DeathIsReported
CHECK_DEADLOCK FALSE
