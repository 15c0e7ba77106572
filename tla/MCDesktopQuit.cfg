SPECIFICATION Spec
CONSTANTS
    Daemons = {d1, d2}
    None = None
    MaxWaiting = 1
INVARIANTS
    GoesDownWithUs
CHECK_DEADLOCK FALSE
