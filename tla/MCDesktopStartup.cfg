SPECIFICATION Spec
CONSTANTS
    Daemons = {d1, d2, d3}
    None = None
    MaxWaiting = 2
INVARIANTS
    InstallProvesItsTree
CHECK_DEADLOCK FALSE
