SPECIFICATION FairSpec
CONSTANTS
    Daemons = {d1, d2, d3}
    None = None
    MaxWaiting = 2
INVARIANTS
    OneTree
    StartIsOwned
    InstallerAlone
    OriginIsHeld
    ExitLeavesNothing
PROPERTIES
    NoDaemonStartsWhileQuitting
    QuitCompletes
    RecoveryRestores
CHECK_DEADLOCK FALSE
