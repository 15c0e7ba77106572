SPECIFICATION StartupSpec
CONSTANTS
    Platforms = {"unix", "windows"}
    LineChars = 3
    TailChars = 4
    KeptLines = 2
    KeptChars = 2
    MaxHeard = 5
    None = None
INVARIANTS
    ProofHolds
    SaysLines
    UrlIsFound
PROPERTIES
    StartsAndDeathsAreTold
    ImplementsLife
CHECK_DEADLOCK FALSE
