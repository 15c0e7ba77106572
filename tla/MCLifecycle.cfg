SPECIFICATION FairSpec
CONSTANTS
    folder1 = folder1
    folder2 = folder2
    removal = removal
    crash = crash
    quit = quit
    folderKey = folderKey
    removalKey = removalKey
    Requests <- MCRequests
    Keys <- MCKeys
    KeyOf <- MCKeyOf
    Close = quit
    NoKey = NoKey
    None = None
INVARIANTS
    RequestOrder
    OneFlightPerKey
PROPERTIES
    NothingStartsAfterClose
    ImplementsLock
    CloseSettlesAll
CHECK_DEADLOCK FALSE
