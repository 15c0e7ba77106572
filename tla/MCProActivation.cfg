SPECIFICATION Spec
CONSTANTS
    MaxFlows = 2
    Lifetime = 1
    MaxClock = 2
INVARIANTS
    LiveIsOwned
PROPERTIES
    StoreIsAuthority
    ImplementsFlow
    Settles
