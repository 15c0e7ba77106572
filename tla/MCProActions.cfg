SPECIFICATION Spec
CONSTANT
    MaxWaiting = 2
INVARIANTS
    SessionMatchesStore
    HandoverIsQuiet
PROPERTY
    RetirementSettles
CHECK_DEADLOCK FALSE
