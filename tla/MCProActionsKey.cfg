SPECIFICATION Spec
CONSTANT
    MaxWaiting = 2
INVARIANT
    UnsavedKeyRetained
CHECK_DEADLOCK FALSE
