SPECIFICATION AppImageSpec
CONSTANTS
    Names = {n1, n2}
    Attempts = {a1, a2}
    Absent = Absent
INVARIANTS
    Bootable
    PriorKept
PROPERTIES
    FailureRestores
