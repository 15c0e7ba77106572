SPECIFICATION Spec
CONSTANTS
    Runs = {r1, r2}
    MaxCommits = 3
    MaxVersion = 3
    MaxShell = 2
    MaxKills = 1
    Endpoints = {TRUE, FALSE}
    None = None
SYMMETRY Alike
INVARIANTS
    PublishedIsReviewed
PROPERTIES
    FeedGrows
    RerunPublishes
CHECK_DEADLOCK FALSE
