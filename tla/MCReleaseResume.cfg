SPECIFICATION FairSpec
CONSTANTS
    Runs = {r1}
    MaxCommits = 3
    MaxVersion = 2
    MaxShell = 2
    MaxKills = 1
    Endpoints = {FALSE}
    None = None
PROPERTIES
    RetriesResume
CHECK_DEADLOCK FALSE
