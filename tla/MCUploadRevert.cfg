SPECIFICATION Spec
CONSTANTS
    p1 = p1
    p2 = p2
    Procs <- OneProc
    NParts = 1
    Versions = {1, 2}
    Grown = {}
    Addressed = FALSE
    MaxManifests = 3
    MaxFaults = 2
    MaxEdits = 2
INVARIANTS
    ContentAlwaysMatches
CHECK_DEADLOCK FALSE
