SPECIFICATION Spec
CONSTANTS
    p1 = p1
    p2 = p2
    Procs <- TwoProcs
    NParts = 1
    Versions = {1, 2}
    Grown = {}
    Addressed = FALSE
    MaxManifests = 3
    MaxFaults = 1
    MaxEdits = 1
INVARIANTS
    ContentMatches
CHECK_DEADLOCK FALSE
