SPECIFICATION Spec
CONSTANTS
    p1 = p1
    p2 = p2
    Procs <- OneProc
    NParts = 1
    Versions = {1}
    Grown = {}
    Addressed = TRUE
    MaxManifests = 3
    MaxFaults = 1
    MaxEdits = 0
INVARIANTS
    DeliveryMatches
CHECK_DEADLOCK FALSE
