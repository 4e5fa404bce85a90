SPECIFICATION FairSpec
CONSTANTS
    p1 = p1
    p2 = p2
    Procs <- OneProc
    NParts = 3
    Versions = {1, 2, 3}
    Grown = {3}
    Addressed = TRUE
    MaxManifests = 5
    MaxFaults = 3
    MaxEdits = 2
INVARIANTS
    ContentMatches
    OwnerKeepsTicket
PROPERTIES
    UploadEnds
CHECK_DEADLOCK FALSE
