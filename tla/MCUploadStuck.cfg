SPECIFICATION FairSpec
CONSTANTS
    p1 = p1
    p2 = p2
    Procs <- OneProc
    NParts = 1
    Versions = {1}
    Grown = {}
    Addressed = FALSE
    MaxManifests = 3
    MaxFaults = 1
    MaxEdits = 0
PROPERTIES
    ResumeFinishes
CHECK_DEADLOCK FALSE
