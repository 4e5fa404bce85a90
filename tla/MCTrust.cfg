SPECIFICATION FairSpec
CONSTANTS
    p1 = p1
    p2 = p2
    A = A
    B = B
    Procs <- One
    Ids <- OneId
    Aliases = {1, 2}
    Depth = 2
    MaxEntries = 1
    MaxChanges = 2
    MaxRemoves = 1
    MaxFaults = 1
INVARIANTS
    SendsGrounded
    TrustTold
PROPERTIES
    SendsRecover
CHECK_DEADLOCK FALSE
