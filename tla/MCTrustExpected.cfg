SPECIFICATION Spec
CONSTANTS
    p1 = p1
    p2 = p2
    A = A
    B = B
    Procs <- One
    Ids <- OneId
    Aliases = {1}
    Depth = 2
    MaxEntries = 1
    MaxChanges = 2
    MaxRemoves = 0
    MaxFaults = 0
INVARIANTS
    SendsExpected
CHECK_DEADLOCK FALSE
