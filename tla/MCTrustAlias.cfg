SPECIFICATION Spec
CONSTANTS
    p1 = p1
    p2 = p2
    A = A
    B = B
    Procs <- One
    Ids <- TwoIds
    Aliases = {1, 2}
    Depth = 2
    MaxEntries = 2
    MaxChanges = 0
    MaxRemoves = 0
    MaxFaults = 0
INVARIANTS
    Unambiguous
CHECK_DEADLOCK FALSE
