SPECIFICATION Spec
CONSTANTS
    p1 = p1
    p2 = p2
    Procs <- Two
    Purposes <- Both
    MaxKeys = 2
    MaxCrashes = 0
    MaxLosses = 0
    MaxExpiries = 0
INVARIANT KeysKept
CHECK_DEADLOCK FALSE
