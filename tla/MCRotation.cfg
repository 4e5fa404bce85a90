SPECIFICATION FairSpec
CONSTANTS
    p1 = p1
    p2 = p2
    Procs <- One
    Purposes <- Both
    MaxKeys = 3
    MaxCrashes = 2
    MaxLosses = 3
    MaxExpiries = 1
INVARIANT KeysKept
INVARIANT InStep
PROPERTY RotationEnds
CHECK_DEADLOCK FALSE
