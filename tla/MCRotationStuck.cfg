SPECIFICATION FairSpec
CONSTANTS
    p1 = p1
    p2 = p2
    Procs <- One
    Purposes <- OnlyEncryption
    MaxKeys = 1
    MaxCrashes = 0
    MaxLosses = 2
    MaxExpiries = 1
PROPERTY RotationRecovers
CHECK_DEADLOCK FALSE
