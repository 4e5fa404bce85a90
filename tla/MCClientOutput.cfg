SPECIFICATION Spec
CONSTANTS
    p1 = p1
    p2 = p2
    c1 = c1
    t1 = t1
    t2 = t2
    in = in
    out = out
    Procs <- OneProc
    MaxIds = 2
    MaxPairs = 6
    MaxFaults = 4
    MaxUploads = 3
    OutputFails = TRUE
    MaxFile = 3
    PageMax = 2
    Limits <- SomeLimits
    Honesties <- BothHonesties
    Dests <- OneDest
    Roots <- AllRoots
    WorkDir <- InDir
    RootSets <- SomeRoots
    Commands <- OneCommand
    Tools <- TwoTools
INVARIANT Decryptable
CHECK_DEADLOCK FALSE
