SPECIFICATION Spec
CONSTANTS
    p1 = p1
    p2 = p2
    c1 = c1
    t1 = t1
    t2 = t2
    in = in
    out = out
    Procs <- TwoProcs
    MaxIds = 2
    MaxPairs = 3
    MaxFaults = 0
    MaxUploads = 1
    OutputFails = FALSE
    MaxFile = 1
    PageMax = 2
    Limits <- SomeLimits
    Honesties <- BothHonesties
    Dests <- OneDest
    Roots <- AllRoots
    WorkDir <- InDir
    RootSets <- SomeRoots
    Commands <- OneCommand
    Tools <- TwoTools
INVARIANT KeysHeld
CHECK_DEADLOCK FALSE
