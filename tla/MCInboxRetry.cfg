CONSTANTS
    p1 = p1  d1 = d1  d2 = d2
    Procs <- OneProc
    Dirs <- OneDir
    Commands <- ReceiveOnly
    Overwrites <- Always
    MaxRuns = 4
    MaxFaults = 3
    MaxExpiries = 0
SPECIFICATION FairSpec
PROPERTIES
    EventuallyVerified
CHECK_DEADLOCK FALSE
