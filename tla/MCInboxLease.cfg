CONSTANTS
    p1 = p1  d1 = d1  d2 = d2
    Procs <- OneProc
    Dirs <- OneDir
    Commands <- ReceiveOnly
    Overwrites <- Both
    MaxRuns = 2
    MaxFaults = 1
    MaxExpiries = 1
SPECIFICATION Spec
INVARIANT RestartReplaysReceipt
CHECK_DEADLOCK FALSE
