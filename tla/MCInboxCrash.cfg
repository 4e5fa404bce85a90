CONSTANTS
    p1 = p1  d1 = d1  d2 = d2
    Procs <- OneProc
    Dirs <- TwoDirs
    Commands <- AllCommands
    Overwrites <- Both
    MaxRuns = 3
    MaxFaults = 3
    MaxExpiries = 1
SPECIFICATION Spec
INVARIANTS
    ReceiptsFollowInstall
    NothingForgotten
    ClaimRecoverable
PROPERTY KeepsPromise
CHECK_DEADLOCK FALSE
