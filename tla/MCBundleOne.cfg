CONSTANTS
    p1 = p1  p2 = p2
    Procs <- OneProc
    NFiles = 2
    Chunks <- TwoThenOne
    Retries = 2
    Overwrites <- Both
    Flaws <- AllFlaws
    MaxRuns = 2
    MaxFaults = 3
    MaxForeign = 1
SPECIFICATION FairSpec
INVARIANTS
    OnlyVerifiedInstalled
    ResumesAtBoundary
    AllOrNothing
    NothingLost
PROPERTY ReceivesRecover
CHECK_DEADLOCK FALSE
