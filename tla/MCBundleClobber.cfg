CONSTANTS
    p1 = p1  p2 = p2
    Procs <- OneProc
    NFiles = 2
    Chunks <- TwoThenOne
    Retries = 0
    Overwrites <- Never
    Flaws <- NoFlaws
    MaxRuns = 1
    MaxFaults = 0
    MaxForeign = 1
SPECIFICATION Spec
PROPERTY NeverReplaces
CHECK_DEADLOCK FALSE
