SPECIFICATION Spec
CONSTANTS
    r1 = r1
    r2 = r2
    Receivers <- Two
    Overwrites = {TRUE, FALSE}
    Cap = 2
    Chunks = 3
    RenewEvery = 2
    MaxRuns = 3
    MaxFaults = 3
    MaxExpiries = 1
INVARIANTS
    ConsumedVerified
    CommitComplete
    NothingLeftClaimed
    ConsumedTold
CHECK_DEADLOCK FALSE
