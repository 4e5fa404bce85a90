SPECIFICATION Spec
CONSTANTS
    r1 = r1
    r2 = r2
    Receivers <- Two
    Overwrites = {FALSE}
    Cap = 1
    Chunks = 1
    RenewEvery = 2
    MaxRuns = 2
    MaxFaults = 2
    MaxExpiries = 0
INVARIANTS
    VerifiedCapped
CHECK_DEADLOCK FALSE
