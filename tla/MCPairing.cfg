SPECIFICATION FairSpec
CONSTANTS
    p1 = p1
    p2 = p2
    Receivers <- Two
    Life = 2
    MaxRuns = 3
    MaxFaults = 2
INVARIANTS
    CrowdedByTwo
    LostAnswersDivideNobody
PROPERTIES
    KeepsPromise
    HandoffEnds
CHECK_DEADLOCK FALSE
