SPECIFICATION FairSpec
CONSTANTS
    p1 = p1
    p2 = p2
    p3 = p3
    Procs = {p1, p2}
    TTL = 1
    MaxAttempts = 2
    MaxDepth = 2
    MaxTime = 3
    MaxCrashes = 1
    MaxFaults = 1
    Corrupt = TRUE
    Punctual = FALSE
INVARIANTS
    TypeOK
    ExclusionUntilReclaim
    OuterHoldUntilReclaim
PROPERTIES
    AbandonedLockReclaimed
    AcquireReturns
