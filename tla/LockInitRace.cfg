SPECIFICATION Spec
CONSTANTS
    p1 = p1
    p2 = p2
    p3 = p3
    Procs = {p1, p2}
    TTL = 2
    MaxAttempts = 2
    MaxDepth = 1
    MaxTime = 2
    MaxCrashes = 0
    MaxFaults = 0
    Corrupt = FALSE
    Punctual = TRUE
INVARIANTS
    MutualExclusion
