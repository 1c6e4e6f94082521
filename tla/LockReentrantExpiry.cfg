SPECIFICATION Spec
CONSTANTS
    p1 = p1
    p2 = p2
    p3 = p3
    Procs = {p1}
    TTL = 2
    MaxAttempts = 2
    MaxDepth = 2
    MaxTime = 3
    MaxCrashes = 0
    MaxFaults = 0
    Corrupt = FALSE
    Punctual = FALSE
INVARIANTS
    OuterHoldKept
