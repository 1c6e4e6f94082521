SPECIFICATION Spec
CONSTANTS
    ShareScale = 2
    MoneyCap = 60
    MaxEvents = 4
    Payloads <- SmallPayloads
INVARIANT
    ReplayNeverRejects
