SPECIFICATION Spec
CONSTANTS
    ShareScale = 2
    MoneyCap = 60
    MaxEvents = 5
    Payloads <- MCPayloads
INVARIANTS
    TypeOK
    LotsNonNegative
    BasisConserved
    SalesReconcile
    FifoTakesOldestFirst
    ReplayLosesNoTrade
PROPERTIES
    OpeningReversalKeepsGains
    BackdatingRewritesNoGain
