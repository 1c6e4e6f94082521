SPECIFICATION BookSpec
CONSTANTS
    ShareScale = 1
    MoneyCap = 1000
    PpmFull = 10
    Payloads <- MCPayloads
    MaxEvents = 3
    OpeningLog <- MCOpeningLog
    TaxPayloads <- LifecyclePayloads
    MaxTaxEvents = 6
    Today <- MCToday
    RuleSets = {}
    Timelines = {}
    Thresholds = {0}
    LabelSets = {}
    LookbackYears = 1
    StaleMonths = 12
    OpeningCell <- MCOpeningCell
INVARIANT PaidOnce
