SPECIFICATION BookSpec
CONSTANTS
    ShareScale = 1
    MoneyCap = 1000
    PpmFull = 10
    Payloads <- MCPayloads
    MaxEvents = 5
    OpeningLog <- MCOpeningLog
    TaxPayloads <- LifecyclePayloads
    MaxTaxEvents = 0
    Today <- MCToday
    RuleSets = {}
    Timelines = {}
    Thresholds = {0}
    LabelSets = {}
    LookbackYears = 1
    StaleMonths = 12
    OpeningCell <- MCOpeningCell
INVARIANT OnlyYearToDate
