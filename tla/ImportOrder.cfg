SPECIFICATION ImportSpec
CONSTANTS
    ShareScale = 2
    MoneyCap = 1000
    PpmFull = 10
    QuoteScale = 1
    Payloads = {}
    MaxEvents = 10
    OpeningLog <- NoLog
    TaxPayloads = {}
    MaxTaxEvents = 0
    Today <- MCToday
    RuleSets = {}
    Timelines = {}
    Thresholds = {}
    LabelSets = {}
    LookbackYears = 1
    StaleMonths = 12
    OpeningCell <- MCOpeningCell
    Books <- TwoBooks
    ShareTolerance = 0
    PortfolioTolerance = 2
    MaxEdits = 1
INVARIANT FoldsAsReconciled
CHECK_DEADLOCK FALSE
