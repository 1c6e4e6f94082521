SPECIFICATION ImportSpec
CONSTANTS
    ShareScale = 2
    MoneyCap = 1000
    PpmFull = 10
    QuoteScale = 1
    Payloads = {}
    MaxEvents = 10
    OpeningLog <- NoLog
    TaxPayloads = {}
    MaxTaxEvents = 0
    Today <- MCToday
    RuleSets = {}
    Timelines = {}
    Thresholds = {}
    LabelSets = {}
    LookbackYears = 1
    StaleMonths = 12
    OpeningCell <- MCOpeningCell
    Books <- TwiceBooks
    ShareTolerance = 0
    PortfolioTolerance = 2
    MaxEdits = 0
INVARIANT ClosedYearsAreSettled
CHECK_DEADLOCK FALSE
