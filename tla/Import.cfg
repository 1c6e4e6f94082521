SPECIFICATION ImportSpec
CONSTANTS
    ShareScale = 2
    MoneyCap = 1000
    PpmFull = 10
    QuoteScale = 1
    Payloads <- MCPayloads
    MaxEvents = 12
    OpeningLog <- NoLog
    TaxPayloads = {}
    MaxTaxEvents = 0
    Today <- MCToday
    RuleSets = {}
    Timelines = {}
    Thresholds = {}
    LabelSets = {}
    LookbackYears = 1
    StaleMonths = 12
    OpeningCell <- MCOpeningCell
    Books <- MCBooks
    ShareTolerance = 0
    PortfolioTolerance = 2
    MaxEdits = 1
INVARIANTS
    ImportTypeOK
    HonestBooksReconcile
    CommittedIsReconciled
    ClosedYearsAreSettled
