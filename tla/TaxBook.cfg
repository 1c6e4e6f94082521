SPECIFICATION BoundedBookSpec
CONSTANTS
    ShareScale = 1
    MoneyCap = 1000
    PpmFull = 10
    Payloads <- MCPayloads
    MaxEvents = 5
    OpeningLog <- MCOpeningLog
    TaxPayloads <- MCTaxPayloads
    MaxTaxEvents = 6
    Today <- MCToday
    RuleSets <- MCRuleSets
    Timelines <- MCTimelines
    Thresholds = {2}
    LabelSets = {{}}
    LookbackYears = 1
    StaleMonths = 12
    OpeningCell <- MCOpeningCell
INVARIANTS
    BookTypeOK
    QuarterlyPartitionsAnnual
    IncrementsTelescope
    MovedBeforeEachPay
    BacklessIffWarned
    LaterSalesNeverReprice
    DegradedResidenceIsSignalled
PROPERTIES
    EstimateIsTaxOfSelling
