SPECIFICATION CycleSpec
CONSTANTS
    ShareScale = 1
    MoneyCap = 1000
    PpmFull = 10
    QuoteScale = 1
    Payloads <- MCPayloads
    MaxEvents = 4
    OpeningLog <- MCOpeningLog
    TaxPayloads = {}
    MaxTaxEvents = 0
    Today <- MCToday
    RuleSets = {}
    Timelines = {}
    Thresholds = {}
    LabelSets = {}
    LookbackYears = 1
    StaleMonths = 12
    OpeningCell <- MCOpeningCell
    Procs = {"tui", "s1", "s2"}
    Summaries = {"s1", "s2"}
    Boards <- MCBoards
    OpeningMarks <- Never
    MaxPolls = 2
    Attempts = 1
    MaxRuns = 2
    MaxFaults = 1
INVARIANTS
    NoDeltaOfIncomplete
