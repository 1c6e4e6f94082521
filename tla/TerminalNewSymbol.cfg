SPECIFICATION TerminalSpec
CONSTANTS
    Flows = {"Buy", "Sell", "Split"}
    Opening <- MCOpening
    Others <- MCOthers
    SymbolTexts = {"", "held", "new"}
    NumberTexts = {"zero", "one", "garbled"}
    Amounts = {"one"}
    Garbled = {"garbled"}
    Aliases = {}
    MaxDrafts = 3
    MaxSeconds = 2
    MaxFaults = 1
INVARIANT
    NewSymbolIsConfirmed
