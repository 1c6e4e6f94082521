SPECIFICATION Spec
CONSTANTS
    w1 = w1
    w2 = w2
    sellA = sellA
    sellB = sellB
    payTax = payTax
    impBuy = impBuy
    impSell = impSell
    impTax = impTax
    ledger = ledger
    tax = tax
    Writers = {w1, w2}
    Tabs = {ledger, tax}
    Events <- MCEvents
    TabOf <- MCTabOf
    Submittable <- EntryOnly
    Batch <- NoBatch
    Conflicts <- MCConflicts
    MaxAttempts = 2
    MaxResends = 1
    MaxCrashes = 0
INVARIANT
    SeqIsDense
