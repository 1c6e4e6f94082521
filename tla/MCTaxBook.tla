----------------------------- MODULE MCTaxBook -----------------------------
(***************************************************************************)
(* Small instances of TaxBook: rates count tenths, a share is one unit.    *)
(* Two lots, one of each holding period; a sale is already on record.      *)
(***************************************************************************)
EXTENDS TaxBook

Day(y, m, d) == DaysFromCivil(y, m, d)
MCToday == Day(2025, 6, 2)

Buy(lot, qty, price, date) ==
    [kind |-> "Buy", lot |-> lot, symbol |-> "AAA", platform |-> "X",
     qty |-> qty, price |-> price, fees |-> 0, date |-> date]
Sell(qty, price, date, stamp) ==
    [kind |-> "Sell", symbol |-> "AAA", platform |-> "X", qty |-> qty,
     price |-> price, fees |-> 0, refs |-> <<>>, date |-> date, stamp |-> stamp]

MCOpeningLog == <<Buy("L1", 2, 9, Day(2024, 2, 29)), Buy("L2", 2, 8, Day(2025, 1, 15)),
                  Sell(1, 20, Day(2025, 4, 10), "DC")>>

\* The rest sold today, at once or after a loss that is dated before the first
\* sale; a sale of the last year, in a state without brackets.
MCPayloads ==
    {MCOpeningLog[i] : i \in 1..3} \cup
    {Sell(3, 15, MCToday, "DC"), Sell(2, 15, MCToday, "DC"),
     Sell(1, 2, Day(2025, 2, 1), ""), Sell(1, 12, Day(2024, 5, 20), "NJ"),
     [kind |-> "Reversal", target |-> 3]}

Set(rows, verified) == [rows |-> rows, verified |-> verified]
Row(lower, rate) == [lower |-> lower, rate |-> rate]
Rules(year, states, top) ==
    [year |-> year, ordinary |-> Set(<<Row(0, 1), Row(10, top)>>, Day(year, 1, 1)),
     longTerm |-> Set(<<Row(0, 0), Row(16, 2)>>, Day(year, 1, 1)),
     niit |-> [rate |-> 1, threshold |-> 15], income |-> 6, states |-> states]
DC == [code |-> "DC", set |-> Set(<<Row(0, 1), Row(9, 3)>>, Day(2024, 1, 1))]
NJ == [code |-> "NJ", set |-> Set(<<Row(0, 4)>>, Day(2024, 1, 1))]

\* The last two are refused: a stack above the whole, and unsorted brackets.
MCRuleSets == {Rules(2025, {DC, NJ}, 3), Rules(2025, {DC, NJ}, 5),
               [Rules(2025, {}, 3) EXCEPT !.longTerm.rows = <<Row(5, 1)>>]}
MCTimelines ==
    {<<[date |-> Day(2019, 1, 1), state |-> "DC"], [date |-> Day(2025, 3, 1), state |-> "NJ"]>>,
     <<[date |-> Day(2024, 3, 1), state |-> "NJ"], [date |-> Day(2024, 3, 1), state |-> "DC"]>>}
MCOpeningCell ==
    {[EmptyConfig EXCEPT !.rules = {Rules(2024, {DC}, 3)}, !.deMinimis = 2,
        !.residency = <<[date |-> Day(2019, 1, 1), state |-> "DC"]>>]}

FirstKey == [sale |-> 3, lot |-> "L1", jur |-> "Federal", year |-> 2025]
NextKey == [sale |-> 4, lot |-> "L1", jur |-> "Federal", year |-> 2025]
\* on tells apart events that are alike but for a label or a date.
Allocate(key, on) == [kind |-> "Allocate", key |-> key, on |-> on]
MoveTo(key, amount, on) == [kind |-> "Move", key |-> key, amount |-> amount, on |-> on]
Pay(amount, covers, on) ==
    [kind |-> "Pay", jur |-> "Federal", year |-> 2025, amount |-> amount,
     covers |-> covers, on |-> on]

\* One accrual put aside and paid, a second allocated, an override and a seed.
BriefPayloads ==
    {Allocate(FirstKey, 1), MoveTo(FirstKey, 4, 1), Pay(4, <<FirstKey>>, 1),
     Allocate(NextKey, 1),
     [kind |-> "AmountOverride", key |-> FirstKey, amount |-> 9],
     [kind |-> "SeedMigration", jur |-> "Federal", year |-> 2025, amount |-> 6]}

\* What a longer lifecycle adds: the first accrual again in a second month, and
\* a payment that covers both accruals.
LaterPayloads ==
    {Allocate(FirstKey, 2), MoveTo(FirstKey, 4, 2), Pay(4, <<FirstKey>>, 2),
     MoveTo(NextKey, 3, 1), Pay(7, <<FirstKey, NextKey>>, 1)}

MCTaxPayloads == BriefPayloads \cup LaterPayloads

\* Bound of the steps: whatever the ledger and the configuration do meets up to
\* BriefLog brief tax events; a lifecycle of up to MaxTaxEvents meets a further
\* sale and the reversal of the first one, and ends in a second payment.
BriefLog == 3
WithinBounds ==
    \/ Len(events) <= BriefLog /\ Range(events) \subseteq BriefPayloads
    \/ /\ cell \subseteq MCOpeningCell
       /\ \A e \in Range(events) : e.kind \in {"Allocate", "Move", "Pay"}
       /\ \A e \in Range(log) \ Range(OpeningLog) :
             e \in {Sell(3, 15, MCToday, "DC"), [kind |-> "Reversal", target |-> 3]}

BoundedBookSpec == BookInit /\ [][BookNext /\ WithinBounds']_book

\* One accrual and the events of its lifecycle, in two months.
LifecyclePayloads ==
    UNION {{Allocate(FirstKey, on), MoveTo(FirstKey, 4, on), Pay(4, <<FirstKey>>, on)}
              : on \in {1, 2}}
=============================================================================
