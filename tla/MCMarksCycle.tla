---------------------------- MODULE MCMarksCycle ----------------------------
(***************************************************************************)
(* Small instances of MarksCycle: two symbols, the first on two platforms, *)
(* and quotes of two trading days that may fail.                           *)
(***************************************************************************)
EXTENDS MarksCycle

Day(y, m, d) == DaysFromCivil(y, m, d)
MCToday == Day(2025, 6, 2)

Buy(lot, symbol, platform, qty, price, date) ==
    [kind |-> "Buy", lot |-> lot, symbol |-> symbol, platform |-> platform,
     qty |-> qty, price |-> price, fees |-> 0, date |-> date]

MCOpeningLog == <<Buy("L1", 1, 1, 1, 2, Day(2024, 2, 29)), Buy("L2", 1, 2, 2, 5, Day(2025, 1, 15)),
                  Buy("L3", 2, 1, 1, 7, Day(2025, 1, 20))>>

\* The position of the first lot is sold off.
MCPayloads ==
    {MCOpeningLog[i] : i \in DOMAIN MCOpeningLog} \cup
    {[kind |-> "Sell", symbol |-> 1, platform |-> 1, qty |-> 1, price |-> 9, fees |-> 0,
      refs |-> <<>>, date |-> MCToday, stamp |-> "DC"]}

Set(rows) == [rows |-> rows, verified |-> Day(2025, 1, 1)]
Row(lower, rate) == [lower |-> lower, rate |-> rate]
MCOpeningCell ==
    {[EmptyConfig EXCEPT
        !.rules = {[year |-> 2025, ordinary |-> Set(<<Row(0, 1), Row(10, 4)>>),
                    longTerm |-> Set(<<Row(0, 2)>>), niit |-> [rate |-> 0, threshold |-> 0],
                    income |-> 6, states |-> {[code |-> "DC", set |-> Set(<<Row(0, 2)>>)]}]},
        !.residency = <<[date |-> Day(2019, 1, 1), state |-> "DC"]>>]}

Quote(price, date) == [kind |-> "Numeric", quoted |-> price, date |-> date]
Loading == [kind |-> "Transient"]
Unknown == [kind |-> "Permanent"]

\* A quote that loads, and one of the next trading day.
MCBoards == <<(1 :> Quote(8, 2) @@ 2 :> Loading), (1 :> Quote(9, 3) @@ 2 :> Quote(9, 2))>>

\* The marks of the trading day before.
Yesterday == (1 :> [price |-> 7, date |-> 1] @@ 2 :> [price |-> 8, date |-> 1])
Never == <<>>

\* The symbol of the newest quote is gone later in the day.
GoneBoards == <<(1 :> Quote(9, 3) @@ 2 :> Quote(9, 2)), (1 :> Unknown @@ 2 :> Quote(8, 2))>>
=============================================================================
