------------------------------ MODULE MCImport ------------------------------
(***************************************************************************)
(* A small instance of Import: one history, with a vest, shares sold to    *)
(* cover, a split and a private holding, kept in different ways.  A share  *)
(* is two units; symbol 2 has no mark.                                     *)
(***************************************************************************)
EXTENDS Import

Day(y, m, d) == DaysFromCivil(y, m, d)
MCToday == Day(2023, 6, 1)
NoLog == <<>>

Buy(lot, symbol, qty, price, fees, date) ==
    [kind |-> "Buy", lot |-> lot, symbol |-> symbol, platform |-> symbol, qty |-> qty,
     price |-> price, fees |-> fees, date |-> date]
Sell(lot, symbol, qty, price, fees, date) ==
    [kind |-> "Sell", symbol |-> symbol, platform |-> symbol, qty |-> qty, price |-> price,
     fees |-> fees, refs |-> <<[lot |-> lot, qty |-> qty]>>, date |-> date, stamp |-> "DC"]

History(sellFees) ==
    <<Buy("T1", 1, 8, 30, 1, Day(2019, 3, 1)),
      [Buy("V1", 1, 4, 36, 0, Day(2020, 2, 3)) EXCEPT !.kind = "Vest"],
      Sell("V1", 1, 2, 36, 0, Day(2020, 2, 3)), Buy("T2", 1, 6, 33, 1, Day(2020, 5, 1)),
      Buy("P1", 2, 1, 10, 0, Day(2021, 1, 4)),
      [kind |-> "Split", symbol |-> 1, num |-> 2, den |-> 1, date |-> Day(2021, 6, 1)],
      Sell("T1", 1, 8, 20, sellFees, Day(2022, 5, 2)), Sell("P1", 2, 1, 14, 0, Day(2023, 1, 3))>>

Open(row, id, activity, symbol, date, qty, price, fees, total) ==
    [row |-> row, id |-> id, activity |-> activity, symbol |-> symbol, date |-> {date},
     qty |-> {qty}, price |-> price, fees |-> {fees}, total |-> total]
Sale(row, id, symbol, date, qty, price, proceeds, profit) ==
    [row |-> row, id |-> id, symbol |-> symbol, date |-> {date}, qty |-> {qty},
     price |-> price, fees |-> {0}, proceeds |-> proceeds, profit |-> {profit}]
Position(symbol, qty, unrealized, mark) ==
    [symbol |-> symbol, qty |-> {qty}, realized |-> {0}, unrealized |-> unrealized, mark |-> mark]

T1 == Open(2, "T1", "Buy", 1, Day(2019, 3, 1), 8, {30}, 1, {121})
V1 == Open(3, "V1", "Vest", 1, Day(2020, 2, 3), 4, {36}, 0, {0})
T2 == Open(4, "T2", "Buy", 1, Day(2020, 5, 1), 6, {33}, 0, {100})
P1 == Open(5, "P1", "Buy", 2, Day(2021, 1, 4), 1, {10}, 0, {5})
Cover == Sale(2, "V1", 1, Day(2020, 2, 3), 2, {0}, {0}, 0)
Sold == Sale(3, "T1", 1, Day(2022, 5, 2), 8, {20}, {80}, 20)
PSold == Sale(4, "P1", 2, Day(2023, 1, 3), 1, {14}, {7}, 2)
Pos1 == Position(1, 24, {139}, {25})
Pos2 == Position(2, 0, {}, {})

Sheet(actions, sales) == [actions |-> actions, sales |-> sales, positions |-> {Pos1, Pos2}]
Inputs ==
    [excluded |-> {}, remap |-> <<>>, framed |-> {}, adjudicated |-> {},
     splits |-> <<[symbol |-> 1, date |-> Day(2021, 6, 1), num |-> 2, den |-> 1]>>,
     residency |-> <<[date |-> Day(2020, 1, 1), state |-> "DC"]>>,
     years |-> <<[jur |-> "Federal", year |-> 2022, amount |-> 5, label |-> "savings"],
                 [jur |-> "DC", year |-> 2022, amount |-> 3, label |-> "savings"]>>,
     idPlatforms |-> [id \in {"P1"} |-> 2], symbolPlatforms |-> <<>>, platform |-> 1]

Plain == Sheet({T1, V1, T2, P1}, {Cover, Sold, PSold})
Told(sheet, inputs) == [sheet |-> sheet, inputs |-> inputs, history |-> {History(0)}]
Untold(sheet, inputs) == [sheet |-> sheet, inputs |-> inputs, history |-> {}]

PlainBook == Told(Plain, Inputs)

\* The same history in post-split units, and with a Split row, a sale from it
\* that has no price, another casing, rows that do not count and a wrong figure.
HonestBooks ==
    {PlainBook,
     Told(Sheet({Open(2, "T1", "Buy", 1, Day(2019, 3, 1), 16, {15}, 1, {121}), V1, P1,
                 Open(4, "T2", "Buy", 1, Day(2020, 5, 1), 12, {17}, 0, {100})},
                {Cover, Sold, PSold}),
          [Inputs EXCEPT !.framed = {"T1", "T2"}]),
     [sheet |-> Sheet({T1, V1, T2, P1, Open(6, "S1", "Split", 1, Day(2021, 6, 1), 4, {}, 0, {})},
                      {Cover, PSold, Sale(3, "S1", 1, Day(2022, 5, 2), 8, {}, {79}, 19)}),
      inputs |-> [Inputs EXCEPT !.remap = [id \in {"S1"} |-> "T1"]], history |-> {History(1)}],
     Told([Sheet({[T1 EXCEPT !.activity = "Exercise"], V1, T2, P1,
                  Open(6, "G", "Grant", 1, Day(2022, 1, 3), 4, {}, 0, {}),
                  Open(7, "X1", "Buy", 3, Day(2022, 1, 3), 4, {7}, 0, {14})},
                 {Cover, PSold, [Sold EXCEPT !.symbol = -1, !.profit = {900}]})
               EXCEPT !.positions = @ \cup {Position(3, 0, {0}, {9})}],
          [Inputs EXCEPT !.excluded = {-3}, !.adjudicated = {1}])}

\* A purchase before the split that was forgotten at first.
LateBook ==
    [Told([Sheet({T1, V1, T2, P1, Open(6, "T0", "Buy", 1, Day(2019, 5, 1), 2, {20}, 0, {20})},
                 {Cover, Sold, PSold}) EXCEPT !.positions = {Position(1, 28, {169}, {25}), Pos2}],
          Inputs) EXCEPT !.history = {<<Buy("T0", 1, 2, 20, 0, Day(2019, 5, 1))>> \o History(0)}]

\* Books that do not tell what was done, or tell it in no way that can be read.
WrongBooks ==
    {Untold(Sheet({T1, V1, T2, P1}, {Sold, PSold}), Inputs),
     Untold(Sheet({T1, V1, T2, P1}, {Cover, PSold, [Sold EXCEPT !.price = {30}]}), Inputs),
     Untold(Sheet({T1, V1, T2, P1}, {Cover, PSold, [Sold EXCEPT !.qty = {18}]}), Inputs),
     Untold(Sheet({T1, V1, T2, P1}, {Cover, PSold, [Sold EXCEPT !.id = "S1"]}), Inputs),
     Untold(Sheet({T1, V1, T2, [P1 EXCEPT !.activity = "Bought"]}, {Cover, Sold, PSold}), Inputs),
     Untold(Sheet({T1, [V1 EXCEPT !.price = {}], T2, P1}, {Cover, Sold, PSold}), Inputs),
     Untold(Sheet({T1, V1, [T2 EXCEPT !.id = "T1"], P1}, {Cover, Sold, PSold}), Inputs),
     Untold(Sheet({T1, V1, T2, [P1 EXCEPT !.price = {}]}, {Cover, Sold}), Inputs),
     Untold([Plain EXCEPT !.positions = {Pos1}], Inputs),
     Untold([Plain EXCEPT !.positions = @ \cup {Position(4, 2, {0}, {})}], Inputs),
     Untold(Plain, [Inputs EXCEPT !.splits = <<>>]),
     Untold(Plain, [Inputs EXCEPT !.splits = @ \o @]),
     Untold(Plain, [Inputs EXCEPT !.residency[1].date = Day(2021, 1, 1)]),
     Untold(Sheet({[T1 EXCEPT !.qty = {15}], V1, T2, P1}, {Cover, Sold, PSold}),
            [Inputs EXCEPT !.framed = {"T1"}])}

\* A closed year whose tax was paid from two accounts, listed once for each.
TwiceBooks ==
    {[PlainBook EXCEPT !.inputs.years =
        @ \o <<[jur |-> "Federal", year |-> 2022, amount |-> 2, label |-> "checking"]>>]}

MCBooks == HonestBooks \cup {LateBook} \cup WrongBooks
TwoBooks == {PlainBook, LateBook}

\* What is entered elsewhere: a purchase, a late sale in a closed year, and the
\* reversal of an imported sale of that year.
Entered(n, e) == e @@ [id |-> <<"entered", n, <<>>>>]
MCPayloads ==
    {Entered(1, Buy("B1", 1, 2, 9, 0, Day(2023, 2, 1))),
     Entered(2, Sell("T2", 1, 12, 40, 0, Day(2022, 11, 1))),
     Entered(3, [kind |-> "Reversal", target |-> 7])}

Row(lower, rate) == [lower |-> lower, rate |-> rate]
Rates(rows) == [rows |-> rows, verified |-> Day(2022, 1, 1)]
MCOpeningCell ==
    {[EmptyConfig EXCEPT
        !.rules = {[year |-> 2022, ordinary |-> Rates(<<Row(0, 2)>>),
                    longTerm |-> Rates(<<Row(0, 1)>>), niit |-> [rate |-> 1, threshold |-> 9],
                    income |-> 6, states |-> {[code |-> "DC", set |-> Rates(<<Row(0, 2)>>)]}]},
        !.residency = Inputs.residency]}
=============================================================================
