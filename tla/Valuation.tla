----------------------------- MODULE Valuation -----------------------------
(***************************************************************************)
(* What a cycle makes of a replayed ledger and a set of marks: the         *)
(* snapshot of ledger-core, the marks of sheets-view, and the composition  *)
(* and the value points of reports.                                        *)
(*                                                                         *)
(* Symbols and platforms are numbers, in the order of the code's maps.     *)
(* Marks are a function from the priced symbols to [price, date]; an       *)
(* Option is a set of at most one value.                                   *)
(***************************************************************************)
EXTENDS TaxKernel, SequencesExt

CONSTANT QuoteScale     \* quoted units in a cent

ASSUME QuoteScaleAssumption == QuoteScale \in Nat \ {0}

(***************************************************************************)
(* The snapshot of a fold state, priced by marks                           *)
(***************************************************************************)
MarketValue(price, qty) == Scale(price * qty)

\* The members of a finite set of numbers, in ascending order.
InOrder(S) ==
    [i \in 1..Cardinality(S) |-> CHOOSE s \in S : Cardinality({t \in S : t <= s}) = i]

\* The open lots in fold order, each with its unrealized gain if it is priced.
OpenLots(st, marks) ==
    LET open == InOrder({k \in DOMAIN st.lots : ~st.lots[k].closed /\ st.lots[k].qty # 0})
        unrealized(lot) ==
            IF lot.symbol \in DOMAIN marks
            THEN {MarketValue(marks[lot.symbol].price, lot.qty) - lot.basis} ELSE {}
        shown(lot) ==
            [id |-> lot.id, symbol |-> lot.symbol, platform |-> lot.platform,
             acquired |-> lot.acquired, qty |-> lot.qty, basis |-> lot.basis,
             unrealized |-> unrealized(lot)]
    IN  [i \in DOMAIN open |-> shown(st.lots[open[i]])]

LotsOf(lots, symbol) == {k \in DOMAIN lots : lots[k].symbol = symbol}

\* One position for every symbol ever opened, a closed-out one included.
Positions(st, lots) ==
    [s \in {st.lots[k].symbol : k \in DOMAIN st.lots} |->
        [qty |-> SumFunction([k \in LotsOf(lots, s) |-> lots[k].qty]),
         basis |-> SumFunction([k \in LotsOf(lots, s) |-> lots[k].basis]),
         realized |-> SumFunction([k \in {k \in DOMAIN st.gains : st.gains[k].symbol = s} |->
                                      st.gains[k].proceeds - st.gains[k].basis])]]

Snapshot(st, marks) ==
    LET over(lots) == [lots |-> lots, gains |-> st.gains, positions |-> Positions(st, lots)]
    IN  over(OpenLots(st, marks))

Held(snap) == {s \in DOMAIN snap.positions : snap.positions[s].qty # 0}

(***************************************************************************)
(* Marks                                                                   *)
(***************************************************************************)
\* A quote in cents; one that rounds to nothing, or below, is no price.
PriceToCents(quoted) ==
    {c \in {RoundHalfEven(quoted, QuoteScale)} : c > 0}

\* A reading of the Price cell is numeric, Transient or Permanent; the symbols
\* of latest are those some pass has shown.
Settled(symbols, latest) ==
    \A s \in symbols : s \in DOMAIN latest /\ latest[s].kind # "Transient"

\* The marks a symbol's last reading leads to: its price, the prior mark while
\* it stays transient, or none.
MarkOf(s, latest, prior) ==
    IF s \in DOMAIN latest /\ latest[s].kind = "Numeric"
    THEN {[price |-> c, date |-> latest[s].date] : c \in PriceToCents(latest[s].quoted)}
    ELSE IF s \in DOMAIN latest /\ latest[s].kind = "Permanent" THEN {}
    ELSE IF s \in DOMAIN prior THEN {prior[s]}
    ELSE {}

\* Every symbol without a mark is degraded.
ProducedMarks(symbols, latest, prior) ==
    LET mark == [s \in symbols |-> MarkOf(s, latest, prior)]
    IN  [s \in {t \in symbols : mark[t] # {}} |-> CHOOSE m \in mark[s] : TRUE]

\* The trading day of a set of marks: their most recent quote date.
TradingDayKey(marks) ==
    IF DOMAIN marks = {} THEN {} ELSE {Max({marks[s].date : s \in DOMAIN marks})}

(***************************************************************************)
(* The estimated tax of each held symbol, on the gains of the year so far  *)
(***************************************************************************)
UnrealizedEstimates(snap, ctx, asOf) ==
    LET counted(term) ==
            {k \in DOMAIN snap.gains :
                /\ YearOf(snap.gains[k].saleDate) = ctx.year
                /\ ClassifyTerm(snap.gains[k].acquired, snap.gains[k].saleDate) = term}
        ofYear(term) ==
            SumFunction([k \in counted(term) |-> snap.gains[k].proceeds - snap.gains[k].basis])
        estimates(st, lt) ==
            [s \in Held(snap) |->
                UnrealizedEstimate([k \in LotsOf(snap.lots, s) |-> snap.lots[k]],
                                   asOf, ctx.residency, st, lt, ctx)]
    IN  estimates(ofYear("ShortTerm"), ofYear("LongTerm"))

(***************************************************************************)
(* Composition                                                             *)
(***************************************************************************)
\* Mutant of LargestRemainder: the units left over are given to nobody.
LargestRemainder_FloorsOnly(total, weights) ==
    LET sum == SumFunction(weights)
    IN  [i \in DOMAIN weights |-> IF sum <= 0 THEN 0 ELSE (total * weights[i]) \div sum]

\* total in proportion to the weights, to the unit: floors, then one more for
\* each of the largest remainders, the first of equals first.
LargestRemainder(total, weights) ==
    LET sum      == SumFunction(weights)
        floor(i) == (total * weights[i]) \div sum
        rem(i)   == (total * weights[i]) % sum
        ahead(i) == {j \in DOMAIN weights : rem(j) > rem(i) \/ (rem(j) = rem(i) /\ j < i)}
        left     == total - SumFunction([i \in DOMAIN weights |-> floor(i)])
    IN  [i \in DOMAIN weights |->
            IF sum <= 0 THEN 0
            ELSE IF Cardinality(ahead(i)) < left THEN floor(i) + 1
            ELSE floor(i)]

\* The shares of the whole, for the priced rows of a composition; none when
\* they are worth nothing.
SharesOfWhole(values) ==
    IF SumFunction(values) <= 0 THEN {} ELSE {LargestRemainder(PpmFull, values)}

\* A symbol without a mark or without an estimate is degraded as a whole.
Degraded(snap, marks, estimates) ==
    {s \in Held(snap) : s \notin DOMAIN marks \/ estimates[s].tax = {}}

SymbolValues(snap, marks, estimates) ==
    [s \in Held(snap) \ Degraded(snap, marks, estimates) |->
        MarketValue(marks[s].price, snap.positions[s].qty)]

\* What a symbol is up after its estimated tax.
SymbolNet(snap, marks, estimates) ==
    [s \in Held(snap) \ Degraded(snap, marks, estimates) |->
        MarketValue(marks[s].price, snap.positions[s].qty) - snap.positions[s].basis
            - ValueOf(estimates[s].tax)]

\* The tax of a symbol, divided over its lots by their gain.
LotTax(snap, estimates, s) ==
    LargestRemainder(ValueOf(estimates[s].tax),
        [k \in LotsOf(snap.lots, s) |-> AtLeastZero(ValueOf(snap.lots[k].unrealized))])

\* A platform adds up its lots, and is degraded by any degraded one.
PlatformRows(snap, marks, estimates) ==
    LET unpriced == Degraded(snap, marks, estimates)
        lotsOn(p) == {k \in DOMAIN snap.lots : snap.lots[k].platform = p}
        worth(k) == MarketValue(marks[snap.lots[k].symbol].price, snap.lots[k].qty)
        pricedOn(p) == {k \in lotsOn(p) : snap.lots[k].symbol \notin unpriced}
        tax(k) == LotTax(snap, estimates, snap.lots[k].symbol)[k]
    IN  [p \in {snap.lots[k].platform : k \in DOMAIN snap.lots} |->
            [basis |-> SumFunction([k \in lotsOn(p) |-> snap.lots[k].basis]),
             value |-> SumFunction([k \in pricedOn(p) |-> worth(k)]),
             net |-> SumFunction([k \in pricedOn(p) |-> worth(k) - snap.lots[k].basis - tax(k)]),
             degraded |-> pricedOn(p) # lotsOn(p)]]

(***************************************************************************)
(* Value points                                                            *)
(***************************************************************************)
\* A point counts a symbol that is priced but has no estimate, untaxed; that
\* and an unpriced symbol make it incomplete.
SeriesPoint(snap, marks, estimates, key, at) ==
    LET priced  == Held(snap) \cap DOMAIN marks
        value   == [s \in priced |-> MarketValue(marks[s].price, snap.positions[s].qty)]
        pretax  == SumFunction([s \in priced |-> value[s] - snap.positions[s].basis])
    IN  [key |-> key, at |-> at, values |-> value,
         total |-> SumFunction(value),
         pretax |-> pretax,
         net |-> pretax - SumFunction([s \in priced |-> ValueOf(estimates[s].tax)]),
         basis |-> SumFunction([s \in Held(snap) |-> snap.positions[s].basis]),
         shares |-> [s \in Held(snap) |-> snap.positions[s].qty],
         incomplete |-> \E s \in Held(snap) : s \notin priced \/ estimates[s].tax = {}]

\* The change of one symbol's value between two points, in cents and in parts.
SymbolChange(earlier, later, s) ==
    LET both == s \in DOMAIN earlier.values /\ s \in DOMAIN later.values
        change == later.values[s] - earlier.values[s]
    IN  [cents |-> IF both THEN {change} ELSE {},
         parts |-> IF both /\ earlier.values[s] > 0
                   THEN {RoundHalfEven(change * PpmFull, earlier.values[s])} ELSE {}]
=============================================================================
