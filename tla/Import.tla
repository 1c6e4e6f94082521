------------------------------- MODULE Import -------------------------------
(***************************************************************************)
(* The migration of the legacy workbook: parse and import, from the three  *)
(* legacy tabs and the owner's inputs to a stream of events, its dry run   *)
(* against the legacy figures, and the commit into the target workbook,    *)
(* interrupted anywhere and run again, with the workbook and the inputs    *)
(* edited in between.                                                      *)
(*                                                                         *)
(* A row is a record with its row number; a cell is what parsing makes of  *)
(* it, an Option.  A symbol is a number, and another casing of it is its   *)
(* negative.  Per-row corrections are left out: the binary always passes   *)
(* none.                                                                   *)
(***************************************************************************)
EXTENDS TaxBook, Valuation

CONSTANTS
    Books,              \* the legacy workbooks with the owner's inputs, each with the
                        \* log of what the owner really did, if the book tells it
    ShareTolerance,     \* SHARE_TOLERANCE_MICRO
    PortfolioTolerance, \* PORTFOLIO_TOLERANCE_CENTS
    MaxEdits            \* bound on the edits of the legacy workbook and the inputs

ASSUME ToleranceAssumption == ShareTolerance \in Nat /\ PortfolioTolerance \in Nat
ASSUME MaxEditsAssumption == MaxEdits \in Nat

CorporateActions == [symbol : Int, date : Int, num : Int, den : Int]
ClosedYears == [jur : STRING, year : Int, amount : Int, label : STRING]

\* The rows of a tab are numbered, and their dates are Options.
ASSUME BooksAssumption ==
    \A b \in Books :
        /\ \A rows \in {b.sheet.actions, b.sheet.sales} :
              /\ IsFiniteSet(rows)
              /\ \A r \in rows : r.row \in Nat /\ r.date \subseteq Int
              /\ \A r \in rows : \A c, d \in r.date : c = d
              /\ \A r, s \in rows : r.row = s.row => r = s
        /\ b.inputs.splits \in Seq(CorporateActions)
        /\ b.inputs.years \in Seq(ClosedYears)

\* Where an imported event comes from is the first part of its id; an id that is
\* assigned at entry has another prefix.
Origins == {"Stock Actions", "Corporate Actions", "Stock Sales"}
ASSUME PayloadsAreEntered == \A e \in Payloads : e.id[1] \notin Origins

VARIABLES
    legacy,     \* the legacy workbook and the inputs, as they are now
    report,     \* what the dry run says of them
    edits,
    todo,       \* the events a running commit has yet to append
    running,    \* whether a commit runs, and so holds the write-lock
    steady,     \* whether legacy is unchanged since the first event landed
    done        \* the report of the last commit that ended well, an Option

importVars == <<log, events, cell, legacy, report, edits, todo, running, steady, done>>

SameLetters(a, b) == a = b \/ a = -b
IsWhole(qty) == qty > 0 /\ qty % ShareScale = 0

(***************************************************************************)
(* Parsing                                                                 *)
(***************************************************************************)
PlatformOf(inputs, id, symbol) ==
    IF id \in DOMAIN inputs.idPlatforms THEN inputs.idPlatforms[id]
    ELSE IF symbol \in DOMAIN inputs.symbolPlatforms THEN inputs.symbolPlatforms[symbol]
    ELSE inputs.platform

HasRequired(r) == r.date # {} /\ r.qty # {} /\ r.fees # {} /\ r.id # "" /\ r.symbol # 0

\* Split rows are the sheet's own bookkeeping, a Grant is no holding yet.
Counts(a) == a.activity \notin {"Split", "Grant"}
ReadableAction(a) == a.activity \in {"Buy", "Vest", "Exercise"} /\ HasRequired(a)

\* Mutant of CashBasis: the price cell is believed.
CashBasis_PriceGoverns(a) == [price |-> a.price, fees |-> ValueOf(a.fees)]

\* A purchase of whole shares cost what its Total Cost says: the unit price is
\* the floor, and the fees are the rest.
CashBasis(a) ==
    LET shares == ValueOf(a.qty) \div ShareScale
        total  == ValueOf(a.total)
    IN  IF /\ a.activity # "Vest" /\ IsWhole(ValueOf(a.qty)) /\ a.price # {} /\ total > 0
           /\ total # shares * ValueOf(a.price) + ValueOf(a.fees)
        THEN [price |-> {total \div shares}, fees |-> total % shares]
        ELSE [price |-> a.price, fees |-> ValueOf(a.fees)]

ParsedAction(inputs, a) ==
    [row |-> a.row, id |-> a.id, symbol |-> a.symbol,
     kind |-> IF a.activity = "Vest" THEN "Vest" ELSE "Buy",
     qty |-> ValueOf(a.qty), price |-> CashBasis(a).price, fees |-> CashBasis(a).fees,
     date |-> ValueOf(a.date), platform |-> PlatformOf(inputs, a.id, a.symbol)]

ReadableSale(s) == HasRequired(s) /\ s.profit # {}

\* A sale whose price was never filled in sold for what its proceeds say; a
\* fraction of a cent per share goes to the fees.
SalePrice(s) ==
    LET shares   == ValueOf(s.qty) \div ShareScale
        proceeds == ValueOf(s.proceeds)
        gross    == proceeds + ValueOf(s.fees)
        ceiling  == proceeds \div shares + 1
    IN  IF ~(s.price \in {{}, {0}} /\ IsWhole(ValueOf(s.qty)) /\ proceeds > 0)
        THEN [price |-> s.price, fees |-> ValueOf(s.fees)]
        ELSE IF gross % shares = 0
        THEN [price |-> {gross \div shares}, fees |-> ValueOf(s.fees)]
        ELSE [price |-> {ceiling}, fees |-> shares * ceiling - proceeds]

\* A sale takes the casing of its tranche.
ParsedSale(inputs, actions, s) ==
    LET tranche == {a \in actions : a.id = s.id /\ SameLetters(a.symbol, s.symbol)}
    IN  [row |-> s.row, tag |-> s.id, id |-> s.id, spelt |-> s.symbol,
         symbol |-> IF tranche = {} THEN s.symbol ELSE (CHOOSE a \in tranche : TRUE).symbol,
         qty |-> ValueOf(s.qty), price |-> SalePrice(s).price, fees |-> SalePrice(s).fees,
         date |-> ValueOf(s.date), platform |-> PlatformOf(inputs, s.id, s.symbol),
         profit |-> ValueOf(s.profit)]

\* The pre-tax target: the Profit cells of a symbol, whatever their casing, go
\* to the casing of its first sale.
ProfitSum(sales, symbol) ==
    LET canon(s) ==
            LET alike == {t \in sales : SameLetters(t.symbol, s.spelt)}
            IN  (CHOOSE t \in alike : \A u \in alike : t.row <= u.row).symbol
    IN  MapThenSumSet(LAMBDA s : s.profit, {s \in sales : canon(s) = symbol})

\* Without a mark an error in the unrealized cell is no defect.
ReadablePosition(p) ==
    p.qty # {} /\ p.realized # {} /\ (p.unrealized # {} \/ p.mark = {})

ParsedPosition(sales, p) ==
    [symbol |-> p.symbol, qty |-> ValueOf(p.qty), realized |-> ProfitSum(sales, p.symbol),
     unrealized |-> ValueOf(p.unrealized), mark |-> p.mark]

MalformedSheet(sheet) ==
    \/ \E a \in sheet.actions : Counts(a) /\ ~ReadableAction(a)
    \/ \E s \in sheet.sales : ~ReadableSale(s)
    \/ \E p \in sheet.positions : ~ReadablePosition(p)

ParseLegacyTabs(sheet, inputs) ==
    LET actions == {ParsedAction(inputs, a) : a \in {b \in sheet.actions : ReadableAction(b)}}
        sales == {ParsedSale(inputs, actions, s) : s \in {t \in sheet.sales : ReadableSale(t)}}
    IN  [actions |-> actions, sales |-> sales,
         positions |-> {ParsedPosition(sales, p) :
                           p \in {q \in sheet.positions : ReadablePosition(q)}}]

(***************************************************************************)
(* The owner's mappings: exclusions, split rows, post-split-framed rows    *)
(***************************************************************************)
\* The earliest split of the symbol after a row's date.
SplitAfter(inputs, symbol, date) ==
    LET later == {i \in DOMAIN inputs.splits :
                     inputs.splits[i].symbol = symbol /\ inputs.splits[i].date > date}
        first(i) == \A j \in later : \/ inputs.splits[i].date < inputs.splits[j].date
                                     \/ inputs.splits[i].date = inputs.splits[j].date /\ i <= j
    IN  {inputs.splits[i] : i \in {j \in later : first(j)}}

Presumes(inputs, r) ==
    IF r.id \in inputs.framed THEN SplitAfter(inputs, r.symbol, r.date) ELSE {}

RescalesExactly(inputs, r) ==
    \A ca \in Presumes(inputs, r) :
        /\ (r.qty * ca.den) % ca.num = 0
        /\ r.price # {} /\ (ValueOf(r.price) * ca.num) % ca.den = 0

\* A row recorded in post-split units goes back to the frame of its date.
Reframed(inputs, r) ==
    LET back(ca) == [r EXCEPT !.qty = (@ * ca.den) \div ca.num,
                              !.price = {(ValueOf(@) * ca.num) \div ca.den}]
    IN  IF Presumes(inputs, r) = {} THEN r
        ELSE back(CHOOSE ca \in Presumes(inputs, r) : TRUE)

Remapped(inputs, s) ==
    IF s.id \in DOMAIN inputs.remap THEN [s EXCEPT !.id = inputs.remap[@]] ELSE s

\* A row is framed by its tranche, which a remap may have changed.
Kept(parsed, inputs) ==
    LET kept(r) == \A s \in inputs.excluded : ~SameLetters(r.symbol, s)
    IN  [actions |-> {a \in parsed.actions : kept(a)},
         sales |-> {Remapped(inputs, s) : s \in {t \in parsed.sales : kept(t)}},
         positions |-> {p \in parsed.positions : kept(p)}]

ApplyOwnerMappings(parsed, inputs) ==
    LET mapped(rows) == [rows EXCEPT !.actions = {Reframed(inputs, a) : a \in @},
                                     !.sales = {Reframed(inputs, s) : s \in @}]
    IN  mapped(Kept(parsed, inputs))

MappingsApply(sheet, inputs) ==
    LET exact(rows) == \A r \in rows.actions \cup rows.sales : RescalesExactly(inputs, r)
    IN  exact(Kept(ParseLegacyTabs(sheet, inputs), inputs))

(***************************************************************************)
(* Reconstruction                                                          *)
(***************************************************************************)
\* pre_pass
IdsAreSound(wb, inputs) ==
    /\ \A a, b \in wb.actions : a.id = b.id => a = b
    /\ \A s \in wb.sales : \E a \in wb.actions : a.id = s.id
    /\ \A i, j \in DOMAIN inputs.splits : inputs.splits[i] = inputs.splits[j] => i = j

\* The other preconditions: no row of zero shares, a state for every sale, a
\* price for every vest, a source row for every position.
Reconstructible(wb, inputs) ==
    /\ IdsAreSound(wb, inputs)
    /\ \A r \in wb.actions \cup wb.sales : r.qty # 0
    /\ \A s \in wb.sales : \E i \in DOMAIN inputs.residency : inputs.residency[i].date <= s.date
    /\ \A a \in wb.actions : a.kind = "Vest" => ValueOf(a.price) > 0
    /\ \A p \in wb.positions : \E r \in wb.actions \cup wb.sales : r.symbol = p.symbol

Unpriced(wb) == {r \in wb.actions \cup wb.sales : r.price = {}}

\* The vest whose shares a sale at no price sold, for taxes, on the vest day.
CoveredVest(wb, s) ==
    IF s.price # {0} THEN {} ELSE {a \in wb.actions : a.kind = "Vest" /\ a.id = s.id}

SoldAt(wb, s) ==
    ValueOf((UNION {a.price : a \in CoveredVest(wb, s)}) \cup s.price)

\* The value of the shares of a symbol that were sold to cover.
CoverValue(wb, symbol) ==
    MapThenSumSet(LAMBDA s : Scale(s.qty * SoldAt(wb, s)),
                  {s \in wb.sales : s.symbol = symbol /\ CoveredVest(wb, s) # {}})

OpenItem(a) ==
    [date |-> a.date, rank |-> 0, row |-> a.row,
     event |-> [kind |-> a.kind, id |-> <<"Stock Actions", a.row, <<a.id>>>>,
                date |-> a.date, lot |-> a.id, symbol |-> a.symbol,
                platform |-> a.platform, qty |-> a.qty, price |-> ValueOf(a.price),
                fees |-> IF a.kind = "Buy" THEN a.fees ELSE 0]]

SplitItem(inputs, i) ==
    LET ca == inputs.splits[i]
    IN  [date |-> ca.date, rank |-> 1, row |-> i,
         event |-> [kind |-> "Split", date |-> ca.date, symbol |-> ca.symbol,
                    id |-> <<"Corporate Actions", i, <<ca.symbol, ca.date, ca.num, ca.den>>>>,
                    num |-> ca.num, den |-> ca.den]]

SellItem(wb, inputs, s) ==
    [date |-> s.date, rank |-> 2, row |-> s.row,
     event |-> [kind |-> "Sell", id |-> <<"Stock Sales", s.row, <<s.tag, s.row>>>>,
                date |-> s.date, symbol |-> s.symbol, platform |-> s.platform,
                qty |-> s.qty, price |-> SoldAt(wb, s), fees |-> s.fees,
                refs |-> <<[lot |-> s.id, qty |-> s.qty]>>,
                stamp |-> ResidencyOn(inputs.residency, s.date)]]

\* On one day lots open before splits, and splits come before sales.
Before(a, b) ==
    \/ a.date < b.date
    \/ a.date = b.date /\ (a.rank < b.rank \/ (a.rank = b.rank /\ a.row < b.row))

Reconstruct(wb, inputs) ==
    LET priced(rows) == {r \in rows : r.price # {}}
        ahead(i, items) == {j \in items : Before(j, i)}
        stream(items) ==
            [n \in 1..Cardinality(items) |->
                (CHOOSE i \in items : Cardinality(ahead(i, items)) = n - 1).event]
    IN  stream({OpenItem(a) : a \in priced(wb.actions)}
               \cup {SplitItem(inputs, i) : i \in DOMAIN inputs.splits}
               \cup {SellItem(wb, inputs, s) : s \in priced(wb.sales)})

\* Mutant of MigrationLifecycle: the year is not paid.
MigrationLifecycle_NoPay(cy) ==
    LET key == MigrationKey(cy.jur, cy.year)
    IN  <<[kind |-> "SeedMigration", jur |-> cy.jur, year |-> cy.year, amount |-> cy.amount],
          [kind |-> "Allocate", key |-> key, label |-> cy.label]>>

\* A closed year is one accrual of what was paid for it, taken to Paid.
MigrationLifecycle(cy) ==
    LET key == MigrationKey(cy.jur, cy.year)
        on  == DaysFromCivil(cy.year, 12, 31)
    IN  <<[kind |-> "SeedMigration", jur |-> cy.jur, year |-> cy.year, amount |-> cy.amount],
          [kind |-> "AmountOverride", key |-> key, amount |-> cy.amount],
          [kind |-> "Allocate", key |-> key, label |-> cy.label],
          [kind |-> "Move", key |-> key, amount |-> cy.amount, on |-> on],
          [kind |-> "Pay", jur |-> cy.jur, year |-> cy.year, amount |-> cy.amount,
           covers |-> <<key>>, on |-> on]>>

MigrationTaxEvents(years) ==
    FlattenSeq([i \in DOMAIN years |-> MigrationLifecycle(years[i])])

\* The kernel accepts every event after those before it.  For events that are
\* no reversals that is what the fold itself decides.
LedgerIsValid(st) == st.dropped = {}

EventYear(e) == IF e.kind \in {"SeedMigration", "Pay"} THEN e.year ELSE e.key.year

TaxIsValid(es) ==
    \A n \in DOMAIN es :
        ValidateTax(<<>>, SubSeq(es, 1, n - 1), MigrationContext(EventYear(es[n])), es[n]) = "Ok"

(***************************************************************************)
(* The dry run                                                             *)
(***************************************************************************)
MarksOf(wb) ==
    LET marked == {p \in wb.positions : p.mark # {}}
    IN  [s \in {p.symbol : p \in marked} |->
            [price |-> ValueOf((CHOOSE p \in marked : p.symbol = s).mark), date |-> 0]]

ReplayedPosition(snap, symbol) ==
    IF symbol \in DOMAIN snap.positions THEN snap.positions[symbol]
    ELSE [qty |-> 0, basis |-> 0, realized |-> 0]

VestLots(l, symbol) == {i \in DOMAIN l : l[i].kind = "Vest" /\ l[i].symbol = symbol}
GainsOf(snap, symbol) == {k \in DOMAIN snap.gains : snap.gains[k].symbol = symbol}

\* What the new basis of vested shares takes from the legacy figures, which
\* charged them nothing: on all of them, or on those already sold.
PredictedDelta(l, wb, symbol) ==
    CoverValue(wb, symbol)
        - MapThenSumSet(LAMBDA i : Scale(l[i].qty * l[i].price), VestLots(l, symbol))

PredictedRealizedDelta(l, snap, wb, symbol) ==
    LET vested == {l[i].lot : i \in VestLots(l, symbol)}
    IN  CoverValue(wb, symbol)
            - MapThenSumSet(LAMBDA k : snap.gains[k].basis,
                            {k \in GainsOf(snap, symbol) : snap.gains[k].lot \in vested})

\* With a mark the whole gain is compared, without one the realized part.
DollarResidual(l, snap, wb, p) ==
    LET lots == LotsOf(snap.lots, p.symbol)
        pos  == ReplayedPosition(snap, p.symbol)
        unrealized == MapThenSumSet(LAMBDA k : ValueOf(snap.lots[k].unrealized), lots)
    IN  IF p.symbol \in DOMAIN MarksOf(wb) /\ pos.qty > 0
        THEN pos.realized + unrealized - p.realized - p.unrealized
                 - PredictedDelta(l, wb, p.symbol)
        ELSE pos.realized - p.realized - PredictedRealizedDelta(l, snap, wb, p.symbol)

\* Half a cent for every consumed lot, rounded up, and the portfolio's.
Tolerance(snap, symbol) == (Cardinality(GainsOf(snap, symbol)) + 1) \div 2 + PortfolioTolerance

SharesReconcile(snap, p) ==
    Magnitude(ReplayedPosition(snap, p.symbol).qty - p.qty) <= ShareTolerance

DollarsReconcile(l, snap, wb, inputs, p) ==
    \/ Magnitude(DollarResidual(l, snap, wb, p)) <= Tolerance(snap, p.symbol)
    \/ p.symbol \in inputs.adjudicated

\* commit_allowed: every position reconciles, and every symbol has one.
Reconciles(l, snap, wb, inputs) ==
    /\ \A p \in wb.positions :
          SharesReconcile(snap, p) /\ DollarsReconcile(l, snap, wb, inputs, p)
    /\ DOMAIN snap.positions \subseteq {p.symbol : p \in wb.positions}

Workbook(b) == ApplyOwnerMappings(ParseLegacyTabs(b.sheet, b.inputs), b.inputs)

IsReconstructed(b, wb) ==
    /\ ~MalformedSheet(b.sheet) /\ MappingsApply(b.sheet, b.inputs)
    /\ TimelineVerdict(b.inputs.residency) = "Ok"
    /\ Reconstructible(wb, b.inputs)
    /\ Unpriced(wb) = {}

Stream(b, wb) == IF IsReconstructed(b, wb) THEN Reconstruct(wb, b.inputs) ELSE <<>>

\* The flow up to the gate: any error and any malformed row blocks.
DryRun(b, r) ==
    \E wb \in {Workbook(b)} :
    \E l \in {Stream(b, wb)}, tax \in {MigrationTaxEvents(b.inputs.years)} :
    \E st \in {Replay(l)} :
    \E snap \in {Snapshot(st, MarksOf(wb))} :
        r = [clear |-> /\ IsReconstructed(b, wb) /\ LedgerIsValid(st) /\ TaxIsValid(tax)
                       /\ Reconciles(l, snap, wb, b.inputs),
             ledger |-> l, tax |-> tax, positions |-> snap.positions,
             years |-> b.inputs.years]

-----------------------------------------------------------------------------
ImportInit ==
    /\ BookInit
    /\ legacy \in Books
    /\ DryRun(legacy, report)
    /\ edits = 0
    /\ todo = <<>>
    /\ running = FALSE
    /\ steady = TRUE
    /\ done = {}

\* The owner mends the legacy workbook or the inputs.
Edit ==
    /\ ~running
    /\ edits < MaxEdits
    /\ edits' = edits + 1
    /\ \E b \in Books \ {legacy} : legacy' = b /\ DryRun(b, report')
    /\ steady' = (log = <<>> /\ events = <<>>)
    /\ UNCHANGED <<log, events, cell, todo, running, done>>

Ids(l) == {l[i].id : i \in DOMAIN l}

\* Mutant of OwnEventsOnly: any target will do.
OwnEventsOnly_Anything(run) == run.clear

OwnEventsOnly(run) ==
    /\ Ids(log) \subseteq Ids(run.ledger)
    /\ Range(events) \subseteq Range(run.tax)

\* import --commit: the dry run is done again, and its report is the accepted
\* one; under the write-lock the target holds nothing but events of this import.
Begin ==
    /\ ~running
    /\ report.clear
    /\ OwnEventsOnly(report)
    /\ running' = TRUE
    /\ todo' = report.ledger \o report.tax
    /\ UNCHANGED <<log, events, cell, legacy, report, edits, steady, done>>

IsTaxEvent(e) == e.kind \notin {"Buy", "Vest", "Sell", "Split", "Reversal"}

\* An event whose id is in the target with the same content is skipped; with
\* other content the append fails.
Landed(e) == e \in Range(IF IsTaxEvent(e) THEN events ELSE log)
Differs(e) == ~IsTaxEvent(e) /\ ~Landed(e) /\ e.id \in Ids(log)

Land(e) ==
    \/ IsTaxEvent(e) /\ events' = Append(events, e) /\ UNCHANGED log
    \/ ~IsTaxEvent(e) /\ log' = Append(log, e) /\ UNCHANGED events

AppendNext ==
    /\ running /\ todo # <<>>
    /\ \/ Landed(Head(todo)) /\ UNCHANGED <<log, events>>
       \/ ~Landed(Head(todo)) /\ ~Differs(Head(todo)) /\ Land(Head(todo))
    /\ todo' = Tail(todo)
    /\ UNCHANGED <<cell, legacy, report, edits, running, steady, done>>

\* Mutant of Interrupt: what was left to do is kept for the next run.
Interrupt_KeepsTodo ==
    /\ running
    /\ running' = FALSE
    /\ UNCHANGED <<log, events, cell, legacy, report, edits, todo, steady, done>>

\* A failed append, a row of the same id with other content, or a crash, whose
\* lock is reclaimed; what landed stays.
Interrupt ==
    /\ running
    /\ running' = FALSE
    /\ todo' = <<>>
    /\ UNCHANGED <<log, events, cell, legacy, report, edits, steady, done>>

Finish ==
    /\ running /\ todo = <<>>
    /\ running' = FALSE
    /\ done' = {report}
    /\ UNCHANGED <<log, events, cell, legacy, report, edits, todo, steady>>

\* Another writer's submit, when no commit holds the lock.
Elsewhere == ~running /\ LedgerStep /\ UNCHANGED <<legacy, report, edits, todo, running, steady, done>>

ImportNext == Edit \/ Begin \/ AppendNext \/ Interrupt \/ Finish \/ Elsewhere

ImportSpec == ImportInit /\ [][ImportNext]_importVars

-----------------------------------------------------------------------------
(***************************************************************************)
(* Properties                                                              *)
(***************************************************************************)
\* A commit runs only what its dry run cleared, and is left to do a tail of it.
ImportTypeOK ==
    /\ legacy \in Books /\ edits \in 0..MaxEdits
    /\ running \in BOOLEAN /\ steady \in BOOLEAN
    /\ Cardinality(done) <= 1 /\ \A r \in done : r.clear
    /\ IsSuffix(todo, report.ledger \o report.tax)
    /\ todo # <<>> => running

\* However the owner kept the books (post-split units, split rows, sales at no
\* price to cover taxes, a Total Cost or proceeds that a price cell does not
\* show), a book that tells what was done clears the gate and is replayed to
\* it, and a book that does not is blocked.
HonestBooksReconcile ==
    LET positions(l) == Snapshot(Replay(l), <<>>).positions
    IN  /\ report.clear <=> legacy.history # {}
        /\ \A l \in legacy.history : report.positions = positions(l)

\* What a finished commit leaves first in the log are the events its dry run
\* reconciled and nothing else, however often it was interrupted and whatever
\* was edited before it was run again; in the reconciled order unless there was
\* an edit after the first of them landed.
CommittedIsReconciled ==
    LET mine(l, run) == SubSeq(l, 1, Len(run))
        reconciled(run) ==
            /\ Range(mine(log, run.ledger)) = Range(run.ledger)
            /\ Range(mine(events, run.tax)) = Range(run.tax)
            /\ steady => mine(log, run.ledger) = run.ledger /\ mine(events, run.tax) = run.tax
    IN  \A run \in done : reconciled(run)

\* Nothing is owed for a closed year once it is imported, and nothing of its
\* reserve is left, whatever its sales would derive and whatever the ledger
\* does to them afterwards.
ClosedYearsAreSettled ==
    LET settled(gs, ctx, cy) ==
            /\ AnnualRow(events, ctx, ComputeAccruals(gs, events, ctx), cy.jur, cy.year).outstanding
                   = 0
            /\ Reserve(gs, events, ctx, cy.jur, cy.year).balance = 0
            /\ ~Reserve(gs, events, ctx, cy.jur, cy.year).backless
        years(gs, ctx) ==
            \A run \in done : \A i \in DOMAIN run.years : settled(gs, ctx, run.years[i])
    IN  years(RealizedGains(log), ContextOf(cell))

\* The claim that the committed log folds as the dry run reconciled it,
\* whatever was edited before an interrupted commit was resumed.
FoldsAsReconciled ==
    LET positions(l) == Snapshot(Replay(l), <<>>).positions
    IN  \A run \in done : positions(SubSeq(log, 1, Len(run.ledger))) = run.positions
=============================================================================
