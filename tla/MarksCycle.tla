----------------------------- MODULE MarksCycle -----------------------------
(***************************************************************************)
(* The cycles of several pt processes over one workbook.  A cycle loads    *)
(* the logs, republishes the view tabs under the write-lock, polls the     *)
(* Price column of the Positions tab until the quotes settle, and reprices *)
(* what it loaded; pt summary then captures a point in the History tab.    *)
(*                                                                         *)
(* The write-lock is exclusive here and a crash gives it back: that it may *)
(* not be is the subject of AdvisoryLock.  A cell of the Price column      *)
(* shows the quote of its row's symbol.                                    *)
(***************************************************************************)
EXTENDS TaxBook, SummaryReport

CONSTANTS
    Procs,          \* the running pt processes
    Summaries,      \* those that run pt summary; the others show a terminal
    Boards,         \* the quotes the day brings, one after the other
    OpeningMarks,   \* the marks of the point on record, if there is one
    MaxPolls,       \* price passes before a transient quote is given up
    Attempts,       \* tries of a capture before it is given up
    MaxRuns,        \* bound on the cycles started
    MaxFaults       \* bound on failed requests and crashes

\* Symbols are numbers, in the order of their names, and the row of each shows a
\* reading at any time; a quote is a number of quoted units, of a numbered day.
ASSUME BoardsAssumption ==
    /\ Len(Boards) \in Nat \ {0} /\ DOMAIN Boards = 1..Len(Boards)
    /\ \A e \in Payloads : e.kind \in {"Buy", "Vest"} =>
          /\ e.symbol \in Int
          /\ \A b \in DOMAIN Boards :
                Boards[b][e.symbol].kind = "Numeric" =>
                    Boards[b][e.symbol].quoted \in Int /\ Boards[b][e.symbol].date \in Int
ASSUME OpeningMarksAssumption ==
    /\ IsFiniteSet(DOMAIN OpeningMarks)
    /\ \A s \in DOMAIN OpeningMarks : OpeningMarks[s].price \in Int /\ OpeningMarks[s].date \in Int
ASSUME SummariesAssumption == Summaries \subseteq Procs
ASSUME MaxPollsAssumption == MaxPolls \in Nat \ {0}
ASSUME AttemptsAssumption == Attempts \in Nat \ {0}

VARIABLES
    board,          \* how many boards the day has brought
    tabs,           \* the data rows of every view tab
    history,        \* the rows of the History tab
    holder,         \* who holds the write-lock, an Option
    run,            \* the cycle of each process
    started, faults

cycle == <<board, tabs, history, holder, run, started, faults>>
vars == <<book, cycle>>

TabOrder == <<"Positions", "OpenLots", "Realized", "Tax", "Reserve">>

\* Fields put over those of a record; the @@ of TLC is one that proofs cannot expand.
With(fields, record) ==
    [f \in (DOMAIN fields) \cup (DOMAIN record) |->
        IF f \in DOMAIN fields THEN fields[f] ELSE record[f]]

(***************************************************************************)
(* The view tabs, rendered from the logs of a run                          *)
(***************************************************************************)
AnnualRows(es, ctx, accruals) ==
    {With([jur |-> b[1], year |-> b[2]], AnnualRow(es, ctx, accruals, b[1], b[2]))
        : b \in Buckets(accruals)}

\* The accruals' states, by sale and lot, of the federal ones.
LifecycleLabel(accruals, g) ==
    LET of == {a \in accruals : /\ a.key.jur = "Federal"
                                /\ a.key.sale = g.sale /\ a.key.lot = g.lot}
    IN  IF of = {} THEN "Accrued" ELSE (CHOOSE a \in of : TRUE).state

PositionRows(snap, rates) ==
    LET order == InOrder(DOMAIN snap.positions)
        priced(s) == [symbol |-> s, rate |-> IF s \in DOMAIN rates THEN rates[s] ELSE {}]
    IN  [i \in DOMAIN order |-> With(priced(order[i]), snap.positions[order[i]])]

LotRows(snap) ==
    [k \in DOMAIN snap.lots |->
        [id |-> snap.lots[k].id, qty |-> snap.lots[k].qty, basis |-> snap.lots[k].basis,
         term |-> ClassifyTerm(snap.lots[k].acquired, Today)]]

RealizedRows(snap, accruals) ==
    [k \in DOMAIN snap.gains |->
        [sale |-> snap.gains[k].sale, lot |-> snap.gains[k].lot,
         gain |-> snap.gains[k].proceeds - snap.gains[k].basis,
         state |-> LifecycleLabel(accruals, snap.gains[k])]]

TaxRows(accruals) ==
    SetToSeq({[key |-> a.key, amount |-> a.applied, state |-> a.state] : a \in accruals})

\* The rows of each tab.  Publishing comes before pricing, so that the rates
\* are those of the marks a run starts with, and it starts with none.
Render(snap, rates, accruals, annual) ==
    [Positions |-> PositionRows(snap, [s \in DOMAIN rates |-> rates[s].rate]),
     OpenLots  |-> LotRows(snap),
     Realized  |-> RealizedRows(snap, accruals),
     Tax       |-> TaxRows(accruals),
     Reserve   |-> SetToSeq(annual)]

Brackets(c) ==
    LET state(data) ==
            IF \E x \in data.rules : x.year = Year THEN "Verified"
            ELSE IF \E x \in data.rules : x.year < Year THEN "Stale"
            ELSE "NoBracketsAvailable"
    IN  IF ReadConfig(c) = {} THEN "NoBracketsAvailable"
        ELSE state(CHOOSE data \in ReadConfig(c) : TRUE)

\* A cycle that has just begun, but for what it loads.
Begun == [pc |-> "publish", report |-> {}, at |-> 0, st |-> {}, ctx |-> {}, cell |-> {},
          brackets |-> "NoBracketsAvailable", annual |-> {}, symbols |-> {}, view |-> <<>>,
          tab |-> 1, ok |-> TRUE, polls |-> 0, latest |-> <<>>, marks |-> <<>>,
          tries |-> 0, stored |-> <<>>, rows |-> <<>>]

\* What a cycle loads, and what it makes of it before it has marks; as a set of
\* one, the bound names standing for what is computed once.
ReadBook(c) == [st |-> Replay(log), gains |-> RealizedGains(log), ctx |-> ContextOf(c)]

Loaded(c, b, accruals, snap) ==
    {[Begun EXCEPT !.st = b.st, !.ctx = b.ctx, !.cell = c, !.brackets = Brackets(c),
                   !.annual = annual, !.symbols = Held(snap),
                   !.view = Render(snap, estimates, accruals, annual)]
        : annual \in {AnnualRows(events, b.ctx, accruals)},
          estimates \in {UnrealizedEstimates(snap, b.ctx, Today)}}

LoadOf(c) ==
    UNION {UNION {Loaded(c, b, accruals, snap)
                    : accruals \in {ComputeAccruals(b.gains, events, b.ctx)},
                      snap \in {Snapshot(b.st, <<>>)}}
             : b \in {ReadBook(c)}}

\* A range update writes the rows it is given and leaves those below alone.
Overwrite(old, new) == new \o SubSeq(old, Len(new) + 1, Len(old))

-----------------------------------------------------------------------------
Idle == [pc |-> "idle", report |-> {}]

\* The tabs show the opening log, and History its value at earlier marks.
CycleInit ==
    /\ BookInit
    /\ board = 1
    /\ \E r \in LoadOf(cell) :
          /\ tabs = r.view
          /\ history = SetToSeq({[key |-> key, at |-> 0, st |-> r.st, ctx |-> r.ctx, marks |-> OpeningMarks]
                                    : key \in TradingDayKey(OpeningMarks)})
    /\ holder = {}
    /\ run = [p \in Procs |-> Idle]
    /\ started = 0
    /\ faults = 0

\* The end of a cycle, with what it shows, if anything; a terminal keeps the
\* configuration it was launched with.
Finish(p, report) ==
    run' = [run EXCEPT ![p] =
               IF p \in Summaries THEN [pc |-> "idle", report |-> report]
               ELSE [pc |-> "idle", report |-> report, cell |-> @.cell]]

\* The book and the quotes move on while cycles run.
BookStep == BookNext /\ UNCHANGED cycle

Tick ==
    /\ board < Len(Boards)
    /\ board' = board + 1
    /\ UNCHANGED <<book, tabs, history, holder, run, started, faults>>

\* A cycle loads and replays the logs; a terminal keeps the configuration it
\* was launched with, a summary loads it anew.
Start(p) ==
    /\ run[p].pc = "idle"
    /\ started < MaxRuns
    /\ started' = started + 1
    /\ \E r \in LoadOf(IF "cell" \in DOMAIN run[p] THEN run[p].cell ELSE cell) :
          run' = [run EXCEPT ![p] = [r EXCEPT !.at = started]]
    /\ UNCHANGED <<book, board, tabs, history, holder, faults>>

(***************************************************************************)
(* Publishing                                                              *)
(***************************************************************************)
\* Mutant of LockForPublish: the tabs are rewritten without the lock.
LockForPublish_Unlocked(p) ==
    /\ run[p].pc = "publish"
    /\ run' = [run EXCEPT ![p].pc = "tabs"]
    /\ UNCHANGED <<book, board, tabs, history, holder, started, faults>>

LockForPublish(p) ==
    /\ run[p].pc = "publish"
    /\ holder = {}
    /\ holder' = {p}
    /\ run' = [run EXCEPT ![p].pc = "tabs"]
    /\ UNCHANGED <<book, board, tabs, history, started, faults>>

\* While another holds the lock the tabs stay as they are.
SkipPublish(p) ==
    /\ run[p].pc = "publish"
    /\ holder # {}
    /\ run' = [run EXCEPT ![p].pc = "poll", ![p].view = <<>>]
    /\ UNCHANGED <<book, board, tabs, history, holder, started, faults>>

\* On with the next tab; the lock is given back after the last.
AfterTab(p, ok) ==
    IF run[p].tab < Len(TabOrder)
    THEN /\ run' = [run EXCEPT ![p].tab = @ + 1, ![p].ok = ok]
         /\ UNCHANGED holder
    ELSE /\ run' = [run EXCEPT ![p].pc = "poll", ![p].tab = 1, ![p].view = <<>>, ![p].ok = ok]
         /\ holder' = holder \ {p}

TabsWritten(p) == [tabs EXCEPT ![TabOrder[run[p].tab]] = Overwrite(@, run[p].view[TabOrder[run[p].tab]])]

WriteTab(p) ==
    /\ run[p].pc = "tabs"
    /\ tabs' = TabsWritten(p)
    /\ AfterTab(p, run[p].ok)
    /\ UNCHANGED <<book, board, history, started, faults>>

\* A failed write may have landed; the STALE banner in AA1 is left out.
FailTab(p) ==
    /\ run[p].pc = "tabs"
    /\ faults < MaxFaults
    /\ faults' = faults + 1
    /\ tabs' \in {tabs, TabsWritten(p)}
    /\ AfterTab(p, FALSE)
    /\ UNCHANGED <<book, board, history, started>>

(***************************************************************************)
(* Pricing                                                                 *)
(***************************************************************************)
\* One pass over the rows of the Positions tab, whoever published them.
Pass == [s \in {tabs["Positions"][i].symbol : i \in DOMAIN tabs["Positions"]} |-> Boards[board][s]]

\* Mutant of LastPoll: a transient quote is waited for without end.
LastPoll_Unbounded(p, latest) == Settled(run[p].symbols, latest)

LastPoll(p, latest) ==
    Settled(run[p].symbols, latest) \/ run[p].polls + 1 >= MaxPolls

\* Passes go on until every quote has settled or the last pass; then the loaded
\* ledger is repriced with the marks.
Poll(p) ==
    LET polled(latest) ==
            IF LastPoll(p, latest)
            THEN [run EXCEPT ![p].pc = "priced", ![p].ok = TRUE, ![p].polls = 0, ![p].latest = <<>>,
                             ![p].marks = ProducedMarks(run[p].symbols, latest, <<>>)]
            ELSE [run EXCEPT ![p].latest = latest, ![p].polls = Lesser(@ + 1, MaxPolls)]
    IN  /\ run[p].pc = "poll"
        /\ run' = polled(With([s \in run[p].symbols \cap DOMAIN Pass |-> Pass[s]], run[p].latest))
        /\ UNCHANGED <<book, board, tabs, history, holder, started, faults>>

\* A pass that cannot be read ends the cycle without marks.
FailPoll(p) ==
    /\ run[p].pc = "poll"
    /\ faults < MaxFaults
    /\ faults' = faults + 1
    /\ Finish(p, {})
    /\ UNCHANGED <<book, board, tabs, history, holder, started>>

(***************************************************************************)
(* History                                                                 *)
(***************************************************************************)
\* A reader refuses a tab whose keys do not ascend.
Readable(rows) == \A i \in 1..(Len(rows) - 1) : rows[i].key < rows[i + 1].key

\* A point stands for what it is computed from: its numbers are those of
\* ValuedPoint.  There is none when nothing was priced.
PointOf(r) ==
    {[key |-> key, at |-> r.at, st |-> r.st, ctx |-> r.ctx, marks |-> r.marks]
        : key \in TradingDayKey(r.marks)}

\* So does a report; its lines are those of LinesOf.
Reported(r, outcome, stored) ==
    {[point |-> PointOf(r), outcome |-> outcome, stored |-> stored,
      st |-> r.st, marks |-> r.marks, annual |-> r.annual, brackets |-> r.brackets]}

\* A terminal shows the run, or nothing but the defect of the History tab.
ShowView(p) ==
    /\ run[p].pc = "priced"
    /\ p \notin Summaries
    /\ Finish(p, {IF Readable(history) THEN "Live" ELSE "Blocked"})
    /\ UNCHANGED <<book, board, tabs, history, holder, started, faults>>

\* A summary reads the points on record before it captures its own.
ReadStored(p) ==
    /\ run[p].pc = "priced"
    /\ p \in Summaries
    /\ IF ~Readable(history)
       THEN Finish(p, {})
       ELSE IF PointOf(run[p]) = {}
       THEN Finish(p, Reported(run[p], "AppendFailed", history))
       ELSE run' = [run EXCEPT ![p].pc = "capture", ![p].stored = history]
    /\ UNCHANGED <<book, board, tabs, history, holder, started, faults>>

FailStored(p) ==
    /\ run[p].pc = "priced"
    /\ p \in Summaries
    /\ faults < MaxFaults
    /\ faults' = faults + 1
    /\ Finish(p, {})
    /\ UNCHANGED <<book, board, tabs, history, holder, started>>

ThePoint(p) == CHOOSE q \in PointOf(run[p]) : TRUE

\* A capture that failed is tried again, or the run reports without it.
CaptureFailed(p) ==
    IF run[p].tries + 1 < Attempts
    THEN run' = [run EXCEPT ![p].pc = "capture", ![p].tries = @ + 1]
    ELSE Finish(p, Reported(run[p], "AppendFailed", run[p].stored))

\* Mutant of LockForCapture: the tab is read and rewritten without the lock.
LockForCapture_Unlocked(p) ==
    /\ run[p].pc = "capture"
    /\ run' = [run EXCEPT ![p].pc = "write", ![p].rows = history]
    /\ UNCHANGED <<book, board, tabs, history, holder, started, faults>>

\* Under the lock the rows are read, to be written back with the point.
LockForCapture(p) ==
    /\ run[p].pc = "capture"
    /\ holder = {}
    /\ holder' = {p}
    /\ run' = [run EXCEPT ![p].pc = "write", ![p].rows = history]
    /\ UNCHANGED <<book, board, tabs, history, started, faults>>

CaptureHeld(p) ==
    /\ run[p].pc = "capture"
    /\ holder # {}
    /\ CaptureFailed(p)
    /\ UNCHANGED <<book, board, tabs, history, holder, started, faults>>

\* Mutant of Upsert: a day that has a point gets another.
Upsert_Appends(rows, point) == Append(rows, point)

\* The row of the same trading day is replaced; a new day's is the last.
Upsert(rows, point) ==
    IF \E i \in DOMAIN rows : rows[i].key = point.key
    THEN [i \in DOMAIN rows |-> IF rows[i].key = point.key THEN point ELSE rows[i]]
    ELSE Append(rows, point)

Recorded(p) == Overwrite(history, Upsert(run[p].rows, ThePoint(p)))

WritePoint(p) ==
    /\ run[p].pc = "write"
    /\ history' = Recorded(p)
    /\ run' = [run EXCEPT ![p].pc = "verify"]
    /\ UNCHANGED <<book, board, tabs, holder, started, faults>>

FailWrite(p) ==
    /\ run[p].pc = "write"
    /\ faults < MaxFaults
    /\ faults' = faults + 1
    /\ history' \in {history, Recorded(p)}
    /\ holder' = holder \ {p}
    /\ CaptureFailed(p)
    /\ UNCHANGED <<book, board, tabs, started>>

\* The write is confirmed by the point being read back.
VerifyPoint(p) ==
    /\ run[p].pc = "verify"
    /\ holder' = holder \ {p}
    /\ IF \E i \in DOMAIN history : history[i] = ThePoint(p)
       THEN Finish(p, Reported(run[p], "Appended", run[p].stored))
       ELSE CaptureFailed(p)
    /\ UNCHANGED <<book, board, tabs, history, started, faults>>

FailVerify(p) ==
    /\ run[p].pc = "verify"
    /\ faults < MaxFaults
    /\ faults' = faults + 1
    /\ holder' = holder \ {p}
    /\ CaptureFailed(p)
    /\ UNCHANGED <<book, board, tabs, history, started>>

\* A process may die anywhere; its lock is reclaimed.
Crash(p) ==
    /\ run[p].pc # "idle"
    /\ faults < MaxFaults
    /\ faults' = faults + 1
    /\ holder' = holder \ {p}
    /\ run' = [run EXCEPT ![p] = Idle]
    /\ UNCHANGED <<book, board, tabs, history, started>>

Advance(p) ==
    \/ LockForPublish(p) \/ SkipPublish(p) \/ WriteTab(p)
    \/ Poll(p) \/ ShowView(p) \/ ReadStored(p)
    \/ LockForCapture(p) \/ CaptureHeld(p) \/ WritePoint(p) \/ VerifyPoint(p)

Fault(p) ==
    FailTab(p) \/ FailPoll(p) \/ FailStored(p) \/ FailWrite(p) \/ FailVerify(p) \/ Crash(p)

CycleNext ==
    \/ BookStep
    \/ Tick
    \/ \E p \in Procs : Start(p) \/ Advance(p) \/ Fault(p)

\* A running process is not suspended for ever.
CycleSpec == CycleInit /\ [][CycleNext]_vars /\ \A p \in Procs : WF_vars(Advance(p))

-----------------------------------------------------------------------------
(***************************************************************************)
(* What is computed for a run                                              *)
(***************************************************************************)
Estimates(snap, ctx) == UnrealizedEstimates(snap, ctx, Today)

ValuedPoint(q) ==
    CHOOSE point \in UNION {{SeriesPoint(snap, q.marks, estimates, q.key, q.at)
                                : estimates \in {Estimates(snap, q.ctx)}}
                                : snap \in {Snapshot(q.st, q.marks)}} : TRUE

\* The lines of a report; a summary is given no calendar of trading days.
Lines(rep, point, stored) ==
    Report(Snapshot(rep.st, rep.marks), point, rep.outcome,
           Delta(rep.outcome, point, stored, {}), rep.annual, Year, rep.brackets, Today)

LinesOf(rep) ==
    {Lines(rep, point, stored)
        : point \in IF rep.point = {} THEN {NoPoint} ELSE {ValuedPoint(q) : q \in rep.point},
          stored \in {[i \in DOMAIN rep.stored |-> ValuedPoint(rep.stored[i])]}}

-----------------------------------------------------------------------------
(***************************************************************************)
(* Properties                                                              *)
(***************************************************************************)
\* The lock is with the process that publishes or captures and with no other,
\* and the History tab has one row for a trading day, whoever captured it and
\* however often (REPORT-HIST-002).
CycleTypeOK ==
    /\ board \in DOMAIN Boards
    /\ \A p \in Procs : p \in holder <=> run[p].pc \in {"tabs", "write", "verify"}
    /\ Cardinality(holder) <= 1
    /\ \A i, j \in DOMAIN history : history[i].key = history[j].key => i = j

\* The estimated tax of a symbol is borne by its lots to the cent; it is none on
\* a loss, and takes no gain away but for the roundings: of each lot, and of the
\* symbol.
TaxIsBorne(snap, estimates, values, nets) ==
    \A s \in DOMAIN values :
        LET pretax == values[s] - snap.positions[s].basis
        IN  /\ SumFunction(LotTax(snap, estimates, s)) = ValueOf(estimates[s].tax)
            /\ nets[s] <= pretax
            /\ 2 * nets[s] >= Lesser(2 * pretax, -(Cardinality(LotsOf(snap.lots, s)) + 1))

\* The platforms take as much from their values, for basis and tax, as the
\* symbols do, and their values are the symbols' but for the roundings.
PlatformsAgree(snap, values, nets, rows) ==
    LET value == SumFunction([p \in DOMAIN rows |-> rows[p].value])
        net   == SumFunction([p \in DOMAIN rows |-> rows[p].net])
        lots  == {k \in DOMAIN snap.lots : snap.lots[k].symbol \in DOMAIN values}
    IN  /\ value - net = SumFunction(values) - SumFunction(nets)
        /\ 2 * Magnitude(value - SumFunction(values)) <= Cardinality(lots) + Cardinality(DOMAIN values)

\* The shares of the whole add up to it.
SharesAreWhole(values) == \A shares \in SharesOfWhole(values) : SumFunction(shares) = PpmFull

\* What a priced run shows adds up, with fractions of shares that are rounded
\* lot by lot and symbol by symbol (REPORT-COMP-005, shares_ppm).
ValuationBalances ==
    LET balances(snap, estimates, values, nets, rows) ==
            /\ TaxIsBorne(snap, estimates, values, nets)
            /\ PlatformsAgree(snap, values, nets, rows)
            /\ SharesAreWhole(values)
        over(snap, marks, estimates) ==
            balances(snap, estimates, SymbolValues(snap, marks, estimates),
                     SymbolNet(snap, marks, estimates), PlatformRows(snap, marks, estimates))
    IN  \A p \in Procs :
            run[p].pc = "priced" =>
                \E snap \in {Snapshot(run[p].st, run[p].marks)} :
                \E estimates \in {Estimates(snap, run[p].ctx)} :
                    over(snap, run[p].marks, estimates)

\* A published set of tabs is all of one log: when no write of a publish
\* failed, every tab starts with the rows of the log that publish loaded, also
\* those another process rewrote before.
PublishIsUndivided ==
    [][\A p \in Procs :
          /\ run[p].pc = "tabs" /\ run'[p].pc = "poll" /\ run'[p].ok
          => \A t \in DOMAIN tabs :
                SubSeq(tabs'[t], 1, Len(run[p].view[t])) = run[p].view[t]]_vars

\* A captured trading day stays on record, and a summary that reports its point
\* as captured has it there, whatever other summaries write meanwhile.
CapturedPointsPersist ==
    [][/\ {history[i].key : i \in DOMAIN history} \subseteq {history'[i].key : i \in DOMAIN history'}
       /\ \A p \in Procs :
             run[p].pc = "verify" /\ run'[p].pc = "idle"
                 /\ (\E rep \in run'[p].report : rep.outcome = "Appended")
             => \E i \in DOMAIN history' : history'[i] = ThePoint(p)]_vars

\* A cycle that was started ends, with quotes that never settle, a lock that is
\* held and failing requests.
CycleEnds == \A p \in Procs : run[p].pc # "idle" ~> run[p].pc = "idle"

\* Between two trading days with the same holdings the change a summary reports
\* is the sum of the changes it reports of its symbols: what could not be priced
\* on either day does not pass for a gain or a loss (compute_delta,
\* per_symbol_value_delta).
ReportedChangeAddsUp ==
    [][\A p \in Summaries : \A rep \in run'[p].report \ run[p].report : \A lines \in LinesOf(rep) :
          /\ lines.delta.kind = "PointToPoint"
          /\ \A b \in lines.delta.from : \A i \in DOMAIN rep.stored :
                rep.stored[i].key = b.key =>
                    Held(Snapshot(rep.stored[i].st, rep.marks)) = DOMAIN lines.symbols
          => lines.delta.change =
                {SumFunction([s \in DOMAIN lines.symbols |-> ValueOf(lines.symbols[s])])}]_vars

\* "truncates the residual tail to the exact row count" (SHEET-PUB-002): a tab
\* that was written has the rows it was given and no other.
TailTruncated ==
    [][\A p \in Procs :
          run[p].pc = "tabs" /\ run'[p] # run[p] /\ run'[p].pc # "idle" /\ run'[p].ok
          => Len(tabs'[TabOrder[run[p].tab]]) = Len(run[p].view[TabOrder[run[p].tab]])]_vars

\* "The per-symbol exact net (pretax - estimated_tax) is the authority; the
\* platform sum equals it because the distributed tax shares sum to estimated_tax
\* exactly" (reports, compose).
PlatformNetIsSymbolNet ==
    \A p \in Procs :
        run[p].pc = "priced" =>
            \A snap \in {Snapshot(run[p].st, run[p].marks)} :
            \A estimates \in {Estimates(snap, run[p].ctx)} :
            \A rows \in {PlatformRows(snap, run[p].marks, estimates)} :
                SumFunction([q \in DOMAIN rows |-> rows[q].net])
                    = SumFunction(SymbolNet(snap, run[p].marks, estimates))

\* "unique, non-decreasing trading-day keys" (REPORT-HIST-003): what the
\* captures write the next reader accepts.
HistoryReadable == Readable(history)

\* "never a fabricated number" (SUMMARY-DELTA-003): no change is computed from
\* a point that lacks a symbol.
NoDeltaOfIncomplete ==
    \A p \in Summaries : \A rep \in run[p].report : \A lines \in LinesOf(rep) :
        lines.partial => lines.delta.change = {}
=============================================================================
