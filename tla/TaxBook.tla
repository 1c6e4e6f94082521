------------------------------ MODULE TaxBook ------------------------------
(***************************************************************************)
(* The ledger log, the tax event log and the configuration together.       *)
(* Accruals are never stored: every cycle derives them from the gains the  *)
(* ledger log replays to, the tax events and the context resolved from the *)
(* configuration, so that each of the three may change under the others.   *)
(***************************************************************************)
EXTENDS LedgerCore, ConfigStore

CONSTANTS
    OpeningLog,     \* an accepted ledger log to start from
    TaxPayloads,    \* the candidate tax events an owner may submit
    MaxTaxEvents,   \* bound on the length of the tax log
    Today           \* the reporting day

ASSUME OpeningLogAssumption == OpeningLog \in Seq(Payloads) /\ Len(OpeningLog) <= MaxEvents

AccrualKeys == [sale : Nat, lot : STRING, jur : STRING, year : Int]

\* The fields of a tax event have the types of TaxEventKind, whatever their values.
ASSUME TaxPayloadsAssumption ==
    \A e \in TaxPayloads :
        /\ e.kind \in {"Allocate", "Move", "Pay", "AmountOverride", "SeedMigration"}
        /\ e.kind \in {"Allocate", "Move", "AmountOverride"} => e.key \in AccrualKeys
        /\ e.kind = "Pay" => e.covers \in Seq(AccrualKeys)
        /\ e.kind # "Allocate" => e.amount \in Int

ASSUME MaxTaxEventsAssumption == MaxTaxEvents \in Nat
ASSUME TodayAssumption == Today \in Int

VARIABLE events     \* the accepted tax events, in Seq order

book == <<log, events, cell>>

Year == YearOf(Today)

\* The realized gains of a replay, as tax reads them.
RealizedGains(l) ==
    LET read(gains) ==
            [k \in DOMAIN gains |->
                [sale |-> gains[k].sale, lot |-> gains[k].lot,
                 acquired |-> gains[k].acquired, saleDate |-> gains[k].saleDate,
                 gain |-> gains[k].proceeds - gains[k].basis,
                 stamp |-> l[gains[k].sale].stamp]]
    IN  read(Replay(l).gains)

\* The context of a cell's configuration; an unreadable one degrades to the
\* migration context.
ContextOf(c) ==
    LET readable == ReadConfig(c)
    IN  IF readable = {} THEN MigrationContext(Year)
        ELSE ContextFromConfig(CHOOSE data \in readable : TRUE, Year, Today)

-----------------------------------------------------------------------------
BookInit ==
    /\ log = OpeningLog
    /\ events = <<>>
    /\ ConfigInit

LedgerStep == Submit(Replay(log)) /\ UNCHANGED <<events, cell>>

\* A tax event's id is its content: one that is already in the log is a retry,
\* which is neither validated nor appended again.
SkipRetry(e) == e \in Range(events) /\ UNCHANGED book

AcceptTax(verdict, e) ==
    /\ e \notin Range(events)
    /\ verdict = "Ok"
    /\ Len(events) < MaxTaxEvents
    /\ events' = Append(events, e)
    /\ UNCHANGED <<log, cell>>

RefuseTax(verdict, e) == e \notin Range(events) /\ verdict # "Ok" /\ UNCHANGED book

\* A tax submit validates a new candidate over the refolded logs.
TaxStep ==
    LET decide(verdict, e) == SkipRetry(e) \/ AcceptTax(verdict, e) \/ RefuseTax(verdict, e)
        submit(gs, ctx) ==
            \E e \in TaxPayloads : decide(ValidateTax(gs, events, ctx, e), e)
    IN  submit(RealizedGains(log), ContextOf(cell))

ConfigStep == ConfigPut /\ UNCHANGED <<log, events>>

BookNext == LedgerStep \/ TaxStep \/ ConfigStep

BookSpec == BookInit /\ [][BookNext]_book

-----------------------------------------------------------------------------
(***************************************************************************)
(* Properties                                                              *)
(***************************************************************************)
\* Both logs are bounded sequences of their payloads, and whatever is in the
\* Config cell passes the validation of every put.
BookTypeOK ==
    /\ log \in Seq(Payloads) /\ Len(log) <= MaxEvents
    /\ events \in Seq(TaxPayloads) /\ Len(events) <= MaxTaxEvents
    /\ \A data \in cell : cell = {data} /\ SoundConfig(data)

\* The jurisdictions and years that have an accrual, a move or a payment.
Buckets(accruals) ==
    {<<a.key.jur, a.key.year>> : a \in accruals}
    \cup {<<events[i].key.jur, events[i].key.year>> :
             i \in {k \in DOMAIN events : events[k].kind = "Move"}}

\* The quarterly report partitions the annual one: over the four uneven
\* periods gains add up to the annual gain, and accruals to what the year owes
\* besides a seeded migration figure, whatever is overridden, superseded or
\* below the de-minimis.
QuarterlyPartitionsAnnual ==
    LET sums(gs, accruals, jur, year, cells, row) ==
            /\ SumFunction([q \in DOMAIN cells |-> cells[q].longTerm + cells[q].shortTerm])
                   = row.gain
            /\ SumFunction([q \in DOMAIN cells |-> cells[q].accrual])
                   + (IF MigrationKey(jur, year) \in SeededKeys(events)
                      THEN SeededAmount(events, MigrationKey(jur, year)) ELSE 0)
                   = row.accrued
        partition(gs, ctx, accruals) ==
            \A b \in Buckets(accruals) :
                sums(gs, accruals, b[1], b[2],
                     [q \in {"Q1", "Q2", "Q3", "Q4"} |-> QuarterlyCell(gs, accruals, q, b[1], b[2])],
                     AnnualRow(events, ctx, accruals, b[1], b[2]))
        over(gs, ctx) == partition(gs, ctx, ComputeAccruals(gs, events, ctx))
    IN  over(RealizedGains(log), ContextOf(cell))

\* However sales are back-dated, the increments of a jurisdiction telescope to
\* its tax on all that accrues to it: no gain is taxed twice or missed, and a
\* loss gives back what it frees.
IncrementsTelescope ==
    LET total(gs, ctx, j, K) ==
            HasBrackets(j) =>
                SumFunction([k \in K |-> ValueOf(DerivedIncrement(gs, ctx, j.jur, k))])
                    = TaxOn(j, TermTotal(gs, K, "ShortTerm"), TermTotal(gs, K, "LongTerm"))
        over(gs, ctx) == \A j \in ctx.states \cup {ctx.federal} :
                             total(gs, ctx, j, AccruingTo(gs, ctx, j.jur))
    IN  over(RealizedGains(log), ContextOf(cell))

\* Money goes out only after money was put aside: between any two payments that
\* cover one accrual there is a Move into its reserve, and one before the
\* first, whatever the ledger did to the accrual in between.
MovedBeforeEachPay ==
    \A i \in {k \in DOMAIN events : events[k].kind = "Pay"} :
        \A key \in Covers(events[i]) :
            \E j \in 1..(i - 1) :
                /\ events[j].kind = "Move" /\ events[j].key = key
                /\ \A m \in (j + 1)..(i - 1) :
                      events[m].kind = "Pay" => key \notin Covers(events[m])

\* A reserve is flagged exactly when a Move or a Pay it counts is warned of as
\* an orphan: no balance rests silently on a sale that was reversed.
BacklessIffWarned ==
    LET flagged(gs, ctx, warnings) ==
            \A jur \in {"Federal"} \cup {s.jur : s \in ctx.states}, year \in {Year - 1, Year} :
                Reserve(gs, events, ctx, jur, year).backless <=>
                    \E w \in warnings : /\ w.kind \in {"Move", "Pay"}
                                        /\ w.key.jur = jur /\ w.key.year = year
        over(gs, ctx) == flagged(gs, ctx, OrphanWarnings(gs, events, ctx))
    IN  over(RealizedGains(log), ContextOf(cell))

\* The two resolutions agree on what needs attention: when the accruals of a
\* state the owner lived in during the current year or the years looked back on
\* are degraded, its brackets are signalled as stale.  A residence changes only
\* on the dates of the timeline, so the days that matter are those and the ends
\* of the window.
DegradedResidenceIsSignalled ==
    LET first == DaysFromCivil(Year - LookbackYears, 1, 1)
        last  == DaysFromCivil(Year, 12, 31)
        days(t) == {first, last} \cup
                   {d \in UNION {{t[i].date, t[i].date - 1} : i \in DOMAIN t} :
                        first <= d /\ d <= last}
        signalled(data, states) ==
            {s \in states : BracketStateFor(ContextOf(cell), s) # "Verified"}
                \subseteq StalenessSignals(data, Year, Today)
    IN  \A data \in cell :
            signalled(data, {ResidencyOn(data.residency, d) : d \in days(data.residency)} \ {""})

\* What a gain accrues is decided by the sales dated up to its own: a sale of a
\* later date never changes it, in whatever order the two were recorded.
LaterSalesNeverReprice ==
    LET same(gs, ctx, k, past) ==
            \A jur \in {"Federal", ResolveState(ctx, gs[k].stamp)} \ {""} :
                DerivedIncrement(past, ctx, jur, k) = DerivedIncrement(gs, ctx, jur, k)
        over(gs, ctx) ==
            \A k \in DOMAIN gs :
                same(gs, ctx, k,
                     Restrict(gs, {h \in DOMAIN gs : gs[h].saleDate <= gs[k].saleDate}))
    IN  over(RealizedGains(log), ContextOf(cell))

\* What the cycle estimates for open lots is the tax that selling them brings:
\* when every lot of a year without other states' gains is sold today at the
\* mark, none at a loss, the new accruals add up to the estimate.
EstimateIsTaxOfSelling ==
    [][LET unrealized(lot, price) == Scale(lot.qty * price) - lot.basis
           open(lots) == SelectSeq(lots, LAMBDA lot : ~lot.closed /\ lot.qty > 0)
           marked(lots, price) ==
               [k \in DOMAIN lots |-> [acquired |-> lots[k].acquired,
                                       unrealized |-> {unrealized(lots[k], price)}]]
           estimate(gs, ctx, lots, price) ==
               UnrealizedEstimate(marked(lots, price), Today, ctx.residency,
                                  TermTotal(gs, DOMAIN gs, "ShortTerm"),
                                  TermTotal(gs, DOMAIN gs, "LongTerm"), ctx).tax
           accrued(gs, ctx, seq) ==
               {SumFunction([a \in {a \in ComputeAccruals(gs, <<>>, ctx) : a.key.sale = seq}
                                |-> ValueOf(a.derived)])}
           sellsAll(e, lots, ctx) ==
               /\ e.kind = "Sell" /\ e.date = Today /\ e.fees = 0
               /\ e.stamp = ctx.residency
               /\ e.qty = SumFunction([k \in DOMAIN lots |-> lots[k].qty])
               /\ \A k \in DOMAIN lots : unrealized(lots[k], e.price) >= 0
           agrees(gs, gsAfter, ctx, lots, e) ==
               /\ sellsAll(e, lots, ctx)
               /\ \A k \in DOMAIN gs : /\ YearOf(gs[k].saleDate) = Year
                                       /\ ResolveState(ctx, gs[k].stamp) = ctx.residency
               => estimate(gs, ctx, lots, e.price) \in {{}, accrued(gsAfter, ctx, Len(log'))}
       IN  Len(log') > Len(log) =>
                  agrees(RealizedGains(log), RealizedGains(log'), ContextOf(cell),
                         open(Replay(log).lots), log'[Len(log')])]_book

\* "no double-pay" (TAX-VERIF-004): no accrual is covered by two payments.
PaidOnce ==
    \A i, j \in {k \in DOMAIN events : events[k].kind = "Pay"} :
        i # j => Covers(events[i]) \cap Covers(events[j]) = {}

\* "year-to-date gains" (tax-design.md): what a gain adds in tax depends on
\* the gains of its own year alone.
OnlyYearToDate ==
    LET sameYear(gs, k) == {h \in DOMAIN gs : YearOf(gs[h].saleDate) = YearOf(gs[k].saleDate)}
        ytd(gs, ctx, j, k, before) ==
            DerivedIncrement(gs, ctx, "Federal", k) =
                Increment(j, TermTotal(gs, before, "ShortTerm"), TermTotal(gs, before, "LongTerm"),
                    IF TermOf(gs[k]) = "ShortTerm" THEN gs[k].gain ELSE 0,
                    IF TermOf(gs[k]) = "LongTerm" THEN gs[k].gain ELSE 0)
        over(gs, ctx) ==
            \A k \in DOMAIN gs :
                ytd(gs, ctx, ctx.federal, k, {h \in sameYear(gs, k) : Earlier(gs, h, k)})
    IN  over(RealizedGains(log), ContextOf(cell))
=============================================================================
