----------------------------- MODULE TaxKernel -----------------------------
(***************************************************************************)
(* tax: the pure functions that turn realized gains, the tax event log and *)
(* a resolved TaxContext into accruals, reserves, reports and estimates.   *)
(*                                                                         *)
(* gs is the sequence of realized gains of a replay, [sale, lot, acquired, *)
(* saleDate, gain, stamp]; es the tax events, an event's position being    *)
(* its Seq.  An Option is a set of at most one value.  Account labels,     *)
(* reasons, payment dates and periods are recorded and never read, and are *)
(* left out.  Rates count parts of PpmFull.                                *)
(***************************************************************************)
EXTENDS MoneyArithmetic, Calendar, Sequences, FiniteSets, FiniteSetsExt

CONSTANT PpmFull        \* parts in the whole (1_000_000 in config)

ASSUME PpmFullAssumption == PpmFull \in Nat \ {0}

AtLeastZero(x) == IF x >= 0 THEN x ELSE 0
Lesser(a, b) == IF a <= b THEN a ELSE b
Greater(a, b) == IF a >= b THEN a ELSE b
ValueOf(option) == SumFunction([v \in option |-> v])

(***************************************************************************)
(* Bracket tax                                                             *)
(***************************************************************************)
ApplyRate(amount, rate) == RoundHalfEven(amount * rate, PpmFull)

\* The tax on amount stacked on base, each band rounded on its own.
BracketTaxOn(rows, base, amount) ==
    LET top      == base + amount
        end(i)   == IF i < Len(rows) THEN Lesser(rows[i + 1].lower, top) ELSE top
        share(i) == AtLeastZero(end(i) - Greater(base, rows[i].lower))
    IN  SumFunction([i \in DOMAIN rows |-> ApplyRate(share(i), rows[i].rate)])

(***************************************************************************)
(* A resolved jurisdiction is [jur, ordinary, longTerm, niit, income,      *)
(* state]; an absent bracket set has no rows, an absent NIIT rate 0.       *)
(***************************************************************************)
Unconfigured(jur) ==
    [jur |-> jur, ordinary |-> <<>>, longTerm |-> <<>>,
     niit |-> [rate |-> 0, threshold |-> 0], income |-> 0,
     state |-> "NoBracketsAvailable"]

MigrationContext(year) ==
    [year |-> year, federal |-> Unconfigured("Federal"), states |-> {},
     deMinimis |-> 0, residency |-> ""]

HasBrackets(j) ==
    j.ordinary # <<>> /\ (j.jur = "Federal" => j.longTerm # <<>>)

TFederal(j, st, lt) ==
    LET tax(s, l) ==
            LET above == AtLeastZero(j.income + s + l - j.niit.threshold)
            IN  BracketTaxOn(j.ordinary, j.income, s)
                + BracketTaxOn(j.longTerm, j.income + s, l)
                + ApplyRate(Lesser(above, s + l), j.niit.rate)
    IN  tax(AtLeastZero(st), AtLeastZero(lt))

TState(j, st, lt) == BracketTaxOn(j.ordinary, j.income, AtLeastZero(st + lt))

\* T_J: the tax on year-to-date short- and long-term gains.
TaxOn(j, st, lt) ==
    IF j.jur = "Federal" THEN TFederal(j, st, lt) ELSE TState(j, st, lt)

\* The tax of one more amount on top of what came before.
Increment(j, st, lt, dst, dlt) ==
    {TaxOn(j, s + ds, l + dl) - TaxOn(j, s, l)
        : s \in IF HasBrackets(j) THEN {st} ELSE {}, l \in {lt}, ds \in {dst}, dl \in {dlt}}

Jurisdiction(ctx, jur) ==
    LET named == {j \in ctx.states \cup {ctx.federal} : j.jur = jur}
    IN  IF named = {} THEN Unconfigured(jur) ELSE CHOOSE j \in named : TRUE

BracketStateFor(ctx, jur) == Jurisdiction(ctx, jur).state

\* The state a gain accrues to; a blank stamp falls back to the residency.
ResolveState(ctx, stamp) == IF stamp # "" THEN stamp ELSE ctx.residency

(***************************************************************************)
(* Accruals                                                                *)
(***************************************************************************)
\* Mutant of Earlier: gains stacked in the order they were recorded.
Earlier_BySeq(gs, h, k) == gs[h].sale < gs[k].sale \/ (gs[h].sale = gs[k].sale /\ h < k)

\* The stacking order: chronological, then by the sale's Seq.
Earlier(gs, h, k) ==
    \/ gs[h].saleDate < gs[k].saleDate
    \/ gs[h].saleDate = gs[k].saleDate /\ gs[h].sale < gs[k].sale
    \/ gs[h].saleDate = gs[k].saleDate /\ gs[h].sale = gs[k].sale /\ h < k

TermOf(g) == ClassifyTerm(g.acquired, g.saleDate)

\* The gains that accrue to a jurisdiction.
AccruingTo(gs, ctx, jur) ==
    {k \in DOMAIN gs : jur \in {"Federal", ResolveState(ctx, gs[k].stamp)} \ {""}}

TermTotal(gs, K, term) ==
    SumFunction([k \in {k \in K : TermOf(gs[k]) = term} |-> gs[k].gain])

\* Mutant of DerivedIncrement: a loss does not enter the running totals.
DerivedIncrement_SkipsLosses(gs, ctx, jur, k) ==
    LET before == {h \in AccruingTo(gs, ctx, jur) : Earlier(gs, h, k) /\ gs[h].gain > 0}
        dst == IF TermOf(gs[k]) = "ShortTerm" THEN gs[k].gain ELSE 0
        dlt == IF TermOf(gs[k]) = "LongTerm" THEN gs[k].gain ELSE 0
    IN  Increment(Jurisdiction(ctx, jur), TermTotal(gs, before, "ShortTerm"),
                  TermTotal(gs, before, "LongTerm"), dst, dlt)

\* The marginal increment of gain k, stacked on every earlier gain.
DerivedIncrement(gs, ctx, jur, k) ==
    LET before == {h \in AccruingTo(gs, ctx, jur) : Earlier(gs, h, k)}
        dst == IF TermOf(gs[k]) = "ShortTerm" THEN gs[k].gain ELSE 0
        dlt == IF TermOf(gs[k]) = "LongTerm" THEN gs[k].gain ELSE 0
    IN  Increment(Jurisdiction(ctx, jur), TermTotal(gs, before, "ShortTerm"),
                  TermTotal(gs, before, "LongTerm"), dst, dlt)

KeyOf(g, jur) ==
    [sale |-> g.sale, lot |-> g.lot, jur |-> jur, year |-> YearOf(g.saleDate)]

\* The key of a migration accrual has neither sale nor lot.
MigrationKey(jur, year) == [sale |-> 0, lot |-> "", jur |-> jur, year |-> year]

Seeds(es) == {i \in DOMAIN es : es[i].kind = "SeedMigration"}
SeededKeys(es) == {MigrationKey(es[i].jur, es[i].year) : i \in Seeds(es)}
SeededAmount(es, key) ==
    es[Max({i \in Seeds(es) : MigrationKey(es[i].jur, es[i].year) = key})].amount

GainKeys(gs, ctx) ==
    UNION {{KeyOf(gs[k], jur) : jur \in {"Federal", ResolveState(ctx, gs[k].stamp)} \ {""}}
              : k \in DOMAIN gs}

\* The accrual keys that exist: one per gain and jurisdiction, and the seeds.
RealKeys(gs, es, ctx) == GainKeys(gs, ctx) \cup SeededKeys(es)

(***************************************************************************)
(* The lifecycle of a key: the state the last event that names it sets.    *)
(***************************************************************************)
Covers(e) == {e.covers[j] : j \in DOMAIN e.covers}

Names(e, key) ==
    IF e.kind = "Pay" THEN key \in Covers(e) ELSE e.kind # "SeedMigration" /\ e.key = key

Advances(es, key) ==
    {i \in DOMAIN es : es[i].kind # "AmountOverride" /\ Names(es[i], key)}

LifecycleState(es, key) ==
    LET I == Advances(es, key)
    IN  IF I = {} THEN "Accrued"
        ELSE IF es[Max(I)].kind = "Allocate" THEN "Allocated"
        ELSE IF es[Max(I)].kind = "Move" THEN "Moved"
        ELSE "Paid"

OverrideOf(es, key) ==
    LET I == {i \in DOMAIN es : es[i].kind = "AmountOverride" /\ es[i].key = key}
    IN  IF I = {} THEN {} ELSE {es[Max(I)].amount}

Superseded(es, key) == MigrationKey(key.jur, key.year) \in SeededKeys(es)

Magnitude(x) == IF x < 0 THEN -x ELSE x

GainAccrual(gs, es, ctx, jur, k) ==
    LET accrual(key, derived, override) ==
            LET applied == IF override # {} THEN override ELSE derived
            IN  [key |-> key, term |-> TermOf(gs[k]), gain |-> gs[k].gain,
                 derived |-> derived, applied |-> applied,
                 state |-> LifecycleState(es, key),
                 deMinimis |-> \E a \in applied : Magnitude(a) < ctx.deMinimis,
                 superseded |-> Superseded(es, key),
                 brackets |-> BracketStateFor(ctx, jur)]
    IN  accrual(KeyOf(gs[k], jur), DerivedIncrement(gs, ctx, jur, k),
                OverrideOf(es, KeyOf(gs[k], jur)))

MigrationAccrual(es, ctx, key) ==
    [key |-> key, term |-> "LongTerm", gain |-> 0, derived |-> {},
     applied |-> {SeededAmount(es, key)}, state |-> LifecycleState(es, key),
     deMinimis |-> FALSE, superseded |-> FALSE,
     brackets |-> BracketStateFor(ctx, key.jur)]

ComputeAccruals(gs, es, ctx) ==
    (UNION {{GainAccrual(gs, es, ctx, jur, k)
               : jur \in {"Federal", ResolveState(ctx, gs[k].stamp)} \ {""}}
               : k \in DOMAIN gs})
    \cup {MigrationAccrual(es, ctx, key) : key \in SeededKeys(es)}

\* One warning for each key of an Allocate, Move, Pay or AmountOverride that
\* no gain and no seed backs, by the event's Seq.
OrphanWarnings(gs, es, ctx) ==
    LET named(e) == IF e.kind = "SeedMigration" THEN {}
                    ELSE IF e.kind = "Pay" THEN Covers(e)
                    ELSE {e.key}
    IN  UNION {{[seq |-> i, key |-> key, kind |-> es[i].kind]
                  : key \in named(es[i]) \ RealKeys(gs, es, ctx)} : i \in DOMAIN es}

(***************************************************************************)
(* The append-time validator                                               *)
(***************************************************************************)
ReplayedState(gs, es, ctx, key) ==
    IF key \in RealKeys(gs, es, ctx) THEN LifecycleState(es, key) ELSE "None"

MoveVerdict(gs, es, ctx, e) ==
    IF ReplayedState(gs, es, ctx, e.key) = "Allocated" THEN "Ok" ELSE "MoveOnUnallocated"

CoverVerdict(gs, es, ctx, e, key) ==
    IF key.jur # e.jur \/ key.year # e.year THEN "PayCoverMismatch"
    ELSE IF ReplayedState(gs, es, ctx, key) = "Moved" THEN "Ok"
    ELSE IF ReplayedState(gs, es, ctx, key) = "Paid" THEN "DoublePay"
    ELSE "PayOnUnmoved"

\* Mutant of PayVerdict: only the first covered key is looked at.
PayVerdict_FirstCover(gs, es, ctx, e) ==
    IF e.covers = <<>> THEN "Ok" ELSE CoverVerdict(gs, es, ctx, e, e.covers[1])

\* The first defect of the covered keys, in order.
PayVerdict(gs, es, ctx, e) ==
    LET bad == {j \in DOMAIN e.covers : CoverVerdict(gs, es, ctx, e, e.covers[j]) # "Ok"}
    IN  IF bad = {} THEN "Ok" ELSE CoverVerdict(gs, es, ctx, e, e.covers[Min(bad)])

OverrideVerdict(gs, es, e) ==
    LET backing == {k \in DOMAIN gs : gs[k].sale = e.key.sale /\ gs[k].lot = e.key.lot}
        gain    == IF backing = {} THEN 0 ELSE gs[Min(backing)].gain
    IN  IF e.key \in SeededKeys(es)
        THEN IF e.amount = SeededAmount(es, e.key) THEN "Ok" ELSE "BadOverride"
        ELSE IF Lesser(gain, 0) <= e.amount /\ e.amount <= Greater(gain, 0)
             THEN "Ok" ELSE "BadOverride"

ValidateTax(gs, es, ctx, e) ==
    IF e.kind = "Move" THEN MoveVerdict(gs, es, ctx, e)
    ELSE IF e.kind = "Pay" THEN PayVerdict(gs, es, ctx, e)
    ELSE IF e.kind = "AmountOverride" THEN OverrideVerdict(gs, es, e)
    ELSE "Ok"

(***************************************************************************)
(* Reserves and reports, per jurisdiction and tax year                     *)
(***************************************************************************)
MovesInto(es, jur, year) ==
    {i \in DOMAIN es : /\ es[i].kind = "Move"
                       /\ es[i].key.jur = jur /\ es[i].key.year = year}
PaysOutOf(es, jur, year) ==
    {i \in DOMAIN es : es[i].kind = "Pay" /\ es[i].jur = jur /\ es[i].year = year}

AmountOf(es, I) == SumFunction([i \in I |-> es[i].amount])

\* Mutant of Reserve: a Move is not looked at when orphans are.
Reserve_PaysOnly(gs, es, ctx, jur, year) ==
    LET entry(moves, pays) ==
            [balance |-> AmountOf(es, moves) - AmountOf(es, pays),
             backless |-> \E i \in pays : Covers(es[i]) \ RealKeys(gs, es, ctx) # {}]
    IN  entry(MovesInto(es, jur, year), PaysOutOf(es, jur, year))

\* A reserve is the money moved in less the money paid out, and is flagged
\* when any of that was for an accrual that is no more.
Reserve(gs, es, ctx, jur, year) ==
    LET entry(moves, pays) ==
            [balance |-> AmountOf(es, moves) - AmountOf(es, pays),
             backless |-> \/ \E i \in moves : es[i].key \notin RealKeys(gs, es, ctx)
                          \/ \E i \in pays : Covers(es[i]) \ RealKeys(gs, es, ctx) # {}]
    IN  entry(MovesInto(es, jur, year), PaysOutOf(es, jur, year))

\* What an accrual adds to the owed totals of both reports.
Owed(a) == IF a.deMinimis \/ a.superseded THEN 0 ELSE ValueOf(a.applied)

\* The worse of two bracket states.
MostDegraded(states) ==
    IF "NoBracketsAvailable" \in states THEN "NoBracketsAvailable"
    ELSE IF "Stale" \in states THEN "Stale" ELSE "Verified"

\* Mutant of QuarterlyCell: superseded and de-minimis accruals are owed too.
QuarterlyCell_CountsAll(gs, accruals, period, jur, year) ==
    LET of == {a \in accruals : /\ a.key.jur = jur /\ a.key.year = year
                                /\ \E k \in DOMAIN gs :
                                      /\ gs[k].sale = a.key.sale /\ gs[k].lot = a.key.lot
                                      /\ QuarterOf(gs[k].saleDate) = period}
        gained(term) == SumFunction([a \in {a \in of : a.term = term} |-> a.gain])
    IN  [longTerm |-> gained("LongTerm"), shortTerm |-> gained("ShortTerm"),
         accrual |-> SumFunction([a \in of |-> ValueOf(a.applied)]),
         brackets |-> MostDegraded({a.brackets : a \in of})]

\* A quarterly cell gathers the accruals of the sales dated in the period; a
\* migration accrual has no sale and is in none.
QuarterlyCell(gs, accruals, period, jur, year) ==
    LET of == {a \in accruals : /\ a.key.jur = jur /\ a.key.year = year
                                /\ \E k \in DOMAIN gs :
                                      /\ gs[k].sale = a.key.sale /\ gs[k].lot = a.key.lot
                                      /\ QuarterOf(gs[k].saleDate) = period}
        gained(term) == SumFunction([a \in {a \in of : a.term = term} |-> a.gain])
    IN  [longTerm |-> gained("LongTerm"), shortTerm |-> gained("ShortTerm"),
         accrual |-> SumFunction([a \in of |-> Owed(a)]),
         brackets |-> MostDegraded({a.brackets : a \in of})]

AnnualRow(es, ctx, accruals, jur, year) ==
    LET of == {a \in accruals : a.key.jur = jur /\ a.key.year = year}
        row(accrued, gain, moved, paid) ==
            [accrued |-> accrued, moved |-> moved, paid |-> paid,
             outstanding |-> accrued - paid, shortfall |-> accrued - moved,
             gain |-> gain,
             rate |-> IF Magnitude(gain) > ctx.deMinimis
                      THEN {RoundHalfEven(accrued * PpmFull, Magnitude(gain))} ELSE {},
             brackets |-> IF of = {} THEN BracketStateFor(ctx, jur)
                          ELSE MostDegraded({a.brackets : a \in of})]
    IN  row(SumFunction([a \in of |-> Owed(a)]), SumFunction([a \in of |-> a.gain]),
            AmountOf(es, MovesInto(es, jur, year)), AmountOf(es, PaysOutOf(es, jur, year)))

(***************************************************************************)
(* The estimate for open lots, as if sold on asOf.  A lot is [acquired,    *)
(* unrealized], the latter an Option.                                      *)
(***************************************************************************)
UnrealizedEstimate(lots, asOf, stamp, ytdSt, ytdLt, ctx) ==
    LET total(K) == SumFunction([k \in K |-> ValueOf(lots[k].unrealized)])
        inTerm(term) == {k \in DOMAIN lots : ClassifyTerm(lots[k].acquired, asOf) = term}
        code == ResolveState(ctx, stamp)
        brackets == MostDegraded({ctx.federal.state,
                        IF code = "" THEN "Verified" ELSE BracketStateFor(ctx, code)})
        degraded == \/ \E k \in DOMAIN lots : lots[k].unrealized = {}
                    \/ brackets = "NoBracketsAvailable"
        pretax == total(DOMAIN lots)
        taxes(jur) ==
            {ValueOf(Increment(Jurisdiction(ctx, jur), ytdSt, ytdLt,
                               total(inTerm("ShortTerm")), total(inTerm("LongTerm"))))}
        combined == {f + s : f \in taxes("Federal"), s \in IF code = "" THEN {0} ELSE taxes(code)}
        bounded == {Greater(0, Lesser(t, AtLeastZero(pretax)))
                       : t \in IF degraded THEN {} ELSE combined}
    IN  [pretax |-> pretax, brackets |-> brackets, tax |-> bounded,
         rate |-> {IF pretax <= 0 THEN 0 ELSE RoundHalfEven(t * PpmFull, pretax) : t \in bounded}]
=============================================================================
