---------------------------- MODULE TaxBookProofs ----------------------------
(***************************************************************************)
(* Theorems of TaxBook.  The type invariant of the book is inductive; what *)
(* the other properties say follows from it, once the gains it realises    *)
(* and the context it resolves are known to be sound, except that the      *)
(* reserve is moved before it is paid, which has an invariant of its own,  *)
(* and that sales never reprice earlier ones, which is of steps.           *)
(***************************************************************************)
EXTENDS TaxBook, LedgerFoldProofs

(***************************************************************************)
(* The types of the book                                                   *)
(***************************************************************************)
\* A put leaves a sound configuration, the one there was or its own.
LEMMA PutKeepsConfig ==
    ASSUME \A data \in cell : cell = {data} /\ SoundConfig(data), ConfigPut
    PROVE  \A data \in cell' : cell' = {data} /\ SoundConfig(data)
<1>1. PICK data \in ReadConfig(cell) :
          PutTaxRules(data) \/ PutResidency(data) \/ PutDeMinimis(data) \/ PutLabels(data)
    BY DEF ConfigPut
<1>2. SoundConfig(data)
    <2>1. SoundConfig(EmptyConfig)
        BY DEF SoundConfig, EmptyConfig, TimelineTyped, TimelineVerdict
    <2> QED
        BY <1>1, <2>1 DEF ReadConfig
<1>3. data = [rules |-> data.rules, deMinimis |-> data.deMinimis,
              residency |-> data.residency, labels |-> data.labels]
    BY <1>2 DEF SoundConfig
<1>4. ASSUME NEW put, SoundConfig(put), Written(put)
      PROVE  \A d \in cell' : cell' = {d} /\ SoundConfig(d)
    BY <1>4 DEF Written
<1>5. CASE PutTaxRules(data)
    <2>1. PICK r \in RuleSets :
              TaxRulesVerdict(r) = "Ok" /\ Written([data EXCEPT !.rules = {s \in @ : s.year # r.year} \cup {r}])
        BY <1>5 DEF PutTaxRules
    <2> DEFINE put == [data EXCEPT !.rules = {s \in @ : s.year # r.year} \cup {r}]
    <2>2. /\ put.rules = {s \in data.rules : s.year # r.year} \cup {r}
          /\ put.deMinimis = data.deMinimis /\ put.residency = data.residency
          /\ put = [rules |-> put.rules, deMinimis |-> put.deMinimis,
                    residency |-> put.residency, labels |-> put.labels]
        BY <1>3
    <2>3. RulesTyped(r)
        BY EntriesAssumption
    <2> HIDE DEF put
    <2>4. SoundConfig(put)
        BY <1>2, <2>1, <2>2, <2>3 DEF SoundConfig
    <2>5. Written(put)
        BY <2>1 DEF put
    <2> QED
        BY <1>4, <2>4, <2>5
<1>6. CASE PutResidency(data)
    <2>1. PICK t \in Timelines : TimelineVerdict(t) = "Ok" /\ Written([data EXCEPT !.residency = t])
        BY <1>6 DEF PutResidency
    <2> DEFINE put == [data EXCEPT !.residency = t]
    <2>2. /\ put.rules = data.rules /\ put.deMinimis = data.deMinimis /\ put.residency = t
          /\ put = [rules |-> put.rules, deMinimis |-> put.deMinimis,
                    residency |-> put.residency, labels |-> put.labels]
        BY <1>3
    <2>3. TimelineTyped(t)
        BY EntriesAssumption
    <2> HIDE DEF put
    <2>4. SoundConfig(put)
        BY <1>2, <2>1, <2>2, <2>3 DEF SoundConfig
    <2>5. Written(put)
        BY <2>1 DEF put
    <2> QED
        BY <1>4, <2>4, <2>5
<1>7. CASE PutDeMinimis(data)
    <2>1. PICK d \in Thresholds : d >= 0 /\ Written([data EXCEPT !.deMinimis = d])
        BY <1>7 DEF PutDeMinimis
    <2> DEFINE put == [data EXCEPT !.deMinimis = d]
    <2>2. /\ put.rules = data.rules /\ put.deMinimis = d /\ put.residency = data.residency
          /\ put = [rules |-> put.rules, deMinimis |-> put.deMinimis,
                    residency |-> put.residency, labels |-> put.labels]
        BY <1>3
    <2>3. d \in Nat
        BY <2>1, EntriesAssumption
    <2> HIDE DEF put
    <2>4. SoundConfig(put)
        BY <1>2, <2>1, <2>2, <2>3 DEF SoundConfig
    <2>5. Written(put)
        BY <2>1 DEF put
    <2> QED
        BY <1>4, <2>4, <2>5
<1>8. CASE PutLabels(data)
    <2>1. PICK l \in LabelSets : Written([data EXCEPT !.labels = l])
        BY <1>8 DEF PutLabels
    <2> DEFINE put == [data EXCEPT !.labels = l]
    <2>2. /\ put.rules = data.rules /\ put.deMinimis = data.deMinimis /\ put.residency = data.residency
          /\ put = [rules |-> put.rules, deMinimis |-> put.deMinimis,
                    residency |-> put.residency, labels |-> put.labels]
        BY <1>3
    <2> HIDE DEF put
    <2>4. SoundConfig(put)
        BY <1>2, <2>1, <2>2 DEF SoundConfig
    <2>5. Written(put)
        BY <2>1 DEF put
    <2> QED
        BY <1>4, <2>4, <2>5
<1> QED
    BY <1>1, <1>5, <1>6, <1>7, <1>8

\* A ledger submit appends a payload or nothing.
LEMMA LedgerStepCases ==
    ASSUME LedgerStep
    PROVE  /\ UNCHANGED <<events, cell>>
           /\ log' = log \/ (Len(log) < MaxEvents /\ \E e \in Payloads : log' = Append(log, e))
BY DEF LedgerStep, Submit, Accept, Reject

\* A tax submit appends a payload that is not in the log and that was validated over
\* the log's own gains, or nothing.
LEMMA TaxStepCases ==
    ASSUME TaxStep
    PROVE  \/ UNCHANGED book
           \/ /\ log' = log /\ cell' = cell
              /\ Len(events) < MaxTaxEvents
              /\ \E e \in TaxPayloads :
                    /\ ValidateTax(RealizedGains(log), events, ContextOf(cell), e) = "Ok"
                    /\ events' = Append(events, e)
BY DEF TaxStep, SkipRetry, AcceptTax, RefuseTax

\* The logs and the cell of the start.
LEMMA BookInitTyped == BookInit => BookTypeOK
<1>1. <<>> \in Seq(TaxPayloads) /\ Len(<<>>) = 0
    BY EmptySeq
<1> QED
    BY <1>1, OpeningLogAssumption, OpeningCellAssumption, MaxTaxEventsAssumption
       DEF BookInit, BookTypeOK, ConfigInit

\* Every operation keeps the types.
LEMMA BookKeepsTypes ==
    ASSUME BookTypeOK, [BookNext]_book
    PROVE  BookTypeOK'
<1> USE DEF BookTypeOK
<1>1. CASE LedgerStep
    <2>1. UNCHANGED <<events, cell>>
        BY <1>1, LedgerStepCases
    <2>2. log' \in Seq(Payloads) /\ Len(log') <= MaxEvents
        <3>1. CASE log' = log
            BY <3>1
        <3>2. ASSUME Len(log) < MaxEvents, NEW e \in Payloads, log' = Append(log, e)
              PROVE  log' \in Seq(Payloads) /\ Len(log') <= MaxEvents
            <4>1. log' \in Seq(Payloads) /\ Len(log') = Len(log) + 1
                BY <3>2, AppendProperties
            <4>2. Len(log) \in Nat
                OBVIOUS
            <4> QED
                BY <3>2, <4>1, <4>2, MaxEventsAssumption
        <3> QED
            BY <1>1, <3>1, <3>2, LedgerStepCases
    <2> QED
        BY <2>1, <2>2
<1>2. CASE TaxStep
    <2>1. CASE UNCHANGED book
        BY <2>1 DEF book
    <2>2. CASE /\ log' = log /\ cell' = cell
               /\ Len(events) < MaxTaxEvents
               /\ \E e \in TaxPayloads : events' = Append(events, e)
        <3>1. PICK e \in TaxPayloads : events' = Append(events, e)
            BY <2>2
        <3>2. events' \in Seq(TaxPayloads) /\ Len(events') = Len(events) + 1 /\ Len(events) \in Nat
            BY <3>1, AppendProperties
        <3> QED
            BY <2>2, <3>2, MaxTaxEventsAssumption
    <2> QED
        BY <1>2, <2>1, <2>2, TaxStepCases
<1>3. CASE ConfigStep
    BY <1>3, PutKeepsConfig DEF ConfigStep
<1>4. CASE UNCHANGED book
    BY <1>4 DEF book
<1> QED
    BY <1>1, <1>2, <1>3, <1>4 DEF BookNext

\* The two logs and the configuration keep their types, whatever is submitted and put.
THEOREM BookTypeCorrect == BookSpec => []BookTypeOK
BY BookInitTyped, BookKeepsTypes, PTL DEF BookSpec

(***************************************************************************)
(* The lifecycle of an accrual                                             *)
(***************************************************************************)
\* A set of positions of a log has a first and a last.
LEMMA FirstAndLast ==
    ASSUME NEW n \in Nat, NEW S \in SUBSET (1..n), S # {}
    PROVE  /\ Min(S) \in S /\ \A i \in S : Min(S) <= i
           /\ Max(S) \in S /\ \A i \in S : i <= Max(S)
<1>0. S \subseteq Nat /\ \A i \in S : n - i \in Nat
    OBVIOUS
<1>1. \E m \in S : \A i \in S : m <= i
    BY <1>0, LeastNumber
<1>2. \E m \in S : \A i \in S : i <= m
    <2> DEFINE T == {n - i : i \in S}
    <2>1. T \subseteq Nat /\ T # {}
        BY <1>0
    <2>2. PICK t \in T : \A u \in T : t <= u
        BY <2>1, LeastNumber
    <2>3. PICK m \in S : t = n - m
        OBVIOUS
    <2>4. \A i \in S : n - m <= n - i
        BY <2>2, <2>3
    <2> QED
        BY <2>4
<1>3. Min(S) \in S /\ \A i \in S : Min(S) <= i
    BY <1>1 DEF Min
<1>4. Max(S) \in S /\ \A i \in S : Max(S) >= i
    <2>1. \E m \in S : \A i \in S : m >= i
        BY <1>2
    <2> QED
        BY <2>1 DEF Max
<1> QED
    BY <1>3, <1>4

\* A payment is accepted when it covers accruals of its own jurisdiction and year,
\* all of them moved and not yet paid.
LEMMA PayCovered ==
    ASSUME NEW gs, NEW es, NEW ctx, NEW e \in TaxPayloads, e.kind = "Pay",
           ValidateTax(gs, es, ctx, e) = "Ok"
    PROVE  \A key \in Covers(e) :
               key.jur = e.jur /\ key.year = e.year /\ LifecycleState(es, key) = "Moved"
<1> DEFINE n == Len(e.covers)
           V == [j \in DOMAIN e.covers |-> CoverVerdict(gs, es, ctx, e, e.covers[j])]
           bad == {j \in DOMAIN e.covers : V[j] # "Ok"}
<1>1. n \in Nat /\ DOMAIN e.covers = 1..n
    BY TaxPayloadsAssumption
<1>2. PayVerdict(gs, es, ctx, e) = IF bad = {} THEN "Ok" ELSE V[Min(bad)]
    <2>1. \A j \in DOMAIN e.covers : V[j] = CoverVerdict(gs, es, ctx, e, e.covers[j])
        OBVIOUS
    <2>2. bad = {j \in DOMAIN e.covers : CoverVerdict(gs, es, ctx, e, e.covers[j]) # "Ok"}
        BY <2>1
    <2>3. bad # {} => Min(bad) \in bad
        BY <1>1, FirstAndLast
    <2>4. bad # {} => V[Min(bad)] = CoverVerdict(gs, es, ctx, e, e.covers[Min(bad)])
        BY <2>1, <2>3
    <2> HIDE DEF bad, V
    <2> QED
        BY <2>2, <2>4 DEF PayVerdict
<1>3. bad = {}
    <2>1. bad # {} => Min(bad) \in bad
        BY <1>1, FirstAndLast
    <2>2. PayVerdict(gs, es, ctx, e) = "Ok"
        BY DEF ValidateTax
    <2> QED
        BY <1>2, <2>1, <2>2
<1>4. ASSUME NEW key \in Covers(e)
      PROVE  key.jur = e.jur /\ key.year = e.year /\ LifecycleState(es, key) = "Moved"
    <2>1. PICK j \in DOMAIN e.covers : key = e.covers[j]
        BY DEF Covers
    <2>2. CoverVerdict(gs, es, ctx, e, key) = "Ok"
        BY <1>3, <2>1
    <2> QED
        BY <2>2 DEF CoverVerdict, ReplayedState
<1> QED
    BY <1>4

\* A key is moved when the last event that advances it is a Move into its reserve.
LEMMA MovedSince ==
    ASSUME NEW es \in Seq(TaxPayloads), NEW key, LifecycleState(es, key) = "Moved"
    PROVE  \E j \in DOMAIN es :
               /\ es[j].kind = "Move" /\ es[j].key = key
               /\ \A m \in (j + 1)..Len(es) : es[m].kind = "Pay" => key \notin Covers(es[m])
<1> DEFINE I == Advances(es, key)
           j == Max(I)
<1>1. Len(es) \in Nat /\ DOMAIN es = 1..Len(es) /\ I \in SUBSET (1..Len(es))
    BY DEF Advances
<1>2. I # {} /\ es[j].kind = "Move"
    BY DEF LifecycleState
<1>3. j \in I /\ \A i \in I : i <= j
    BY <1>1, <1>2, FirstAndLast
<1>4. j \in DOMAIN es /\ es[j].key = key
    BY <1>2, <1>3 DEF Advances, Names
<1>5. ASSUME NEW m \in (j + 1)..Len(es), es[m].kind = "Pay", key \in Covers(es[m]) PROVE FALSE
    <2>1. m \in 1..Len(es) /\ ~(m <= j)
        BY <1>1, <1>4
    <2>2. m \in I
        BY <1>1, <1>5, <2>1 DEF Advances, Names
    <2> QED
        BY <1>3, <2>1, <2>2
<1> HIDE DEF j
<1> QED
    BY <1>2, <1>4, <1>5

\* Every payment of the log covers accruals of its own jurisdiction and year.
CoversMatch(es) ==
    \A i \in DOMAIN es : es[i].kind = "Pay" =>
        \A key \in Covers(es[i]) : key.jur = es[i].jur /\ key.year = es[i].year

\* MovedBeforeEachPay, over any log.
Funded(es) ==
    \A i \in {k \in DOMAIN es : es[k].kind = "Pay"} :
        \A key \in Covers(es[i]) :
            \E j \in 1..(i - 1) :
                /\ es[j].kind = "Move" /\ es[j].key = key
                /\ \A m \in (j + 1)..(i - 1) : es[m].kind = "Pay" => key \notin Covers(es[m])

\* Both stay so with every event that is validated before it is appended.
LEMMA AppendKeepsFunded ==
    ASSUME NEW es \in Seq(TaxPayloads), CoversMatch(es), Funded(es),
           NEW gs, NEW ctx, NEW e \in TaxPayloads, ValidateTax(gs, es, ctx, e) = "Ok"
    PROVE  CoversMatch(Append(es, e)) /\ Funded(Append(es, e))
<1> DEFINE fs == Append(es, e)
           n == Len(es)
<1>1. /\ n \in Nat /\ DOMAIN es = 1..n /\ DOMAIN fs = 1..(n + 1)
      /\ fs[n + 1] = e /\ \A i \in 1..n : fs[i] = es[i]
    BY AppendProperties
<1> HIDE DEF fs
<1>2. e.kind = "Pay" => \A key \in Covers(e) :
          key.jur = e.jur /\ key.year = e.year /\ LifecycleState(es, key) = "Moved"
    BY PayCovered
<1>3. ASSUME NEW i \in DOMAIN fs, fs[i].kind = "Pay", NEW key \in Covers(fs[i])
      PROVE  /\ key.jur = fs[i].jur /\ key.year = fs[i].year
             /\ \E j \in 1..(i - 1) :
                   /\ fs[j].kind = "Move" /\ fs[j].key = key
                   /\ \A m \in (j + 1)..(i - 1) : fs[m].kind = "Pay" => key \notin Covers(fs[m])
    <2>1. CASE i = n + 1
        <3>1. fs[i] = e /\ LifecycleState(es, key) = "Moved" /\ key.jur = fs[i].jur /\ key.year = fs[i].year
            BY <1>1, <1>2, <1>3, <2>1
        <3>2. PICK j \in DOMAIN es :
                  /\ es[j].kind = "Move" /\ es[j].key = key
                  /\ \A m \in (j + 1)..n : es[m].kind = "Pay" => key \notin Covers(es[m])
            BY <3>1, MovedSince
        <3>3. j \in 1..(i - 1) /\ fs[j] = es[j] /\ i - 1 = n
            BY <1>1, <2>1, <3>2
        <3>4. \A m \in (j + 1)..n : fs[m] = es[m]
            BY <1>1, <3>3
        <3>5. \A m \in (j + 1)..(i - 1) : fs[m].kind = "Pay" => key \notin Covers(fs[m])
            BY <3>2, <3>3, <3>4
        <3> QED
            BY <3>1, <3>2, <3>3, <3>5
    <2>2. CASE i # n + 1
        <3>1. i \in 1..n /\ fs[i] = es[i]
            BY <1>1, <2>2
        <3>2. key.jur = fs[i].jur /\ key.year = fs[i].year
            BY <1>1, <1>3, <3>1 DEF CoversMatch
        <3>3. PICK j \in 1..(i - 1) :
                  /\ es[j].kind = "Move" /\ es[j].key = key
                  /\ \A m \in (j + 1)..(i - 1) : es[m].kind = "Pay" => key \notin Covers(es[m])
            BY <1>1, <1>3, <3>1 DEF Funded
        <3>4. fs[j] = es[j] /\ \A m \in (j + 1)..(i - 1) : fs[m] = es[m]
            BY <1>1, <3>1
        <3>5. \A m \in (j + 1)..(i - 1) : fs[m].kind = "Pay" => key \notin Covers(fs[m])
            BY <3>3, <3>4
        <3> QED
            BY <3>2, <3>3, <3>4, <3>5
    <2> QED
        BY <2>1, <2>2
<1>4. CoversMatch(fs)
    BY <1>3 DEF CoversMatch
<1>5. Funded(fs)
    BY <1>3 DEF Funded
<1> QED
    BY <1>4, <1>5 DEF fs

\* The log is funded and its payments match, after every step of the book.
LEMMA PaysStaySound == BookSpec => [](CoversMatch(events) /\ Funded(events))
<1>1. BookInit => CoversMatch(events) /\ Funded(events)
    BY DEF BookInit, CoversMatch, Funded
<1>2. BookTypeOK /\ CoversMatch(events) /\ Funded(events) /\ [BookNext]_book
          => (CoversMatch(events) /\ Funded(events))'
    <2> SUFFICES ASSUME BookTypeOK, CoversMatch(events), Funded(events), [BookNext]_book
                 PROVE  CoversMatch(events') /\ Funded(events')
        OBVIOUS
    <2>1. CASE events' = events
        BY <2>1
    <2>2. CASE TaxStep
        <3>1. ASSUME NEW e \in TaxPayloads,
                     ValidateTax(RealizedGains(log), events, ContextOf(cell), e) = "Ok",
                     events' = Append(events, e)
              PROVE  CoversMatch(events') /\ Funded(events')
            <4>1. events \in Seq(TaxPayloads)
                BY DEF BookTypeOK
            <4>2. CoversMatch(Append(events, e)) /\ Funded(Append(events, e))
                BY <3>1, <4>1, AppendKeepsFunded
            <4> QED
                BY <3>1, <4>2
        <3>2. UNCHANGED book => events' = events
            BY DEF book
        <3> QED
            BY <2>1, <2>2, <3>1, <3>2, TaxStepCases
    <2>3. TaxStep \/ events' = events
        BY DEF BookNext, LedgerStep, ConfigStep, book
    <2> QED
        BY <2>1, <2>2, <2>3
<1> QED
    BY <1>1, <1>2, BookTypeCorrect, PTL DEF BookSpec

\* Money goes out of a reserve only after money was put aside in it for the very
\* accrual, and since its last payment.
THEOREM FundedBeforePaid == BookSpec => []MovedBeforeEachPay
<1>1. Funded(events) => MovedBeforeEachPay
    BY DEF Funded, MovedBeforeEachPay
<1> QED
    BY <1>1, PaysStaySound, PTL

(***************************************************************************)
(* Reserves and warnings                                                   *)
(***************************************************************************)
\* A warning names an event and one of its keys that is not real.
LEMMA WarningNames ==
    ASSUME NEW gs, NEW es, NEW ctx, NEW w \in OrphanWarnings(gs, es, ctx)
    PROVE  \E i \in DOMAIN es :
               /\ w.kind = es[i].kind /\ w.key \notin RealKeys(gs, es, ctx)
               /\ es[i].kind = "Move" => w.key = es[i].key
               /\ es[i].kind = "Pay" => w.key \in Covers(es[i])
<1> DEFINE named(e) == IF e.kind = "SeedMigration" THEN {}
                       ELSE IF e.kind = "Pay" THEN Covers(e) ELSE {e.key}
<1>1. PICK i \in DOMAIN es :
          w \in {[seq |-> i, key |-> key, kind |-> es[i].kind] : key \in named(es[i]) \ RealKeys(gs, es, ctx)}
    BY DEF OrphanWarnings
<1>2. PICK key \in named(es[i]) \ RealKeys(gs, es, ctx) : w = [seq |-> i, key |-> key, kind |-> es[i].kind]
    BY <1>1
<1>3. w.key = key /\ w.kind = es[i].kind
    BY <1>2
<1> QED
    BY <1>2, <1>3

\* Every key of a Move or a Pay that is not real is warned of.
LEMMA OrphansAreWarned ==
    ASSUME NEW gs, NEW es, NEW ctx, NEW i \in DOMAIN es, NEW key, key \notin RealKeys(gs, es, ctx),
           \/ es[i].kind = "Move" /\ key = es[i].key
           \/ es[i].kind = "Pay" /\ key \in Covers(es[i])
    PROVE  \E w \in OrphanWarnings(gs, es, ctx) : w.kind = es[i].kind /\ w.key = key
<1> DEFINE named(e) == IF e.kind = "SeedMigration" THEN {}
                       ELSE IF e.kind = "Pay" THEN Covers(e) ELSE {e.key}
           w == [seq |-> i, key |-> key, kind |-> es[i].kind]
<1>1. key \in named(es[i]) \ RealKeys(gs, es, ctx)
    OBVIOUS
<1>2. w \in {[seq |-> i, key |-> k, kind |-> es[i].kind] : k \in named(es[i]) \ RealKeys(gs, es, ctx)}
    BY <1>1
<1>3. w \in OrphanWarnings(gs, es, ctx)
    BY <1>2 DEF OrphanWarnings
<1>4. w.key = key /\ w.kind = es[i].kind
    OBVIOUS
<1> QED
    BY <1>3, <1>4

\* A reserve counts an orphan exactly when one of its events is warned of, in a log
\* whose payments cover keys of their own reserve.
LEMMA BacklessIsWarned ==
    ASSUME NEW gs, NEW es, NEW ctx, CoversMatch(es), NEW jur, NEW year
    PROVE  Reserve(gs, es, ctx, jur, year).backless <=>
               \E w \in OrphanWarnings(gs, es, ctx) :
                   w.kind \in {"Move", "Pay"} /\ w.key.jur = jur /\ w.key.year = year
<1> DEFINE real == RealKeys(gs, es, ctx)
           moved == \E i \in MovesInto(es, jur, year) : es[i].key \notin real
           paid == \E i \in PaysOutOf(es, jur, year) : Covers(es[i]) \ real # {}
           warned == \E w \in OrphanWarnings(gs, es, ctx) :
                         w.kind \in {"Move", "Pay"} /\ w.key.jur = jur /\ w.key.year = year
<1>1. Reserve(gs, es, ctx, jur, year).backless = (moved \/ paid)
    BY DEF Reserve
<1>2. moved => warned
    <2> SUFFICES ASSUME NEW i \in MovesInto(es, jur, year), es[i].key \notin real PROVE warned
        OBVIOUS
    <2>1. i \in DOMAIN es /\ es[i].kind = "Move" /\ es[i].key.jur = jur /\ es[i].key.year = year
        BY DEF MovesInto
    <2> HIDE DEF real
    <2> QED
        BY <2>1, OrphansAreWarned DEF real
<1>3. paid => warned
    <2> SUFFICES ASSUME NEW i \in PaysOutOf(es, jur, year), NEW key \in Covers(es[i]) \ real PROVE warned
        OBVIOUS
    <2>1. i \in DOMAIN es /\ es[i].kind = "Pay" /\ es[i].jur = jur /\ es[i].year = year
        BY DEF PaysOutOf
    <2>2. key.jur = jur /\ key.year = year
        BY <2>1 DEF CoversMatch
    <2> QED
        BY <2>1, <2>2, OrphansAreWarned
<1>4. warned => moved \/ paid
    <2> SUFFICES ASSUME NEW w \in OrphanWarnings(gs, es, ctx), w.kind \in {"Move", "Pay"},
                        w.key.jur = jur, w.key.year = year
                 PROVE  moved \/ paid
        OBVIOUS
    <2>1. PICK i \in DOMAIN es :
              /\ w.kind = es[i].kind /\ w.key \notin real
              /\ es[i].kind = "Move" => w.key = es[i].key
              /\ es[i].kind = "Pay" => w.key \in Covers(es[i])
        BY WarningNames
    <2>2. CASE es[i].kind = "Move"
        <3>1. i \in MovesInto(es, jur, year)
            BY <2>1, <2>2 DEF MovesInto
        <3> QED
            BY <2>1, <2>2, <3>1
    <2>3. CASE es[i].kind = "Pay"
        <3>1. i \in PaysOutOf(es, jur, year)
            BY <2>1, <2>3 DEF PaysOutOf, CoversMatch
        <3> QED
            BY <2>1, <2>3, <3>1
    <2> QED
        BY <2>1, <2>2, <2>3
<1> QED
    BY <1>1, <1>2, <1>3, <1>4

\* No reserve rests silently on a sale that was reversed, and none is flagged without
\* a warning that says why.
THEOREM BacklessIsSignalled == BookSpec => []BacklessIffWarned
<1>1. CoversMatch(events) => BacklessIffWarned
    BY BacklessIsWarned DEF BacklessIffWarned
<1> QED
    BY <1>1, PaysStaySound, PTL

(***************************************************************************)
(* The realized gains, as tax reads them                                   *)
(***************************************************************************)
\* The gains of a fold state are dated by their sales, events 1..n of l.
SalesDated(l, st, n) ==
    \A g \in DOMAIN st.gains :
        st.gains[g].sale \in 1..n /\ st.gains[g].saleDate = l[st.gains[g].sale].date

\* Whatever is reversed, a realized gain is of an event of the log, and of its date.
LEMMA EveryGainIsDated ==
    ASSUME NEW l \in Seq(Payloads)
    PROVE  \A n \in 0..Len(l) : SalesDated(l, FoldSteps(l)[n], n)
<1> DEFINE m == Len(l)
           F == FoldSteps(l)
           P == {n \in Nat : n <= m => SalesDated(l, F[n], n)}
<1>1. m \in Nat
    OBVIOUS
<1> HIDE DEF m
<1>3. 0 \in P
    <2>1. F[0] = EmptyFold /\ DOMAIN EmptyFold.gains = {}
        BY <1>1, FoldEquations DEF EmptyFold, m
    <2> QED
        BY <2>1 DEF SalesDated
<1>4. ASSUME NEW n \in Nat, n \in P PROVE n + 1 \in P
    <2> DEFINE seq == n + 1
               st == F[n]
               x == F[seq]
               e == l[seq]
    <2> SUFFICES ASSUME seq <= m PROVE SalesDated(l, x, seq)
        OBVIOUS
    <2>1. seq \in 1..m /\ seq - 1 = n /\ SalesDated(l, st, n) /\ n < seq /\ seq \in Nat
        BY <1>1, <1>4
    <2> HIDE DEF P
    <2>2. FoldOK(st, n) /\ FoldOK(x, seq)
          /\ (seq \in Survivors(l) => e \in Payloads /\ e.kind # "Reversal" /\ EventDone(st, seq, e, x))
          /\ (seq \notin Survivors(l) => x = st)
        BY <2>1, StepDone DEF m
    <2>3. e = l[seq]
        OBVIOUS
    <2> HIDE DEF F, st, x, e, seq
    <2>4. \A g \in DOMAIN st.gains :
              st.gains[g].sale \in 1..seq /\ st.gains[g].saleDate = l[st.gains[g].sale].date
        <3>1. \A i \in 1..n : i \in 1..seq
            BY <2>1
        <3> QED
            BY <2>1, <3>1 DEF SalesDated
    <2>5. CASE seq \notin Survivors(l)
        BY <2>2, <2>4, <2>5 DEF SalesDated
    <2>6. CASE seq \in Survivors(l)
        <3>1. GrowsTo(st, seq, e, x)
            BY <2>2, <2>6, GainsGrow
        <3>2. DOMAIN st.gains = 1..Len(st.gains) /\ DOMAIN x.gains = 1..Len(x.gains)
            BY <2>2, FoldTypes
        <3>3. seq \in 1..seq
            BY <2>1
        <3>4. ASSUME NEW g \in DOMAIN x.gains
              PROVE  x.gains[g].sale \in 1..seq /\ x.gains[g].saleDate = l[x.gains[g].sale].date
            <4>1. CASE g \in 1..Len(st.gains)
                BY <2>4, <3>1, <3>2, <4>1 DEF GrowsTo
            <4>2. CASE g \notin 1..Len(st.gains)
                BY <2>3, <3>1, <3>2, <3>3, <4>2 DEF GrowsTo
            <4> QED
                BY <4>1, <4>2
        <3> QED
            BY <3>4 DEF SalesDated
    <2> QED
        BY <2>5, <2>6
<1>5. \A n \in 0..m : n \in P
    <2> HIDE DEF P
    <2> QED
        BY <1>3, <1>4, NumberInduction
<1> QED
    BY <1>5, <1>1 DEF m

\* A finite sequence of gains, each of a sale of its own date.
GainsTyped(gs) ==
    /\ IsFiniteSet(DOMAIN gs) /\ DOMAIN gs \subseteq Nat
    /\ \A k \in DOMAIN gs :
           /\ gs[k].sale \in Nat \ {0} /\ gs[k].gain \in Int
           /\ gs[k].saleDate \in Int /\ gs[k].acquired \in Int
    /\ \A h, k \in DOMAIN gs :
           gs[h].sale = gs[k].sale => gs[h].saleDate = gs[k].saleDate /\ gs[h].stamp = gs[k].stamp

\* The gains a log replays to are such a sequence.
LEMMA GainFacts ==
    ASSUME NEW l \in Seq(Payloads)
    PROVE  GainsTyped(RealizedGains(l))
<1> DEFINE st == Replay(l)
           gs == RealizedGains(l)
           n == Len(l)
<1>1. n \in Nat /\ n \in 0..n
    OBVIOUS
<1>2. FoldOK(st, n) /\ SalesDated(l, st, n)
    BY <1>1, EveryStepOK, EveryGainIsDated DEF Replay
<1>3. /\ Len(st.gains) \in Nat /\ DOMAIN st.gains = 1..Len(st.gains) /\ st.gains \in Seq(GainRecords)
    BY <1>2, FoldTypes
<1>4. gs = [k \in DOMAIN st.gains |->
                [sale |-> st.gains[k].sale, lot |-> st.gains[k].lot,
                 acquired |-> st.gains[k].acquired, saleDate |-> st.gains[k].saleDate,
                 gain |-> st.gains[k].proceeds - st.gains[k].basis,
                 stamp |-> l[st.gains[k].sale].stamp]]
    BY DEF RealizedGains
<1> HIDE DEF st, gs, n
<1>5. IsFiniteSet(DOMAIN gs) /\ DOMAIN gs \subseteq Nat /\ DOMAIN gs = DOMAIN st.gains
    BY <1>3, <1>4, FS_Interval
<1>6. \A k \in DOMAIN gs : /\ gs[k].sale = st.gains[k].sale /\ gs[k].acquired = st.gains[k].acquired
                           /\ gs[k].saleDate = st.gains[k].saleDate
                           /\ gs[k].gain = st.gains[k].proceeds - st.gains[k].basis
                           /\ gs[k].stamp = l[st.gains[k].sale].stamp
    BY <1>4
<1>7. ASSUME NEW k \in DOMAIN gs
      PROVE  /\ gs[k].sale \in Nat \ {0} /\ gs[k].gain \in Int
             /\ gs[k].saleDate \in Int /\ gs[k].acquired \in Int
             /\ gs[k].saleDate = l[gs[k].sale].date /\ gs[k].stamp = l[gs[k].sale].stamp
    <2>1. st.gains[k] \in GainRecords
        BY <1>3, <1>5, ElementOfSeq
    <2>2. /\ st.gains[k].sale \in Nat /\ st.gains[k].proceeds \in Int /\ st.gains[k].basis \in Int
          /\ st.gains[k].saleDate \in Int /\ st.gains[k].acquired \in Int
        BY <2>1 DEF GainRecords
    <2>3. st.gains[k].sale \in 1..n /\ st.gains[k].saleDate = l[st.gains[k].sale].date
        BY <1>2, <1>5 DEF SalesDated
    <2>4. st.gains[k].sale \in Nat \ {0}
        BY <1>1, <2>3
    <2> QED
        BY <1>6, <2>2, <2>3, <2>4
<1>8. ASSUME NEW h \in DOMAIN gs, NEW k \in DOMAIN gs, gs[h].sale = gs[k].sale
      PROVE  gs[h].saleDate = gs[k].saleDate /\ gs[h].stamp = gs[k].stamp
    BY <1>7, <1>8
<1> QED
    BY <1>5, <1>7, <1>8 DEF GainsTyped, gs

(***************************************************************************)
(* The stacking order                                                      *)
(***************************************************************************)
\* What a set of gains adds up to depends on those gains only.
LEMMA TermTotalSame ==
    ASSUME NEW gs, NEW hs, NEW K, \A k \in K : gs[k] = hs[k], NEW term
    PROVE  TermTotal(gs, K, term) = TermTotal(hs, K, term)
<1> DEFINE G == {k \in K : TermOf(gs[k]) = term}
           H == {k \in K : TermOf(hs[k]) = term}
<1>1. G = H /\ \A k \in G : gs[k].gain = hs[k].gain
    OBVIOUS
<1> HIDE DEF G, H
<1>2. [k \in G |-> gs[k].gain] = [k \in H |-> hs[k].gain]
    BY <1>1
<1> QED
    BY <1>2 DEF TermTotal, G, H

\* The increment of a gain is the same over the gains dated up to it.
LEMMA IncrementOfPast ==
    ASSUME NEW gs, GainsTyped(gs), NEW ctx, NEW jur, NEW k \in DOMAIN gs
    PROVE  DerivedIncrement(Restrict(gs, {h \in DOMAIN gs : gs[h].saleDate <= gs[k].saleDate}), ctx, jur, k)
               = DerivedIncrement(gs, ctx, jur, k)
<1> DEFINE S == {h \in DOMAIN gs : gs[h].saleDate <= gs[k].saleDate}
           past == Restrict(gs, S)
           A == {h \in AccruingTo(gs, ctx, jur) : Earlier(gs, h, k)}
           B == {h \in AccruingTo(past, ctx, jur) : Earlier(past, h, k)}
<1>1. \A h \in DOMAIN gs : gs[h].saleDate \in Int /\ gs[h].sale \in Int
    BY DEF GainsTyped
<1>2. k \in S /\ S \subseteq DOMAIN gs
    BY <1>1
<1>3. DOMAIN past = S /\ \A h \in S : past[h] = gs[h]
    BY DEF Restrict
<1>4. \A h \in DOMAIN gs : Earlier(gs, h, k) => h \in S
    BY <1>1 DEF Earlier
<1> HIDE DEF S, past
<1>5. \A h \in S : Earlier(past, h, k) <=> Earlier(gs, h, k)
    BY <1>2, <1>3 DEF Earlier
<1>6. A = B
    <2>1. \A h : h \in A <=> h \in S /\ h \in AccruingTo(gs, ctx, jur) /\ Earlier(gs, h, k)
        BY <1>4 DEF AccruingTo
    <2>2. \A h : h \in AccruingTo(past, ctx, jur) <=> h \in S /\ h \in AccruingTo(gs, ctx, jur)
        BY <1>2, <1>3 DEF AccruingTo
    <2>3. \A h : h \in B <=> h \in S /\ h \in AccruingTo(gs, ctx, jur) /\ Earlier(gs, h, k)
        BY <1>5, <2>2
    <2> QED
        BY <2>1, <2>3
<1>7. \A h \in A : past[h] = gs[h]
    BY <1>3, <1>4, <1>6 DEF AccruingTo
<1> HIDE DEF A
<1>8. \A term : TermTotal(past, A, term) = TermTotal(gs, A, term)
    BY <1>7, TermTotalSame
<1>9. past[k] = gs[k]
    BY <1>2, <1>3
<1>10. DerivedIncrement(past, ctx, jur, k)
          = Increment(Jurisdiction(ctx, jur), TermTotal(past, A, "ShortTerm"), TermTotal(past, A, "LongTerm"),
                      IF TermOf(past[k]) = "ShortTerm" THEN past[k].gain ELSE 0,
                      IF TermOf(past[k]) = "LongTerm" THEN past[k].gain ELSE 0)
    BY <1>6 DEF DerivedIncrement
<1>11. DerivedIncrement(gs, ctx, jur, k)
          = Increment(Jurisdiction(ctx, jur), TermTotal(gs, A, "ShortTerm"), TermTotal(gs, A, "LongTerm"),
                      IF TermOf(gs[k]) = "ShortTerm" THEN gs[k].gain ELSE 0,
                      IF TermOf(gs[k]) = "LongTerm" THEN gs[k].gain ELSE 0)
    BY DEF DerivedIncrement, A
<1>12. DerivedIncrement(past, ctx, jur, k) = DerivedIncrement(gs, ctx, jur, k)
    BY <1>8, <1>9, <1>10, <1>11
<1> QED
    BY <1>12 DEF past, S

\* Whatever is recorded later of later dates, what a gain accrues stays the same.
THEOREM LaterSalesAreHarmless == BookSpec => []LaterSalesNeverReprice
<1>1. BookTypeOK => LaterSalesNeverReprice
    <2> SUFFICES ASSUME BookTypeOK PROVE LaterSalesNeverReprice
        OBVIOUS
    <2> DEFINE gs == RealizedGains(log)
    <2>1. GainsTyped(gs)
        BY GainFacts DEF BookTypeOK
    <2> HIDE DEF gs
    <2>2. \A ctx, jur : \A k \in DOMAIN gs :
              DerivedIncrement(Restrict(gs, {h \in DOMAIN gs : gs[h].saleDate <= gs[k].saleDate}), ctx, jur, k)
                  = DerivedIncrement(gs, ctx, jur, k)
        BY <2>1, IncrementOfPast
    <2> QED
        BY <2>2 DEF LaterSalesNeverReprice, gs
<1> QED
    BY <1>1, BookTypeCorrect, PTL

(***************************************************************************)
(* The resolved context                                                    *)
(***************************************************************************)
BracketRows == [lower : Int, rate : Int]

\* The fields of a resolved jurisdiction have their types.
JurisdictionTyped(j) ==
    /\ j.ordinary \in Seq(BracketRows) /\ j.longTerm \in Seq(BracketRows)
    /\ j.niit.rate \in Int /\ j.niit.threshold \in Int /\ j.income \in Int

\* All that a context knows is of one year of rules, and a code names one of them.
ContextTyped(ctx) ==
    /\ ctx.federal.jur = "Federal"
    /\ \A j \in ctx.states \cup {ctx.federal} : JurisdictionTyped(j) /\ j.state = ctx.federal.state
    /\ \A i, j \in ctx.states \cup {ctx.federal} : i.jur = j.jur => i = j
    /\ ctx.deMinimis \in Nat

\* The year of a day is a year.
LEMMA YearIsInt == ASSUME NEW d \in Int PROVE YearOf(d) \in Int
BY DEF YearOf, CivilFromDays

\* Of the rules up to a year one set is the newest.
LEMMA NewestRules ==
    ASSUME NEW K, \A r \in K : r.year \in Int, NEW year \in Int, \A r \in K : r.year <= year, K # {}
    PROVE  LET newest == CHOOSE r \in K : \A s \in K : s.year <= r.year
           IN  newest \in K /\ \A s \in K : s.year <= newest.year
<1> DEFINE T == {year - r.year : r \in K}
<1>1. T \subseteq Nat /\ T # {}
    OBVIOUS
<1>2. PICK t \in T : \A u \in T : t <= u
    BY <1>1, LeastNumber
<1>3. PICK r \in K : t = year - r.year
    OBVIOUS
<1>4. \A s \in K : s.year <= r.year
    <2> SUFFICES ASSUME NEW s \in K PROVE s.year <= r.year
        OBVIOUS
    <2>1. t <= year - s.year
        BY <1>2
    <2> QED
        BY <1>3, <2>1
<1> QED
    BY <1>4

\* Nothing is configured in the migration context.
LEMMA MigrationTyped ==
    ASSUME NEW ctx, ctx.federal = Unconfigured("Federal"), ctx.states = {}, ctx.deMinimis \in Nat
    PROVE  ContextTyped(ctx)
<1>1. JurisdictionTyped(Unconfigured("Federal"))
    BY EmptySeq DEF JurisdictionTyped, Unconfigured
<1>2. Unconfigured("Federal").jur = "Federal"
    BY DEF Unconfigured
<1> QED
    BY <1>1, <1>2 DEF ContextTyped

\* The context of a configured year is typed by the validation of its rules.
LEMMA RulesContext ==
    ASSUME NEW ctx, NEW rules, RulesTyped(rules), NEW state, NEW income,
           ctx.federal = [jur |-> "Federal", ordinary |-> rules.ordinary.rows,
                          longTerm |-> rules.longTerm.rows, niit |-> rules.niit,
                          income |-> rules.income, state |-> state],
           ctx.states = {[jur |-> s.code, ordinary |-> s.set.rows, longTerm |-> <<>>,
                          niit |-> [rate |-> 0, threshold |-> 0],
                          income |-> rules.income, state |-> state] : s \in rules.states},
           ctx.deMinimis \in Nat
    PROVE  ContextTyped(ctx)
<1>1. /\ rules.income \in Int /\ rules.niit.rate \in Int /\ rules.niit.threshold \in Int
      /\ \A set \in {rules.ordinary, rules.longTerm} \cup {s.set : s \in rules.states} :
             set.rows \in Seq(BracketRows)
      /\ \A s, t \in rules.states : s.code # "Federal" /\ (s.code = t.code => s = t)
    BY DEF RulesTyped, BracketRows
<1>2. rules.ordinary.rows \in Seq(BracketRows) /\ rules.longTerm.rows \in Seq(BracketRows)
    BY <1>1
<1>3. <<>> \in Seq(BracketRows)
    BY EmptySeq
<1>4. JurisdictionTyped(ctx.federal) /\ ctx.federal.jur = "Federal" /\ ctx.federal.state = state
    BY <1>1, <1>2 DEF JurisdictionTyped
<1>5. ASSUME NEW j \in ctx.states
      PROVE  /\ JurisdictionTyped(j) /\ j.state = state
             /\ \E s \in rules.states : j = [jur |-> s.code, ordinary |-> s.set.rows, longTerm |-> <<>>,
                                             niit |-> [rate |-> 0, threshold |-> 0],
                                             income |-> rules.income, state |-> state]
    <2>1. PICK s \in rules.states :
              j = [jur |-> s.code, ordinary |-> s.set.rows, longTerm |-> <<>>,
                   niit |-> [rate |-> 0, threshold |-> 0],
                   income |-> rules.income, state |-> state]
        OBVIOUS
    <2>2. s.set.rows \in Seq(BracketRows)
        BY <1>1
    <2>3. JurisdictionTyped(j)
        BY <1>1, <1>3, <2>1, <2>2 DEF JurisdictionTyped
    <2> QED
        BY <2>1, <2>3
<1>6. ASSUME NEW i \in ctx.states, NEW j \in ctx.states, i.jur = j.jur PROVE i = j
    BY <1>1, <1>5, <1>6
<1>7. \A j \in ctx.states : j.jur # "Federal"
    BY <1>1, <1>5
<1> QED
    BY <1>4, <1>5, <1>6, <1>7 DEF ContextTyped

\* The context of a sound cell is typed.
LEMMA ContextFacts ==
    ASSUME NEW c, \A data \in c : c = {data} /\ SoundConfig(data)
    PROVE  ContextTyped(ContextOf(c))
<1>1. Year \in Int
    BY TodayAssumption, YearIsInt DEF Year
<1>2. CASE ReadConfig(c) = {}
    <2>1. ContextOf(c) = MigrationContext(Year)
        BY <1>2 DEF ContextOf
    <2> QED
        BY <2>1, MigrationTyped DEF MigrationContext
<1>3. CASE ReadConfig(c) # {}
    <2> DEFINE data == CHOOSE d \in ReadConfig(c) : TRUE
    <2>1. data \in ReadConfig(c)
        BY <1>3
    <2> HIDE DEF data
    <2>2. SoundConfig(data)
        <3>1. SoundConfig(EmptyConfig)
            BY DEF SoundConfig, EmptyConfig, TimelineTyped, TimelineVerdict
        <3> QED
            BY <2>1, <3>1 DEF ReadConfig
    <2>3. ContextOf(c) = ContextFromConfig(data, Year, Today)
        BY <1>3 DEF ContextOf, data
    <2> DEFINE known == {r \in data.rules : r.year <= Year}
               newest == CHOOSE r \in known : \A s \in known : s.year <= r.year
               ctx == ContextFromConfig(data, Year, Today)
    <2>4. CASE known = {}
        <3>1. ctx = [MigrationContext(Year) EXCEPT !.deMinimis = data.deMinimis,
                                                   !.residency = ResidencyOn(data.residency, Today)]
            BY <2>4 DEF ContextFromConfig
        <3>2. /\ ctx.federal = Unconfigured("Federal") /\ ctx.states = {}
              /\ ctx.deMinimis = data.deMinimis
            BY <3>1 DEF MigrationContext
        <3>3. data.deMinimis \in Nat
            BY <2>2 DEF SoundConfig
        <3> QED
            BY <2>3, <3>2, <3>3, MigrationTyped
    <2>5. CASE known # {}
        <3>1. \A r \in known : r.year \in Int /\ r.year <= Year /\ RulesTyped(r)
            BY <2>2 DEF SoundConfig, RulesTyped
        <3>2. newest \in known
            BY <1>1, <2>5, <3>1, NewestRules
        <3>3. RulesTyped(newest) /\ data.deMinimis \in Nat
            BY <2>2, <3>1, <3>2 DEF SoundConfig
        <3> DEFINE state == IF newest.year = Year THEN "Verified" ELSE "Stale"
        <3>4. /\ ctx.federal = [jur |-> "Federal", ordinary |-> newest.ordinary.rows,
                                longTerm |-> newest.longTerm.rows, niit |-> newest.niit,
                                income |-> newest.income, state |-> state]
              /\ ctx.states = {[jur |-> s.code, ordinary |-> s.set.rows, longTerm |-> <<>>,
                                niit |-> [rate |-> 0, threshold |-> 0],
                                income |-> newest.income, state |-> state] : s \in newest.states}
              /\ ctx.deMinimis = data.deMinimis
            BY <2>5 DEF ContextFromConfig
        <3> HIDE DEF newest, state, ctx
        <3>5. ContextTyped(ctx)
            BY <3>3, <3>4, RulesContext
        <3> QED
            BY <2>3, <3>5 DEF ctx
    <2> QED
        BY <2>4, <2>5
<1> QED
    BY <1>2, <1>3

(***************************************************************************)
(* The tax on a year's gains                                               *)
(***************************************************************************)
\* A rate applied to an amount is an amount, and nothing of nothing.
LEMMA RateFacts ==
    ASSUME NEW a \in Int, NEW r \in Int
    PROVE  ApplyRate(a, r) \in Int /\ (a = 0 => ApplyRate(a, r) = 0)
<1>1. PpmFull \in Int /\ PpmFull > 0
    BY PpmFullAssumption
<1>2. a * r \in Int /\ (a = 0 => a * r = 0)
    OBVIOUS
<1>3. RoundHalfEven(a * r, PpmFull) \in Int
    BY <1>1, <1>2, RoundsToNearest
<1>4. RoundHalfEven(0, PpmFull) = 0
    <2>1. RoundHalfEven(0, PpmFull) \in Int
        BY <1>1, RoundsToNearest
    <2>2. 0 <= RoundHalfEven(0, PpmFull) /\ RoundHalfEven(0, PpmFull) <= 0
        BY <1>1, RoundsWithin
    <2> QED
        BY <2>1, <2>2
<1> QED
    BY <1>2, <1>3, <1>4 DEF ApplyRate

\* So is the tax of a set of brackets.
LEMMA BracketFacts ==
    ASSUME NEW rows \in Seq(BracketRows), NEW base \in Int, NEW amount \in Int
    PROVE  /\ BracketTaxOn(rows, base, amount) \in Int
           /\ amount = 0 => BracketTaxOn(rows, base, amount) = 0
<1> DEFINE top == base + amount
           end(i) == IF i < Len(rows) THEN Lesser(rows[i + 1].lower, top) ELSE top
           share(i) == AtLeastZero(end(i) - Greater(base, rows[i].lower))
           f == [i \in DOMAIN rows |-> ApplyRate(share(i), rows[i].rate)]
<1>1. Len(rows) \in Nat /\ DOMAIN rows = 1..Len(rows)
    OBVIOUS
<1>2. \A i \in 1..Len(rows) : rows[i].lower \in Int /\ rows[i].rate \in Int
    <2>1. \A i \in 1..Len(rows) : rows[i] \in BracketRows
        BY ElementOfSeq
    <2> QED
        BY <2>1 DEF BracketRows
<1>3. top \in Int /\ (amount = 0 => top = base)
    OBVIOUS
<1>4. ASSUME NEW i \in DOMAIN rows
      PROVE  share(i) \in Int /\ (amount = 0 => share(i) = 0)
    <2>1. i \in 1..Len(rows) /\ (i < Len(rows) => i + 1 \in 1..Len(rows))
        BY <1>1
    <2>2. end(i) \in Int /\ end(i) <= top
        BY <1>2, <1>3, <2>1 DEF Lesser
    <2>3. Greater(base, rows[i].lower) \in Int /\ base <= Greater(base, rows[i].lower)
        BY <1>2, <2>1 DEF Greater
    <2> HIDE DEF end, top
    <2> QED
        BY <1>3, <2>2, <2>3 DEF AtLeastZero
<1> HIDE DEF share
<1>5. \A i \in DOMAIN rows : f[i] \in Int /\ (amount = 0 => f[i] = 0)
    BY <1>1, <1>2, <1>4, RateFacts
<1>6. IsFiniteSet(DOMAIN rows) /\ DOMAIN f = DOMAIN rows
    BY <1>1, FS_Interval
<1>7. BracketTaxOn(rows, base, amount) = SumFunctionOnSet(f, DOMAIN rows)
    BY <1>6 DEF BracketTaxOn, SumFunction, share
<1> HIDE DEF f
<1> QED
    BY <1>5, <1>6, <1>7, SumIsInt, SumOfZeros

\* And the tax of a jurisdiction.
LEMMA TaxFacts ==
    ASSUME NEW j, JurisdictionTyped(j), NEW st \in Int, NEW lt \in Int
    PROVE  TaxOn(j, st, lt) \in Int /\ TaxOn(j, 0, 0) = 0
<1> USE DEF JurisdictionTyped
<1>1. \A x \in Int : AtLeastZero(x) \in Nat
    BY DEF AtLeastZero
<1>2. ASSUME NEW s \in Nat, NEW l \in Nat
      PROVE  LET above == AtLeastZero(j.income + s + l - j.niit.threshold)
                 tax == BracketTaxOn(j.ordinary, j.income, s)
                        + BracketTaxOn(j.longTerm, j.income + s, l)
                        + ApplyRate(Lesser(above, s + l), j.niit.rate)
             IN  tax \in Int /\ (s = 0 /\ l = 0 => tax = 0)
    <2> DEFINE above == AtLeastZero(j.income + s + l - j.niit.threshold)
               a == BracketTaxOn(j.ordinary, j.income, s)
               b == BracketTaxOn(j.longTerm, j.income + s, l)
               c == ApplyRate(Lesser(above, s + l), j.niit.rate)
    <2>1. a \in Int /\ (s = 0 => a = 0)
        BY BracketFacts
    <2>2. j.income + s \in Int
        OBVIOUS
    <2>3. b \in Int /\ (l = 0 => b = 0)
        BY <2>2, BracketFacts
    <2>4. above \in Nat
        <3>1. j.income + s + l - j.niit.threshold \in Int
            OBVIOUS
        <3> QED
            BY <1>1, <3>1
    <2>5. Lesser(above, s + l) \in Int /\ (s = 0 /\ l = 0 => Lesser(above, s + l) = 0)
        BY <2>4 DEF Lesser
    <2>6. c \in Int /\ (s = 0 /\ l = 0 => c = 0)
        BY <2>5, RateFacts
    <2> HIDE DEF a, b, c
    <2>7. a + b + c \in Int /\ (s = 0 /\ l = 0 => a + b + c = 0)
        BY <2>1, <2>3, <2>6
    <2> QED
        BY <2>7 DEF a, b, c
<1>3. AtLeastZero(0) = 0
    BY DEF AtLeastZero
<1>4. TFederal(j, st, lt) \in Int /\ TFederal(j, 0, 0) = 0
    <2>1. TFederal(j, st, lt) \in Int
        BY <1>1, <1>2 DEF TFederal
    <2>2. TFederal(j, 0, 0) = 0
        BY <1>2, <1>3 DEF TFederal
    <2> QED
        BY <2>1, <2>2
<1>5. TState(j, st, lt) \in Int /\ TState(j, 0, 0) = 0
    <2>1. AtLeastZero(st + lt) \in Int
        BY <1>1
    <2>2. TState(j, st, lt) \in Int
        BY <2>1, BracketFacts DEF TState
    <2>3. TState(j, 0, 0) = 0
        <3>1. 0 + 0 = 0
            OBVIOUS
        <3> QED
            BY <1>3, <3>1, BracketFacts DEF TState
    <2> QED
        BY <2>2, <2>3
<1> QED
    BY <1>4, <1>5 DEF TaxOn

\* The value of an option that has one.
LEMMA ValueOfOne == ASSUME NEW x \in Int PROVE ValueOf({x}) = x
<1> DEFINE f == [v \in {x} |-> v]
<1>1. DOMAIN f = {x} /\ f[x] = x
    OBVIOUS
<1> HIDE DEF f
<1>2. SumFunctionOnSet(f, {x}) = x
    BY <1>1, SumSingle
<1> QED
    BY <1>1, <1>2 DEF ValueOf, SumFunction, f

\* A jurisdiction is resolved by its code.
LEMMA JurisdictionIsNamed ==
    ASSUME NEW ctx, ContextTyped(ctx), NEW j \in ctx.states \cup {ctx.federal}
    PROVE  Jurisdiction(ctx, j.jur) = j
<1>1. {i \in ctx.states \cup {ctx.federal} : i.jur = j.jur} = {j}
    BY DEF ContextTyped
<1> QED
    BY <1>1 DEF Jurisdiction

\* One more gain adds itself to the total of its term.
LEMMA TermTotalFacts ==
    ASSUME NEW gs, GainsTyped(gs), NEW K \in SUBSET DOMAIN gs, NEW term
    PROVE  /\ TermTotal(gs, K, term) \in Int
           /\ TermTotal(gs, {}, term) = 0
           /\ \A k \in DOMAIN gs \ K :
                  TermTotal(gs, K \cup {k}, term)
                      = TermTotal(gs, K, term) + (IF TermOf(gs[k]) = term THEN gs[k].gain ELSE 0)
<1> DEFINE gain == [k \in DOMAIN gs |-> gs[k].gain]
           In(H) == {k \in H : TermOf(gs[k]) = term}
<1>1. \A k \in DOMAIN gs : gain[k] \in Int /\ gain[k] = gs[k].gain
    BY DEF GainsTyped
<1> HIDE DEF gain
<1>2. ASSUME NEW H \in SUBSET DOMAIN gs
      PROVE  TermTotal(gs, H, term) = SumFunctionOnSet(gain, In(H)) /\ IsFiniteSet(In(H))
    <2> DEFINE T == In(H)
               f == [k \in T |-> gs[k].gain]
    <2>1. IsFiniteSet(T)
        BY FS_Subset DEF GainsTyped
    <2>2. TermTotal(gs, H, term) = SumFunctionOnSet(f, T)
        BY DEF TermTotal, SumFunction
    <2>3. \A k \in T : f[k] = gain[k]
        BY <1>1
    <2> HIDE DEF f, T
    <2>4. SumFunctionOnSet(f, T) = SumFunctionOnSet(gain, T)
        BY <2>1, <2>3, SumSame
    <2> QED
        BY <2>1, <2>2, <2>4 DEF T
<1>3. TermTotal(gs, K, term) \in Int
    BY <1>1, <1>2, SumIsInt
<1>4. TermTotal(gs, {}, term) = 0
    <2>1. In({}) = {}
        OBVIOUS
    <2> QED
        BY <1>2, <2>1, SumEmpty
<1>5. ASSUME NEW k \in DOMAIN gs \ K
      PROVE  TermTotal(gs, K \cup {k}, term)
                 = TermTotal(gs, K, term) + (IF TermOf(gs[k]) = term THEN gs[k].gain ELSE 0)
    <2>1. K \cup {k} \in SUBSET DOMAIN gs
        OBVIOUS
    <2>2. CASE TermOf(gs[k]) = term
        <3> DEFINE T == In(K)
        <3>1. In(K \cup {k}) = T \cup {k} /\ k \notin T /\ T \subseteq DOMAIN gs
            BY <2>2
        <3>2. IsFiniteSet(T) /\ TermTotal(gs, K, term) = SumFunctionOnSet(gain, T)
            BY <1>2
        <3>3. TermTotal(gs, K \cup {k}, term) = SumFunctionOnSet(gain, T \cup {k})
            BY <1>2, <2>1, <3>1
        <3>4. \A y \in T \cup {k} : gain[y] \in Int
            BY <1>1, <3>1
        <3> HIDE DEF T
        <3>5. SumFunctionOnSet(gain, T \cup {k}) = gain[k] + SumFunctionOnSet(gain, T)
            BY <3>1, <3>2, <3>4, SumAdd
        <3> QED
            BY <1>1, <1>3, <2>2, <3>2, <3>3, <3>5
    <2>3. CASE TermOf(gs[k]) # term
        <3>1. In(K \cup {k}) = In(K)
            BY <2>3
        <3>2. TermTotal(gs, K \cup {k}, term) = TermTotal(gs, K, term)
            BY <1>2, <2>1, <3>1
        <3>3. TermTotal(gs, K, term) = TermTotal(gs, K, term) + 0
            BY <1>3
        <3> QED
            BY <2>3, <3>2, <3>3
    <2> QED
        BY <2>2, <2>3
<1> QED
    BY <1>3, <1>4, <1>5

(***************************************************************************)
(* The increments                                                          *)
(***************************************************************************)
\* What a jurisdiction takes of a set of gains.
TaxOfGains(gs, j, K) == TaxOn(j, TermTotal(gs, K, "ShortTerm"), TermTotal(gs, K, "LongTerm"))

\* The gains of K, in the order they are stacked.
EarlierPairs(gs, K) == {p \in K \X K : Earlier(gs, p[1], p[2])}

\* Of two gains one is the earlier.
LEMMA StackingIsOrder ==
    ASSUME NEW gs, GainsTyped(gs), NEW K \in SUBSET DOMAIN gs
    PROVE  StrictOrder(EarlierPairs(gs, K), K)
<1>1. \A k \in K : k \in Nat /\ gs[k].saleDate \in Int /\ gs[k].sale \in Int
    BY DEF GainsTyped
<1>2. \A x, y \in K : <<x, y>> \in EarlierPairs(gs, K) <=> Earlier(gs, x, y)
    BY DEF EarlierPairs
<1>3. \A x \in K : ~Earlier(gs, x, x)
    BY <1>1 DEF Earlier
<1>4. \A x, y, z \in K : Earlier(gs, x, y) /\ Earlier(gs, y, z) => Earlier(gs, x, z)
    BY <1>1 DEF Earlier
<1>5. \A x, y \in K : x # y => Earlier(gs, x, y) \/ Earlier(gs, y, x)
    BY <1>1 DEF Earlier
<1> QED
    BY <1>2, <1>3, <1>4, <1>5 DEF StrictOrder

\* The increment of a gain is the tax it adds to that of those before it.
LEMMA IncrementFacts ==
    ASSUME NEW gs, GainsTyped(gs), NEW ctx, ContextTyped(ctx),
           NEW j \in ctx.states \cup {ctx.federal}, HasBrackets(j),
           NEW k \in AccruingTo(gs, ctx, j.jur)
    PROVE  LET before == {h \in AccruingTo(gs, ctx, j.jur) : Earlier(gs, h, k)}
           IN  ValueOf(DerivedIncrement(gs, ctx, j.jur, k))
                   = TaxOfGains(gs, j, before \cup {k}) - TaxOfGains(gs, j, before)
<1> DEFINE before == {h \in AccruingTo(gs, ctx, j.jur) : Earlier(gs, h, k)}
           st == TermTotal(gs, before, "ShortTerm")
           lt == TermTotal(gs, before, "LongTerm")
           dst == IF TermOf(gs[k]) = "ShortTerm" THEN gs[k].gain ELSE 0
           dlt == IF TermOf(gs[k]) = "LongTerm" THEN gs[k].gain ELSE 0
<1>1. before \in SUBSET DOMAIN gs /\ k \in DOMAIN gs \ before
    <2>1. k \in DOMAIN gs
        BY DEF AccruingTo
    <2>2. k \in Nat /\ gs[k].saleDate \in Int /\ gs[k].sale \in Int
        BY <2>1 DEF GainsTyped
    <2>3. ~Earlier(gs, k, k)
        BY <2>2 DEF Earlier
    <2> QED
        BY <2>1, <2>3 DEF AccruingTo
<1>2. Jurisdiction(ctx, j.jur) = j /\ JurisdictionTyped(j)
    BY JurisdictionIsNamed DEF ContextTyped
<1>3. DerivedIncrement(gs, ctx, j.jur, k) = Increment(j, st, lt, dst, dlt)
    BY <1>2 DEF DerivedIncrement
<1> HIDE DEF before
<1>4. /\ st \in Int /\ TermTotal(gs, before \cup {k}, "ShortTerm") = st + dst
      /\ lt \in Int /\ TermTotal(gs, before \cup {k}, "LongTerm") = lt + dlt
    BY <1>1, TermTotalFacts
<1>5. dst \in Int /\ dlt \in Int
    BY <1>1 DEF GainsTyped
<1> HIDE DEF st, lt, dst, dlt
<1>6. Increment(j, st, lt, dst, dlt) = {TaxOn(j, st + dst, lt + dlt) - TaxOn(j, st, lt)}
    BY DEF Increment
<1>7. TaxOn(j, st + dst, lt + dlt) \in Int /\ TaxOn(j, st, lt) \in Int
    BY <1>2, <1>4, <1>5, TaxFacts
<1>8. ValueOf(DerivedIncrement(gs, ctx, j.jur, k)) = TaxOn(j, st + dst, lt + dlt) - TaxOn(j, st, lt)
    BY <1>3, <1>6, <1>7, ValueOfOne
<1>9. TaxOfGains(gs, j, before \cup {k}) = TaxOn(j, st + dst, lt + dlt)
    BY <1>4 DEF TaxOfGains
<1>10. TaxOfGains(gs, j, before) = TaxOn(j, st, lt)
    BY DEF TaxOfGains, st, lt
<1> QED
    BY <1>8, <1>9, <1>10 DEF before

\* The increments of a jurisdiction add up to its tax on all that accrues to it.
LEMMA IncrementsAddUp ==
    ASSUME NEW gs, GainsTyped(gs), NEW ctx, ContextTyped(ctx),
           NEW j \in ctx.states \cup {ctx.federal}, HasBrackets(j)
    PROVE  LET K == AccruingTo(gs, ctx, j.jur)
           IN  SumFunction([k \in K |-> ValueOf(DerivedIncrement(gs, ctx, j.jur, k))])
                   = TaxOn(j, TermTotal(gs, K, "ShortTerm"), TermTotal(gs, K, "LongTerm"))
<1> DEFINE K == AccruingTo(gs, ctx, j.jur)
           R == EarlierPairs(gs, K)
           V == [T \in SUBSET K |-> TaxOfGains(gs, j, T)]
           inc == [k \in K |-> ValueOf(DerivedIncrement(gs, ctx, j.jur, k))]
<1>1. K \in SUBSET DOMAIN gs /\ IsFiniteSet(K)
    <2>1. K \in SUBSET DOMAIN gs
        BY DEF AccruingTo
    <2> QED
        BY <2>1, FS_Subset DEF GainsTyped
<1>2. StrictOrder(R, K)
    BY <1>1, StackingIsOrder
<1>3. JurisdictionTyped(j)
    BY DEF ContextTyped
<1>4. V[{}] = 0 /\ \A T \in SUBSET K : V[T] \in Int
    <2>1. ASSUME NEW T \in SUBSET K
          PROVE  TaxOfGains(gs, j, T) \in Int
        <3>1. TermTotal(gs, T, "ShortTerm") \in Int /\ TermTotal(gs, T, "LongTerm") \in Int
            BY <1>1, TermTotalFacts
        <3> QED
            BY <1>3, <3>1, TaxFacts DEF TaxOfGains
    <2>2. TaxOfGains(gs, j, {}) = 0
        <3>1. TermTotal(gs, {}, "ShortTerm") = 0 /\ TermTotal(gs, {}, "LongTerm") = 0
            BY TermTotalFacts
        <3> QED
            BY <1>3, <3>1, TaxFacts DEF TaxOfGains
    <2> QED
        BY <2>1, <2>2
<1>5. \A k \in K : inc[k] = V[Ahead(R, K, k) \cup {k}] - V[Ahead(R, K, k)]
    <2> SUFFICES ASSUME NEW k \in K PROVE inc[k] = V[Ahead(R, K, k) \cup {k}] - V[Ahead(R, K, k)]
        OBVIOUS
    <2> DEFINE before == {h \in K : Earlier(gs, h, k)}
    <2>1. Ahead(R, K, k) = before
        BY DEF Ahead, EarlierPairs
    <2>2. ValueOf(DerivedIncrement(gs, ctx, j.jur, k))
              = TaxOfGains(gs, j, before \cup {k}) - TaxOfGains(gs, j, before)
        BY IncrementFacts
    <2>3. before \in SUBSET K /\ before \cup {k} \in SUBSET K
        OBVIOUS
    <2> HIDE DEF before, K, R
    <2> QED
        BY <2>1, <2>2, <2>3
<1>6. DOMAIN inc = K
    OBVIOUS
<1> HIDE DEF K, R, V, inc
<1>7. SumFunctionOnSet(inc, K) = V[K]
    <2>1. Increments(K, R, V, inc)
        BY <1>4, <1>5 DEF Increments
    <2> QED
        BY <1>1, <1>2, <2>1, Telescope
<1>8. V[K] = TaxOn(j, TermTotal(gs, K, "ShortTerm"), TermTotal(gs, K, "LongTerm"))
    BY DEF V, TaxOfGains
<1>9. SumFunction(inc) = TaxOn(j, TermTotal(gs, K, "ShortTerm"), TermTotal(gs, K, "LongTerm"))
    BY <1>6, <1>7, <1>8 DEF SumFunction
<1> QED
    BY <1>9 DEF inc, K

\* No gain is taxed twice or missed, in whatever order sales were recorded and dated,
\* reversed and repeated, and whatever brackets the owner enters.
THEOREM IncrementsAreMarginal == BookSpec => []IncrementsTelescope
<1>1. BookTypeOK => IncrementsTelescope
    <2> SUFFICES ASSUME BookTypeOK PROVE IncrementsTelescope
        OBVIOUS
    <2> DEFINE gs == RealizedGains(log)
               ctx == ContextOf(cell)
    <2>1. GainsTyped(gs)
        BY GainFacts DEF BookTypeOK
    <2>2. ContextTyped(ctx)
        BY ContextFacts DEF BookTypeOK
    <2> HIDE DEF gs, ctx
    <2>3. \A j \in ctx.states \cup {ctx.federal} : HasBrackets(j) =>
              SumFunction([k \in AccruingTo(gs, ctx, j.jur) |-> ValueOf(DerivedIncrement(gs, ctx, j.jur, k))])
                  = TaxOn(j, TermTotal(gs, AccruingTo(gs, ctx, j.jur), "ShortTerm"),
                             TermTotal(gs, AccruingTo(gs, ctx, j.jur), "LongTerm"))
        BY <2>1, <2>2, IncrementsAddUp
    <2> QED
        BY <2>3 DEF IncrementsTelescope, gs, ctx
<1> QED
    BY <1>1, BookTypeCorrect, PTL

(***************************************************************************)
(* The residence and its brackets                                          *)
(***************************************************************************)
\* The first day of the months used is a day.
LEMMA DaysAreInt ==
    ASSUME NEW year \in Int, NEW m \in 1..12, NEW d \in Int
    PROVE  DaysFromCivil(year, m, d) \in Int
BY DEF DaysFromCivil

\* The state lived in on a day of the window is one the staleness check looks at.
LEMMA ResidenceIsActive ==
    ASSUME NEW t, TimelineTyped(t), NEW d \in Int, NEW first \in Int, NEW last \in Int,
           first <= d, d <= last, {i \in DOMAIN t : t[i].date <= d} # {}
    PROVE  \E i \in DOMAIN t : Intersects(t, i, first, last) /\ t[i].state = ResidencyOn(t, d)
<1> DEFINE past == {i \in DOMAIN t : t[i].date <= d}
           i == Max(past)
           n == Len(t)
           Day(k) == t[k].date
<1>1. n \in Nat /\ DOMAIN t = 1..n
    <2>1. t \in Seq([date : Int, state : STRING])
        BY DEF TimelineTyped
    <2> QED
        BY <2>1, LenProperties
<1>2. \A k \in 1..n : Day(k) \in Int
    <2>1. t \in Seq([date : Int, state : STRING])
        BY DEF TimelineTyped
    <2>2. \A k \in 1..n : t[k] \in [date : Int, state : STRING]
        BY <2>1, ElementOfSeq
    <2> QED
        BY <2>2
<1>3. past # {} /\ ResidencyOn(t, d) = t[i].state
    BY DEF ResidencyOn
<1>4. past \in SUBSET (1..n)
    BY <1>1
<1>5. i \in past /\ \A k \in past : k <= i
    BY <1>1, <1>3, <1>4, FirstAndLast
<1>6. \A k \in 1..n : k \in past <=> Day(k) <= d
    BY <1>1
<1> HIDE DEF i, past, n, Day
<1>7. i \in 1..n
    BY <1>4, <1>5
<1>8. Day(i) <= d
    BY <1>5, <1>6, <1>7
<1>9. i < n => Day(i + 1) > d
    <2> SUFFICES ASSUME i < n PROVE Day(i + 1) > d
        OBVIOUS
    <2>1. i + 1 \in 1..n /\ ~(i + 1 <= i)
        BY <1>1, <1>7
    <2>2. ~(Day(i + 1) <= d)
        BY <1>5, <1>6, <2>1
    <2>3. Day(i + 1) \in Int
        BY <1>2, <2>1
    <2> QED
        BY <2>2, <2>3
<1>10. Day(i) <= last /\ (i < n => Day(i + 1) > first)
    <2>1. Day(i) \in Int
        BY <1>2, <1>7
    <2>2. Day(i) <= last
        BY <1>8, <2>1
    <2>3. ASSUME i < n PROVE Day(i + 1) > first
        <3>1. i + 1 \in 1..n
            BY <1>1, <1>7, <2>3
        <3>2. Day(i + 1) \in Int
            BY <1>2, <3>1
        <3> QED
            BY <1>9, <2>3, <3>2
    <2> QED
        BY <2>2, <2>3
<1>11. Intersects(t, i, first, last)
    BY <1>10 DEF Intersects, Day, n
<1> QED
    BY <1>1, <1>3, <1>7, <1>11

\* Where a year has rules with a jurisdiction's brackets, its context knows them.
LEMMA ConfiguredIsVerified ==
    ASSUME NEW data, SoundConfig(data), NEW year \in Int, NEW today,
           NEW r \in data.rules, r.year = year, NEW jur, BracketSetsFor(r, jur) # {}
    PROVE  BracketStateFor(ContextFromConfig(data, year, today), jur) = "Verified"
<1> DEFINE known == {s \in data.rules : s.year <= year}
           newest == CHOOSE s \in known : \A u \in known : u.year <= s.year
           ctx == ContextFromConfig(data, year, today)
           all == ctx.states \cup {ctx.federal}
<1>1. \A s \in data.rules : s.year \in Int
    BY DEF SoundConfig, RulesTyped
<1>2. r \in known
    BY <1>1
<1>3. newest \in known /\ \A u \in known : u.year <= newest.year
    BY <1>1, <1>2, NewestRules
<1>4. newest = r
    <2>1. newest.year = r.year
        BY <1>1, <1>2, <1>3
    <2> QED
        BY <1>3, <2>1 DEF SoundConfig
<1>5. /\ ctx.federal = [jur |-> "Federal", ordinary |-> r.ordinary.rows,
                        longTerm |-> r.longTerm.rows, niit |-> r.niit,
                        income |-> r.income, state |-> "Verified"]
      /\ ctx.states = {[jur |-> s.code, ordinary |-> s.set.rows, longTerm |-> <<>>,
                        niit |-> [rate |-> 0, threshold |-> 0],
                        income |-> r.income, state |-> "Verified"] : s \in r.states}
    BY <1>2, <1>4 DEF ContextFromConfig
<1> HIDE DEF ctx
<1>6. \A j \in all : j.state = "Verified"
    BY <1>5
<1>7. {j \in all : j.jur = jur} # {}
    <2>1. CASE jur = "Federal"
        <3>1. ctx.federal.jur = jur
            BY <1>5, <2>1
        <3> QED
            BY <3>1
    <2>2. CASE jur # "Federal"
        <3>1. PICK s \in r.states : s.code = jur
            BY <2>2 DEF BracketSetsFor
        <3> DEFINE j == [jur |-> s.code, ordinary |-> s.set.rows, longTerm |-> <<>>,
                         niit |-> [rate |-> 0, threshold |-> 0],
                         income |-> r.income, state |-> "Verified"]
        <3>2. j \in ctx.states /\ j.jur = jur
            BY <1>5, <3>1
        <3> QED
            BY <3>2
    <2> QED
        BY <2>1, <2>2
<1>8. Jurisdiction(ctx, jur).state = "Verified"
    BY <1>6, <1>7 DEF Jurisdiction
<1> QED
    BY <1>8 DEF BracketStateFor, ctx

\* Where the context does not know a jurisdiction's brackets of the year, the check
\* finds them stale.
LEMMA DegradedIsStale ==
    ASSUME NEW data, SoundConfig(data), NEW year \in Int, NEW today, NEW months, NEW jur,
           BracketStateFor(ContextFromConfig(data, year, today), jur) # "Verified"
    PROVE  IsStale(data, jur, year, today, months)
<1> DEFINE K == {r \in data.rules : r.year <= year /\ BracketSetsFor(r, jur) # {}}
           newest == CHOOSE r \in K : \A s \in K : s.year <= r.year
<1>1. \A r \in K : r.year \in Int /\ r.year <= year
    BY DEF SoundConfig, RulesTyped
<1>2. CASE K = {}
    BY <1>2 DEF IsStale, ResolveBrackets
<1>3. CASE K # {}
    <2>1. newest \in K
        BY <1>1, <1>3, NewestRules
    <2>2. newest.year # year
        BY <2>1, ConfiguredIsVerified
    <2>3. ResolveBrackets(data, jur, year) = [set |-> BracketSetsFor(newest, jur), state |-> "Stale"]
        BY <1>3, <2>2 DEF ResolveBrackets
    <2> QED
        BY <2>3 DEF IsStale
<1> QED
    BY <1>2, <1>3

\* Whatever rules and timelines the owner enters, no residence of the window is
\* degraded without a staleness signal.
THEOREM DegradedIsSignalled == BookSpec => []DegradedResidenceIsSignalled
<1>1. BookTypeOK => DegradedResidenceIsSignalled
    <2> SUFFICES ASSUME BookTypeOK, NEW data \in cell PROVE
            LET first == DaysFromCivil(Year - LookbackYears, 1, 1)
                last  == DaysFromCivil(Year, 12, 31)
                days == {first, last} \cup
                        {d \in UNION {{data.residency[i].date, data.residency[i].date - 1}
                                         : i \in DOMAIN data.residency} : first <= d /\ d <= last}
            IN  \A s \in {ResidencyOn(data.residency, d) : d \in days} \ {""} :
                    BracketStateFor(ContextOf(cell), s) # "Verified" => s \in StalenessSignals(data, Year, Today)
        BY DEF DegradedResidenceIsSignalled
    <2> DEFINE t == data.residency
               first == DaysFromCivil(Year - LookbackYears, 1, 1)
               last  == DaysFromCivil(Year, 12, 31)
               days == {first, last} \cup
                       {d \in UNION {{t[i].date, t[i].date - 1} : i \in DOMAIN t} : first <= d /\ d <= last}
    <2>1. cell = {data} /\ SoundConfig(data)
        BY DEF BookTypeOK
    <2>2. ContextOf(cell) = ContextFromConfig(data, Year, Today)
        <3>1. ReadConfig(cell) = {data}
            BY <2>1 DEF ReadConfig, SoundConfig
        <3> QED
            BY <3>1 DEF ContextOf
    <2>3. Year \in Int /\ Year - LookbackYears \in Int
        BY TodayAssumption, WindowAssumption, YearIsInt DEF Year
    <2>4. first \in Int /\ last \in Int /\ first <= last
        <3>1. first \in Int /\ last \in Int
            BY <2>3, DaysAreInt
        <3>2. first <= last
            BY <2>3, WindowAssumption DEF DaysFromCivil
        <3> QED
            BY <3>1, <3>2
    <2>5. \A d \in days : d \in Int /\ first <= d /\ d <= last
        <3>1. t \in Seq([date : Int, state : STRING])
            BY <2>1 DEF SoundConfig, TimelineTyped
        <3>2. DOMAIN t = 1..Len(t) /\ \A i \in 1..Len(t) : t[i] \in [date : Int, state : STRING]
            BY <3>1, ElementOfSeq, LenProperties
        <3>3. \A i \in DOMAIN t : t[i].date \in Int /\ t[i].date - 1 \in Int
            BY <3>2
        <3> HIDE DEF first, last
        <3> QED
            BY <2>4, <3>3
    <2>6. ASSUME NEW d \in days, ResidencyOn(t, d) # "",
                 BracketStateFor(ContextOf(cell), ResidencyOn(t, d)) # "Verified"
          PROVE  ResidencyOn(t, d) \in StalenessSignals(data, Year, Today)
        <3>1. {i \in DOMAIN t : t[i].date <= d} # {}
            BY <2>6 DEF ResidencyOn
        <3>2. d \in Int /\ first <= d /\ d <= last
            BY <2>4, <2>5
        <3>3. TimelineTyped(t)
            BY <2>1 DEF SoundConfig
        <3> DEFINE s == ResidencyOn(t, d)
        <3>4. \E i \in DOMAIN t : Intersects(t, i, first, last) /\ t[i].state = s
            BY <2>4, <3>1, <3>2, <3>3, ResidenceIsActive
        <3>5. s \in ActiveJurisdictions(t, Year, LookbackYears)
            BY <3>4 DEF ActiveJurisdictions
        <3>6. IsStale(data, s, Year, Today, StaleMonths)
            BY <2>1, <2>2, <2>3, <2>6, DegradedIsStale
        <3> QED
            BY <3>5, <3>6 DEF StalenessSignals
    <2> QED
        BY <2>6
<1> QED
    BY <1>1, BookTypeCorrect, PTL

(***************************************************************************)
(* The accruals                                                            *)
(***************************************************************************)
\* An amount or none.
Optional(x) == x = {} \/ \E v \in Int : x = {v}

\* The value of an optional amount, none counting as nothing.
LEMMA OptionalValue == ASSUME NEW x, Optional(x) PROVE ValueOf(x) \in Int
<1>1. ValueOf({}) \in Int
    <2> DEFINE f == [v \in {} |-> v]
    <2>1. DOMAIN f = {}
        OBVIOUS
    <2> HIDE DEF f
    <2>2. SumFunctionOnSet(f, {}) = 0
        BY SumEmpty
    <2> QED
        BY <2>1, <2>2 DEF ValueOf, SumFunction, f
<1>2. \A v \in Int : ValueOf({v}) \in Int
    BY ValueOfOne
<1> QED
    BY <1>1, <1>2 DEF Optional

\* What an amount adds to the tax of a jurisdiction is one amount, or none without brackets.
LEMMA IncrementIsOptional ==
    ASSUME NEW ctx, ContextTyped(ctx), NEW jur,
           NEW st \in Int, NEW lt \in Int, NEW dst \in Int, NEW dlt \in Int
    PROVE  Optional(Increment(Jurisdiction(ctx, jur), st, lt, dst, dlt))
<1> DEFINE j == Jurisdiction(ctx, jur)
<1>1. HasBrackets(j) => JurisdictionTyped(j)
    <2> DEFINE named == {i \in ctx.states \cup {ctx.federal} : i.jur = jur}
    <2>1. CASE named = {}
        <3>1. j = Unconfigured(jur)
            BY <2>1 DEF Jurisdiction
        <3> QED
            BY <3>1 DEF HasBrackets, Unconfigured
    <2>2. CASE named # {}
        <3>1. j \in named
            BY <2>2 DEF Jurisdiction
        <3> QED
            BY <3>1 DEF ContextTyped
    <2> QED
        BY <2>1, <2>2
<1> HIDE DEF j
<1>2. CASE HasBrackets(j)
    <2>1. TaxOn(j, st, lt) \in Int
        BY <1>1, <1>2, TaxFacts
    <2>2. TaxOn(j, st + dst, lt + dlt) \in Int
        BY <1>1, <1>2, TaxFacts
    <2>3. Increment(j, st, lt, dst, dlt) = {TaxOn(j, st + dst, lt + dlt) - TaxOn(j, st, lt)}
        BY <1>2 DEF Increment
    <2> QED
        BY <2>1, <2>2, <2>3 DEF Optional, j
<1>3. CASE ~HasBrackets(j)
    <2>1. Increment(j, st, lt, dst, dlt) = {}
        BY <1>3 DEF Increment
    <2> QED
        BY <2>1 DEF Optional, j
<1> QED
    BY <1>2, <1>3

\* So is the increment of a gain.
LEMMA DerivedIsOptional ==
    ASSUME NEW gs, GainsTyped(gs), NEW ctx, ContextTyped(ctx), NEW jur, NEW k \in DOMAIN gs
    PROVE  Optional(DerivedIncrement(gs, ctx, jur, k))
<1> DEFINE before == {h \in AccruingTo(gs, ctx, jur) : Earlier(gs, h, k)}
           st == TermTotal(gs, before, "ShortTerm")
           lt == TermTotal(gs, before, "LongTerm")
           dst == IF TermOf(gs[k]) = "ShortTerm" THEN gs[k].gain ELSE 0
           dlt == IF TermOf(gs[k]) = "LongTerm" THEN gs[k].gain ELSE 0
<1>1. before \in SUBSET DOMAIN gs
    BY DEF AccruingTo
<1>2. DerivedIncrement(gs, ctx, jur, k) = Increment(Jurisdiction(ctx, jur), st, lt, dst, dlt)
    BY DEF DerivedIncrement
<1> HIDE DEF before
<1>3. st \in Int /\ lt \in Int /\ dst \in Int /\ dlt \in Int
    BY <1>1, TermTotalFacts DEF GainsTyped
<1> HIDE DEF st, lt, dst, dlt
<1> QED
    BY <1>2, <1>3, IncrementIsOptional

\* So is an override, and a seeded figure is an amount.
LEMMA OverrideIsOptional ==
    ASSUME NEW es \in Seq(TaxPayloads), NEW key
    PROVE  /\ Optional(OverrideOf(es, key))
           /\ key \in SeededKeys(es) => SeededAmount(es, key) \in Int
<1> DEFINE n == Len(es)
<1>1. n \in Nat /\ DOMAIN es = 1..n /\ \A i \in 1..n : es[i] \in TaxPayloads
    BY ElementOfSeq, LenProperties
<1>2. \A i \in 1..n : es[i].kind # "Allocate" => es[i].amount \in Int
    BY <1>1, TaxPayloadsAssumption
<1> HIDE DEF n
<1>3. Optional(OverrideOf(es, key))
    <2> DEFINE I == {i \in DOMAIN es : es[i].kind = "AmountOverride" /\ es[i].key = key}
    <2>1. CASE I = {}
        BY <2>1 DEF OverrideOf, Optional
    <2>2. CASE I # {}
        <3>1. I \in SUBSET (1..n)
            BY <1>1
        <3>2. Max(I) \in I
            BY <1>1, <2>2, <3>1, FirstAndLast
        <3>3. es[Max(I)].amount \in Int
            BY <1>1, <1>2, <3>2
        <3>4. OverrideOf(es, key) = {es[Max(I)].amount}
            BY <2>2 DEF OverrideOf
        <3> QED
            BY <3>3, <3>4 DEF Optional
    <2> QED
        BY <2>1, <2>2
<1>4. ASSUME key \in SeededKeys(es) PROVE SeededAmount(es, key) \in Int
    <2> DEFINE I == {i \in Seeds(es) : MigrationKey(es[i].jur, es[i].year) = key}
    <2>1. I # {}
        BY <1>4 DEF SeededKeys
    <2>2. I \in SUBSET (1..n)
        BY <1>1 DEF Seeds
    <2>3. Max(I) \in I
        BY <1>1, <2>1, <2>2, FirstAndLast
    <2>4. es[Max(I)].kind = "SeedMigration" /\ Max(I) \in 1..n
        BY <1>1, <2>3 DEF Seeds
    <2>5. es[Max(I)].amount \in Int
        BY <1>2, <2>4
    <2> QED
        BY <2>5 DEF SeededAmount
<1> QED
    BY <1>3, <1>4

\* What an accrual adds to a report are amounts.
Sound(a) == a.gain \in Int /\ a.term \in {"ShortTerm", "LongTerm"} /\ Owed(a) \in Int

\* An accrual of a realized gain.
OfGain(gs, a) == \E k \in DOMAIN gs : gs[k].sale = a.key.sale /\ gs[k].lot = a.key.lot

\* An accrual of a gain has integer amounts, and its key names the gain's sale and lot.
LEMMA GainAccrualFacts ==
    ASSUME NEW gs, GainsTyped(gs), NEW es \in Seq(TaxPayloads), NEW ctx, ContextTyped(ctx),
           NEW k \in DOMAIN gs, NEW jur
    PROVE  LET a == GainAccrual(gs, es, ctx, jur, k) IN Sound(a) /\ OfGain(gs, a)
<1> DEFINE a == GainAccrual(gs, es, ctx, jur, k)
           key == KeyOf(gs[k], jur)
           derived == DerivedIncrement(gs, ctx, jur, k)
           override == OverrideOf(es, key)
<1>1. /\ a.key = key /\ a.term = TermOf(gs[k]) /\ a.gain = gs[k].gain
      /\ a.applied = IF override # {} THEN override ELSE derived
    BY DEF GainAccrual
<1>2. key.sale = gs[k].sale /\ key.lot = gs[k].lot
    BY DEF KeyOf
<1>3. Optional(derived) /\ Optional(override)
    BY DerivedIsOptional, OverrideIsOptional
<1> HIDE DEF a, key, derived, override
<1>4. Optional(a.applied)
    BY <1>1, <1>3
<1>5. Owed(a) \in Int
    BY <1>4, OptionalValue DEF Owed
<1>6. a.term \in {"ShortTerm", "LongTerm"}
    BY <1>1 DEF TermOf, ClassifyTerm
<1>7. a.gain \in Int
    BY <1>1 DEF GainsTyped
<1>8. Sound(a) /\ OfGain(gs, a)
    BY <1>1, <1>2, <1>5, <1>6, <1>7 DEF Sound, OfGain
<1> QED
    BY <1>8 DEF a

\* A seeded accrual is of no gain, and what is owed for it is the seeded amount.
LEMMA MigrationAccrualFacts ==
    ASSUME NEW gs, GainsTyped(gs), NEW es \in Seq(TaxPayloads), NEW ctx, NEW key \in SeededKeys(es)
    PROVE  LET a == MigrationAccrual(es, ctx, key)
           IN  /\ Sound(a) /\ ~OfGain(gs, a) /\ a.key = key /\ a.gain = 0
               /\ Owed(a) = SeededAmount(es, key) /\ key = MigrationKey(key.jur, key.year)
<1> DEFINE a == MigrationAccrual(es, ctx, key)
<1>1. /\ a.key = key /\ a.gain = 0 /\ a.term = "LongTerm" /\ a.deMinimis = FALSE
      /\ a.superseded = FALSE /\ a.applied = {SeededAmount(es, key)}
    BY DEF MigrationAccrual
<1>2. SeededAmount(es, key) \in Int
    BY OverrideIsOptional
<1>3. key = MigrationKey(key.jur, key.year) /\ key.sale = 0
    <2>1. PICK i \in Seeds(es) : key = MigrationKey(es[i].jur, es[i].year)
        BY DEF SeededKeys
    <2>2. key.jur = es[i].jur /\ key.year = es[i].year /\ key.sale = 0
        BY <2>1 DEF MigrationKey
    <2> QED
        BY <2>1, <2>2
<1> HIDE DEF a
<1>4. Owed(a) = SeededAmount(es, key)
    <2>1. ValueOf(a.applied) = SeededAmount(es, key)
        BY <1>1, <1>2, ValueOfOne
    <2> QED
        BY <1>1, <2>1 DEF Owed
<1>5. ~OfGain(gs, a)
    <2>1. \A k \in DOMAIN gs : gs[k].sale # 0
        BY DEF GainsTyped
    <2> QED
        BY <1>1, <1>3, <2>1 DEF OfGain
<1>6. Sound(a)
    BY <1>1, <1>2, <1>4 DEF Sound
<1> QED
    BY <1>1, <1>3, <1>4, <1>5, <1>6 DEF a

(***************************************************************************)
(* The accruals of a jurisdiction and year                                 *)
(***************************************************************************)
\* The jurisdictions that a gain accrues to, and its accruals.
Codes(ctx, g) == {"Federal", ResolveState(ctx, g.stamp)} \ {""}
AccrualsOf(gs, es, ctx, k) == {GainAccrual(gs, es, ctx, jur, k) : jur \in Codes(ctx, gs[k])}

\* The accruals of finitely many gains and tax events are finitely many.
LEMMA AccrualsAreFinite ==
    ASSUME NEW gs, IsFiniteSet(DOMAIN gs), NEW es, IsFiniteSet(DOMAIN es), NEW ctx
    PROVE  IsFiniteSet(ComputeAccruals(gs, es, ctx))
<1> DEFINE of == [k \in DOMAIN gs |-> AccrualsOf(gs, es, ctx, k)]
           G == UNION {of[k] : k \in DOMAIN gs}
           M == {MigrationAccrual(es, ctx, key) : key \in SeededKeys(es)}
           A == ComputeAccruals(gs, es, ctx)
<1>1. A = G \cup M
    <2> DEFINE U == UNION {AccrualsOf(gs, es, ctx, k) : k \in DOMAIN gs}
    <2>1. A = (UNION {AccrualsOf(gs, es, ctx, k) : k \in DOMAIN gs}) \cup M
        BY DEF ComputeAccruals, AccrualsOf, Codes
    <2>2. {of[k] : k \in DOMAIN gs} = {AccrualsOf(gs, es, ctx, k) : k \in DOMAIN gs}
        OBVIOUS
    <2>3. G = U
        BY <2>2, Zenon
    <2>4. A = U \cup M
        BY <2>1
    <2> HIDE DEF A, G, M, U
    <2> QED
        BY <2>3, <2>4
<1>2. IsFiniteSet(G)
    <2>1. ASSUME NEW k \in DOMAIN gs PROVE IsFiniteSet(of[k])
        <3> DEFINE C == Codes(ctx, gs[k])
                   f == [jur \in C |-> GainAccrual(gs, es, ctx, jur, k)]
        <3>1. IsFiniteSet(C)
            <4>1. IsFiniteSet({"Federal"})
                BY FS_Singleton
            <4>2. IsFiniteSet({"Federal"} \cup {ResolveState(ctx, gs[k].stamp)})
                BY <4>1, FS_AddElement
            <4>3. C \subseteq {"Federal"} \cup {ResolveState(ctx, gs[k].stamp)}
                BY Zenon DEF Codes
            <4> HIDE DEF C
            <4> QED
                BY <4>2, <4>3, FS_Subset
        <3>2. of[k] = {f[jur] : jur \in C}
            BY DEF AccrualsOf
        <3> HIDE DEF f, of, C
        <3>3. IsFiniteSet({f[jur] : jur \in C})
            BY <3>1, FiniteImage
        <3> QED
            BY <3>2, <3>3
    <2> HIDE DEF of
    <2> QED
        BY <2>1, FiniteUnion
<1>3. IsFiniteSet(M)
    <2> DEFINE key == [i \in Seeds(es) |-> MigrationKey(es[i].jur, es[i].year)]
               K == {key[i] : i \in Seeds(es)}
               f == [x \in K |-> MigrationAccrual(es, ctx, x)]
    <2>1. IsFiniteSet(Seeds(es))
        <3>1. Seeds(es) \subseteq DOMAIN es
            BY DEF Seeds
        <3> QED
            BY <3>1, FS_Subset
    <2>2. K = SeededKeys(es)
        BY DEF SeededKeys
    <2> HIDE DEF key
    <2>3. IsFiniteSet(K)
        BY <2>1, FiniteImage
    <2>4. M = {f[x] : x \in K}
        BY <2>2
    <2> HIDE DEF f, K, M
    <2>5. IsFiniteSet({f[x] : x \in K})
        BY <2>3, FiniteImage
    <2> QED
        BY <2>4, <2>5
<1> HIDE DEF A, G, M
<1> QED
    BY <1>1, <1>2, <1>3, FS_Union DEF A

\* The accruals are finitely many, of realized gains or of seeded figures.
LEMMA AccrualFacts ==
    ASSUME NEW gs, GainsTyped(gs), NEW es \in Seq(TaxPayloads), NEW ctx, ContextTyped(ctx)
    PROVE  LET A == ComputeAccruals(gs, es, ctx)
           IN  /\ IsFiniteSet(A) /\ \A a \in A : Sound(a)
               /\ \A a \in A : ~OfGain(gs, a) <=>
                      \E key \in SeededKeys(es) : a = MigrationAccrual(es, ctx, key)
               /\ \A key \in SeededKeys(es) : MigrationAccrual(es, ctx, key) \in A
<1> DEFINE of == [k \in DOMAIN gs |-> AccrualsOf(gs, es, ctx, k)]
           G == UNION {of[k] : k \in DOMAIN gs}
           M == {MigrationAccrual(es, ctx, key) : key \in SeededKeys(es)}
           A == ComputeAccruals(gs, es, ctx)
<1>1. A = G \cup M
    <2> DEFINE U == UNION {AccrualsOf(gs, es, ctx, k) : k \in DOMAIN gs}
    <2>1. A = (UNION {AccrualsOf(gs, es, ctx, k) : k \in DOMAIN gs}) \cup M
        BY DEF ComputeAccruals, AccrualsOf, Codes
    <2>2. {of[k] : k \in DOMAIN gs} = {AccrualsOf(gs, es, ctx, k) : k \in DOMAIN gs}
        OBVIOUS
    <2>3. G = U
        BY <2>2, Zenon
    <2>4. A = U \cup M
        BY <2>1
    <2> HIDE DEF A, G, M, U
    <2> QED
        BY <2>3, <2>4
<1>2. IsFiniteSet(A)
    <2> DEFINE n == Len(es)
    <2>1. DOMAIN es = 1..n /\ n \in Nat
        BY LenProperties
    <2>2. IsFiniteSet(DOMAIN es)
        BY <2>1, FS_Interval
    <2>3. IsFiniteSet(DOMAIN gs)
        BY DEF GainsTyped
    <2> QED
        BY <2>2, <2>3, AccrualsAreFinite
<1>3. ASSUME NEW a \in G PROVE Sound(a) /\ OfGain(gs, a)
    <2>1. PICK k \in DOMAIN gs : a \in of[k]
        OBVIOUS
    <2>2. PICK jur \in Codes(ctx, gs[k]) : a = GainAccrual(gs, es, ctx, jur, k)
        BY <2>1 DEF AccrualsOf
    <2> QED
        BY <2>2, GainAccrualFacts
<1>4. ASSUME NEW a \in M
      PROVE  /\ Sound(a) /\ ~OfGain(gs, a)
             /\ \E key \in SeededKeys(es) : a = MigrationAccrual(es, ctx, key)
    BY MigrationAccrualFacts
<1>5. \A key \in SeededKeys(es) : MigrationAccrual(es, ctx, key) \in M
    OBVIOUS
<1> HIDE DEF A, G, M
<1>6. \A a \in A : Sound(a)
    BY <1>1, <1>3, <1>4
<1>7. \A a \in A : ~OfGain(gs, a) <=> \E key \in SeededKeys(es) : a = MigrationAccrual(es, ctx, key)
    BY <1>1, <1>3, <1>4, MigrationAccrualFacts
<1> QED
    BY <1>1, <1>2, <1>5, <1>6, <1>7 DEF A

\* What the accruals of one jurisdiction and year are, and those of gains among them.
InBucket(A, jur, year) == {a \in A : a.key.jur = jur /\ a.key.year = year}
SoldIn(gs, A, jur, year) == {a \in InBucket(A, jur, year) : OfGain(gs, a)}

\* The periods of the quarterly report.
Periods == {"Q1", "Q2", "Q3", "Q4"}

\* The period of the sale that an accrual is of.
PeriodOf(gs, a) ==
    QuarterOf(gs[CHOOSE k \in DOMAIN gs : gs[k].sale = a.key.sale /\ gs[k].lot = a.key.lot].saleDate)

\* A cell of the quarterly report sums over the accruals of its period.
LEMMA CellFacts ==
    ASSUME NEW gs, GainsTyped(gs), NEW A, IsFiniteSet(A), \A a \in A : Sound(a),
           NEW jur, NEW year, NEW q
    PROVE  LET C == {a \in SoldIn(gs, A, jur, year) : PeriodOf(gs, a) = q}
               c == QuarterlyCell(gs, A, q, jur, year)
           IN  /\ c.longTerm + c.shortTerm = SumFunctionOnSet([a \in A |-> a.gain], C)
               /\ c.accrual = SumFunctionOnSet([a \in A |-> Owed(a)], C)
               /\ c.accrual \in Int /\ c.longTerm + c.shortTerm \in Int
<1> DEFINE C == {a \in SoldIn(gs, A, jur, year) : PeriodOf(gs, a) = q}
           c == QuarterlyCell(gs, A, q, jur, year)
           of == {a \in A : /\ a.key.jur = jur /\ a.key.year = year
                            /\ \E k \in DOMAIN gs :
                                  /\ gs[k].sale = a.key.sale /\ gs[k].lot = a.key.lot
                                  /\ QuarterOf(gs[k].saleDate) = q}
           gain == [a \in A |-> a.gain]
           owed == [a \in A |-> Owed(a)]
           In(term) == {a \in of : a.term = term}
           gained(term) == SumFunction([a \in In(term) |-> a.gain])
<1>1. /\ c.longTerm = gained("LongTerm") /\ c.shortTerm = gained("ShortTerm")
      /\ c.accrual = SumFunction([a \in of |-> Owed(a)])
    BY DEF QuarterlyCell
<1>2. of = C
    <2>1. ASSUME NEW a, OfGain(gs, a)
          PROVE  (\E k \in DOMAIN gs : /\ gs[k].sale = a.key.sale /\ gs[k].lot = a.key.lot
                                       /\ QuarterOf(gs[k].saleDate) = q) <=> PeriodOf(gs, a) = q
        <3> DEFINE m == CHOOSE k \in DOMAIN gs : gs[k].sale = a.key.sale /\ gs[k].lot = a.key.lot
        <3>1. m \in DOMAIN gs /\ gs[m].sale = a.key.sale /\ gs[m].lot = a.key.lot
            BY <2>1 DEF OfGain
        <3>2. PeriodOf(gs, a) = QuarterOf(gs[m].saleDate)
            BY DEF PeriodOf
        <3> HIDE DEF m
        <3>3. \A k \in DOMAIN gs : gs[k].sale = a.key.sale => gs[k].saleDate = gs[m].saleDate
            BY <3>1 DEF GainsTyped
        <3> QED
            BY <3>1, <3>2, <3>3
    <2> QED
        BY <2>1 DEF SoldIn, InBucket, OfGain
<1>3. IsFiniteSet(of) /\ of \subseteq A
    BY FS_Subset
<1>4. \A a \in A : gain[a] = a.gain /\ gain[a] \in Int /\ owed[a] = Owed(a) /\ owed[a] \in Int
    BY DEF Sound
<1> HIDE DEF of, gain, owed, c, C
<1>5. ASSUME NEW term
      PROVE  gained(term) = SumFunctionOnSet(gain, In(term)) /\ IsFiniteSet(In(term))
    <2> DEFINE T == In(term)
               f == [a \in T |-> a.gain]
    <2>1. IsFiniteSet(T) /\ T \subseteq A
        BY <1>3, FS_Subset
    <2>2. gained(term) = SumFunctionOnSet(f, T)
        BY DEF SumFunction
    <2>3. \A a \in T : f[a] = gain[a]
        BY <1>4, <2>1
    <2> HIDE DEF f, T
    <2>4. SumFunctionOnSet(f, T) = SumFunctionOnSet(gain, T)
        BY <2>1, <2>3, SumSame
    <2> QED
        BY <2>1, <2>2, <2>4 DEF T
<1>6. gained("LongTerm") + gained("ShortTerm") = SumFunctionOnSet(gain, of)
    <2> DEFINE L == In("LongTerm")
               S == In("ShortTerm")
    <2>1. IsFiniteSet(L) /\ IsFiniteSet(S) /\ L \cap S = {} /\ L \cup S = of
        <3>1. \A a \in of : a.term \in {"ShortTerm", "LongTerm"}
            BY <1>3 DEF Sound
        <3> QED
            BY <1>5, <3>1
    <2>2. \A a \in L \cup S : gain[a] \in Int
        BY <1>3, <1>4, <2>1
    <2>3. gained("LongTerm") = SumFunctionOnSet(gain, L) /\ gained("ShortTerm") = SumFunctionOnSet(gain, S)
        BY <1>5
    <2> HIDE DEF L, S
    <2>4. SumFunctionOnSet(gain, L \cup S) = SumFunctionOnSet(gain, L) + SumFunctionOnSet(gain, S)
        BY <2>1, <2>2, SumDisjoint
    <2> QED
        BY <2>1, <2>3, <2>4
<1>7. c.accrual = SumFunctionOnSet(owed, of)
    <2> DEFINE f == [a \in of |-> Owed(a)]
    <2>1. SumFunction(f) = SumFunctionOnSet(f, of)
        BY DEF SumFunction
    <2>2. \A a \in of : f[a] = owed[a]
        BY <1>3, <1>4
    <2>3. c.accrual = SumFunction(f)
        BY <1>1
    <2> HIDE DEF f
    <2>4. SumFunctionOnSet(f, of) = SumFunctionOnSet(owed, of)
        BY <1>3, <2>2, SumSame
    <2> QED
        BY <2>1, <2>3, <2>4
<1>8. SumFunctionOnSet(gain, of) \in Int /\ SumFunctionOnSet(owed, of) \in Int
    BY <1>3, <1>4, SumIsInt
<1>9. /\ c.longTerm + c.shortTerm = SumFunctionOnSet(gain, C)
      /\ c.accrual = SumFunctionOnSet(owed, C)
      /\ c.accrual \in Int /\ c.longTerm + c.shortTerm \in Int
    BY <1>1, <1>2, <1>6, <1>7, <1>8
<1> QED
    BY <1>9 DEF c, C, gain, owed

\* The four periods' cells of one jurisdiction and year, and what they add up to.
LEMMA CellsAddUp ==
    ASSUME NEW gs, GainsTyped(gs), NEW A, IsFiniteSet(A), \A a \in A : Sound(a), NEW jur, NEW year
    PROVE  LET cells == [q \in Periods |-> QuarterlyCell(gs, A, q, jur, year)]
               S == SoldIn(gs, A, jur, year)
           IN  /\ SumFunction([q \in DOMAIN cells |-> cells[q].longTerm + cells[q].shortTerm])
                      = SumFunctionOnSet([a \in A |-> a.gain], S)
               /\ SumFunction([q \in DOMAIN cells |-> cells[q].accrual])
                      = SumFunctionOnSet([a \in A |-> Owed(a)], S)
<1> DEFINE cells == [q \in Periods |-> QuarterlyCell(gs, A, q, jur, year)]
           S == SoldIn(gs, A, jur, year)
           gain == [a \in A |-> a.gain]
           owed == [a \in A |-> Owed(a)]
           gains == [q \in DOMAIN cells |-> cells[q].longTerm + cells[q].shortTerm]
           accruals == [q \in DOMAIN cells |-> cells[q].accrual]
           class == [a \in S |-> PeriodOf(gs, a)]
<1>1. IsFiniteSet(S) /\ S \subseteq A
    BY FS_Subset DEF SoldIn, InBucket
<1>2. \A a \in A : gain[a] \in Int /\ owed[a] \in Int
    BY DEF Sound
<1>3. \A a \in S : class[a] \in Periods
    BY DEF PeriodOf, QuarterOf, Periods
<1>4. IsFiniteSet(Periods)
    <2>1. IsFiniteSet({"Q1"})
        BY FS_Singleton
    <2>2. IsFiniteSet({"Q1"} \cup {"Q2"})
        BY <2>1, FS_AddElement
    <2>3. IsFiniteSet({"Q1"} \cup {"Q2"} \cup {"Q3"})
        BY <2>2, FS_AddElement
    <2>4. IsFiniteSet({"Q1"} \cup {"Q2"} \cup {"Q3"} \cup {"Q4"})
        BY <2>3, FS_AddElement
    <2>5. Periods = {"Q1"} \cup {"Q2"} \cup {"Q3"} \cup {"Q4"}
        BY DEF Periods
    <2> QED
        BY <2>4, <2>5
<1>5. DOMAIN gains = Periods /\ DOMAIN accruals = Periods
    OBVIOUS
<1>6. ASSUME NEW q \in Periods
      PROVE  /\ gains[q] = SumFunctionOnSet(gain, {a \in S : class[a] = q})
             /\ accruals[q] = SumFunctionOnSet(owed, {a \in S : class[a] = q})
    <2> DEFINE C == {a \in S : PeriodOf(gs, a) = q}
    <2>1. {a \in S : class[a] = q} = C
        OBVIOUS
    <2>2. LET D == {a \in SoldIn(gs, A, jur, year) : PeriodOf(gs, a) = q}
              c == QuarterlyCell(gs, A, q, jur, year)
          IN  /\ c.longTerm + c.shortTerm = SumFunctionOnSet([a \in A |-> a.gain], D)
              /\ c.accrual = SumFunctionOnSet([a \in A |-> Owed(a)], D)
              /\ c.accrual \in Int /\ c.longTerm + c.shortTerm \in Int
        <3> HIDE DEF C, S, gain, owed, class, gains, accruals, cells
        <3> QED
            BY CellFacts
    <2>4. gains[q] = SumFunctionOnSet(gain, C) /\ accruals[q] = SumFunctionOnSet(owed, C)
        BY <2>2
    <2> HIDE DEF C, gain, owed, class, gains, accruals
    <2> QED
        BY <2>1, <2>4
<1> HIDE DEF S, gain, owed, gains, accruals, class
<1>7. ASSUME NEW f, \A a \in S : f[a] \in Int, NEW g, DOMAIN g = Periods,
             \A q \in Periods : g[q] = SumFunctionOnSet(f, {a \in S : class[a] = q})
      PROVE  SumFunction(g) = SumFunctionOnSet(f, S)
    <2>1. \A q \in Periods : g[q] = ByClass(f, S, class, Periods)[q]
        BY <1>7 DEF ByClass
    <2>2. SumFunctionOnSet(g, Periods) = SumFunctionOnSet(ByClass(f, S, class, Periods), Periods)
        BY <1>4, <2>1, SumSame
    <2>3. SumFunctionOnSet(ByClass(f, S, class, Periods), Periods) = SumFunctionOnSet(f, S)
        BY <1>1, <1>3, <1>4, <1>7, SumPartition
    <2>4. SumFunction(g) = SumFunctionOnSet(g, Periods)
        BY <1>7 DEF SumFunction
    <2> QED
        BY <2>2, <2>3, <2>4
<1>8. SumFunction(gains) = SumFunctionOnSet(gain, S)
    BY <1>1, <1>2, <1>5, <1>6, <1>7
<1>9. SumFunction(accruals) = SumFunctionOnSet(owed, S)
    BY <1>1, <1>2, <1>5, <1>6, <1>7
<1> QED
    BY <1>8, <1>9 DEF gains, accruals, gain, owed, S

\* The figure seeded for a jurisdiction and year.
Seeded(es, jur, year) ==
    IF MigrationKey(jur, year) \in SeededKeys(es) THEN SeededAmount(es, MigrationKey(jur, year)) ELSE 0

\* What the accruals of a jurisdiction and year add up to is what those of gains do and
\* the seeded figure, which has no gain.
LEMMA BucketAddsUp ==
    ASSUME NEW gs, GainsTyped(gs), NEW es \in Seq(TaxPayloads), NEW ctx, ContextTyped(ctx), NEW jur, NEW year,
           NEW A, A = ComputeAccruals(gs, es, ctx)
    PROVE  LET B == InBucket(A, jur, year)
               S == SoldIn(gs, A, jur, year)
           IN  /\ SumFunctionOnSet([a \in A |-> a.gain], B) = SumFunctionOnSet([a \in A |-> a.gain], S)
               /\ SumFunctionOnSet([a \in A |-> Owed(a)], B)
                      = SumFunctionOnSet([a \in A |-> Owed(a)], S) + Seeded(es, jur, year)
<1> DEFINE B == InBucket(A, jur, year)
           S == SoldIn(gs, A, jur, year)
           gain == [a \in A |-> a.gain]
           owed == [a \in A |-> Owed(a)]
           key == MigrationKey(jur, year)
           m == MigrationAccrual(es, ctx, key)
<1>1. /\ IsFiniteSet(A) /\ \A a \in A : Sound(a)
      /\ \A a \in A : ~OfGain(gs, a) <=> \E k \in SeededKeys(es) : a = MigrationAccrual(es, ctx, k)
      /\ \A k \in SeededKeys(es) : MigrationAccrual(es, ctx, k) \in A
    BY AccrualFacts
<1>2. /\ IsFiniteSet(B) /\ IsFiniteSet(S) /\ S \subseteq B /\ B \subseteq A
      /\ B \ S = {a \in B : ~OfGain(gs, a)}
    BY <1>1, FS_Subset DEF SoldIn, InBucket
<1>3. \A a \in A : gain[a] = a.gain /\ owed[a] = Owed(a) /\ gain[a] \in Int /\ owed[a] \in Int
    BY <1>1 DEF Sound
<1>4. key.jur = jur /\ key.year = year
    BY DEF MigrationKey
<1>5. ASSUME NEW a \in B \ S PROVE a = m /\ key \in SeededKeys(es)
    <2>1. PICK k \in SeededKeys(es) : a = MigrationAccrual(es, ctx, k)
        BY <1>1, <1>2
    <2>2. a.key = k /\ k = MigrationKey(k.jur, k.year)
        BY <2>1, MigrationAccrualFacts
    <2>3. a.key.jur = jur /\ a.key.year = year
        BY DEF InBucket
    <2>4. k = key
        BY <2>2, <2>3
    <2> QED
        BY <2>1, <2>4
<1>6. CASE key \notin SeededKeys(es)
    <2>1. B = S
        BY <1>2, <1>5, <1>6
    <2>2. Seeded(es, jur, year) = 0
        BY <1>6 DEF Seeded
    <2>3. SumFunctionOnSet(owed, S) \in Int
        BY <1>2, <1>3, SumIsInt
    <2> HIDE DEF B, S, gain, owed
    <2>4. /\ SumFunctionOnSet(gain, B) = SumFunctionOnSet(gain, S)
          /\ SumFunctionOnSet(owed, B) = SumFunctionOnSet(owed, S) + Seeded(es, jur, year)
        BY <2>1, <2>2, <2>3
    <2> QED
        BY <2>4 DEF B, S, gain, owed
<1>7. CASE key \in SeededKeys(es)
    <2>1. /\ ~OfGain(gs, m) /\ m.key = key /\ m.gain = 0 /\ Owed(m) = SeededAmount(es, key)
        BY <1>7, MigrationAccrualFacts
    <2>2. m \in A /\ m \in B /\ m \notin S
        BY <1>1, <1>4, <1>7, <2>1 DEF InBucket, SoldIn
    <2>3. B = S \cup {m}
        BY <1>2, <1>5, <2>2
    <2>4. gain[m] = 0 /\ owed[m] = Seeded(es, jur, year)
        BY <1>3, <1>7, <2>1, <2>2 DEF Seeded
    <2> HIDE DEF B, S, gain, owed, m
    <2>5. SumFunctionOnSet(gain, S \cup {m}) = gain[m] + SumFunctionOnSet(gain, S)
        BY <1>2, <1>3, <2>2, <2>3, SumAdd
    <2>6. SumFunctionOnSet(owed, S \cup {m}) = owed[m] + SumFunctionOnSet(owed, S)
        BY <1>2, <1>3, <2>2, <2>3, SumAdd
    <2>7. SumFunctionOnSet(owed, S) \in Int /\ SumFunctionOnSet(gain, S) \in Int /\ owed[m] \in Int
        BY <1>2, <1>3, <2>2, SumIsInt
    <2>8. SumFunctionOnSet(gain, B) = SumFunctionOnSet(gain, S)
        BY <2>3, <2>4, <2>5, <2>7
    <2>9. SumFunctionOnSet(owed, B) = SumFunctionOnSet(owed, S) + owed[m]
        BY <2>3, <2>6, <2>7
    <2> QED
        BY <2>4, <2>8, <2>9 DEF B, S, gain, owed
<1> QED
    BY <1>6, <1>7

\* The row of a jurisdiction and year sums over its accruals.
LEMMA RowFacts ==
    ASSUME NEW es, NEW ctx, NEW A, IsFiniteSet(A), NEW jur, NEW year
    PROVE  LET B == InBucket(A, jur, year)
               row == AnnualRow(es, ctx, A, jur, year)
           IN  /\ row.gain = SumFunctionOnSet([a \in A |-> a.gain], B)
               /\ row.accrued = SumFunctionOnSet([a \in A |-> Owed(a)], B)
<1> DEFINE B == InBucket(A, jur, year)
           row == AnnualRow(es, ctx, A, jur, year)
           gain == [a \in A |-> a.gain]
           owed == [a \in A |-> Owed(a)]
           f == [a \in B |-> a.gain]
           g == [a \in B |-> Owed(a)]
<1>1. row.gain = SumFunction(f) /\ row.accrued = SumFunction(g)
    BY DEF AnnualRow, InBucket
<1>2. SumFunction(f) = SumFunctionOnSet(f, B) /\ SumFunction(g) = SumFunctionOnSet(g, B)
    BY DEF SumFunction
<1>3. IsFiniteSet(B) /\ \A a \in B : f[a] = gain[a] /\ g[a] = owed[a]
    BY FS_Subset DEF InBucket
<1> HIDE DEF B, row, gain, owed, f, g
<1>4. SumFunctionOnSet(f, B) = SumFunctionOnSet(gain, B) /\ SumFunctionOnSet(g, B) = SumFunctionOnSet(owed, B)
    BY <1>3, SumSame
<1>5. row.gain = SumFunctionOnSet(gain, B) /\ row.accrued = SumFunctionOnSet(owed, B)
    BY <1>1, <1>2, <1>4
<1> QED
    BY <1>5 DEF B, row, gain, owed

\* The periods' cells add up to the row, but for the seeded figure.
LEMMA CellsMatchRow ==
    ASSUME NEW gs, GainsTyped(gs), NEW es \in Seq(TaxPayloads), NEW ctx, ContextTyped(ctx), NEW jur, NEW year
    PROVE  LET A == ComputeAccruals(gs, es, ctx)
               cells == [q \in Periods |-> QuarterlyCell(gs, A, q, jur, year)]
               row == AnnualRow(es, ctx, A, jur, year)
           IN  /\ SumFunction([q \in DOMAIN cells |-> cells[q].longTerm + cells[q].shortTerm]) = row.gain
               /\ SumFunction([q \in DOMAIN cells |-> cells[q].accrual]) + Seeded(es, jur, year) = row.accrued
<1> DEFINE A == ComputeAccruals(gs, es, ctx)
<1>1. IsFiniteSet(A) /\ \A a \in A : Sound(a)
    BY AccrualFacts
<1>a. A = ComputeAccruals(gs, es, ctx)
    OBVIOUS
<1> HIDE DEF A
<1>2. LET B == InBucket(A, jur, year)
          S == SoldIn(gs, A, jur, year)
      IN  /\ SumFunctionOnSet([a \in A |-> a.gain], B) = SumFunctionOnSet([a \in A |-> a.gain], S)
          /\ SumFunctionOnSet([a \in A |-> Owed(a)], B)
                 = SumFunctionOnSet([a \in A |-> Owed(a)], S) + Seeded(es, jur, year)
    BY <1>a, BucketAddsUp
<1>3. LET B == InBucket(A, jur, year)
          row == AnnualRow(es, ctx, A, jur, year)
      IN  /\ row.gain = SumFunctionOnSet([a \in A |-> a.gain], B)
          /\ row.accrued = SumFunctionOnSet([a \in A |-> Owed(a)], B)
    BY <1>1, RowFacts
<1>4. LET cells == [q \in Periods |-> QuarterlyCell(gs, A, q, jur, year)]
          S == SoldIn(gs, A, jur, year)
      IN  /\ SumFunction([q \in DOMAIN cells |-> cells[q].longTerm + cells[q].shortTerm])
                 = SumFunctionOnSet([a \in A |-> a.gain], S)
          /\ SumFunction([q \in DOMAIN cells |-> cells[q].accrual])
                 = SumFunctionOnSet([a \in A |-> Owed(a)], S)
    BY <1>1, CellsAddUp
<1>5. LET cells == [q \in Periods |-> QuarterlyCell(gs, A, q, jur, year)]
          row == AnnualRow(es, ctx, A, jur, year)
      IN  /\ SumFunction([q \in DOMAIN cells |-> cells[q].longTerm + cells[q].shortTerm]) = row.gain
          /\ SumFunction([q \in DOMAIN cells |-> cells[q].accrual]) + Seeded(es, jur, year) = row.accrued
    BY <1>2, <1>3, <1>4
<1> QED
    BY <1>5 DEF A

\* The quarterly report gives every accrual of a sale to one period: nothing that is owed
\* for the year is missing in it or in it twice, whatever was overridden or superseded.
THEOREM QuartersMakeTheYear == BookSpec => []QuarterlyPartitionsAnnual
<1>1. BookTypeOK => QuarterlyPartitionsAnnual
    <2> SUFFICES ASSUME BookTypeOK PROVE QuarterlyPartitionsAnnual
        OBVIOUS
    <2> DEFINE gs == RealizedGains(log)
               ctx == ContextOf(cell)
               A == ComputeAccruals(gs, events, ctx)
    <2>1. GainsTyped(gs) /\ ContextTyped(ctx) /\ events \in Seq(TaxPayloads)
        BY GainFacts, ContextFacts DEF BookTypeOK
    <2>2. \A jur, year :
              LET cells == [q \in {"Q1", "Q2", "Q3", "Q4"} |-> QuarterlyCell(gs, A, q, jur, year)]
                  row == AnnualRow(events, ctx, A, jur, year)
              IN  /\ SumFunction([q \in DOMAIN cells |-> cells[q].longTerm + cells[q].shortTerm]) = row.gain
                  /\ SumFunction([q \in DOMAIN cells |-> cells[q].accrual])
                         + (IF MigrationKey(jur, year) \in SeededKeys(events)
                            THEN SeededAmount(events, MigrationKey(jur, year)) ELSE 0) = row.accrued
        <3> HIDE DEF gs, ctx
        <3> QED
            BY <2>1, CellsMatchRow DEF Periods, Seeded
    <2> QED
        BY <2>2 DEF QuarterlyPartitionsAnnual
<1> QED
    BY <1>1, BookTypeCorrect, PTL
==============================================================================
