----------------------------- MODULE LedgerCore -----------------------------
(***************************************************************************)
(* ledger-core: an append-only log of Buy, Vest, Sell, Split and Reversal  *)
(* events, the fold that replays it into tax lots and realized gains, and  *)
(* the append-time validator.  Every read and every validation refolds the *)
(* whole log, so the log is the only state.                                *)
(*                                                                         *)
(* An event's position in the log is its Seq and its EventId: store hands  *)
(* out dense sequence numbers and unique ids.  A payload field the kernel  *)
(* copies without reading (tracking code, accrual state, LotSource) is     *)
(* left out.                                                               *)
(***************************************************************************)
EXTENDS MoneyArithmetic, Sequences, FiniteSets, SequencesExt, FiniteSetsExt

CONSTANTS
    Payloads,       \* the candidate event payloads an owner may submit
    MaxEvents       \* bound on the length of the log

ASSUME MaxEventsAssumption == MaxEvents \in Nat

\* The fields of a payload have the integer types of LedgerEventKind, whatever
\* their values: the validator is there to refuse the absurd ones.
ASSUME PayloadsAssumption ==
    \A e \in Payloads :
        /\ e.kind \in {"Buy", "Vest", "Sell", "Split", "Reversal"}
        /\ e.kind \in {"Buy", "Vest", "Sell"} =>
               e.qty \in Int /\ e.price \in Int /\ e.date \in Int
        /\ e.kind \in {"Buy", "Sell"} => e.fees \in Int
        /\ e.kind = "Sell" => e.refs \in Seq([lot : STRING, qty : Int])
        /\ e.kind = "Split" => e.num \in Int /\ e.den \in Int

VARIABLE log        \* the accepted events, in Seq order

(***************************************************************************)
(* The fold state.  depended holds the opening events whose lots a Sell    *)
(* consumed or a Split rescaled; dropped records the events the fold       *)
(* refused, whose error replay discards.                                   *)
(***************************************************************************)
EmptyFold == [lots |-> <<>>, gains |-> <<>>, depended |-> {}, dropped |-> {}]

ReversalsOf(l) == {i \in DOMAIN l : l[i].kind = "Reversal"}
ReversedTargets(l) == {l[i].target : i \in ReversalsOf(l)}

Survivors(l) == DOMAIN l \ (ReversalsOf(l) \cup ReversedTargets(l))

\* Mutant of Older: lots ranked by the order they were recorded in.
Older_ByRecording(a, b) == a.openSeq < b.openSeq

Older(a, b) ==
    \/ a.acquired < b.acquired
    \/ a.acquired = b.acquired /\ a.openSeq < b.openSeq

(***************************************************************************)
(* Buy and Vest                                                            *)
(***************************************************************************)
OpeningValue(e) == Scale(e.qty * e.price)
OpeningBasis(e) ==
    IF e.kind = "Buy" THEN OpeningValue(e) + e.fees ELSE OpeningValue(e)

OpenVerdict(st, e) ==
    IF e.qty <= 0 THEN "NonPositiveQty"
    ELSE IF \E k \in DOMAIN st.lots : st.lots[k].id = e.lot THEN "DuplicateLotId"
    ELSE IF ~WithinCap(OpeningValue(e)) \/ ~WithinCap(OpeningBasis(e))
         THEN "AmountOutOfRange"
    ELSE "Ok"

ApplyOpen(st, seq, e) ==
    [st EXCEPT !.lots = Append(@,
        [id |-> e.lot, symbol |-> e.symbol, platform |-> e.platform,
         acquired |-> e.date, openSeq |-> seq, qty |-> e.qty,
         basis |-> OpeningBasis(e), closed |-> FALSE])]

(***************************************************************************)
(* Sell: lot selection.  A plan is a sequence of <<lot index, quantity>>.  *)
(***************************************************************************)
LotIndex(st, id) == {k \in DOMAIN st.lots : st.lots[k].id = id}

\* Mutant of RefVerdict: the remaining quantity of the lot is not compared.
RefVerdict_NoQuantityCheck(st, e, j) ==
    LET hit == LotIndex(st, e.refs[j].lot)
    IN  IF \E i \in 1..(j - 1) : e.refs[i].lot = e.refs[j].lot THEN "DuplicateLotRef"
        ELSE IF hit = {} THEN "UnknownLot"
        ELSE "Ok"

\* Specific identification: the first defect of the references, in order.
RefVerdict(st, e, j) ==
    LET ref == e.refs[j]
        hit == LotIndex(st, ref.lot)
        lot == st.lots[CHOOSE k \in hit : TRUE]
    IN  IF \E i \in 1..(j - 1) : e.refs[i].lot = ref.lot THEN "DuplicateLotRef"
        ELSE IF hit = {} THEN "UnknownLot"
        ELSE IF lot.symbol # e.symbol THEN "WrongSymbolLot"
        ELSE IF lot.platform # e.platform THEN "WrongPlatform"
        ELSE IF ref.qty <= 0 THEN "NonPositiveQty"
        ELSE IF lot.closed \/ ref.qty > lot.qty THEN "InsufficientShares"
        ELSE "Ok"

SpecificVerdict(st, e) ==
    LET first(verdicts) ==
            LET bad == {j \in DOMAIN e.refs : verdicts[j] # "Ok"}
            IN  IF bad # {} THEN verdicts[Min(bad)]
                ELSE IF SumFunction([j \in DOMAIN e.refs |-> e.refs[j].qty]) # e.qty
                     THEN "LotRefsMismatch"
                ELSE "Ok"
    IN  first([j \in DOMAIN e.refs |-> RefVerdict(st, e, j)])

SpecificPlan(st, e) ==
    [j \in DOMAIN e.refs |->
        <<CHOOSE k \in LotIndex(st, e.refs[j].lot) : TRUE, e.refs[j].qty>>]

\* FIFO: the open lots of the symbol on the platform, oldest first.
FifoCandidates(st, e) ==
    {k \in DOMAIN st.lots :
        /\ ~st.lots[k].closed
        /\ st.lots[k].symbol = e.symbol
        /\ st.lots[k].platform = e.platform
        /\ st.lots[k].qty > 0}

QtyOf(st, K) == SumFunction([k \in K |-> st.lots[k].qty])

\* Of the candidates that the older ones leave something to sell of, the n-th is
\* the one with n - 1 older; it gives what it has or what is still needed.
FifoPlan(st, e) ==
    LET open     == FifoCandidates(st, e)
        older(k) == {j \in open : Older(st.lots[j], st.lots[k])}
        need(k)  == e.qty - QtyOf(st, older(k))
        reached  == {k \in open : need(k) > 0}
        take(k)  == <<k, IF st.lots[k].qty >= need(k) THEN need(k) ELSE st.lots[k].qty>>
    IN  [n \in 1..Cardinality(reached) |->
            take(CHOOSE k \in reached : Cardinality(older(k)) = n - 1)]

SelectVerdict(st, e) ==
    IF e.refs # <<>> THEN SpecificVerdict(st, e)
    ELSE IF QtyOf(st, FifoCandidates(st, e)) < e.qty THEN "InsufficientShares"
    ELSE "Ok"

SelectLots(st, e) ==
    IF e.refs # <<>> THEN SpecificPlan(st, e) ELSE FifoPlan(st, e)

Gross(e) == Scale(e.qty * e.price)
Net(e) == Gross(e) - e.fees

SellVerdict(st, e) ==
    LET checked(selected) ==
            IF e.qty <= 0 THEN "NonPositiveQty"
            ELSE IF selected # "Ok" THEN selected
            ELSE IF ~WithinCap(Gross(e)) \/ ~WithinCap(Net(e)) THEN "AmountOutOfRange"
            ELSE "Ok"
    IN  checked(SelectVerdict(st, e))

\* Mutant of AllocateProceeds: the residual units are lost.
AllocateProceeds_FloorsOnly(st, plan, net, total) ==
    [k \in DOMAIN plan |-> AllocFloor(net, plan[k][2], total)]

\* Largest remainder: floor shares, then one more unit for each of the
\* residual highest-ranked positions of the plan.
AllocateProceeds(st, plan, net, total) ==
    LET floor(k) == AllocFloor(net, plan[k][2], total)
        rem(k)   == AllocRemainder(net, plan[k][2], total)
        ahead(k) == {j \in DOMAIN plan :
                        \/ rem(j) > rem(k)
                        \/ rem(j) = rem(k) /\ Older(st.lots[plan[j][1]],
                                                    st.lots[plan[k][1]])}
        share(residual) == [k \in DOMAIN plan |->
            IF Cardinality(ahead(k)) < residual THEN floor(k) + 1 ELSE floor(k)]
    IN  share(net - SumFunction([k \in DOMAIN plan |-> floor(k)]))

\* Mutant of Consume: the dependency on the opening event is not recorded.
Consume_NoDependency(st, seq, e, k, c, proceeds) ==
    LET taking == ConsumeBasis(st.lots[k].basis, st.lots[k].qty, c)
    IN  [st EXCEPT
            !.lots[k].qty = @ - c,
            !.lots[k].basis = taking.left,
            !.lots[k].closed = st.lots[k].qty = c,
            !.gains = Append(@,
                [sale |-> seq, lot |-> st.lots[k].id, symbol |-> e.symbol,
                 qty |-> c, proceeds |-> proceeds, basis |-> taking.taken,
                 saleDate |-> e.date, acquired |-> st.lots[k].acquired])]

\* One (lot, quantity) pair of the plan: the lot gives up quantity and basis,
\* and a RealizedGain is emitted.
Consume(st, seq, e, k, c, proceeds) ==
    LET taking == ConsumeBasis(st.lots[k].basis, st.lots[k].qty, c)
    IN  [st EXCEPT
            !.lots[k].qty = @ - c,
            !.lots[k].basis = taking.left,
            !.lots[k].closed = st.lots[k].qty = c,
            !.depended = @ \cup {st.lots[k].openSeq},
            !.gains = Append(@,
                [sale |-> seq, lot |-> st.lots[k].id, symbol |-> e.symbol,
                 qty |-> c, proceeds |-> proceeds, basis |-> taking.taken,
                 saleDate |-> e.date, acquired |-> st.lots[k].acquired])]

ApplySell(st, seq, e) ==
    LET realize(plan, proceeds) ==
            LET sold[n \in 0..Len(plan)] ==
                    IF n = 0 THEN st
                    ELSE Consume(sold[n - 1], seq, e, plan[n][1], plan[n][2], proceeds[n])
            IN  sold[Len(plan)]
        sell(plan) == realize(plan, AllocateProceeds(st, plan, Net(e), e.qty))
    IN  sell(SelectLots(st, e))

(***************************************************************************)
(* Split: the lots are rescaled one by one, and the first one out of range *)
(* stops the loop with the earlier ones already rescaled.                  *)
(***************************************************************************)
SplitLots(st, e) ==
    {k \in DOMAIN st.lots :
        ~st.lots[k].closed /\ st.lots[k].symbol = e.symbol /\ st.lots[k].qty # 0}

Rescaled(lot, e) == RoundHalfEven(lot.qty * e.num, e.den)

OverCap(st, e) == {k \in SplitLots(st, e) : ~WithinCap(Rescaled(st.lots[k], e))}

SplitVerdict(st, e) ==
    IF e.num < 1 \/ e.den < 1 THEN "BadSplitRatio"
    ELSE IF OverCap(st, e) # {} THEN "AmountOutOfRange"
    ELSE "Ok"

Rescale(st, e, k) ==
    [st EXCEPT !.lots[k].qty = Rescaled(st.lots[k], e),
               !.depended = @ \cup {st.lots[k].openSeq}]

ApplySplit(st, e) ==
    LET rescale(reached) ==
            LET upTo[k \in 0..Len(st.lots)] ==
                    IF k = 0 THEN st
                    ELSE IF k \in reached THEN Rescale(upTo[k - 1], e, k)
                    ELSE upTo[k - 1]
            IN  upTo[Len(st.lots)]
    IN  rescale({k \in SplitLots(st, e) : \A b \in OverCap(st, e) : k < b})

(***************************************************************************)
(* The fold and the validator                                              *)
(***************************************************************************)
FoldVerdict(st, e) ==
    IF e.kind \in {"Buy", "Vest"} THEN OpenVerdict(st, e)
    ELSE IF e.kind = "Sell" THEN SellVerdict(st, e)
    ELSE SplitVerdict(st, e)

ApplyEvent(st, seq, e) ==
    LET marked == [st EXCEPT !.dropped = @ \cup {seq}]
        applied(refused) ==
            IF e.kind = "Split" /\ e.num >= 1 /\ e.den >= 1
            THEN ApplySplit(IF refused THEN marked ELSE st, e)
            ELSE IF refused THEN marked
            ELSE IF e.kind = "Sell" THEN ApplySell(st, seq, e) ELSE ApplyOpen(st, seq, e)
    IN  applied(FoldVerdict(st, e) # "Ok")

\* Mutant of FoldSteps: the surviving events are folded by event date.
FoldSteps_ByDate(l) ==
    LET before(a, b) == l[a].date < l[b].date \/ (l[a].date = l[b].date /\ a < b)
        fold(order) ==
            LET step[n \in 0..Len(l)] ==
                    IF n = 0 THEN EmptyFold
                    ELSE IF n \in DOMAIN order THEN ApplyEvent(step[n - 1], order[n], l[order[n]])
                    ELSE step[n - 1]
            IN  step
    IN  fold(SetToSortSeq(Survivors(l), before))

\* The fold state after each event of the log, in Seq order, Date being data
\* only; what does not survive leaves it as it is.
FoldSteps(l) ==
    LET fold(survivors) ==
            LET step[n \in 0..Len(l)] ==
                    IF n = 0 THEN EmptyFold
                    ELSE IF n \in survivors THEN ApplyEvent(step[n - 1], n, l[n])
                    ELSE step[n - 1]
            IN  step
    IN  fold(Survivors(l))

Replay(l) == FoldSteps(l)[Len(l)]

\* Mutant of ReversalVerdict: dependents of the target are not looked for.
ReversalVerdict_NoDependents(st, l, e) ==
    IF e.target \notin DOMAIN l \/ e.target \in ReversedTargets(l)
    THEN "BadReversal" ELSE "Ok"

\* Mutant of ReversalVerdict: the target need not be in the log.
ReversalVerdict_UnknownTarget(st, l, e) ==
    IF e.target \in ReversedTargets(l) \/ e.target \in st.depended
    THEN "BadReversal" ELSE "Ok"

ReversalVerdict(st, l, e) ==
    IF \/ e.target \notin DOMAIN l
       \/ e.target \in ReversedTargets(l)
       \/ e.target \in st.depended
    THEN "BadReversal"
    ELSE "Ok"

\* validate, over the state st that the accepted log l folds to.
Validate(st, l, e) ==
    IF e.kind = "Reversal" THEN ReversalVerdict(st, l, e) ELSE FoldVerdict(st, e)

-----------------------------------------------------------------------------
Init == log = <<>>

\* An accepted candidate becomes the newest event of the log.
Accept(st, e) ==
    /\ Len(log) < MaxEvents
    /\ Validate(st, log, e) = "Ok"
    /\ log' = Append(log, e)

\* A rejected candidate leaves the log as it was.
Reject(st, e) ==
    /\ Validate(st, log, e) # "Ok"
    /\ UNCHANGED log

\* A submit folds the log and validates the candidate over the result.
Submit(st) == \E e \in Payloads : Accept(st, e) \/ Reject(st, e)

Next == Submit(Replay(log))

Spec == Init /\ [][Next]_log

-----------------------------------------------------------------------------
(***************************************************************************)
(* Properties                                                              *)
(***************************************************************************)
\* The log is a bounded sequence of payloads in which every Reversal points
\* back at an earlier event that no other Reversal points at.
TypeOK ==
    /\ log \in Seq(Payloads)
    /\ Len(log) <= MaxEvents
    /\ \A i \in ReversalsOf(log) :
          /\ log[i].target \in 1..(i - 1)
          /\ \A j \in ReversalsOf(log) : log[j].target = log[i].target => j = i

Symbols == {e.symbol : e \in {p \in Payloads : p.kind # "Reversal"}}
Opens(l) == {i \in DOMAIN l : l[i].kind \in {"Buy", "Vest"}} \ ReversedTargets(l)
Sales(l) == {i \in DOMAIN l : l[i].kind = "Sell"} \ ReversedTargets(l)

\* Replay never meets an event it must reject, whatever is reversed: the
\* contract replay relies on when it discards the result of apply_event.
ReplayNeverRejects == Replay(log).dropped = {}

\* The Splits of l that its replay refuses: what the lots have become when a Sell
\* was taken back, or another Split was, can be too many for MoneyCap.
LostSplits(l) == {i \in Replay(l).dropped : l[i].kind = "Split"}

\* The same contract where no Split was lost: unless a Split was reversed, or
\* refused by the re-fold after some event, reversing a Buy, a Vest, a Sell or a
\* Reversal keeps every later surviving event applicable, even though FIFO sales
\* then consume other lots than before.
ReplayLosesNoTrade ==
    \/ \E i \in ReversedTargets(log) : log[i].kind = "Split"
    \/ \E n \in DOMAIN log : LostSplits(SubSeq(log, 1, n)) # {}
    \/ Replay(log).dropped = {}

\* Basis is conserved: what the surviving openings paid is what the lots still
\* carry plus what the sales consumed, through every split, partial sale and
\* rounding (consume_basis and the closing sweep).
BasisConserved ==
    LET paid(st, sym) ==
            SumFunction([i \in {i \in Opens(log) \ st.dropped : log[i].symbol = sym} |->
                            OpeningBasis(log[i])])
        carried(st, sym) ==
            SumFunction([k \in {k \in DOMAIN st.lots : st.lots[k].symbol = sym} |->
                            st.lots[k].basis])
        consumed(st, sym) ==
            SumFunction([g \in {g \in DOMAIN st.gains : st.gains[g].symbol = sym} |->
                            st.gains[g].basis])
        conserved(st) ==
            \A sym \in Symbols : paid(st, sym) = carried(st, sym) + consumed(st, sym)
    IN  conserved(Replay(log))

\* No lot is ever short, and a closed lot keeps neither shares nor basis.
LotsNonNegative ==
    LET sound(lots) == \A k \in DOMAIN lots :
            /\ lots[k].qty >= 0
            /\ lots[k].closed => lots[k].qty = 0 /\ lots[k].basis = 0
    IN  sound(Replay(log).lots)

\* Each applied sale is fully realized: its gains dispose exactly the quantity
\* sold and share out exactly its net proceeds, whatever the remainders.
SalesReconcile ==
    LET of(st, i) == {g \in DOMAIN st.gains : st.gains[g].sale = i}
        reconciled(st) ==
            \A i \in Sales(log) \ st.dropped :
                /\ SumFunction([g \in of(st, i) |-> st.gains[g].qty]) = log[i].qty
                /\ SumFunction([g \in of(st, i) |-> st.gains[g].proceeds]) = Net(log[i])
    IN  reconciled(Replay(log))

\* FIFO never reaches a younger lot while an older one of the same symbol and
\* platform keeps shares, whatever the order in which the lots were recorded.
FifoTakesOldestFirst ==
    LET acquiredBefore(a, b) ==
            \/ a.acquired < b.acquired
            \/ a.acquired = b.acquired /\ a.openSeq < b.openSeq
        fifo(before, after, e) ==
            \A a, b \in FifoCandidates(before, e) :
                /\ after.lots[a].qty < before.lots[a].qty
                /\ acquiredBefore(before.lots[b], before.lots[a])
                => after.lots[b].qty = 0
        ordered(step) ==
            \A n \in Sales(log) :
                log[n].refs = <<>> => fifo(step[n - 1], step[n], log[n])
    IN  ordered(FoldSteps(log))

\* The accepted reversal of an opening event moves no realized gain: the
\* dependency check keeps out every reversal that would, unless the fold refuses a
\* Split, which the lot in question may be the cause of.
OpeningReversal ==
    \A i \in (DOMAIN log') \ DOMAIN log :
        log'[i].kind = "Reversal" /\ log[log'[i].target].kind \in {"Buy", "Vest"}
            => LostSplits(log) # {} \/ Replay(log').gains = Replay(log).gains

OpeningReversalKeepsGains == [][OpeningReversal]_log

\* An event that is not a reversal, however far back it is dated, leaves the
\* realized gains of the earlier events as they were.
NewEvent ==
    \A i \in (DOMAIN log') \ DOMAIN log :
        log'[i].kind # "Reversal"
            => IsPrefix(Replay(log).gains, Replay(log').gains)

BackdatingRewritesNoGain == [][NewEvent]_log
=============================================================================
