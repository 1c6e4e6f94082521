-------------------------- MODULE LedgerFoldProofs --------------------------
(***************************************************************************)
(* What the fold makes of a log of any length, event by event from the     *)
(* lemmas of LedgerCoreProofs: lots never go below zero, every sale is     *)
(* reconciled with its lots and its money, oldest lots go first, basis is  *)
(* conserved, a new event rewrites no gain, and no accepted event makes    *)
(* replay lose another.                                                    *)
(***************************************************************************)
EXTENDS LedgerCoreProofs

(***************************************************************************)
(* The fold, event by event                                                *)
(***************************************************************************)
\* x is st after the sale e at seq, as ApplySell makes it.
SaleDone(st, seq, e, x) ==
    LET plan == SelectLots(st, e)
        proceeds == AllocateProceeds(st, plan, Net(e), e.qty)
    IN  /\ Fits(st, e, plan) /\ e.qty \in Nat /\ e.qty > 0
        /\ Len(plan) \in Nat /\ DOMAIN plan = 1..Len(plan)
        /\ \A i \in DOMAIN plan : plan[i][1] \in Nat /\ plan[i][2] \in Nat
        /\ proceeds \in [DOMAIN plan -> Int]
        /\ SumFunctionOnSet(proceeds, DOMAIN plan) = Net(e) /\ Net(e) \in Int
        /\ SoldState(st, seq, e, plan, proceeds, Len(plan), x)

\* x is st after the event e at seq.
EventDone(st, seq, e, x) ==
    \/ /\ e.kind \in {"Buy", "Vest"} /\ OpenVerdict(st, e) = "Ok"
       /\ OpenState(st, seq, e, x)
    \/ /\ e.kind = "Sell" /\ SellVerdict(st, e) = "Ok"
       /\ SaleDone(st, seq, e, x)
    \/ /\ e.kind = "Split" /\ e.num >= 1 /\ e.den >= 1 /\ OverCap(st, e) = {}
       /\ SplitState(st, e, SplitReach(st, e), x)
    \/ /\ e.kind = "Split" /\ e.num >= 1 /\ e.den >= 1 /\ OverCap(st, e) # {}
       /\ SplitState(Marked(st, seq), e, SplitReach(st, e), x)
    \/ /\ FoldVerdict(st, e) # "Ok"
       /\ x = Marked(st, seq)

\* ApplyEvent does what its event says, and keeps the fold invariant.
LEMMA ApplyDone ==
    ASSUME NEW st, NEW n \in Nat, FoldOK(st, n), NEW seq \in Nat, n < seq,
           NEW e \in Payloads, e.kind # "Reversal"
    PROVE  /\ EventDone(st, seq, e, ApplyEvent(st, seq, e))
           /\ FoldOK(ApplyEvent(st, seq, e), seq)
<1> DEFINE x == ApplyEvent(st, seq, e)
           y == Marked(st, seq)
<1>0. /\ FoldOK(y, seq) /\ y.lots = st.lots /\ y.gains = st.gains
      /\ y.depended = st.depended /\ y.dropped = st.dropped \cup {seq}
    BY MarkedFold
<1>1. CASE e.kind \in {"Buy", "Vest"} /\ OpenVerdict(st, e) = "Ok" /\ x = ApplyOpen(st, seq, e)
    <2>1. OpenState(st, seq, e, x)
        BY <1>1, OpenForm
    <2>2. FoldOK(x, seq)
        BY <2>1, OpenKeepsFold
    <2> QED
        BY <1>1, <2>1, <2>2 DEF EventDone
<1>2. CASE e.kind = "Sell" /\ SellVerdict(st, e) = "Ok" /\ x = ApplySell(st, seq, e)
    <2>1. SaleDone(st, seq, e, x)
        BY <1>2, SellForm DEF SaleDone
    <2>2. FoldOK(x, seq)
        <3> DEFINE plan == SelectLots(st, e)
                   proceeds == AllocateProceeds(st, plan, Net(e), e.qty)
        <3>1. Fits(st, e, plan) /\ SoldState(st, seq, e, plan, proceeds, Len(plan), x)
            BY <2>1 DEF SaleDone
        <3> HIDE DEF plan, proceeds, x
        <3> QED
            BY <3>1, SellKeepsFold
    <2> QED
        BY <1>2, <2>1, <2>2 DEF EventDone
<1>3. CASE e.kind = "Split" /\ e.num >= 1 /\ e.den >= 1 /\ OverCap(st, e) = {} /\ x = ApplySplit(st, e)
    <2>1. SplitState(st, e, SplitReach(st, e), x)
        BY <1>3, SplitForm
    <2>2. FoldOK(x, seq)
        BY <1>3, <2>1, SplitKeepsFold
    <2> QED
        BY <1>3, <2>1, <2>2 DEF EventDone
<1>4. CASE e.kind = "Split" /\ e.num >= 1 /\ e.den >= 1 /\ OverCap(st, e) # {} /\ x = ApplySplit(y, e)
    <2>1. SplitState(y, e, SplitReach(y, e), x)
        BY <1>0, <1>4, SplitForm
    <2>2. SplitReach(y, e) = SplitReach(st, e)
        BY <1>0 DEF SplitReach, SplitLots, OverCap
    <2>3. FoldOK(x, seq)
        <3>1. SplitState(y, e, SplitReach(st, e), x)
            BY <2>1, <2>2
        <3>2. \A k \in SplitReach(st, e) : k \in DOMAIN st.lots /\ ~st.lots[k].closed
            BY DEF SplitReach, SplitLots
        <3>3. \A k \in DOMAIN st.lots :
                  /\ st.lots[k] \in LotRecords
                  /\ st.lots[k].closed => st.lots[k].qty = 0 /\ st.lots[k].basis = 0
            BY FoldTypes DEF FoldOK
        <3>4. \A k \in DOMAIN st.lots :
                  /\ x.lots[k].openSeq = st.lots[k].openSeq
                  /\ x.lots[k].closed => x.lots[k].qty = 0 /\ x.lots[k].basis = 0
            <4> SUFFICES ASSUME NEW k \in DOMAIN st.lots
                         PROVE  /\ x.lots[k].openSeq = st.lots[k].openSeq
                                /\ x.lots[k].closed => x.lots[k].qty = 0 /\ x.lots[k].basis = 0
                OBVIOUS
            <4> HIDE DEF x, y
            <4>1. CASE k \in SplitReach(st, e)
                <5>1. x.lots[k] = AfterSplit(st.lots[k], e)
                    BY <1>0, <3>1, <4>1 DEF SplitState
                <5>2. /\ AfterSplit(st.lots[k], e).openSeq = st.lots[k].openSeq
                      /\ AfterSplit(st.lots[k], e).closed = st.lots[k].closed
                    BY <1>4, <3>3, SplitLot
                <5> QED
                    BY <3>2, <4>1, <5>1, <5>2
            <4>2. CASE k \notin SplitReach(st, e)
                BY <1>0, <3>1, <3>3, <4>2 DEF SplitState
            <4> QED
                BY <4>1, <4>2
        <3> HIDE DEF x, y
        <3>5. \A g \in DOMAIN x.gains : x.gains[g].sale <= n
            BY <1>0, <3>1 DEF SplitState, FoldOK
        <3>6. x.depended \subseteq st.depended \cup {st.lots[k].openSeq : k \in DOMAIN st.lots}
            BY <1>0, <3>1, <3>2 DEF SplitState
        <3>7. x \in FoldStates /\ DOMAIN x.lots = DOMAIN st.lots /\ x.dropped \subseteq st.dropped \cup {seq}
            BY <1>0, <3>1 DEF SplitState
        <3> QED
            BY <3>4, <3>5, <3>6, <3>7, KeepsFold
    <2>4. EventDone(st, seq, e, x)
        BY <1>4, <2>1, <2>2 DEF EventDone
    <2> QED
        BY <2>3, <2>4
<1>5. CASE FoldVerdict(st, e) # "Ok" /\ x = y
    BY <1>0, <1>5 DEF EventDone
<1> QED
    <2> HIDE DEF x, y
    <2> QED
        BY <1>1, <1>2, <1>3, <1>4, <1>5, EventForms DEF x, y

(***************************************************************************)
(* The states of the fold                                                  *)
(***************************************************************************)
\* F holds the fold states of the first m events of l.
FoldBy(l, survivors, m, F) ==
    F = [n \in 0..m |->
            IF n = 0 THEN EmptyFold
            ELSE IF n \in survivors THEN ApplyEvent(F[n - 1], n, l[n])
            ELSE F[n - 1]]

\* The fold has a state after every event.
LEMMA FoldExists ==
    ASSUME NEW l, NEW survivors, NEW m \in Nat
    PROVE  \E F : FoldBy(l, survivors, m, F)
<1> DEFINE P == {n \in Nat : \E F : FoldBy(l, survivors, n, F)}
<1>1. 0 \in P
    <2>1. FoldBy(l, survivors, 0, [n \in 0..0 |-> EmptyFold])
        BY DEF FoldBy
    <2> QED
        BY <2>1
<1>2. ASSUME NEW n \in Nat, n \in P PROVE n + 1 \in P
    <2>1. PICK F : FoldBy(l, survivors, n, F)
        BY <1>2
    <2> DEFINE Term(i) == IF i = 0 THEN EmptyFold
                          ELSE IF i \in survivors THEN ApplyEvent(F[i - 1], i, l[i])
                          ELSE F[i - 1]
               G == [i \in 0..(n + 1) |-> Term(i)]
    <2>2. \A i \in 0..n : F[i] = Term(i)
        BY <2>1 DEF FoldBy
    <2> HIDE DEF Term
    <2>3. \A i \in 0..n : G[i] = F[i]
        BY <2>2
    <2>4. ASSUME NEW i \in 0..(n + 1)
          PROVE  G[i] = IF i = 0 THEN EmptyFold
                        ELSE IF i \in survivors THEN ApplyEvent(G[i - 1], i, l[i])
                        ELSE G[i - 1]
        <3>1. i # 0 => G[i - 1] = F[i - 1]
            <4>1. i # 0 => i - 1 \in 0..n
                OBVIOUS
            <4> HIDE DEF G
            <4> QED
                BY <2>3, <4>1
        <3>2. G[i] = Term(i)
            OBVIOUS
        <3> HIDE DEF G
        <3> QED
            BY <3>1, <3>2 DEF Term
    <2>5. FoldBy(l, survivors, n + 1, G)
        BY <2>4 DEF FoldBy
    <2> HIDE DEF G
    <2> QED
        BY <2>5
<1> HIDE DEF P
<1>3. m \in P
    BY <1>1, <1>2, NumberInduction
<1> QED
    BY <1>3 DEF P

\* The fold state after an event is that of the event applied to the state before
\* it, or that state itself when the event does not survive.
LEMMA FoldEquations ==
    ASSUME NEW l, Len(l) \in Nat
    PROVE  /\ FoldSteps(l)[0] = EmptyFold
           /\ \A n \in 1..Len(l) :
                  FoldSteps(l)[n] = IF n \in Survivors(l) THEN ApplyEvent(FoldSteps(l)[n - 1], n, l[n])
                                    ELSE FoldSteps(l)[n - 1]
<1> DEFINE F == CHOOSE F : FoldBy(l, Survivors(l), Len(l), F)
<1>1. FoldSteps(l) = F
    BY DEF FoldSteps, FoldBy
<1>2. FoldBy(l, Survivors(l), Len(l), F)
    BY FoldExists
<1> HIDE DEF F
<1>3. /\ F[0] = EmptyFold
      /\ \A n \in 1..Len(l) : F[n] = IF n \in Survivors(l) THEN ApplyEvent(F[n - 1], n, l[n])
                                      ELSE F[n - 1]
    BY <1>2 DEF FoldBy
<1> QED
    BY <1>1, <1>3

\* Every state of the fold is sound.
LEMMA EveryStepOK ==
    ASSUME NEW l \in Seq(Payloads)
    PROVE  \A n \in 0..Len(l) : FoldOK(FoldSteps(l)[n], n)
<1> DEFINE m == Len(l)
           F == FoldSteps(l)
           P == {n \in Nat : n <= m => FoldOK(F[n], n)}
<1>1. m \in Nat /\ DOMAIN l = 1..m
    OBVIOUS
<1>2. /\ F[0] = EmptyFold
      /\ \A n \in 1..m : F[n] = IF n \in Survivors(l) THEN ApplyEvent(F[n - 1], n, l[n])
                                 ELSE F[n - 1]
    BY <1>1, FoldEquations
<1> HIDE DEF F, m
<1>3. 0 \in P
    <2>1. FoldOK(EmptyFold, 0)
        <3>1. EmptyFold \in FoldStates
            BY DEF EmptyFold, FoldStates
        <3>2. DOMAIN EmptyFold.lots = {} /\ DOMAIN EmptyFold.gains = {}
              /\ EmptyFold.depended = {} /\ EmptyFold.dropped = {}
            BY DEF EmptyFold
        <3> QED
            BY <3>1, <3>2 DEF FoldOK
    <2> QED
        BY <1>2, <2>1
<1>4. ASSUME NEW n \in Nat, n \in P PROVE n + 1 \in P
    <2> SUFFICES ASSUME n + 1 <= m PROVE FoldOK(F[n + 1], n + 1)
        OBVIOUS
    <2>1. FoldOK(F[n], n) /\ n + 1 \in 1..m /\ (n + 1) - 1 = n
        BY <1>1, <1>4
    <2>2. CASE n + 1 \in Survivors(l)
        <3>1. l[n + 1] \in Payloads /\ l[n + 1].kind # "Reversal"
            BY <1>1, <2>1, <2>2 DEF Survivors, ReversalsOf
        <3>2. F[n + 1] = ApplyEvent(F[n], n + 1, l[n + 1])
            BY <1>2, <2>1, <2>2
        <3> DEFINE st == F[n]
                   e == l[n + 1]
                   seq == n + 1
        <3>3. FoldOK(st, n) /\ seq \in Nat /\ n < seq /\ e \in Payloads /\ e.kind # "Reversal"
            BY <2>1, <3>1
        <3> HIDE DEF st, e, seq, P
        <3>4. FoldOK(ApplyEvent(st, seq, e), seq)
            BY <3>3, ApplyDone
        <3> QED
            BY <3>2, <3>4 DEF st, e, seq
    <2>3. CASE n + 1 \notin Survivors(l)
        <3>1. F[n + 1] = F[n]
            BY <1>2, <2>1, <2>3
        <3> DEFINE st == F[n]
                   seq == n + 1
        <3>2. FoldOK(st, n) /\ st \in FoldStates /\ seq \in Nat /\ n < seq
            BY <2>1 DEF FoldOK
        <3> HIDE DEF st, seq, P
        <3>3. FoldOK(st, seq)
            BY <3>2, KeepsFold DEF FoldOK
        <3> QED
            BY <3>1, <3>3 DEF st, seq
    <2> QED
        BY <2>2, <2>3
<1>5. \A n \in 0..m : n \in P
    <2> HIDE DEF P
    <2> QED
        BY <1>3, <1>4, NumberInduction
<1> QED
    BY <1>5, <1>1 DEF F, m

\* One step of the fold: the event is applied as EventDone has it, or skipped.
LEMMA StepDone ==
    ASSUME NEW l \in Seq(Payloads), NEW n \in 1..Len(l)
    PROVE  /\ n \in Nat /\ n - 1 \in 0..Len(l) /\ n \in 0..Len(l)
           /\ FoldOK(FoldSteps(l)[n - 1], n - 1) /\ FoldOK(FoldSteps(l)[n], n)
           /\ n \in Survivors(l) => /\ l[n] \in Payloads /\ l[n].kind # "Reversal"
                                    /\ EventDone(FoldSteps(l)[n - 1], n, l[n], FoldSteps(l)[n])
           /\ n \notin Survivors(l) => FoldSteps(l)[n] = FoldSteps(l)[n - 1]
<1> DEFINE F == FoldSteps(l)
           p == n - 1
<1>1. n \in Nat /\ p \in 0..Len(l) /\ n \in 0..Len(l) /\ p < n /\ p \in Nat
    OBVIOUS
<1>2. F[n] = IF n \in Survivors(l) THEN ApplyEvent(F[p], n, l[n]) ELSE F[p]
    BY FoldEquations
<1>3. FoldOK(F[p], p) /\ FoldOK(F[n], n)
    BY <1>1, EveryStepOK
<1> HIDE DEF F, p
<1>4. ASSUME n \in Survivors(l)
      PROVE  l[n] \in Payloads /\ l[n].kind # "Reversal" /\ EventDone(F[p], n, l[n], F[n])
    <2>1. l[n] \in Payloads /\ l[n].kind # "Reversal"
        BY <1>4 DEF Survivors, ReversalsOf
    <2>2. EventDone(F[p], n, l[n], ApplyEvent(F[p], n, l[n]))
        BY <1>1, <1>3, <2>1, ApplyDone
    <2> QED
        BY <1>2, <1>4, <2>1, <2>2
<1> QED
    BY <1>1, <1>2, <1>3, <1>4 DEF F, p

(***************************************************************************)
(* What no later event undoes                                              *)
(***************************************************************************)
\* The first n events decide the first n fold states.
LEMMA StepsAgree ==
    ASSUME NEW l, Len(l) \in Nat, NEW m, Len(m) \in Nat, NEW b \in Nat, b <= Len(l), b <= Len(m),
           \A n \in 1..b : l[n] = m[n] /\ (n \in Survivors(l) <=> n \in Survivors(m))
    PROVE  \A n \in 0..b : FoldSteps(l)[n] = FoldSteps(m)[n]
<1> DEFINE F == FoldSteps(l)
           G == FoldSteps(m)
           P == {n \in Nat : n <= b => F[n] = G[n]}
<1>1. /\ F[0] = EmptyFold /\ G[0] = EmptyFold
      /\ \A n \in 1..Len(l) : F[n] = IF n \in Survivors(l) THEN ApplyEvent(F[n - 1], n, l[n])
                                      ELSE F[n - 1]
      /\ \A n \in 1..Len(m) : G[n] = IF n \in Survivors(m) THEN ApplyEvent(G[n - 1], n, m[n])
                                      ELSE G[n - 1]
    BY FoldEquations
<1> HIDE DEF F, G
<1>2. 0 \in P
    BY <1>1
<1>3. ASSUME NEW n \in Nat, n \in P PROVE n + 1 \in P
    <2> SUFFICES ASSUME n + 1 <= b PROVE F[n + 1] = G[n + 1]
        OBVIOUS
    <2>1. n + 1 \in 1..b /\ n + 1 \in 1..Len(l) /\ n + 1 \in 1..Len(m) /\ (n + 1) - 1 = n
        OBVIOUS
    <2>2. F[n] = G[n]
        BY <1>3
    <2> DEFINE j == n + 1
    <2>3. F[j] = IF j \in Survivors(l) THEN ApplyEvent(F[n], j, l[j]) ELSE F[n]
        BY <1>1, <2>1
    <2>4. G[j] = IF j \in Survivors(m) THEN ApplyEvent(G[n], j, m[j]) ELSE G[n]
        BY <1>1, <2>1
    <2>5. l[j] = m[j] /\ (j \in Survivors(l) <=> j \in Survivors(m))
        BY <2>1
    <2> HIDE DEF j, P
    <2>6. F[j] = G[j]
        BY <2>2, <2>3, <2>4, <2>5
    <2> QED
        BY <2>6 DEF j
<1>4. \A n \in 0..b : n \in P
    <2> HIDE DEF P
    <2> QED
        BY <1>2, <1>3, NumberInduction
<1> QED
    BY <1>4 DEF F, G

\* An appended event other than a Reversal survives with the survivors there were.
LEMMA AppendSurvives ==
    ASSUME NEW l \in Seq(Payloads), ReversalsPointBack(l), NEW e \in Payloads, e.kind # "Reversal"
    PROVE  LET m == Append(l, e)
           IN  /\ m \in Seq(Payloads) /\ Len(l) \in Nat /\ Len(m) = Len(l) + 1
               /\ m[Len(l) + 1] = e /\ \A n \in 1..Len(l) : m[n] = l[n]
               /\ Survivors(m) = Survivors(l) \cup {Len(l) + 1}
               /\ ReversedTargets(m) = ReversedTargets(l)
<1> DEFINE m == Append(l, e)
           b == Len(l)
<1>1. /\ m \in Seq(Payloads) /\ b \in Nat /\ Len(m) = b + 1
      /\ DOMAIN l = 1..b /\ DOMAIN m = 1..(b + 1)
      /\ m[b + 1] = e /\ \A n \in 1..b : m[n] = l[n]
    OBVIOUS
<1> HIDE DEF m, b
<1>2. ReversalsOf(m) = ReversalsOf(l)
    BY <1>1 DEF ReversalsOf
<1>3. \A i \in ReversalsOf(l) : i \in 1..b /\ m[i] = l[i]
    BY <1>1 DEF ReversalsOf
<1>4. ReversedTargets(m) = ReversedTargets(l)
    BY <1>2, <1>3 DEF ReversedTargets
<1>5. \A t \in ReversedTargets(l) : t \in 1..b
    <2>1. ASSUME NEW i \in ReversalsOf(l) PROVE l[i].target \in 1..b
        <3>1. l[i].target \in 1..(i - 1) /\ i \in 1..b
            BY <1>3 DEF ReversalsPointBack
        <3> QED
            BY <1>1, <3>1
    <2> QED
        BY <2>1 DEF ReversedTargets
<1>6. b + 1 \notin ReversedTargets(l) /\ b + 1 \notin ReversalsOf(l) /\ 1..(b + 1) = 1..b \cup {b + 1}
    BY <1>1, <1>3, <1>5
<1>7. Survivors(m) = Survivors(l) \cup {b + 1}
    BY <1>1, <1>2, <1>4, <1>6 DEF Survivors
<1> QED
    BY <1>1, <1>4, <1>7 DEF m, b

\* x has the gains of st, and more of the event at seq only.
GrowsTo(st, seq, e, x) ==
    /\ Len(st.gains) \in Nat /\ Len(x.gains) \in Nat /\ Len(st.gains) <= Len(x.gains)
    /\ \A g \in 1..Len(st.gains) : x.gains[g] = st.gains[g]
    /\ e.kind # "Sell" => x.gains = st.gains
    /\ \A g \in 1..Len(x.gains) :
           g \notin 1..Len(st.gains) => x.gains[g].sale = seq /\ x.gains[g].saleDate = e.date
    /\ x.dropped = st.dropped \/ x.dropped = st.dropped \cup {seq}

\* An event leaves the gains there are, and those it adds are of its own sale; it
\* takes nothing from what was refused.
LEMMA GainsGrow ==
    ASSUME NEW st, NEW n, FoldOK(st, n), NEW seq, NEW e \in Payloads, NEW x, EventDone(st, seq, e, x)
    PROVE  GrowsTo(st, seq, e, x)
<1> USE DEF GrowsTo
<1> DEFINE before == Len(st.gains)
<1>1. st.gains \in Seq(GainRecords) /\ before \in Nat /\ DOMAIN st.gains = 1..before
    BY FoldTypes
<1>2. CASE x.gains = st.gains
    <2>1. x.dropped = st.dropped \/ x.dropped = st.dropped \cup {seq}
        <3>1. FoldOK(st, n) => Marked(st, seq).dropped = st.dropped \cup {seq}
            BY DEF FoldOK, FoldStates, Marked
        <3> QED
            BY <3>1 DEF EventDone, OpenState, SplitState, SaleDone, SoldState
    <2> QED
        BY <1>1, <1>2, <2>1
<1>3. CASE e.kind = "Sell" /\ SaleDone(st, seq, e, x)
    <2> DEFINE plan == SelectLots(st, e)
               proceeds == AllocateProceeds(st, plan, Net(e), e.qty)
               m == Len(plan)
    <2>1. m \in Nat /\ SoldState(st, seq, e, plan, proceeds, m, x)
        BY <1>3 DEF SaleDone
    <2> HIDE DEF plan, proceeds, m
    <2>2. /\ Len(x.gains) = before + m /\ x.dropped = st.dropped
          /\ \A g \in DOMAIN st.gains : x.gains[g] = st.gains[g]
          /\ \A i \in 1..m : x.gains[before + i] = GainOf(st.lots[plan[i][1]], seq, e, plan[i][2], proceeds[i])
        BY <2>1 DEF SoldState
    <2> HIDE DEF before
    <2>3. \A i \in 1..m : x.gains[before + i].sale = seq /\ x.gains[before + i].saleDate = e.date
        <3>1. \A lot, c, share : /\ GainOf(lot, seq, e, c, share).sale = seq
                                 /\ GainOf(lot, seq, e, c, share).saleDate = e.date
            BY DEF GainOf
        <3> QED
            BY <2>2, <3>1
    <2> DEFINE after == Len(x.gains)
    <2>4. after = before + m
        BY <2>2
    <2> HIDE DEF after
    <2>5. ASSUME NEW g \in 1..after, g \notin 1..before
          PROVE  x.gains[g].sale = seq /\ x.gains[g].saleDate = e.date
        <3>1. g - before \in 1..m /\ before + (g - before) = g
            BY <1>1, <2>1, <2>4, <2>5
        <3> QED
            BY <2>3, <3>1
    <2>6. after \in Nat /\ before <= after
        BY <1>1, <2>1, <2>4
    <2> QED
        BY <1>1, <1>3, <2>2, <2>5, <2>6 DEF before, after
<1>4. x.gains = st.gains \/ (e.kind = "Sell" /\ SaleDone(st, seq, e, x))
    <2>1. FoldOK(st, n) => Marked(st, seq).gains = st.gains
        BY DEF FoldOK, FoldStates, Marked
    <2> QED
        BY <2>1 DEF EventDone, OpenState, SplitState
<1> QED
    BY <1>2, <1>3, <1>4

\* No replay, of any log the validator let grow, has a lot that is short, or a
\* closed lot with shares or basis left in it.
THEOREM LotsStaySound == Spec => []LotsNonNegative
<1>1. TypeOK => LotsNonNegative
    <2> SUFFICES ASSUME TypeOK PROVE LotsNonNegative
        OBVIOUS
    <2>1. log \in Seq(Payloads) /\ Len(log) \in 0..Len(log)
        BY DEF TypeOK
    <2> DEFINE st == Replay(log)
    <2>2. FoldOK(st, Len(log))
        BY <2>1, EveryStepOK DEF Replay
    <2> HIDE DEF st
    <2>3. \A k \in DOMAIN st.lots : /\ st.lots[k].qty >= 0
                                    /\ st.lots[k].closed => st.lots[k].qty = 0 /\ st.lots[k].basis = 0
        <3>1. \A k \in DOMAIN st.lots : st.lots[k].qty \in Nat
            BY <2>2, FoldTypes
        <3>2. \A k \in DOMAIN st.lots : st.lots[k].closed => st.lots[k].qty = 0 /\ st.lots[k].basis = 0
            BY <2>2 DEF FoldOK
        <3>3. \A q \in Nat : q >= 0
            OBVIOUS
        <3> QED
            BY <3>1, <3>2, <3>3
    <2> QED
        BY <2>3 DEF LotsNonNegative, st
<1> QED
    BY <1>1, TypeCorrect, PTL

\* The last step of the replay of a log that an event was appended to is that event,
\* over what the log replayed to.
LEMMA LastEvent ==
    ASSUME NEW l \in Seq(Payloads), ReversalsPointBack(l), NEW e \in Payloads, e.kind # "Reversal"
    PROVE  LET st == Replay(l)
               x == Replay(Append(l, e))
           IN  /\ Len(l) \in Nat /\ FoldOK(st, Len(l)) /\ FoldOK(x, Len(l) + 1)
               /\ EventDone(st, Len(l) + 1, e, x)
<1> DEFINE m == Append(l, e)
           b == Len(l)
           seq == b + 1
<1>1. /\ m \in Seq(Payloads) /\ b \in Nat /\ Len(m) = seq /\ seq \in Nat /\ \A n \in 1..b : m[n] = l[n]
      /\ m[seq] = e /\ Survivors(m) = Survivors(l) \cup {seq}
    BY AppendSurvives
<1> HIDE DEF m
<1>2. FoldSteps(l)[b] = FoldSteps(m)[b]
    <2>1. \A n \in 1..b : l[n] = m[n] /\ (n \in Survivors(l) <=> n \in Survivors(m))
        <3>1. \A n \in 1..b : n # seq
            BY <1>1
        <3> HIDE DEF b, seq
        <3> QED
            BY <1>1, <3>1
    <2>2. b <= Len(m) /\ Len(m) \in Nat /\ b <= b /\ b \in 0..b
        BY <1>1
    <2>3. \A n \in 0..b : FoldSteps(l)[n] = FoldSteps(m)[n]
        BY <1>1, <2>1, <2>2, StepsAgree
    <2> QED
        BY <2>2, <2>3
<1>3. seq \in 1..Len(m) /\ seq - 1 = b /\ seq \in Survivors(m)
    BY <1>1
<1> DEFINE st == FoldSteps(m)[b]
           x == FoldSteps(m)[seq]
<1>4. FoldOK(st, b) /\ FoldOK(x, seq) /\ EventDone(st, seq, e, x)
    BY <1>1, <1>3, StepDone
<1>5. Replay(l) = st /\ Replay(m) = x
    BY <1>1, <1>2 DEF Replay
<1> HIDE DEF st, x
<1> QED
    BY <1>1, <1>4, <1>5 DEF m

\* A new event at the end of the log, whatever its date, leaves every gain there was.
LEMMA NewEventKeepsGains ==
    ASSUME NEW l \in Seq(Payloads), ReversalsPointBack(l), NEW e \in Payloads, e.kind # "Reversal"
    PROVE  IsPrefix(Replay(l).gains, Replay(Append(l, e)).gains)
<1> DEFINE st == Replay(l)
           x == Replay(Append(l, e))
           b == Len(l)
           seq == b + 1
<1>1. b \in Nat /\ FoldOK(st, b) /\ FoldOK(x, seq) /\ EventDone(st, seq, e, x)
    BY LastEvent
<1> HIDE DEF st, x, seq, b
<1>2. /\ Len(st.gains) \in Nat /\ Len(x.gains) \in Nat /\ Len(st.gains) <= Len(x.gains)
      /\ \A g \in 1..Len(st.gains) : x.gains[g] = st.gains[g]
    <2>1. GrowsTo(st, seq, e, x)
        BY <1>1, GainsGrow
    <2> QED
        BY <2>1 DEF GrowsTo
<1>3. IsPrefix(st.gains, x.gains)
    <2> DEFINE old == st.gains
               new == x.gains
    <2>1. old \in Seq(GainRecords) /\ new \in Seq(GainRecords) /\ Len(old) <= Len(new)
          /\ \A g \in 1..Len(old) : new[g] = old[g]
        BY <1>1, <1>2 DEF FoldOK, FoldStates
    <2> HIDE DEF old, new
    <2>2. SubSeq(old, 1, Len(old)) = old
        BY <2>1
    <2>3. SubSeq(new, 1, Len(old)) = SubSeq(old, 1, Len(old))
        BY <2>1, <2>2
    <2> QED
        BY <2>1, <2>3 DEF IsPrefix, old, new
<1> QED
    BY <1>3 DEF st, x

\* No event but a Reversal, however far back it is dated, changes a realized gain
\* that replay already shows.
THEOREM BackdatingIsHarmless == Spec => BackdatingRewritesNoGain
<1>1. TypeOK /\ [Next]_log => [NewEvent]_log
    <2> SUFFICES ASSUME TypeOK, Next, log' # log, NEW i \in (DOMAIN log') \ DOMAIN log,
                        log'[i].kind # "Reversal"
                 PROVE  IsPrefix(Replay(log).gains, Replay(log').gains)
        BY DEF NewEvent
    <2>1. log \in Seq(Payloads) /\ ReversalsPointBack(log)
        BY DEF TypeOK, ReversalsPointBack
    <2>2. PICK e \in Payloads : Accept(Replay(log), e)
        BY DEF Next, Submit, Reject
    <2>3. log' = Append(log, e)
        BY <2>2 DEF Accept
    <2>4. i = Len(log) + 1 /\ log'[i] = e
        BY <2>1, <2>3
    <2>5. IsPrefix(Replay(log).gains, Replay(Append(log, e)).gains)
        BY <2>1, <2>4, NewEventKeepsGains
    <2> QED
        BY <2>3, <2>5
<1> QED
    BY <1>1, TypeCorrect, PTL DEF Spec, BackdatingRewritesNoGain

(***************************************************************************)
(* FIFO                                                                    *)
(***************************************************************************)
\* A sale by FIFO that reduces a lot has emptied every older candidate.
LEMMA OldestFirst ==
    ASSUME NEW st, NEW n, FoldOK(st, n), NEW e \in Payloads, e.kind = "Sell", e.refs = <<>>,
           NEW seq, NEW x, SaleDone(st, seq, e, x),
           NEW a \in FifoCandidates(st, e), NEW b \in FifoCandidates(st, e),
           x.lots[a].qty < st.lots[a].qty, Older(st.lots[b], st.lots[a])
    PROVE  x.lots[b].qty = 0
<1> DEFINE plan == FifoPlan(st, e)
           proceeds == AllocateProceeds(st, plan, Net(e), e.qty)
<1>1. SelectLots(st, e) = plan
    BY DEF SelectLots
<1>2. Fits(st, e, plan) /\ SoldState(st, seq, e, plan, proceeds, Len(plan), x)
      /\ Len(plan) \in Nat /\ DOMAIN plan = 1..Len(plan)
    BY <1>1 DEF SaleDone
<1>3. /\ \A i \in DOMAIN plan :
             /\ plan[i][1] \in Reached(st, e)
             /\ plan[i][2] = IF st.lots[plan[i][1]].qty >= Need(st, e, plan[i][1])
                             THEN Need(st, e, plan[i][1]) ELSE st.lots[plan[i][1]].qty
      /\ \A k \in Reached(st, e) : \E i \in DOMAIN plan : plan[i][1] = k
    BY FifoPlanForm
<1> HIDE DEF plan, proceeds
<1>4. a \in DOMAIN st.lots /\ b \in DOMAIN st.lots
    BY DEF FifoCandidates
<1>5. st.lots[a].qty \in Nat /\ st.lots[b].qty \in Nat /\ st.lots[b] \in LotRecords
    BY <1>4, FoldTypes
<1>6. a \in Reached(st, e)
    <2>1. x.lots[a] # st.lots[a]
        BY <1>5
    <2>2. PICK i \in 1..Len(plan) : plan[i][1] = a
        BY <1>2, <1>4, <2>1 DEF SoldState
    <2> QED
        BY <1>2, <1>3, <2>2
<1>7. b \in OlderOpen(st, e, a)
    BY DEF OlderOpen
<1>8. b \in Reached(st, e) /\ Need(st, e, b) > st.lots[b].qty
    BY <1>6, <1>7, OlderAreReached
<1>9. Need(st, e, b) \in Int
    <2>1. OlderOpen(st, e, b) \in SUBSET DOMAIN st.lots
        BY DEF OlderOpen, FifoCandidates
    <2>2. QtyOf(st, OlderOpen(st, e, b)) \in Nat /\ e.qty \in Int
        BY <2>1, QtyIsSum, SellTypes
    <2> QED
        BY <2>2 DEF Need
<1>10. PICK i \in DOMAIN plan : plan[i][1] = b
    BY <1>3, <1>8
<1>11. plan[i][2] = st.lots[b].qty
    <2>1. ~(st.lots[b].qty >= Need(st, e, b))
        BY <1>5, <1>8, <1>9
    <2> QED
        BY <1>3, <1>10, <2>1
<1>12. x.lots[b] = Reduced(st.lots[b], st.lots[b].qty) /\ 0 < st.lots[b].qty
    <2>1. x.lots[plan[i][1]] = Reduced(st.lots[plan[i][1]], plan[i][2])
        BY <1>2, <1>10 DEF SoldState
    <2>2. 0 < plan[i][2]
        BY <1>2, <1>10 DEF Fits
    <2> QED
        BY <1>10, <1>11, <2>1, <2>2
<1> DEFINE lot == st.lots[b]
           q == lot.qty
<1>13. lot \in LotRecords /\ q \in Nat /\ 0 < q /\ q <= lot.qty
    BY <1>5, <1>12
<1> HIDE DEF lot
<1>14. Reduced(lot, q).qty = lot.qty - q
    <2> HIDE DEF q
    <2> QED
        BY <1>13, ReducedLot
<1> QED
    BY <1>12, <1>13, <1>14 DEF lot

\* A sale that survives is there to be applied.
LEMMA SalesSurvive ==
    ASSUME NEW l \in Seq(Payloads), NEW n \in Sales(l)
    PROVE  /\ n \in 1..Len(l) /\ n \in Survivors(l) /\ l[n].kind = "Sell" /\ l[n] \in Payloads
BY DEF Sales, Survivors, ReversalsOf

\* FIFO empties the older lots of the symbol and platform before it touches a younger
\* one, for any lots and in whatever order they were recorded.
THEOREM OldestLotsFirst == Spec => []FifoTakesOldestFirst
<1>1. TypeOK => FifoTakesOldestFirst
    <2> SUFFICES ASSUME TypeOK PROVE FifoTakesOldestFirst
        OBVIOUS
    <2> DEFINE F == FoldSteps(log)
    <2>1. ASSUME NEW n \in Sales(log), log[n].refs = <<>>,
                 NEW a \in FifoCandidates(F[n - 1], log[n]), NEW b \in FifoCandidates(F[n - 1], log[n]),
                 F[n].lots[a].qty < F[n - 1].lots[a].qty,
                 Older(F[n - 1].lots[b], F[n - 1].lots[a])
          PROVE  F[n].lots[b].qty = 0
        <3> DEFINE st == F[n - 1]
                   x == F[n]
                   e == log[n]
        <3>1. log \in Seq(Payloads)
            BY DEF TypeOK
        <3>2. n \in 1..Len(log) /\ n \in Survivors(log) /\ e.kind = "Sell" /\ e \in Payloads
            BY <3>1, SalesSurvive
        <3>3. FoldOK(st, n - 1) /\ EventDone(st, n, e, x) /\ n \in Nat
            BY <3>1, <3>2, StepDone
        <3>4. a \in FifoCandidates(st, e) /\ b \in FifoCandidates(st, e) /\ e.refs = <<>>
              /\ x.lots[a].qty < st.lots[a].qty /\ Older(st.lots[b], st.lots[a])
            BY <2>1
        <3> HIDE DEF F, st, x, e
        <3>5. CASE SaleDone(st, n, e, x)
            <4>1. x.lots[b].qty = 0
                BY <3>2, <3>3, <3>4, <3>5, OldestFirst
            <4> QED
                BY <4>1 DEF x
        <3>6. CASE x = Marked(st, n)
            <4>1. x.lots = st.lots /\ st \in FoldStates
                BY <3>3, <3>6 DEF Marked, FoldOK, FoldStates
            <4>2. a \in DOMAIN st.lots
                BY <3>4 DEF FifoCandidates
            <4>3. st.lots[a].qty \in Nat
                BY <3>3, <4>2, FoldTypes
            <4> QED
                BY <3>4, <4>1, <4>3
        <3> QED
            BY <3>2, <3>3, <3>5, <3>6 DEF EventDone
    <2> HIDE DEF F
    <2> QED
        BY <2>1 DEF FifoTakesOldestFirst, Older, F
<1> QED
    BY <1>1, TypeCorrect, PTL

(***************************************************************************)
(* Sales                                                                   *)
(***************************************************************************)
\* The gains of the sale i in st, and the sum of a column over them.
GainsFrom(st, i) == {g \in DOMAIN st.gains : st.gains[g].sale = i}
Disposed(st, i) == SumFunction([g \in GainsFrom(st, i) |-> st.gains[g].qty])
Received(st, i) == SumFunction([g \in GainsFrom(st, i) |-> st.gains[g].proceeds])

\* The gains of an earlier sale, and what they sum to, stay.
LEMMA EarlierSaleStays ==
    ASSUME NEW st, NEW x, NEW seq, NEW e, GrowsTo(st, seq, e, x), NEW i, i # seq,
           DOMAIN st.gains = 1..Len(st.gains), DOMAIN x.gains = 1..Len(x.gains)
    PROVE  Disposed(x, i) = Disposed(st, i) /\ Received(x, i) = Received(st, i)
<1>1. GainsFrom(x, i) = GainsFrom(st, i) /\ \A g \in GainsFrom(st, i) : x.gains[g] = st.gains[g]
    <2>1. \A g \in GainsFrom(st, i) : g \in 1..Len(x.gains) /\ x.gains[g] = st.gains[g]
        BY DEF GainsFrom, GrowsTo
    <2>2. \A g \in GainsFrom(x, i) : g \in 1..Len(st.gains) /\ x.gains[g] = st.gains[g]
        BY DEF GainsFrom, GrowsTo
    <2> QED
        BY <2>1, <2>2 DEF GainsFrom
<1>2. [g \in GainsFrom(x, i) |-> x.gains[g].qty] = [g \in GainsFrom(st, i) |-> st.gains[g].qty]
    BY <1>1
<1>3. [g \in GainsFrom(x, i) |-> x.gains[g].proceeds] = [g \in GainsFrom(st, i) |-> st.gains[g].proceeds]
    BY <1>1
<1> QED
    BY <1>2, <1>3 DEF Disposed, Received

\* A sale that is made disposes its quantity for its net proceeds.
LEMMA SaleReconciles ==
    ASSUME NEW st, NEW n \in Nat, FoldOK(st, n), NEW seq \in Nat, n < seq, NEW e \in Payloads, e.kind = "Sell",
           NEW x, SaleDone(st, seq, e, x)
    PROVE  Disposed(x, seq) = e.qty /\ Received(x, seq) = Net(e)
<1> DEFINE plan == SelectLots(st, e)
           proceeds == AllocateProceeds(st, plan, Net(e), e.qty)
           m == Len(plan)
           before == Len(st.gains)
<1>1. /\ Fits(st, e, plan) /\ m \in Nat /\ DOMAIN plan = 1..m
      /\ \A i \in 1..m : plan[i][2] \in Nat
      /\ proceeds \in [1..m -> Int]
      /\ SumFunctionOnSet(proceeds, 1..m) = Net(e)
      /\ SoldState(st, seq, e, plan, proceeds, m, x)
    BY DEF SaleDone
<1> HIDE DEF plan, proceeds, m
<1>2. before \in Nat /\ DOMAIN st.gains = 1..before
      /\ \A g \in 1..before : st.gains[g].sale \in Nat /\ st.gains[g].sale <= n
    <2>1. before \in Nat /\ DOMAIN st.gains = 1..before /\ st.gains \in Seq(GainRecords)
        BY FoldTypes
    <2>2. \A g \in 1..before : st.gains[g] \in GainRecords /\ st.gains[g].sale <= n
        BY <2>1 DEF FoldOK
    <2> QED
        BY <2>1, <2>2 DEF GainRecords
<1>3. x.gains \in Seq(GainRecords) /\ Len(x.gains) = before + m
      /\ \A g \in 1..before : x.gains[g] = st.gains[g]
      /\ \A i \in 1..m : x.gains[before + i] = GainOf(st.lots[plan[i][1]], seq, e, plan[i][2], proceeds[i])
    BY <1>1, <1>2 DEF SoldState, FoldStates
<1>4. \A i \in 1..m : /\ x.gains[before + i].sale = seq /\ x.gains[before + i].qty = plan[i][2]
                      /\ x.gains[before + i].proceeds = proceeds[i]
    <2>1. \A lot, c, share : /\ GainOf(lot, seq, e, c, share).sale = seq
                             /\ GainOf(lot, seq, e, c, share).qty = c
                             /\ GainOf(lot, seq, e, c, share).proceeds = share
        BY DEF GainOf
    <2>2. ASSUME NEW i \in 1..m
          PROVE  /\ x.gains[before + i].sale = seq /\ x.gains[before + i].qty = plan[i][2]
                 /\ x.gains[before + i].proceeds = proceeds[i]
        <3>1. x.gains[before + i] = GainOf(st.lots[plan[i][1]], seq, e, plan[i][2], proceeds[i])
            BY <1>1 DEF SoldState
        <3> QED
            BY <2>1, <3>1
    <2> QED
        BY <2>2
<1> DEFINE after == Len(x.gains)
<1>5. DOMAIN x.gains = 1..after /\ after = before + m
    BY <1>3
<1> HIDE DEF before, after
<1> DEFINE mine == GainsFrom(x, seq)
           at == [i \in 1..m |-> before + i]
<1>6. \A g : g \in mine <=> \E i \in 1..m : g = before + i
    <2>1. ASSUME NEW g \in mine PROVE \E i \in 1..m : g = before + i
        <3>1. g \in 1..after /\ x.gains[g].sale = seq
            BY <1>5 DEF GainsFrom
        <3>2. g \notin 1..before
            BY <1>2, <1>3, <3>1
        <3>3. g - before \in 1..m /\ g = before + (g - before)
            BY <1>1, <1>2, <1>5, <3>1, <3>2
        <3> QED
            BY <3>3
    <2>2. ASSUME NEW i \in 1..m PROVE before + i \in mine
        <3>1. before + i \in 1..after
            BY <1>1, <1>2, <1>5
        <3> QED
            BY <1>4, <1>5, <3>1 DEF GainsFrom
    <2> QED
        BY <2>1, <2>2
<1> HIDE DEF mine
<1>7. at \in Bijection(1..m, mine)
    <2>1. \A i \in 1..m : at[i] \in mine
        BY <1>6
    <2>2. \A i, j \in 1..m : at[i] = at[j] => i = j
        BY <1>1, <1>2
    <2>3. \A g \in mine : \E i \in 1..m : at[i] = g
        BY <1>6
    <2>4. at \in [1..m -> mine]
        BY <2>1
    <2> HIDE DEF at
    <2>5. at \in Injection(1..m, mine)
        BY <2>2, <2>4 DEF Injection, IsInjective
    <2>6. at \in Surjection(1..m, mine)
        BY <2>3, <2>4 DEF Surjection
    <2> QED
        BY <2>5, <2>6 DEF Bijection
<1>8. IsFiniteSet(1..m)
    BY <1>1, FS_Interval
<1> DEFINE qs == [g \in mine |-> x.gains[g].qty]
           ps == [g \in mine |-> x.gains[g].proceeds]
           taken == [i \in 1..m |-> plan[i][2]]
<1>9. \A i \in 1..m : /\ taken[i] \in Int /\ taken[i] = qs[at[i]]
                      /\ proceeds[i] \in Int /\ proceeds[i] = ps[at[i]]
    <2>1. \A i \in 1..m : at[i] = before + i /\ at[i] \in mine
        BY <1>6
    <2>2. \A i \in 1..m : /\ at[i] \in mine /\ x.gains[at[i]].qty = plan[i][2]
                          /\ x.gains[at[i]].proceeds = proceeds[i]
        <3> HIDE DEF at
        <3> QED
            BY <1>4, <2>1
    <2> HIDE DEF at
    <2>3. \A i \in 1..m : qs[at[i]] = plan[i][2] /\ ps[at[i]] = proceeds[i]
        BY <2>2
    <2>4. \A i \in 1..m : taken[i] = plan[i][2] /\ taken[i] \in Int /\ proceeds[i] \in Int
        BY <1>1
    <2> HIDE DEF qs, ps, taken
    <2> QED
        BY <2>3, <2>4
<1> HIDE DEF at, qs, ps, taken
<1>10. SumFunctionOnSet(taken, 1..m) = SumFunctionOnSet(qs, mine)
    <2> DEFINE I == 1..m
    <2>1. IsFiniteSet(I) /\ at \in Bijection(I, mine)
        BY <1>7, <1>8
    <2>2. \A i \in I : taken[i] \in Int /\ taken[i] = qs[at[i]]
        BY <1>9
    <2> HIDE DEF I
    <2>3. SumFunctionOnSet(taken, I) = SumFunctionOnSet(qs, mine)
        BY <2>1, <2>2, SumReindexed
    <2> QED
        BY <2>3 DEF I
<1>11. SumFunctionOnSet(proceeds, 1..m) = SumFunctionOnSet(ps, mine)
    <2> DEFINE I == 1..m
    <2>1. IsFiniteSet(I) /\ at \in Bijection(I, mine)
        BY <1>7, <1>8
    <2>2. \A i \in I : proceeds[i] \in Int /\ proceeds[i] = ps[at[i]]
        BY <1>9
    <2> HIDE DEF I
    <2>3. SumFunctionOnSet(proceeds, I) = SumFunctionOnSet(ps, mine)
        BY <2>1, <2>2, SumReindexed
    <2> QED
        BY <2>3 DEF I
<1>12. SumFunctionOnSet(taken, 1..m) = e.qty
    <2>1. SumFunction([i \in DOMAIN plan |-> plan[i][2]]) = e.qty
        BY <1>1 DEF Fits
    <2> QED
        BY <1>1, <2>1 DEF SumFunction, taken
<1>13. Disposed(x, seq) = SumFunctionOnSet(qs, mine) /\ Received(x, seq) = SumFunctionOnSet(ps, mine)
    BY DEF Disposed, Received, SumFunction, qs, ps, mine
<1> QED
    BY <1>1, <1>10, <1>11, <1>12, <1>13

\* Up to the n-th event, every sale that the fold made is reconciled.
Reconciled(l, n) ==
    \A i \in Sales(l) :
        i <= n /\ i \notin FoldSteps(l)[n].dropped
            => Disposed(FoldSteps(l)[n], i) = l[i].qty /\ Received(FoldSteps(l)[n], i) = Net(l[i])

\* Every sale of every log is reconciled after every event from its own on.
LEMMA EverySaleReconciles ==
    ASSUME NEW l \in Seq(Payloads)
    PROVE  \A n \in 0..Len(l) : Reconciled(l, n)
<1> DEFINE m == Len(l)
           F == FoldSteps(l)
           P == {n \in Nat : n <= m => Reconciled(l, n)}
<1>1. m \in Nat
    OBVIOUS
<1>2. \A i \in Sales(l) : i \in 1..m /\ i \in Survivors(l) /\ l[i].kind = "Sell" /\ l[i] \in Payloads
    BY SalesSurvive
<1> HIDE DEF m
<1>3. 0 \in P
    BY <1>1, <1>2 DEF Reconciled
<1>4. ASSUME NEW n \in Nat, n \in P PROVE n + 1 \in P
    <2> DEFINE seq == n + 1
               st == F[n]
               x == F[seq]
               e == l[seq]
    <2> SUFFICES ASSUME seq <= m PROVE Reconciled(l, seq)
        OBVIOUS
    <2>1. seq \in 1..m /\ seq - 1 = n /\ Reconciled(l, n) /\ n < seq /\ seq \in Nat
        BY <1>1, <1>4
    <2> HIDE DEF P
    <2>2. FoldOK(st, n) /\ FoldOK(x, seq)
          /\ (seq \in Survivors(l) => e \in Payloads /\ e.kind # "Reversal" /\ EventDone(st, seq, e, x))
          /\ (seq \notin Survivors(l) => x = st)
        BY <2>1, StepDone DEF m
    <2> SUFFICES ASSUME NEW i \in Sales(l), i <= seq, i \notin x.dropped
                 PROVE  Disposed(x, i) = l[i].qty /\ Received(x, i) = Net(l[i])
        BY DEF Reconciled
    <2>3. i \in 1..m /\ i \in Survivors(l) /\ l[i].kind = "Sell" /\ l[i] \in Payloads /\ i \in Nat
        BY <1>1, <1>2
    <2>4. i = seq \/ i <= n
        BY <2>1, <2>3
    <2>5. i <= n /\ i \notin st.dropped => Disposed(st, i) = l[i].qty /\ Received(st, i) = Net(l[i])
        BY <2>1 DEF Reconciled
    <2> HIDE DEF F, st, x, e, seq
    <2>6. CASE i = seq
        <3>1. EventDone(st, seq, e, x) /\ e.kind = "Sell" /\ e \in Payloads
            BY <2>2, <2>3, <2>6 DEF e
        <3>2. x # Marked(st, seq)
            <4>1. Marked(st, seq).dropped = st.dropped \cup {seq}
                BY <2>2 DEF Marked, FoldOK, FoldStates
            <4> QED
                BY <2>6, <4>1
        <3>3. SaleDone(st, seq, e, x)
            BY <3>1, <3>2 DEF EventDone
        <3>4. Disposed(x, seq) = e.qty /\ Received(x, seq) = Net(e)
            BY <2>1, <2>2, <3>1, <3>3, SaleReconciles
        <3> QED
            BY <2>6, <3>4 DEF e
    <2>7. CASE i <= n /\ i # seq /\ seq \in Survivors(l)
        <3>1. GrowsTo(st, seq, e, x)
            BY <2>2, <2>7, GainsGrow
        <3>2. i \notin st.dropped
            BY <3>1 DEF GrowsTo
        <3>3. DOMAIN st.gains = 1..Len(st.gains) /\ DOMAIN x.gains = 1..Len(x.gains)
            BY <2>2, FoldTypes
        <3>4. Disposed(x, i) = Disposed(st, i) /\ Received(x, i) = Received(st, i)
            BY <2>7, <3>1, <3>3, EarlierSaleStays
        <3> QED
            BY <2>5, <2>7, <3>2, <3>4
    <2>8. CASE i <= n /\ seq \notin Survivors(l)
        BY <2>2, <2>5, <2>8
    <2> QED
        BY <2>3, <2>4, <2>6, <2>7, <2>8
<1>5. \A n \in 0..m : n \in P
    <2> HIDE DEF P
    <2> QED
        BY <1>3, <1>4, NumberInduction
<1> QED
    BY <1>5, <1>1 DEF m

\* Whatever the lots, the fees and the remainders of the allocation, the gains of an
\* applied sale dispose exactly its quantity for exactly its net proceeds.
THEOREM SalesAreRealized == Spec => []SalesReconcile
<1>1. TypeOK => SalesReconcile
    <2> SUFFICES ASSUME TypeOK PROVE SalesReconcile
        OBVIOUS
    <2>1. log \in Seq(Payloads) /\ Len(log) \in Nat /\ Len(log) \in 0..Len(log)
        BY DEF TypeOK
    <2>2. Reconciled(log, Len(log))
        BY <2>1, EverySaleReconciles
    <2> DEFINE st == Replay(log)
    <2>3. \A i \in Sales(log) : i \in 1..Len(log)
        BY <2>1, SalesSurvive
    <2>4. \A i \in Sales(log) : i <= Len(log)
        BY <2>1, <2>3
    <2>5. \A i \in Sales(log) : i \notin st.dropped => Disposed(st, i) = log[i].qty /\ Received(st, i) = Net(log[i])
        BY <2>2, <2>4 DEF Reconciled, Replay
    <2> HIDE DEF st
    <2> QED
        BY <2>5 DEF SalesReconcile, Disposed, Received, GainsFrom, st
<1> QED
    BY <1>1, TypeCorrect, PTL

(***************************************************************************)
(* Basis                                                                   *)
(***************************************************************************)
\* The basis the lots of a symbol carry, and what its gains consumed.
BasisOf(st) == [k \in DOMAIN st.lots |-> st.lots[k].basis]
LotsIn(st, sym) == {k \in DOMAIN st.lots : st.lots[k].symbol = sym}
Carried(st, sym) == SumFunctionOnSet(BasisOf(st), LotsIn(st, sym))

\* The same for the basis its gains consumed.
CostOf(st) == [g \in DOMAIN st.gains |-> st.gains[g].basis]
GainsIn(st, sym) == {g \in DOMAIN st.gains : st.gains[g].symbol = sym}
Consumed(st, sym) == SumFunctionOnSet(CostOf(st), GainsIn(st, sym))

\* The sums are over finite sets of integers.
LEMMA BasisTypes ==
    ASSUME NEW st, NEW n, FoldOK(st, n), NEW sym
    PROVE  /\ IsFiniteSet(LotsIn(st, sym)) /\ IsFiniteSet(GainsIn(st, sym))
           /\ \A k \in DOMAIN st.lots : BasisOf(st)[k] \in Int /\ BasisOf(st)[k] = st.lots[k].basis
           /\ \A g \in DOMAIN st.gains : CostOf(st)[g] \in Int /\ CostOf(st)[g] = st.gains[g].basis
           /\ Carried(st, sym) \in Int /\ Consumed(st, sym) \in Int
<1>1. /\ IsFiniteSet(DOMAIN st.lots) /\ \A k \in DOMAIN st.lots : st.lots[k].basis \in Int
      /\ IsFiniteSet(DOMAIN st.gains)
    <2>1. Len(st.gains) \in Nat /\ DOMAIN st.gains = 1..Len(st.gains)
        BY FoldTypes
    <2>2. IsFiniteSet(DOMAIN st.gains)
        <3> DEFINE m == Len(st.gains)
        <3>1. IsFiniteSet(1..m)
            BY <2>1, FS_Interval
        <3> QED
            BY <2>1, <3>1
    <2> QED
        BY <2>2, FoldTypes
<1>2. \A g \in DOMAIN st.gains : st.gains[g].basis \in Int
    <2>1. st.gains \in Seq(GainRecords)
        BY FoldTypes
    <2>2. \A g \in DOMAIN st.gains : st.gains[g] \in GainRecords
        BY <2>1
    <2> QED
        BY <2>2 DEF GainRecords
<1>3. /\ \A k \in DOMAIN st.lots : BasisOf(st)[k] \in Int /\ BasisOf(st)[k] = st.lots[k].basis
      /\ \A g \in DOMAIN st.gains : CostOf(st)[g] \in Int /\ CostOf(st)[g] = st.gains[g].basis
    BY <1>1, <1>2 DEF BasisOf, CostOf
<1>4. /\ LotsIn(st, sym) \in SUBSET DOMAIN st.lots /\ GainsIn(st, sym) \in SUBSET DOMAIN st.gains
      /\ IsFiniteSet(LotsIn(st, sym)) /\ IsFiniteSet(GainsIn(st, sym))
    BY <1>1, FS_Subset DEF LotsIn, GainsIn
<1>5. Carried(st, sym) \in Int
    <2>1. \A k \in LotsIn(st, sym) : BasisOf(st)[k] \in Int
        BY <1>3, <1>4
    <2> QED
        BY <1>4, <2>1, SumIsInt DEF Carried
<1>6. Consumed(st, sym) \in Int
    <2>1. \A g \in GainsIn(st, sym) : CostOf(st)[g] \in Int
        BY <1>3, <1>4
    <2> QED
        BY <1>4, <2>1, SumIsInt DEF Consumed
<1> QED
    BY <1>3, <1>4, <1>5, <1>6

\* What changes no basis and no symbol of a lot changes no sum.
LEMMA CarriedSame ==
    ASSUME NEW st, NEW n, FoldOK(st, n), NEW x, NEW sym, DOMAIN x.lots = DOMAIN st.lots,
           \A k \in DOMAIN st.lots :
               /\ x.lots[k].symbol = st.lots[k].symbol
               /\ st.lots[k].symbol = sym => x.lots[k].basis = st.lots[k].basis
    PROVE  Carried(x, sym) = Carried(st, sym)
<1> DEFINE L == LotsIn(st, sym)
           f == BasisOf(x)
           g == BasisOf(st)
<1>1. LotsIn(x, sym) = L
    BY DEF LotsIn
<1>2. \A k \in L : f[k] = g[k]
    BY DEF LotsIn, BasisOf
<1>3. IsFiniteSet(L)
    BY BasisTypes
<1> HIDE DEF L, f, g
<1>4. SumFunctionOnSet(f, L) = SumFunctionOnSet(g, L)
    BY <1>2, <1>3, SumSame
<1> QED
    BY <1>1, <1>4 DEF Carried, L, f, g

\* What was consumed is a sum over the gains alone.
LEMMA ConsumedSame ==
    ASSUME NEW st, NEW x, NEW sym, x.gains = st.gains
    PROVE  Consumed(x, sym) = Consumed(st, sym)
BY DEF Consumed, CostOf, GainsIn

\* An opening adds its basis to what its symbol carries.
LEMMA OpenCarries ==
    ASSUME NEW st, NEW n, FoldOK(st, n), NEW seq, NEW e \in Payloads, e.kind \in {"Buy", "Vest"},
           NEW x, OpenState(st, seq, e, x), NEW sym
    PROVE  /\ Consumed(x, sym) = Consumed(st, sym)
           /\ Carried(x, sym) = Carried(st, sym) + (IF e.symbol = sym THEN OpeningBasis(e) ELSE 0)
<1> DEFINE new == NewLot(seq, e)
           m == Len(st.lots) + 1
<1>1. /\ st.lots \in Seq(LotRecords) /\ x.lots = Append(st.lots, new) /\ new \in LotRecords
    BY FoldTypes DEF OpenState
<1>2. new.symbol = e.symbol /\ new.basis = OpeningBasis(e) /\ OpeningBasis(e) \in Int
    BY OpenTypes DEF NewLot
<1> HIDE DEF new
<1>3. /\ DOMAIN x.lots = DOMAIN st.lots \cup {m} /\ m \notin DOMAIN st.lots
      /\ x.lots[m] = new /\ \A k \in DOMAIN st.lots : x.lots[k] = st.lots[k]
    <2>1. DOMAIN x.lots = 1..m /\ m \in Nat /\ DOMAIN st.lots = 1..(m - 1)
          /\ x.lots[m] = new /\ \A k \in DOMAIN st.lots : x.lots[k] = st.lots[k]
        BY <1>1
    <2>0. m \in Nat /\ m >= 1
        <3>1. Len(st.lots) \in Nat
            BY <1>1
        <3> QED
            BY <3>1
    <2> HIDE DEF m
    <2>2. 1..m = 1..(m - 1) \cup {m} /\ m \notin 1..(m - 1)
        BY <2>0
    <2> QED
        BY <2>1, <2>2
<1> HIDE DEF m
<1> DEFINE L == LotsIn(st, sym)
           f == BasisOf(x)
           g == BasisOf(st)
<1>4. /\ IsFiniteSet(L) /\ m \notin L /\ L \subseteq DOMAIN st.lots
      /\ \A k \in L : f[k] = g[k] /\ g[k] \in Int
    BY <1>3, BasisTypes DEF LotsIn, BasisOf
<1>5. f[m] = OpeningBasis(e)
    BY <1>2, <1>3 DEF BasisOf
<1>6. LotsIn(x, sym) = IF e.symbol = sym THEN L \cup {m} ELSE L
    <2>1. \A k : k \in LotsIn(x, sym) <=> k \in (IF e.symbol = sym THEN L \cup {m} ELSE L)
        BY <1>2, <1>3 DEF LotsIn
    <2> QED
        BY <2>1
<1> HIDE DEF L, f, g
<1>7. SumFunctionOnSet(f, L) = SumFunctionOnSet(g, L)
    BY <1>4, SumSame
<1>8. SumFunctionOnSet(f, L \cup {m}) = f[m] + SumFunctionOnSet(f, L)
    <2>1. \A k \in L \cup {m} : f[k] \in Int
        BY <1>2, <1>4, <1>5
    <2> QED
        BY <1>4, <2>1, SumAdd
<1>9. SumFunctionOnSet(g, L) \in Int
    BY <1>4, SumIsInt
<1>10. Carried(st, sym) = SumFunctionOnSet(g, L) /\ Carried(x, sym) = SumFunctionOnSet(f, LotsIn(x, sym))
    BY DEF Carried, L, f, g
<1>11. Consumed(x, sym) = Consumed(st, sym)
    BY ConsumedSame DEF OpenState
<1>12. CASE e.symbol = sym
    BY <1>2, <1>5, <1>6, <1>7, <1>8, <1>9, <1>10, <1>11, <1>12
<1>13. CASE e.symbol # sym
    BY <1>2, <1>6, <1>7, <1>9, <1>10, <1>11, <1>13
<1> QED
    BY <1>12, <1>13

\* The basis that the i-th pair of a plan takes.
Taking(st, plan, i) ==
    ConsumeBasis(st.lots[plan[i][1]].basis, st.lots[plan[i][1]].qty, plan[i][2]).taken

\* A sale takes from the lots of its symbol what the pairs of its plan take.
LEMMA SaleCarries ==
    ASSUME NEW st, NEW n, FoldOK(st, n), NEW e, NEW plan, Fits(st, e, plan), NEW seq, NEW proceeds,
           NEW x, SoldState(st, seq, e, plan, proceeds, Len(plan), x)
    PROVE  LET taken == [i \in 1..Len(plan) |-> Taking(st, plan, i)]
           IN  /\ \A i \in 1..Len(plan) : taken[i] \in Int
               /\ SumFunctionOnSet(taken, 1..Len(plan)) \in Int
               /\ Carried(x, e.symbol) = Carried(st, e.symbol) - SumFunctionOnSet(taken, 1..Len(plan))
<1> DEFINE I == 1..Len(plan)
           taken == [i \in I |-> Taking(st, plan, i)]
           L == LotsIn(st, e.symbol)
           at == [i \in I |-> plan[i][1]]
           K == {plan[i][1] : i \in I}
<1>1. /\ Len(plan) \in Nat /\ DOMAIN plan = I /\ IsFiniteSet(I)
      /\ \A i \in I : /\ plan[i][1] \in DOMAIN st.lots /\ plan[i][2] \in Nat
                      /\ st.lots[plan[i][1]].symbol = e.symbol
                      /\ 0 < plan[i][2] /\ plan[i][2] <= st.lots[plan[i][1]].qty
      /\ \A i, j \in I : plan[i][1] = plan[j][1] => i = j
    <2>1. plan \in Seq(Nat \X Nat)
        BY DEF Fits
    <2>2. Len(plan) \in Nat /\ DOMAIN plan = I
        BY <2>1
    <2>3. \A i \in I : plan[i] \in Nat \X Nat
        BY <2>1
    <2>4. \A i \in I : plan[i][2] \in Nat
        BY <2>3
    <2>5. IsFiniteSet(I)
        BY <2>2, FS_Interval
    <2> HIDE DEF I
    <2> QED
        BY <2>2, <2>4, <2>5 DEF Fits
<1>2. ASSUME NEW i \in I
      PROVE  /\ Taking(st, plan, i) \in Int
             /\ x.lots[plan[i][1]].basis + Taking(st, plan, i) = st.lots[plan[i][1]].basis
             /\ x.lots[plan[i][1]].symbol = st.lots[plan[i][1]].symbol
    <2> DEFINE lot == st.lots[plan[i][1]]
               c == plan[i][2]
    <2>1. lot \in LotRecords /\ c \in Nat /\ 0 < c /\ c <= lot.qty
        BY <1>1, FoldTypes
    <2>2. x.lots[plan[i][1]] = Reduced(lot, c)
        BY DEF SoldState
    <2>3. Taking(st, plan, i) = ConsumeBasis(lot.basis, lot.qty, c).taken
        BY DEF Taking
    <2> HIDE DEF lot, c, I
    <2>4. /\ Reduced(lot, c).symbol = lot.symbol
          /\ Reduced(lot, c).basis + ConsumeBasis(lot.basis, lot.qty, c).taken = lot.basis
          /\ ConsumeBasis(lot.basis, lot.qty, c).taken \in Int
        BY <2>1, ReducedLot
    <2> QED
        BY <2>2, <2>3, <2>4 DEF lot
<1>3. x \in FoldStates /\ DOMAIN x.lots = DOMAIN st.lots
      /\ \A k \in DOMAIN st.lots : k \notin K => x.lots[k] = st.lots[k]
    BY DEF SoldState
<1>4. /\ IsFiniteSet(L) /\ L \subseteq DOMAIN st.lots /\ K \subseteq L
      /\ \A k \in DOMAIN st.lots : st.lots[k].basis \in Int
    <2>1. IsFiniteSet(L) /\ \A k \in DOMAIN st.lots : st.lots[k].basis \in Int
        BY BasisTypes, FoldTypes
    <2>2. L \subseteq DOMAIN st.lots /\ K \subseteq L
        BY <1>1 DEF LotsIn
    <2> QED
        BY <2>1, <2>2
<1>5. \A k \in DOMAIN st.lots : x.lots[k].basis \in Int
    <2>1. x.lots \in Seq(LotRecords)
        BY <1>3 DEF FoldStates
    <2>2. \A k \in DOMAIN x.lots : x.lots[k] \in LotRecords
        BY <2>1
    <2> QED
        BY <1>3, <2>2 DEF LotRecords
<1>6. LotsIn(x, e.symbol) = L
    <2>1. \A k \in DOMAIN st.lots : x.lots[k].symbol = st.lots[k].symbol
        <3>1. \A k \in K : x.lots[k].symbol = st.lots[k].symbol
            BY <1>2
        <3> QED
            BY <1>3, <3>1
    <2> QED
        BY <1>3, <2>1 DEF LotsIn
<1> DEFINE f == BasisOf(x)
           g == BasisOf(st)
           less == [k \in L |-> g[k] - f[k]]
<1>7. \A k \in L : /\ f[k] \in Int /\ g[k] \in Int /\ less[k] \in Int
                   /\ f[k] = 1 * g[k] + (-1) * less[k]
                   /\ f[k] = x.lots[k].basis /\ g[k] = st.lots[k].basis
    <2>1. \A k \in L : f[k] = x.lots[k].basis /\ g[k] = st.lots[k].basis
        BY <1>3, <1>4 DEF BasisOf
    <2>2. \A k \in L : f[k] \in Int /\ g[k] \in Int
        BY <1>4, <1>5, <2>1
    <2> HIDE DEF f, g, L
    <2>3. \A k \in L : less[k] = g[k] - f[k]
        OBVIOUS
    <2> HIDE DEF less
    <2> QED
        BY <2>1, <2>2, <2>3
<1>8. \A k \in L \ K : less[k] = 0
    <2>1. \A k \in L \ K : f[k] = g[k] /\ g[k] \in Int
        BY <1>3, <1>4, <1>7
    <2> HIDE DEF f, g, K, L
    <2> QED
        BY <2>1
<1>9. \A i \in I : taken[i] \in Int /\ taken[i] = less[at[i]]
    <2> SUFFICES ASSUME NEW i \in I PROVE taken[i] \in Int /\ taken[i] = less[at[i]]
        OBVIOUS
    <2> DEFINE k == plan[i][1]
    <2>1. k \in L /\ at[i] = k /\ taken[i] = Taking(st, plan, i)
        BY <1>4
    <2>2. f[k] = x.lots[k].basis /\ g[k] = st.lots[k].basis /\ f[k] \in Int /\ g[k] \in Int
        BY <1>7, <2>1
    <2>3. less[k] = g[k] - f[k]
        BY <2>1
    <2>4. Taking(st, plan, i) \in Int /\ x.lots[k].basis + Taking(st, plan, i) = st.lots[k].basis
        BY <1>2
    <2> HIDE DEF k, f, g, less, taken, at
    <2> QED
        BY <2>1, <2>2, <2>3, <2>4
<1>10. at \in Bijection(I, K)
    <2>1. at \in [I -> K] /\ \A i \in I : at[i] = plan[i][1]
        OBVIOUS
    <2>2. \A i, j \in I : at[i] = at[j] => i = j
        BY <1>1, <2>1
    <2>3. \A k \in K : \E i \in I : at[i] = k
        BY <2>1
    <2> HIDE DEF at, I, K
    <2> QED
        BY <2>1, <2>2, <2>3 DEF Bijection, Injection, Surjection, IsInjective
<1>11. SumFunctionOnSet(taken, I) \in Int
    BY <1>1, <1>9, SumIsInt
<1> HIDE DEF I, taken, L, at, K, f, g, less
<1>12. SumFunctionOnSet(f, L) = 1 * SumFunctionOnSet(g, L) + (-1) * SumFunctionOnSet(less, L)
    <2>1. \A k \in L : g[k] \in Int /\ less[k] \in Int /\ f[k] = 1 * g[k] + (-1) * less[k]
        BY <1>7
    <2>2. 1 \in Int /\ -1 \in Int
        OBVIOUS
    <2> QED
        BY <1>4, <2>1, <2>2, SumLinear
<1>13. SumFunctionOnSet(less, L) = SumFunctionOnSet(less, K)
    <2>1. \A k \in L : less[k] \in Int
        BY <1>7
    <2> QED
        BY <1>4, <1>8, <2>1, SumSupport
<1>14. SumFunctionOnSet(taken, I) = SumFunctionOnSet(less, K)
    BY <1>1, <1>9, <1>10, SumReindexed
<1>15. SumFunctionOnSet(g, L) \in Int
    BY <1>4, <1>7, SumIsInt
<1>16. Carried(x, e.symbol) = SumFunctionOnSet(f, L) /\ Carried(st, e.symbol) = SumFunctionOnSet(g, L)
    BY <1>6 DEF Carried, f, g, L
<1>17. Carried(x, e.symbol) = Carried(st, e.symbol) - SumFunctionOnSet(taken, I)
    BY <1>11, <1>12, <1>13, <1>14, <1>15, <1>16
<1> QED
    BY <1>9, <1>11, <1>17 DEF I, taken

\* A sale adds what the pairs of its plan take to the gains of its symbol.
LEMMA SaleConsumes ==
    ASSUME NEW st, NEW n, FoldOK(st, n), NEW e, NEW plan, Len(plan) \in Nat, NEW seq, NEW proceeds,
           NEW x, SoldState(st, seq, e, plan, proceeds, Len(plan), x), NEW sym
    PROVE  LET taken == [i \in 1..Len(plan) |-> Taking(st, plan, i)]
           IN  (\A i \in 1..Len(plan) : taken[i] \in Int) =>
               Consumed(x, sym) = Consumed(st, sym) +
                   (IF e.symbol = sym THEN SumFunctionOnSet(taken, 1..Len(plan)) ELSE 0)
<1> DEFINE m == Len(plan)
           I == 1..m
           taken == [i \in I |-> Taking(st, plan, i)]
           b == Len(st.gains)
           old == GainsIn(st, sym)
           new == {b + i : i \in I}
           at == [i \in I |-> b + i]
           f == CostOf(x)
           g == CostOf(st)
<1> SUFFICES ASSUME \A i \in I : taken[i] \in Int
             PROVE  Consumed(x, sym) = Consumed(st, sym) +
                        (IF e.symbol = sym THEN SumFunctionOnSet(taken, I) ELSE 0)
    OBVIOUS
<1>1. /\ b \in Nat /\ m \in Nat /\ DOMAIN st.gains = 1..b /\ IsFiniteSet(I)
      /\ IsFiniteSet(old) /\ \A k \in DOMAIN st.gains : g[k] \in Int /\ g[k] = st.gains[k].basis
      /\ Consumed(st, sym) \in Int
    <2>1. b \in Nat /\ DOMAIN st.gains = 1..b
        BY FoldTypes
    <2>2. IsFiniteSet(I)
        BY FS_Interval
    <2>3. IsFiniteSet(old) /\ Consumed(st, sym) \in Int
          /\ \A k \in DOMAIN st.gains : g[k] \in Int /\ g[k] = st.gains[k].basis
        BY BasisTypes
    <2> QED
        BY <2>1, <2>2, <2>3
<1>2. /\ x.gains \in Seq(GainRecords) /\ Len(x.gains) = b + m
      /\ \A k \in DOMAIN st.gains : x.gains[k] = st.gains[k]
      /\ \A i \in I : x.gains[b + i] = GainOf(st.lots[plan[i][1]], seq, e, plan[i][2], proceeds[i])
    BY DEF SoldState, FoldStates
<1>3. ASSUME NEW i \in I
      PROVE  x.gains[b + i].symbol = e.symbol /\ x.gains[b + i].basis = taken[i]
    <2>1. \A lot, c, share : /\ GainOf(lot, seq, e, c, share).symbol = e.symbol
                             /\ GainOf(lot, seq, e, c, share).basis
                                    = ConsumeBasis(lot.basis, lot.qty, c).taken
        BY DEF GainOf
    <2>2. x.gains[b + i] = GainOf(st.lots[plan[i][1]], seq, e, plan[i][2], proceeds[i])
        BY DEF SoldState
    <2>3. taken[i] = ConsumeBasis(st.lots[plan[i][1]].basis, st.lots[plan[i][1]].qty, plan[i][2]).taken
        BY DEF Taking
    <2> HIDE DEF b, I, taken
    <2> QED
        BY <2>1, <2>2, <2>3
<1>4. DOMAIN x.gains = 1..(b + m)
    <2> DEFINE after == Len(x.gains)
    <2>1. DOMAIN x.gains = 1..after /\ after = b + m
        BY <1>2
    <2> HIDE DEF after, b, m
    <2> QED
        BY <2>1
<1> HIDE DEF b
<1>5. DOMAIN x.gains = DOMAIN st.gains \cup new /\ DOMAIN st.gains \cap new = {}
    <2>1. \A k : k \in 1..(b + m) <=> (k \in 1..b \/ \E i \in 1..m : k = b + i)
        <3> HIDE DEF m
        <3>1. ASSUME NEW k \in 1..(b + m), k \notin 1..b PROVE \E i \in 1..m : k = b + i
            <4>1. k - b \in 1..m /\ k = b + (k - b)
                BY <1>1, <3>1
            <4> QED
                BY <4>1
        <3>2. \A k \in 1..b : k \in 1..(b + m)
            BY <1>1
        <3>3. \A i \in 1..m : b + i \in 1..(b + m)
            BY <1>1
        <3> QED
            BY <3>1, <3>2, <3>3
    <2>2. \A i \in 1..m : b + i \notin 1..b
        BY <1>1
    <2> HIDE DEF m
    <2> QED
        BY <1>1, <1>4, <2>1, <2>2
<1>6. at \in Bijection(I, new)
    <2>1. at \in [I -> new] /\ \A i \in I : at[i] = b + i
        OBVIOUS
    <2>2. \A i, j \in I : at[i] = at[j] => i = j
        BY <1>1, <2>1
    <2>3. \A k \in new : \E i \in I : at[i] = k
        BY <2>1
    <2> HIDE DEF at, I, new
    <2> QED
        BY <2>1, <2>2, <2>3 DEF Bijection, Injection, Surjection, IsInjective
<1>7. /\ \A k \in DOMAIN st.gains : f[k] = g[k] /\ f[k] \in Int
      /\ \A i \in I : taken[i] = f[at[i]] /\ at[i] \in new
      /\ \A k \in new : f[k] \in Int /\ x.gains[k].symbol = e.symbol
    <2>1. \A k \in DOMAIN x.gains : f[k] = x.gains[k].basis
        BY DEF CostOf
    <2>2. \A k \in DOMAIN st.gains : f[k] = g[k] /\ f[k] \in Int
        BY <1>1, <1>2, <1>5, <2>1
    <2>3. \A i \in I : at[i] = b + i /\ at[i] \in new /\ at[i] \in DOMAIN x.gains
        BY <1>5
    <2>4. \A k \in new : \E i \in I : k = at[i]
        BY <2>3
    <2> HIDE DEF at, new, f, I, taken
    <2>5. \A i \in I : x.gains[at[i]].symbol = e.symbol /\ x.gains[at[i]].basis = taken[i]
        BY <1>3, <2>3
    <2>6. \A i \in I : taken[i] = f[at[i]]
        BY <2>1, <2>3, <2>5
    <2> QED
        BY <2>2, <2>3, <2>4, <2>5, <2>6
<1>8. /\ GainsIn(x, sym) = IF e.symbol = sym THEN old \cup new ELSE old
      /\ old \cap new = {} /\ \A k \in old : k \in DOMAIN st.gains
    <2>1. \A k \in old : k \in DOMAIN st.gains
        BY DEF GainsIn
    <2>2. \A k : k \in GainsIn(x, sym) <=> k \in (IF e.symbol = sym THEN old \cup new ELSE old)
        <3> HIDE DEF new, f, at, I, taken
        <3> QED
            BY <1>2, <1>5, <1>7 DEF GainsIn
    <2> HIDE DEF new
    <2> QED
        BY <1>5, <2>1, <2>2
<1>9. IsFiniteSet(new)
    <2> HIDE DEF I, new, at
    <2> QED
        BY <1>1, <1>6, FS_Bijection DEF ExistsBijection
<1> HIDE DEF I, taken, old, new, at, f, g
<1>10. SumFunctionOnSet(f, old) = SumFunctionOnSet(g, old)
    BY <1>1, <1>7, <1>8, SumSame
<1>11. SumFunctionOnSet(taken, I) = SumFunctionOnSet(f, new)
    BY <1>1, <1>6, <1>7, SumReindexed
<1>12. SumFunctionOnSet(f, old \cup new) = SumFunctionOnSet(f, old) + SumFunctionOnSet(f, new)
    BY <1>1, <1>7, <1>8, <1>9, SumDisjoint
<1>13. Consumed(st, sym) = SumFunctionOnSet(g, old) /\ Consumed(x, sym) = SumFunctionOnSet(f, GainsIn(x, sym))
    BY DEF Consumed, f, g, old
<1>14. CASE e.symbol = sym
    BY <1>8, <1>10, <1>11, <1>12, <1>13, <1>14
<1>15. CASE e.symbol # sym
    BY <1>1, <1>8, <1>10, <1>13, <1>15
<1> QED
    BY <1>14, <1>15

\* What an event adds to the basis that is in lots or was consumed: what it paid, if it
\* is an opening that is not refused.
Added(seq, e, x, sym) ==
    IF e.kind \in {"Buy", "Vest"} /\ seq \notin x.dropped /\ e.symbol = sym
    THEN OpeningBasis(e) ELSE 0

\* An event moves basis between lots and gains, and adds what it paid.
LEMMA BasisMoves ==
    ASSUME NEW st, NEW n \in Nat, FoldOK(st, n), NEW seq \in Nat, n < seq, NEW e \in Payloads,
           NEW x, FoldOK(x, seq), EventDone(st, seq, e, x), NEW sym
    PROVE  Carried(x, sym) + Consumed(x, sym) = Carried(st, sym) + Consumed(st, sym) + Added(seq, e, x, sym)
<1>0. /\ Carried(st, sym) \in Int /\ Consumed(st, sym) \in Int
      /\ Carried(x, sym) \in Int /\ Consumed(x, sym) \in Int
    BY BasisTypes
<1>00. seq \notin st.dropped
    <2>1. st.dropped \subseteq 1..n
        BY DEF FoldOK
    <2>2. seq \notin 1..n
        OBVIOUS
    <2> QED
        BY <2>1, <2>2
<1>1. CASE e.kind \in {"Buy", "Vest"} /\ OpenState(st, seq, e, x)
    <2>1. /\ Consumed(x, sym) = Consumed(st, sym)
          /\ Carried(x, sym) = Carried(st, sym) + (IF e.symbol = sym THEN OpeningBasis(e) ELSE 0)
        BY <1>1, OpenCarries
    <2>2. x.dropped = st.dropped
        BY <1>1 DEF OpenState
    <2>3. Added(seq, e, x, sym) = IF e.symbol = sym THEN OpeningBasis(e) ELSE 0
        BY <1>00, <1>1, <2>2 DEF Added
    <2> DEFINE a == IF e.symbol = sym THEN OpeningBasis(e) ELSE 0
    <2>4. a \in Int
        BY <1>1, OpenTypes
    <2> HIDE DEF a
    <2>5. Carried(x, sym) = Carried(st, sym) + a /\ Added(seq, e, x, sym) = a
        BY <2>1, <2>3 DEF a
    <2> QED
        BY <1>0, <2>1, <2>4, <2>5
<1>2. CASE e.kind = "Sell" /\ SaleDone(st, seq, e, x)
    <2> DEFINE plan == SelectLots(st, e)
               proceeds == AllocateProceeds(st, plan, Net(e), e.qty)
               taken == [i \in 1..Len(plan) |-> Taking(st, plan, i)]
               t == SumFunctionOnSet(taken, 1..Len(plan))
    <2>1. /\ Fits(st, e, plan) /\ Len(plan) \in Nat
          /\ SoldState(st, seq, e, plan, proceeds, Len(plan), x)
        BY <1>2 DEF SaleDone
    <2> HIDE DEF plan, proceeds
    <2>2. /\ \A i \in 1..Len(plan) : taken[i] \in Int
          /\ t \in Int
          /\ Carried(x, e.symbol) = Carried(st, e.symbol) - t
        BY <2>1, SaleCarries
    <2>3. Consumed(x, sym) = Consumed(st, sym) + (IF e.symbol = sym THEN t ELSE 0)
        BY <2>1, <2>2, SaleConsumes
    <2>4. Added(seq, e, x, sym) = 0
        BY <1>2 DEF Added
    <2> HIDE DEF t, taken
    <2>5. CASE e.symbol = sym
        BY <1>0, <2>2, <2>3, <2>4, <2>5
    <2>6. CASE e.symbol # sym
        <3>1. ASSUME NEW k \in DOMAIN st.lots
              PROVE  /\ x.lots[k].symbol = st.lots[k].symbol
                     /\ st.lots[k].symbol = sym => x.lots[k].basis = st.lots[k].basis
            <4>1. CASE x.lots[k] = st.lots[k]
                BY <4>1
            <4>2. ASSUME NEW i \in 1..Len(plan), plan[i][1] = k, plan[i][2] \in Nat, 0 < plan[i][2],
                         plan[i][2] <= st.lots[k].qty, x.lots[k] = Reduced(st.lots[k], plan[i][2])
                  PROVE  x.lots[k].symbol = st.lots[k].symbol /\ st.lots[k].symbol # sym
                <5>1. plan \in Seq(Nat \X Nat)
                    BY <2>1 DEF Fits
                <5>2. i \in DOMAIN plan
                    BY <5>1
                <5>3. st.lots[k].symbol = e.symbol
                    BY <2>1, <4>2, <5>2 DEF Fits
                <5>4. st.lots[k] \in LotRecords
                    BY FoldTypes
                <5> DEFINE lot == st.lots[k]
                           c == plan[i][2]
                <5>5. lot \in LotRecords /\ c \in Nat /\ 0 < c /\ c <= lot.qty
                    BY <4>2, <5>4
                <5> HIDE DEF lot, c
                <5>6. Reduced(lot, c).symbol = lot.symbol
                    BY <5>5, ReducedLot
                <5> QED
                    BY <2>6, <4>2, <5>3, <5>6 DEF lot, c
            <4>3. \/ x.lots[k] = st.lots[k]
                  \/ \E i \in 1..Len(plan) : /\ plan[i][1] = k /\ plan[i][2] \in Nat
                                             /\ 0 < plan[i][2] /\ plan[i][2] <= st.lots[k].qty
                                             /\ x.lots[k] = Reduced(st.lots[k], plan[i][2])
                BY <2>1, SoldLots
            <4> QED
                BY <4>1, <4>2, <4>3
        <3>2. DOMAIN x.lots = DOMAIN st.lots
            BY <2>1 DEF SoldState
        <3>3. Carried(x, sym) = Carried(st, sym)
            BY <3>1, <3>2, CarriedSame
        <3> QED
            BY <1>0, <2>3, <2>4, <2>6, <3>3
    <2> QED
        BY <2>5, <2>6
<1>3. ASSUME NEW y, y.lots = st.lots, y.gains = st.gains, e.kind = "Split", e.num >= 1, e.den >= 1,
             SplitState(y, e, SplitReach(st, e), x)
      PROVE  Carried(x, sym) + Consumed(x, sym) = Carried(st, sym) + Consumed(st, sym) + Added(seq, e, x, sym)
    <2>1. Added(seq, e, x, sym) = 0
        BY <1>3 DEF Added
    <2>2. DOMAIN x.lots = DOMAIN st.lots /\ x.gains = st.gains
        BY <1>3 DEF SplitState
    <2>3. ASSUME NEW k \in DOMAIN st.lots
          PROVE  /\ x.lots[k].symbol = st.lots[k].symbol
                 /\ x.lots[k].basis = st.lots[k].basis
        <3>1. CASE k \in SplitReach(st, e)
            <4>1. x.lots[k] = AfterSplit(st.lots[k], e)
                BY <1>3, <3>1 DEF SplitState
            <4>2. st.lots[k] \in LotRecords
                BY FoldTypes
            <4>3. /\ AfterSplit(st.lots[k], e).symbol = st.lots[k].symbol
                  /\ AfterSplit(st.lots[k], e).basis = st.lots[k].basis
                BY <1>3, <4>2, SplitLot
            <4> QED
                BY <4>1, <4>3
        <3>2. CASE k \notin SplitReach(st, e)
            BY <1>3, <3>2 DEF SplitState
        <3> QED
            BY <3>1, <3>2
    <2>4. Carried(x, sym) = Carried(st, sym)
        BY <2>2, <2>3, CarriedSame
    <2>5. Consumed(x, sym) = Consumed(st, sym)
        BY <2>2, ConsumedSame
    <2> QED
        BY <1>0, <2>1, <2>4, <2>5
<1>4. /\ Marked(st, seq).lots = st.lots /\ Marked(st, seq).gains = st.gains
      /\ Marked(st, seq).dropped = st.dropped \cup {seq}
    BY MarkedFold
<1>5. CASE x = Marked(st, seq)
    <2>1. Added(seq, e, x, sym) = 0
        BY <1>4, <1>5 DEF Added
    <2>2. Carried(x, sym) = Carried(st, sym) /\ Consumed(x, sym) = Consumed(st, sym)
        BY <1>4, <1>5 DEF Carried, Consumed, BasisOf, CostOf, LotsIn, GainsIn
    <2> QED
        BY <1>0, <2>1, <2>2
<1> QED
    BY <1>1, <1>2, <1>3, <1>4, <1>5 DEF EventDone

\* What the openings among the first n events paid for the symbol.
PaidBy(l) == [i \in Opens(l) |-> OpeningBasis(l[i])]
OpenedBy(l, n, sym) ==
    {i \in Opens(l) : i <= n /\ i \notin FoldSteps(l)[n].dropped /\ l[i].symbol = sym}
Paid(l, n, sym) == SumFunctionOnSet(PaidBy(l), OpenedBy(l, n, sym))

\* Openings are applied or refused where they stand.
LEMMA OpensSurvive ==
    ASSUME NEW l \in Seq(Payloads)
    PROVE  \A i \in Opens(l) : /\ i \in 1..Len(l) /\ i \in Survivors(l) /\ i \in Nat
                               /\ l[i].kind \in {"Buy", "Vest"} /\ l[i] \in Payloads
                               /\ PaidBy(l)[i] = OpeningBasis(l[i]) /\ PaidBy(l)[i] \in Int
<1> SUFFICES ASSUME NEW i \in Opens(l)
             PROVE  /\ i \in 1..Len(l) /\ i \in Survivors(l) /\ i \in Nat
                    /\ l[i].kind \in {"Buy", "Vest"} /\ l[i] \in Payloads
                    /\ PaidBy(l)[i] = OpeningBasis(l[i]) /\ PaidBy(l)[i] \in Int
    OBVIOUS
<1>1. i \in 1..Len(l) /\ i \in Survivors(l) /\ l[i].kind \in {"Buy", "Vest"} /\ l[i] \in Payloads
    BY DEF Opens, Survivors, ReversalsOf
<1>2. PaidBy(l)[i] = OpeningBasis(l[i])
    BY DEF PaidBy
<1>3. OpeningBasis(l[i]) \in Int
    BY <1>1, OpenTypes
<1> QED
    BY <1>1, <1>2, <1>3

\* After n events every symbol has in its lots and gains what its openings paid.
Conserved(l, n) ==
    \A sym : Paid(l, n, sym) = Carried(FoldSteps(l)[n], sym) + Consumed(FoldSteps(l)[n], sym)

\* Conserved holds after every event of every log.
LEMMA EveryStepConserves ==
    ASSUME NEW l \in Seq(Payloads)
    PROVE  \A n \in 0..Len(l) : Conserved(l, n)
<1> DEFINE m == Len(l)
           F == FoldSteps(l)
           P == {n \in Nat : n <= m => Conserved(l, n)}
<1>1. m \in Nat
    OBVIOUS
<1>2. 0 \in P
    <2>1. ASSUME NEW sym PROVE Paid(l, 0, sym) = Carried(F[0], sym) + Consumed(F[0], sym)
        <3>1. F[0] = EmptyFold
            BY FoldEquations
        <3>2. \A i \in Opens(l) : ~(i <= 0)
            BY OpensSurvive
        <3>3. OpenedBy(l, 0, sym) = {}
            BY <3>2 DEF OpenedBy
        <3>4. LotsIn(F[0], sym) = {} /\ GainsIn(F[0], sym) = {}
            BY <3>1 DEF EmptyFold, LotsIn, GainsIn
        <3> HIDE DEF F
        <3>5. Paid(l, 0, sym) = 0 /\ Carried(F[0], sym) = 0 /\ Consumed(F[0], sym) = 0
            BY <3>3, <3>4, SumEmpty DEF Paid, Carried, Consumed
        <3> QED
            BY <3>5
    <2> QED
        BY <2>1 DEF Conserved
<1> HIDE DEF m
<1>3. ASSUME NEW n \in Nat, n \in P PROVE n + 1 \in P
    <2> DEFINE seq == n + 1
               st == F[n]
               x == F[seq]
               e == l[seq]
    <2> SUFFICES ASSUME seq <= m, NEW sym PROVE Paid(l, seq, sym) = Carried(x, sym) + Consumed(x, sym)
        BY DEF Conserved
    <2>1. seq \in 1..m /\ seq - 1 = n /\ n < seq /\ seq \in Nat
        BY <1>1
    <2>2. Paid(l, n, sym) = Carried(st, sym) + Consumed(st, sym)
        <3>1. Conserved(l, n)
            BY <1>1, <1>3
        <3> QED
            BY <3>1 DEF Conserved
    <2> HIDE DEF P
    <2>3. FoldOK(st, n) /\ FoldOK(x, seq)
          /\ (seq \in Survivors(l) => e \in Payloads /\ e.kind # "Reversal" /\ EventDone(st, seq, e, x))
          /\ (seq \notin Survivors(l) => x = st)
        BY <2>1, StepDone DEF m
    <2>4. Carried(st, sym) \in Int /\ Consumed(st, sym) \in Int
        BY <2>3, BasisTypes
    <2> DEFINE O == OpenedBy(l, n, sym)
               p == PaidBy(l)
    <2>5. \A i \in Opens(l) : i \in Survivors(l) /\ i \in Nat /\ p[i] \in Int /\ p[i] = OpeningBasis(l[i])
                              /\ l[i].kind \in {"Buy", "Vest"}
        BY OpensSurvive
    <2>6. IsFiniteSet(O) /\ O \subseteq Opens(l) /\ seq \notin O
        <3>1. \A i \in O : i \in 1..n /\ i \in Opens(l)
            <4>1. \A i \in Opens(l) : i \in 1..Len(l)
                BY OpensSurvive
            <4> QED
                BY <4>1 DEF OpenedBy
        <3>2. IsFiniteSet(1..n) /\ seq \notin 1..n
            BY FS_Interval
        <3> HIDE DEF O, seq
        <3> QED
            BY <3>1, <3>2, FS_Subset
    <2> HIDE DEF F, st, x, e, seq, O, p
    <2>7. CASE seq \notin Survivors(l)
        <3>1. OpenedBy(l, seq, sym) = O
            <4>1. \A i \in Opens(l) : i # seq /\ (i <= seq <=> i <= n)
                <5>1. \A i \in Nat : i # seq => (i <= seq <=> i <= n)
                    BY DEF seq
                <5> QED
                    BY <2>5, <2>7, <5>1
            <4> QED
                BY <2>3, <2>7, <4>1 DEF OpenedBy, O, st, x, F
        <3> QED
            BY <2>2, <2>3, <2>7, <3>1 DEF Paid, O
    <2>8. CASE seq \in Survivors(l)
        <3>1. Carried(x, sym) + Consumed(x, sym) = Carried(st, sym) + Consumed(st, sym) + Added(seq, e, x, sym)
            BY <2>1, <2>3, <2>8, BasisMoves
        <3>2. x.dropped = st.dropped \/ x.dropped = st.dropped \cup {seq}
            <4>1. GrowsTo(st, seq, e, x)
                BY <2>3, <2>8, GainsGrow
            <4> QED
                BY <4>1 DEF GrowsTo
        <3>3. seq \in Opens(l) <=> e.kind \in {"Buy", "Vest"}
            BY <2>8 DEF Opens, Survivors, e
        <3> DEFINE here == seq \in Opens(l) /\ seq \notin x.dropped /\ e.symbol = sym
        <3>4. OpenedBy(l, seq, sym) = IF here THEN O \cup {seq} ELSE O
            <4>1. \A i \in Nat : i <= seq <=> (i <= n \/ i = seq)
                BY DEF seq
            <4>2. \A i \in Nat : i <= n => i # seq
                BY DEF seq
            <4>3. ASSUME NEW i \in Opens(l)
                  PROVE  i \in OpenedBy(l, seq, sym) <=> i \in (IF here THEN O \cup {seq} ELSE O)
                <5>1. i \in Nat
                    BY <2>5
                <5>2. i \in OpenedBy(l, seq, sym) <=> i <= seq /\ i \notin x.dropped /\ l[i].symbol = sym
                    BY DEF OpenedBy, x, F
                <5>3. i \in O <=> i <= n /\ i \notin st.dropped /\ l[i].symbol = sym
                    BY DEF OpenedBy, O, st, F
                <5>4. CASE i = seq
                    BY <2>6, <4>1, <5>1, <5>2, <5>4 DEF e
                <5>5. CASE i # seq
                    BY <3>2, <4>1, <5>1, <5>2, <5>3, <5>5
                <5> QED
                    BY <5>4, <5>5
            <4>4. OpenedBy(l, seq, sym) \subseteq Opens(l)
                BY DEF OpenedBy
            <4> QED
                BY <2>6, <4>3, <4>4
        <3>5. Added(seq, e, x, sym) = IF here THEN p[seq] ELSE 0
            BY <2>5, <3>3 DEF Added, e
        <3>6. SumFunctionOnSet(p, O) \in Int
            BY <2>5, <2>6, SumIsInt
        <3>7. Paid(l, n, sym) = SumFunctionOnSet(p, O)
              /\ Paid(l, seq, sym) = SumFunctionOnSet(p, OpenedBy(l, seq, sym))
            BY DEF Paid, p, O
        <3>8. CASE here
            <4>1. SumFunctionOnSet(p, O \cup {seq}) = p[seq] + SumFunctionOnSet(p, O)
                <5>1. \A i \in O \cup {seq} : p[i] \in Int
                    BY <2>5, <2>6, <3>8
                <5> QED
                    BY <2>6, <5>1, SumAdd
            <4>2. p[seq] \in Int /\ Added(seq, e, x, sym) = p[seq] /\ OpenedBy(l, seq, sym) = O \cup {seq}
                BY <2>5, <3>4, <3>5, <3>8
            <4> HIDE DEF here
            <4> QED
                BY <2>2, <2>4, <3>1, <3>6, <3>7, <4>1, <4>2
        <3>9. CASE ~here
            <4>1. Added(seq, e, x, sym) = 0 /\ OpenedBy(l, seq, sym) = O
                BY <3>4, <3>5, <3>9
            <4> HIDE DEF here
            <4> QED
                BY <2>2, <2>4, <3>1, <3>6, <3>7, <4>1
        <3> QED
            BY <3>8, <3>9
    <2> QED
        BY <2>7, <2>8
<1>4. \A n \in 0..m : n \in P
    <2> HIDE DEF P
    <2> QED
        BY <1>2, <1>3, NumberInduction
<1> QED
    BY <1>1, <1>4 DEF m

\* Basis is never made or lost: for any log the validator let grow, what the openings
\* paid for a symbol is what its lots still carry and its gains consumed.
THEOREM BasisIsConserved == Spec => []BasisConserved
<1>1. TypeOK => BasisConserved
    <2> SUFFICES ASSUME TypeOK, NEW sym \in Symbols
                 PROVE  LET st == Replay(log)
                        IN  SumFunction([i \in {i \in Opens(log) \ st.dropped : log[i].symbol = sym} |->
                                            OpeningBasis(log[i])])
                            = SumFunction([k \in {k \in DOMAIN st.lots : st.lots[k].symbol = sym} |->
                                               st.lots[k].basis])
                              + SumFunction([g \in {g \in DOMAIN st.gains : st.gains[g].symbol = sym} |->
                                                 st.gains[g].basis])
        BY DEF BasisConserved
    <2> DEFINE st == Replay(log)
               n == Len(log)
               O == {i \in Opens(log) \ st.dropped : log[i].symbol = sym}
               L == {k \in DOMAIN st.lots : st.lots[k].symbol = sym}
               G == {g \in DOMAIN st.gains : st.gains[g].symbol = sym}
               p == [i \in O |-> OpeningBasis(log[i])]
               q == [k \in L |-> st.lots[k].basis]
               r == [g \in G |-> st.gains[g].basis]
    <2>1. log \in Seq(Payloads) /\ n \in Nat /\ n \in 0..Len(log)
        BY DEF TypeOK
    <2>2. FoldOK(st, n) /\ st = FoldSteps(log)[n]
        BY <2>1, EveryStepOK DEF Replay
    <2>3. Paid(log, n, sym) = Carried(st, sym) + Consumed(st, sym)
        <3>1. Conserved(log, n)
            BY <2>1, EveryStepConserves
        <3> QED
            BY <2>2, <3>1 DEF Conserved
    <2>4. /\ \A i \in Opens(log) : i <= n /\ i \in 1..n /\ PaidBy(log)[i] = OpeningBasis(log[i])
        <3>1. \A i \in Opens(log) : i \in 1..n /\ PaidBy(log)[i] = OpeningBasis(log[i])
            BY <2>1, OpensSurvive
        <3>2. \A i \in 1..n : i <= n
            BY <2>1
        <3> QED
            BY <3>1, <3>2
    <2> HIDE DEF st, n
    <2>5. OpenedBy(log, n, sym) = O
        BY <2>2, <2>4 DEF OpenedBy
    <2>6. IsFiniteSet(O)
        <3>1. IsFiniteSet(1..n)
            BY <2>1, FS_Interval
        <3>2. O \subseteq 1..n
            BY <2>4
        <3> QED
            BY <3>1, <3>2, FS_Subset
    <2>7. SumFunctionOnSet(p, O) = SumFunctionOnSet(PaidBy(log), O)
        <3>1. \A i \in O : p[i] = PaidBy(log)[i]
            BY <2>4
        <3> HIDE DEF p, O
        <3> QED
            BY <2>6, <3>1, SumSame
    <2>8. /\ IsFiniteSet(LotsIn(st, sym)) /\ IsFiniteSet(GainsIn(st, sym))
          /\ L = LotsIn(st, sym) /\ G = GainsIn(st, sym)
        <3>1. IsFiniteSet(LotsIn(st, sym)) /\ IsFiniteSet(GainsIn(st, sym))
            BY <2>2, BasisTypes
        <3> QED
            BY <3>1 DEF LotsIn, GainsIn
    <2>9. SumFunctionOnSet(q, L) = SumFunctionOnSet(BasisOf(st), L)
        <3>1. \A k \in L : q[k] = BasisOf(st)[k]
            BY DEF BasisOf
        <3> HIDE DEF q, L
        <3> QED
            BY <2>8, <3>1, SumSame
    <2>10. SumFunctionOnSet(r, G) = SumFunctionOnSet(CostOf(st), G)
        <3>1. \A g \in G : r[g] = CostOf(st)[g]
            BY DEF CostOf
        <3> HIDE DEF r, G
        <3> QED
            BY <2>8, <3>1, SumSame
    <2>11. SumFunction(p) = SumFunctionOnSet(p, O) /\ SumFunction(q) = SumFunctionOnSet(q, L)
           /\ SumFunction(r) = SumFunctionOnSet(r, G)
        BY DEF SumFunction
    <2> HIDE DEF O, L, G, p, q, r
    <2>12. SumFunction(p) = SumFunction(q) + SumFunction(r)
        BY <2>3, <2>5, <2>7, <2>8, <2>9, <2>10, <2>11 DEF Paid, Carried, Consumed
    <2> QED
        BY <2>12 DEF O, L, G, p, q, r, st
<1> QED
    BY <1>1, TypeCorrect, PTL

(***************************************************************************)
(* A richer state                                                          *)
(* Taking a sale back leaves every later event at least the shares it had. *)
(***************************************************************************)
\* More rounds to no less.
LEMMA RoundingIsMonotone ==
    ASSUME NEW a \in Int, NEW b \in Int, a <= b, NEW den \in Int, den > 0
    PROVE  RoundHalfEven(a, den) <= RoundHalfEven(b, den)
<1> DEFINE q == a \div den
           r == a % den
           s == b \div den
           t == b % den
<1>1. /\ q \in Int /\ r \in Int /\ a = den * q + r /\ 0 <= r /\ r < den
      /\ s \in Int /\ t \in Int /\ b = den * s + t /\ 0 <= t /\ t < den
    BY DivMod
<1>2. /\ RoundHalfEven(a, den) = IF 2 * r < den \/ (2 * r = den /\ q % 2 = 0) THEN q ELSE q + 1
      /\ RoundHalfEven(b, den) = IF 2 * t < den \/ (2 * t = den /\ s % 2 = 0) THEN s ELSE s + 1
    BY DEF RoundHalfEven
<1> HIDE DEF q, r, s, t
<1>3. q <= s
    <2> SUFFICES ASSUME s < q PROVE FALSE
        BY <1>1
    <2>1. den * (q - s) >= den
        BY <1>1
    <2>2. den * q - den * s = den * (q - s)
        BY <1>1
    <2> QED
        BY <1>1, <2>1, <2>2
<1>4. CASE q < s
    BY <1>1, <1>2, <1>4
<1>5. CASE q = s
    <2>1. r <= t
        BY <1>1, <1>5
    <2> QED
        BY <1>1, <1>2, <1>5, <2>1
<1> QED
    BY <1>1, <1>3, <1>4, <1>5

\* Lots that one event opened, whatever was sold of them.
Kin(a, b) ==
    /\ a.id = b.id /\ a.symbol = b.symbol /\ a.platform = b.platform
    /\ a.acquired = b.acquired /\ a.openSeq = b.openSeq

\* x has the lots of st, and no fewer shares in any of them.
Richer(x, st) ==
    /\ DOMAIN x.lots = DOMAIN st.lots
    /\ \A k \in DOMAIN st.lots :
          Kin(x.lots[k], st.lots[k]) /\ st.lots[k].qty <= x.lots[k].qty

\* A sale leaves the lots what they are, with no more shares.
LEMMA SaleTakes ==
    ASSUME NEW st, NEW n, FoldOK(st, n), NEW seq, NEW e, NEW x, SaleDone(st, seq, e, x)
    PROVE  Richer(st, x)
<1> DEFINE plan == SelectLots(st, e)
           proceeds == AllocateProceeds(st, plan, Net(e), e.qty)
<1>1. Fits(st, e, plan) /\ SoldState(st, seq, e, plan, proceeds, Len(plan), x)
    BY DEF SaleDone
<1> HIDE DEF plan, proceeds
<1>2. DOMAIN x.lots = DOMAIN st.lots
    BY <1>1 DEF SoldState
<1>3. ASSUME NEW k \in DOMAIN st.lots
      PROVE  Kin(st.lots[k], x.lots[k]) /\ x.lots[k].qty <= st.lots[k].qty
    <2>1. st.lots[k] \in LotRecords /\ st.lots[k].qty \in Nat
        BY FoldTypes
    <2>2. CASE x.lots[k] = st.lots[k]
        BY <2>1, <2>2 DEF Kin
    <2>3. CASE \E i \in 1..Len(plan) : /\ plan[i][1] = k /\ plan[i][2] \in Nat
                                       /\ 0 < plan[i][2] /\ plan[i][2] <= st.lots[k].qty
                                       /\ x.lots[k] = Reduced(st.lots[k], plan[i][2])
        <3>1. PICK i \in 1..Len(plan) : /\ plan[i][2] \in Nat
                                        /\ 0 < plan[i][2] /\ plan[i][2] <= st.lots[k].qty
                                        /\ x.lots[k] = Reduced(st.lots[k], plan[i][2])
            BY <2>3
        <3> DEFINE lot == st.lots[k]
                   c == plan[i][2]
        <3>2. lot \in LotRecords /\ c \in Nat /\ 0 < c /\ c <= lot.qty /\ lot.qty \in Nat
            BY <2>1, <3>1
        <3> HIDE DEF lot, c
        <3>3. /\ Reduced(lot, c).id = lot.id /\ Reduced(lot, c).symbol = lot.symbol
              /\ Reduced(lot, c).platform = lot.platform
              /\ Reduced(lot, c).acquired = lot.acquired /\ Reduced(lot, c).openSeq = lot.openSeq
              /\ Reduced(lot, c).qty = lot.qty - c
            BY <3>2, ReducedLot
        <3>4. Kin(lot, Reduced(lot, c)) /\ Reduced(lot, c).qty <= lot.qty
            BY <3>2, <3>3 DEF Kin
        <3> QED
            BY <3>1, <3>4 DEF lot, c
    <2> QED
        BY <1>1, <2>2, <2>3, SoldLots
<1> QED
    BY <1>2, <1>3 DEF Richer

\* What FIFO leaves in a lot.
LEMMA FifoLeaves ==
    ASSUME NEW st, NEW n, FoldOK(st, n), NEW e \in Payloads, e.kind = "Sell", e.refs = <<>>,
           NEW seq, NEW x, SaleDone(st, seq, e, x), NEW k \in DOMAIN st.lots
    PROVE  /\ k \notin Reached(st, e) => x.lots[k] = st.lots[k]
           /\ k \in Reached(st, e) =>
                 x.lots[k].qty = IF st.lots[k].qty >= Need(st, e, k)
                                 THEN st.lots[k].qty - Need(st, e, k) ELSE 0
<1> DEFINE plan == FifoPlan(st, e)
           proceeds == AllocateProceeds(st, plan, Net(e), e.qty)
<1>1. SelectLots(st, e) = plan
    BY DEF SelectLots
<1>2. Fits(st, e, plan) /\ SoldState(st, seq, e, plan, proceeds, Len(plan), x)
      /\ Len(plan) \in Nat /\ DOMAIN plan = 1..Len(plan)
      /\ \A i \in DOMAIN plan : plan[i][2] \in Nat
    BY <1>1 DEF SaleDone
<1>3. /\ \A i \in DOMAIN plan :
             /\ plan[i][1] \in Reached(st, e)
             /\ plan[i][2] = IF st.lots[plan[i][1]].qty >= Need(st, e, plan[i][1])
                             THEN Need(st, e, plan[i][1]) ELSE st.lots[plan[i][1]].qty
      /\ \A j \in Reached(st, e) : \E i \in DOMAIN plan : plan[i][1] = j
    BY FifoPlanForm
<1> HIDE DEF plan, proceeds
<1>4. CASE k \notin Reached(st, e)
    <2>1. \A i \in 1..Len(plan) : plan[i][1] # k
        BY <1>2, <1>3, <1>4
    <2>2. x.lots[k] = st.lots[k]
        BY <1>2, <2>1 DEF SoldState
    <2> QED
        BY <1>4, <2>2
<1>5. CASE k \in Reached(st, e)
    <2>1. PICK i \in DOMAIN plan : plan[i][1] = k
        BY <1>3, <1>5
    <2> DEFINE lot == st.lots[k]
               c == plan[i][2]
    <2>2. lot \in LotRecords /\ lot.qty \in Nat /\ c \in Nat /\ 0 < c /\ c <= lot.qty
        BY <1>2, <2>1, FoldTypes DEF Fits
    <2>3. c = IF lot.qty >= Need(st, e, k) THEN Need(st, e, k) ELSE lot.qty
        BY <1>3, <2>1
    <2>4. x.lots[k] = Reduced(lot, c)
        BY <1>2, <2>1 DEF SoldState
    <2> HIDE DEF lot, c
    <2>5. Reduced(lot, c).qty = lot.qty - c
        BY <2>2, ReducedLot
    <2>6. x.lots[k].qty = IF lot.qty >= Need(st, e, k) THEN lot.qty - Need(st, e, k) ELSE 0
        BY <2>2, <2>3, <2>4, <2>5
    <2> QED
        BY <1>5, <2>6 DEF lot
<1> QED
    BY <1>4, <1>5

\* More shares in more lots are no fewer shares.
LEMMA RicherQty ==
    ASSUME NEW st, NEW n, FoldOK(st, n), NEW x, NEW m, FoldOK(x, m), Richer(x, st),
           NEW T \in SUBSET DOMAIN st.lots, NEW S \in SUBSET T
    PROVE  /\ QtyOf(st, S) \in Nat /\ QtyOf(x, T) \in Nat
           /\ QtyOf(st, S) <= QtyOf(x, T)
<1>1. T \in SUBSET DOMAIN x.lots /\ S \in SUBSET DOMAIN x.lots /\ S \in SUBSET DOMAIN st.lots
    BY DEF Richer
<1>2. /\ IsFiniteSet(S) /\ QtyOf(st, S) \in Nat /\ QtyOf(x, S) \in Nat /\ QtyOf(x, T) \in Nat
      /\ QtyOf(st, S) = SumFunctionOnSet(Sizes(st), S)
      /\ QtyOf(x, S) = SumFunctionOnSet(Sizes(x), S)
    BY <1>1, QtyIsSum
<1>3. QtyOf(x, S) <= QtyOf(x, T)
    BY <1>1, QtyGrows
<1>4. \A k \in S : /\ Sizes(st)[k] \in Int /\ Sizes(x)[k] \in Int
                   /\ Sizes(st)[k] <= Sizes(x)[k]
    <2>1. \A k \in S : st.lots[k].qty \in Nat /\ x.lots[k].qty \in Nat
        BY <1>1, FoldTypes
    <2>2. \A k \in S : st.lots[k].qty <= x.lots[k].qty
        BY <1>1 DEF Richer
    <2> QED
        BY <1>1, <2>1, <2>2 DEF Sizes
<1>5. QtyOf(st, S) <= QtyOf(x, S)
    BY <1>2, <1>4, SumMonotone
<1> QED
    BY <1>2, <1>3, <1>5

\* So FIFO finds in the richer state what it finds in the other, with less to look for
\* behind the older lots.
LEMMA RicherNeeds ==
    ASSUME NEW st, NEW n, FoldOK(st, n), NEW x, NEW m, FoldOK(x, m), Richer(x, st),
           NEW e \in Payloads, e.kind = "Sell"
    PROVE  /\ FifoCandidates(st, e) \subseteq FifoCandidates(x, e)
           /\ QtyOf(st, FifoCandidates(st, e)) \in Nat /\ QtyOf(x, FifoCandidates(x, e)) \in Nat
           /\ QtyOf(st, FifoCandidates(st, e)) <= QtyOf(x, FifoCandidates(x, e))
           /\ \A k \in DOMAIN st.lots :
                 Need(st, e, k) \in Int /\ Need(x, e, k) \in Int /\ Need(x, e, k) <= Need(st, e, k)
<1>1. \A k \in DOMAIN st.lots :
          /\ st.lots[k].qty \in Nat /\ x.lots[k].qty \in Nat
          /\ st.lots[k].qty <= x.lots[k].qty
          /\ x.lots[k].closed => x.lots[k].qty = 0
          /\ x.lots[k].symbol = st.lots[k].symbol /\ x.lots[k].platform = st.lots[k].platform
          /\ x.lots[k].acquired = st.lots[k].acquired /\ x.lots[k].openSeq = st.lots[k].openSeq
    BY FoldTypes DEF Richer, Kin, FoldOK
<1>2. DOMAIN x.lots = DOMAIN st.lots
    BY DEF Richer
<1>3. FifoCandidates(st, e) \subseteq FifoCandidates(x, e)
    <2> SUFFICES ASSUME NEW k \in FifoCandidates(st, e) PROVE k \in FifoCandidates(x, e)
        OBVIOUS
    <2>1. /\ k \in DOMAIN st.lots /\ st.lots[k].qty > 0
          /\ st.lots[k].symbol = e.symbol /\ st.lots[k].platform = e.platform
        BY DEF FifoCandidates
    <2>2. x.lots[k].qty > 0
        BY <1>1, <2>1
    <2> QED
        BY <1>1, <1>2, <2>1, <2>2 DEF FifoCandidates
<1>4. FifoCandidates(x, e) \in SUBSET DOMAIN st.lots
    BY <1>2 DEF FifoCandidates
<1>5. ASSUME NEW k \in DOMAIN st.lots
      PROVE  Need(st, e, k) \in Int /\ Need(x, e, k) \in Int /\ Need(x, e, k) <= Need(st, e, k)
    <2> DEFINE S == OlderOpen(st, e, k)
               T == OlderOpen(x, e, k)
    <2>1. S \subseteq T
        <3> SUFFICES ASSUME NEW j \in S PROVE j \in T
            OBVIOUS
        <3>1. j \in FifoCandidates(st, e) /\ Older(st.lots[j], st.lots[k])
            BY DEF OlderOpen
        <3>2. j \in DOMAIN st.lots
            BY <3>1 DEF FifoCandidates
        <3>3. Older(x.lots[j], x.lots[k])
            BY <1>1, <3>1, <3>2 DEF Older
        <3> QED
            BY <1>3, <3>1, <3>3 DEF OlderOpen
    <2>2. T \in SUBSET DOMAIN st.lots
        BY <1>4 DEF OlderOpen
    <2>3. Need(st, e, k) = e.qty - QtyOf(st, S) /\ Need(x, e, k) = e.qty - QtyOf(x, T)
        BY DEF Need
    <2> HIDE DEF S, T
    <2>4. QtyOf(st, S) \in Nat /\ QtyOf(x, T) \in Nat /\ QtyOf(st, S) <= QtyOf(x, T)
        BY <2>1, <2>2, RicherQty
    <2>5. e.qty \in Int
        BY SellTypes
    <2> QED
        BY <2>3, <2>4, <2>5
<1> QED
    BY <1>3, <1>4, <1>5, RicherQty

\* A specific-lot sale is accepted when each of its references is, and they add up.
LEMMA RefsAccepted ==
    ASSUME NEW st, NEW e \in Payloads, e.kind = "Sell", SpecificVerdict(st, e) = "Ok"
    PROVE  /\ \A j \in DOMAIN e.refs : RefVerdict(st, e, j) = "Ok"
           /\ SumFunction([j \in DOMAIN e.refs |-> e.refs[j].qty]) = e.qty
<1> DEFINE v == [j \in DOMAIN e.refs |-> RefVerdict(st, e, j)]
           bad == {j \in DOMAIN e.refs : v[j] # "Ok"}
<1>1. e.refs \in Seq([lot : STRING, qty : Int])
    BY SellTypes
<1>2. "Ok" = IF bad # {} THEN v[Min(bad)]
             ELSE IF SumFunction([j \in DOMAIN e.refs |-> e.refs[j].qty]) # e.qty
                  THEN "LotRefsMismatch" ELSE "Ok"
    BY DEF SpecificVerdict
<1>3. bad = {}
    <2> SUFFICES ASSUME bad # {} PROVE FALSE
        OBVIOUS
    <2>1. bad \subseteq Nat
        BY <1>1
    <2>2. Min(bad) \in bad
        <3> HIDE DEF bad
        <3>1. PICK h \in bad : \A j \in bad : h <= j
            BY <2>1, LeastNumber
        <3> QED
            BY <3>1 DEF Min
    <2> QED
        BY <1>2, <2>2
<1> QED
    BY <1>2, <1>3

\* The richer state has the lots that a sale refers to, too, with enough in them.
LEMMA RicherSpecific ==
    ASSUME NEW st, NEW n, FoldOK(st, n), NEW x, NEW m, FoldOK(x, m), Richer(x, st),
           NEW e \in Payloads, e.kind = "Sell", SpecificVerdict(st, e) = "Ok"
    PROVE  SpecificVerdict(x, e) = "Ok" /\ SpecificPlan(x, e) = SpecificPlan(st, e)
<1>1. \A k \in DOMAIN st.lots :
          /\ st.lots[k].qty \in Nat /\ x.lots[k].qty \in Nat
          /\ st.lots[k].qty <= x.lots[k].qty
          /\ x.lots[k].closed => x.lots[k].qty = 0
          /\ x.lots[k].id = st.lots[k].id
          /\ x.lots[k].symbol = st.lots[k].symbol /\ x.lots[k].platform = st.lots[k].platform
    BY FoldTypes DEF Richer, Kin, FoldOK
<1>2. DOMAIN x.lots = DOMAIN st.lots
    BY DEF Richer
<1>3. \A id : LotIndex(x, id) = LotIndex(st, id)
    BY <1>1, <1>2 DEF LotIndex
<1>4. e.refs \in Seq([lot : STRING, qty : Int])
    BY SellTypes
<1>5. ASSUME NEW j \in DOMAIN e.refs PROVE RefVerdict(st, e, j) = "Ok" => RefVerdict(x, e, j) = "Ok"
    <2> SUFFICES ASSUME RefVerdict(st, e, j) = "Ok" PROVE RefVerdict(x, e, j) = "Ok"
        OBVIOUS
    <2> DEFINE ref == e.refs[j]
               hit == LotIndex(st, ref.lot)
               k == CHOOSE i \in hit : TRUE
    <2>1. ref.qty \in Int
        <3>1. ref \in [lot : STRING, qty : Int]
            BY <1>4, ElementOfSeq, LenProperties
        <3> QED
            BY <3>1
    <2>2. /\ ~\E i \in 1..(j - 1) : e.refs[i].lot = ref.lot
          /\ hit # {}
          /\ st.lots[k].symbol = e.symbol /\ st.lots[k].platform = e.platform
          /\ ~(ref.qty <= 0) /\ ~st.lots[k].closed /\ ~(ref.qty > st.lots[k].qty)
        BY DEF RefVerdict
    <2>3. LotIndex(x, ref.lot) = hit
        BY <1>3
    <2> HIDE DEF ref
    <2>4. k \in hit /\ hit \subseteq DOMAIN st.lots
        BY <2>2 DEF LotIndex
    <2> HIDE DEF hit
    <2>5. k \in DOMAIN st.lots
        BY <2>4
    <2> HIDE DEF k
    <2>6. ~x.lots[k].closed /\ ~(ref.qty > x.lots[k].qty)
        BY <1>1, <2>1, <2>2, <2>5
    <2>7. x.lots[k].symbol = e.symbol /\ x.lots[k].platform = e.platform
        BY <1>1, <2>2, <2>5
    <2> QED
        BY <2>2, <2>3, <2>6, <2>7 DEF RefVerdict, ref, hit, k
<1>6. (\A j \in DOMAIN e.refs : RefVerdict(st, e, j) = "Ok")
          /\ SumFunction([j \in DOMAIN e.refs |-> e.refs[j].qty]) = e.qty
    BY RefsAccepted
<1>7. SpecificVerdict(x, e) = "Ok"
    <2> DEFINE v == [j \in DOMAIN e.refs |-> RefVerdict(x, e, j)]
               bad == {j \in DOMAIN e.refs : v[j] # "Ok"}
    <2>1. bad = {}
        BY <1>5, <1>6
    <2> HIDE DEF bad
    <2>2. SpecificVerdict(x, e) = IF bad # {} THEN v[Min(bad)]
                 ELSE IF SumFunction([j \in DOMAIN e.refs |-> e.refs[j].qty]) # e.qty
                      THEN "LotRefsMismatch" ELSE "Ok"
        BY DEF SpecificVerdict, bad
    <2> QED
        BY <1>6, <2>1, <2>2
<1>8. SpecificPlan(x, e) = SpecificPlan(st, e)
    BY <1>3 DEF SpecificPlan
<1> QED
    BY <1>7, <1>8

\* A sale that one state covers is covered by a richer one.
LEMMA RicherCovers ==
    ASSUME NEW st, NEW n, FoldOK(st, n), NEW x, NEW m, FoldOK(x, m), Richer(x, st),
           NEW e \in Payloads, e.kind = "Sell", SellVerdict(st, e) = "Ok"
    PROVE  SellVerdict(x, e) = "Ok"
<1>1. /\ ~(e.qty <= 0) /\ SelectVerdict(st, e) = "Ok"
      /\ WithinCap(Gross(e)) /\ WithinCap(Net(e))
    BY DEF SellVerdict
<1>2. SelectVerdict(x, e) = "Ok"
    <2>1. CASE e.refs # <<>>
        <3>1. SpecificVerdict(st, e) = "Ok"
            BY <1>1, <2>1 DEF SelectVerdict
        <3>2. SpecificVerdict(x, e) = "Ok"
            BY <3>1, RicherSpecific
        <3> QED
            BY <2>1, <3>2 DEF SelectVerdict
    <2>2. CASE e.refs = <<>>
        <3> DEFINE a == QtyOf(st, FifoCandidates(st, e))
                   b == QtyOf(x, FifoCandidates(x, e))
        <3>1. a \in Nat /\ b \in Nat /\ a <= b
            BY RicherNeeds
        <3>2. e.qty \in Int
            BY SellTypes
        <3>3. ~(a < e.qty)
            BY <1>1, <2>2 DEF SelectVerdict
        <3> HIDE DEF a, b
        <3>4. ~(b < e.qty)
            BY <3>1, <3>2, <3>3
        <3> QED
            BY <2>2, <3>4 DEF SelectVerdict, b
    <2> QED
        BY <2>1, <2>2
<1> QED
    BY <1>1, <1>2 DEF SellVerdict

\* By FIFO, less is left of what was less.
LEMMA FifoKeepsRicher ==
    ASSUME NEW st, NEW n, FoldOK(st, n), NEW x, NEW m, FoldOK(x, m), Richer(x, st),
           NEW e \in Payloads, e.kind = "Sell", e.refs = <<>>, NEW seq,
           NEW y, SaleDone(st, seq, e, y), NEW z, SaleDone(x, seq, e, z),
           NEW k \in DOMAIN st.lots
    PROVE  y.lots[k].qty <= z.lots[k].qty
<1> DEFINE p == st.lots[k].qty
           q == x.lots[k].qty
           a == Need(st, e, k)
           b == Need(x, e, k)
<1>1. k \in DOMAIN x.lots /\ p \in Nat /\ q \in Nat /\ p <= q
    BY FoldTypes DEF Richer
<1>2. a \in Int /\ b \in Int /\ b <= a
    BY RicherNeeds
<1>3. /\ k \in Reached(st, e) <=> k \in FifoCandidates(st, e) /\ a > 0
      /\ k \in Reached(x, e) <=> k \in FifoCandidates(x, e) /\ b > 0
    BY DEF Reached
<1>4. /\ k \notin Reached(st, e) => y.lots[k].qty = p
      /\ k \in Reached(st, e) => y.lots[k].qty = IF p >= a THEN p - a ELSE 0
    BY FifoLeaves
<1>5. /\ k \notin Reached(x, e) => z.lots[k].qty = q
      /\ k \in Reached(x, e) => z.lots[k].qty = IF q >= b THEN q - b ELSE 0
    BY <1>1, FifoLeaves
<1>6. k \in FifoCandidates(st, e) => k \in FifoCandidates(x, e)
    BY RicherNeeds
<1>7. k \in FifoCandidates(x, e) /\ k \notin FifoCandidates(st, e) => p = 0
    <2> SUFFICES ASSUME k \in FifoCandidates(x, e), k \notin FifoCandidates(st, e) PROVE p = 0
        OBVIOUS
    <2>1. x.lots[k].symbol = e.symbol /\ x.lots[k].platform = e.platform
        BY DEF FifoCandidates
    <2>2. st.lots[k].symbol = e.symbol /\ st.lots[k].platform = e.platform
        BY <2>1 DEF Richer, Kin
    <2>3. st.lots[k].closed \/ ~(p > 0)
        BY <2>2 DEF FifoCandidates
    <2>4. st.lots[k].closed => p = 0
        BY DEF FoldOK
    <2> QED
        BY <1>1, <2>3, <2>4
<1> HIDE DEF p, q, a, b
<1>8. CASE k \notin Reached(x, e)
    <2>1. y.lots[k].qty \in Int /\ y.lots[k].qty <= p
        BY <1>1, <1>2, <1>3, <1>4
    <2>2. z.lots[k].qty = q
        BY <1>5, <1>8
    <2> QED
        BY <1>1, <2>1, <2>2
<1>9. CASE k \in Reached(x, e) /\ k \in Reached(st, e)
    BY <1>1, <1>2, <1>3, <1>4, <1>5, <1>9
<1>10. CASE k \in Reached(x, e) /\ k \notin Reached(st, e)
    <2>1. p = 0
        BY <1>2, <1>3, <1>7, <1>10
    <2> QED
        BY <1>1, <1>2, <1>4, <1>5, <1>10, <2>1
<1> QED
    BY <1>8, <1>9, <1>10

\* A sale by reference takes the same of both.
LEMMA SpecificKeepsRicher ==
    ASSUME NEW st, NEW n, FoldOK(st, n), NEW x, NEW m, FoldOK(x, m), Richer(x, st),
           NEW e \in Payloads, e.kind = "Sell", e.refs # <<>>, SellVerdict(st, e) = "Ok", NEW seq,
           NEW y, SaleDone(st, seq, e, y), NEW z, SaleDone(x, seq, e, z),
           NEW k \in DOMAIN st.lots
    PROVE  y.lots[k].qty <= z.lots[k].qty
<1> DEFINE plan == SpecificPlan(st, e)
<1>1. SelectLots(st, e) = plan /\ SelectLots(x, e) = plan
    <2>1. SpecificVerdict(st, e) = "Ok"
        BY DEF SellVerdict, SelectVerdict
    <2> QED
        BY <2>1, RicherSpecific DEF SelectLots
<1> DEFINE ps == AllocateProceeds(st, plan, Net(e), e.qty)
           px == AllocateProceeds(x, plan, Net(e), e.qty)
<1>2. /\ Fits(st, e, plan) /\ SoldState(st, seq, e, plan, ps, Len(plan), y)
      /\ Fits(x, e, plan) /\ SoldState(x, seq, e, plan, px, Len(plan), z)
      /\ Len(plan) \in Nat /\ DOMAIN plan = 1..Len(plan)
      /\ \A i \in DOMAIN plan : plan[i][2] \in Nat
    BY <1>1 DEF SaleDone
<1> HIDE DEF plan, ps, px
<1>3. /\ k \in DOMAIN x.lots /\ st.lots[k] \in LotRecords /\ x.lots[k] \in LotRecords
      /\ st.lots[k].qty \in Nat /\ x.lots[k].qty \in Nat /\ st.lots[k].qty <= x.lots[k].qty
    BY FoldTypes DEF Richer
<1>4. CASE \A i \in 1..Len(plan) : plan[i][1] # k
    <2>1. y.lots[k] = st.lots[k] /\ z.lots[k] = x.lots[k]
        BY <1>2, <1>3, <1>4 DEF SoldState
    <2> QED
        BY <1>3, <2>1
<1>5. CASE \E i \in 1..Len(plan) : plan[i][1] = k
    <2>1. PICK i \in 1..Len(plan) : plan[i][1] = k
        BY <1>5
    <2> DEFINE c == plan[i][2]
               s == st.lots[k]
               t == x.lots[k]
    <2>2. c \in Nat /\ 0 < c /\ c <= s.qty /\ c <= t.qty
        BY <1>2, <2>1 DEF Fits
    <2>3. y.lots[k] = Reduced(s, c) /\ z.lots[k] = Reduced(t, c)
        BY <1>2, <2>1 DEF SoldState
    <2>4. s \in LotRecords /\ t \in LotRecords /\ s.qty \in Nat /\ t.qty \in Nat /\ s.qty <= t.qty
        BY <1>3
    <2> HIDE DEF c, s, t
    <2>5. Reduced(s, c).qty = s.qty - c /\ Reduced(t, c).qty = t.qty - c
        BY <2>2, <2>4, ReducedLot
    <2> QED
        BY <2>2, <2>3, <2>4, <2>5
<1> QED
    BY <1>4, <1>5

\* So a sale keeps the richer state richer.
LEMMA SaleKeepsRicher ==
    ASSUME NEW st, NEW n, FoldOK(st, n), NEW x, NEW m, FoldOK(x, m), Richer(x, st),
           NEW e \in Payloads, e.kind = "Sell", SellVerdict(st, e) = "Ok", NEW seq,
           NEW y, SaleDone(st, seq, e, y), NEW z, SaleDone(x, seq, e, z)
    PROVE  Richer(z, y)
<1>1. Richer(st, y) /\ Richer(x, z)
    BY SaleTakes
<1>2. DOMAIN x.lots = DOMAIN st.lots /\ DOMAIN y.lots = DOMAIN st.lots /\ DOMAIN z.lots = DOMAIN st.lots
    BY <1>1 DEF Richer
<1>3. \A k \in DOMAIN st.lots : Kin(z.lots[k], y.lots[k])
    BY <1>1, <1>2 DEF Richer, Kin
<1>4. \A k \in DOMAIN st.lots : y.lots[k].qty <= z.lots[k].qty
    BY FifoKeepsRicher, SpecificKeepsRicher
<1> QED
    BY <1>2, <1>3, <1>4 DEF Richer

\* An opening adds its lot behind the others.
LEMMA OpenAdds ==
    ASSUME NEW st, NEW n, FoldOK(st, n), NEW seq, NEW e, NEW y, OpenState(st, seq, e, y)
    PROVE  /\ Len(st.lots) \in Nat /\ DOMAIN st.lots = 1..Len(st.lots)
           /\ Len(y.lots) = Len(st.lots) + 1 /\ DOMAIN y.lots = 1..(Len(st.lots) + 1)
           /\ \A k \in DOMAIN st.lots : y.lots[k] = st.lots[k]
           /\ y.lots[Len(st.lots) + 1] = NewLot(seq, e)
<1> DEFINE s == st.lots
           t == NewLot(seq, e)
<1>1. s \in Seq(LotRecords) /\ t \in LotRecords /\ y.lots = Append(s, t)
    BY FoldTypes DEF OpenState
<1> HIDE DEF s, t
<1>2. /\ Len(s) \in Nat /\ DOMAIN s = 1..Len(s)
      /\ Len(Append(s, t)) = Len(s) + 1 /\ DOMAIN Append(s, t) = 1..(Len(s) + 1)
      /\ \A k \in DOMAIN s : Append(s, t)[k] = s[k]
      /\ Append(s, t)[Len(s) + 1] = t
    BY <1>1
<1> QED
    BY <1>1, <1>2 DEF s, t

\* An opening that one state accepts is accepted by a state of the same lots.
LEMMA RicherOpens ==
    ASSUME NEW st, NEW x, Richer(x, st), NEW e, OpenVerdict(st, e) = "Ok"
    PROVE  OpenVerdict(x, e) = "Ok"
<1>1. ~\E k \in DOMAIN st.lots : st.lots[k].id = e.lot
    BY DEF OpenVerdict
<1>2. ~\E k \in DOMAIN x.lots : x.lots[k].id = e.lot
    BY <1>1 DEF Richer, Kin
<1> QED
    BY <1>2 DEF OpenVerdict

\* And keeps the richer state richer.
LEMMA OpenKeepsRicher ==
    ASSUME NEW st, NEW n, FoldOK(st, n), NEW x, NEW m, FoldOK(x, m), Richer(x, st),
           NEW e, NEW seq, NEW y, OpenState(st, seq, e, y), NEW z, OpenState(x, seq, e, z),
           NEW h, FoldOK(z, h)
    PROVE  Richer(z, y)
<1> DEFINE s == Len(st.lots)
<1>1. /\ s \in Nat /\ DOMAIN st.lots = 1..s /\ DOMAIN y.lots = 1..(s + 1)
      /\ \A k \in 1..s : y.lots[k] = st.lots[k]
      /\ y.lots[s + 1] = NewLot(seq, e)
    BY OpenAdds
<1>2. Len(x.lots) = s /\ DOMAIN x.lots = 1..s
    <2>1. DOMAIN x.lots = DOMAIN st.lots /\ Len(x.lots) \in Nat /\ DOMAIN x.lots = 1..Len(x.lots)
        BY FoldTypes DEF Richer
    <2> DEFINE t == Len(x.lots)
    <2>2. t \in Nat /\ 1..t = 1..s
        BY <1>1, <2>1
    <2> HIDE DEF s, t
    <2>3. t = s
        BY <1>1, <2>2
    <2> QED
        BY <2>1, <2>3 DEF t
<1>3. /\ DOMAIN z.lots = 1..(s + 1)
      /\ \A k \in 1..s : z.lots[k] = x.lots[k]
      /\ z.lots[s + 1] = NewLot(seq, e)
    <2>1. /\ DOMAIN z.lots = 1..(Len(x.lots) + 1)
          /\ \A k \in DOMAIN x.lots : z.lots[k] = x.lots[k]
          /\ z.lots[Len(x.lots) + 1] = NewLot(seq, e)
        BY OpenAdds
    <2> HIDE DEF s
    <2> QED
        BY <1>2, <2>1
<1> HIDE DEF s
<1>4. \A k \in 1..(s + 1) : k \in 1..s \/ k = s + 1
    BY <1>1
<1>5. \A k \in 1..s : Kin(z.lots[k], y.lots[k]) /\ y.lots[k].qty <= z.lots[k].qty
    BY <1>1, <1>3 DEF Richer
<1>6. Kin(z.lots[s + 1], y.lots[s + 1]) /\ y.lots[s + 1].qty <= z.lots[s + 1].qty
    <2>1. z.lots[s + 1].qty \in Nat
        <3>1. s + 1 \in DOMAIN z.lots
            BY <1>1, <1>3
        <3> QED
            BY <3>1, FoldTypes
    <2>2. z.lots[s + 1] = y.lots[s + 1]
        BY <1>1, <1>3
    <2> QED
        BY <2>1, <2>2 DEF Kin
<1> QED
    BY <1>1, <1>3, <1>4, <1>5, <1>6 DEF Richer

\* What a split that is in range rescales.
LEMMA SplitsAll ==
    ASSUME NEW st, NEW e, OverCap(st, e) = {}
    PROVE  SplitReach(st, e) = SplitLots(st, e)
BY DEF SplitReach

\* A split rescales more to no less.
LEMMA SplitKeepsRicher ==
    ASSUME NEW st, NEW n, FoldOK(st, n), NEW x, NEW m, FoldOK(x, m), Richer(x, st),
           NEW e \in Payloads, e.kind = "Split", e.num >= 1, e.den >= 1,
           OverCap(st, e) = {}, OverCap(x, e) = {},
           NEW y, SplitState(st, e, SplitReach(st, e), y),
           NEW z, SplitState(x, e, SplitReach(x, e), z)
    PROVE  Richer(z, y)
<1>1. SplitReach(st, e) = SplitLots(st, e) /\ SplitReach(x, e) = SplitLots(x, e)
    BY SplitsAll
<1>2. e.num \in Int /\ e.den \in Int
    BY PayloadsAssumption
<1>3. DOMAIN x.lots = DOMAIN st.lots /\ DOMAIN y.lots = DOMAIN st.lots /\ DOMAIN z.lots = DOMAIN st.lots
    BY DEF Richer, SplitState
<1>4. ASSUME NEW k \in DOMAIN st.lots
      PROVE  Kin(z.lots[k], y.lots[k]) /\ y.lots[k].qty <= z.lots[k].qty
    <2> DEFINE s == st.lots[k]
               t == x.lots[k]
    <2>1. /\ s \in LotRecords /\ t \in LotRecords /\ s.qty \in Nat /\ t.qty \in Nat
          /\ s.qty <= t.qty /\ Kin(t, s)
          /\ s.closed => s.qty = 0
          /\ t.closed => t.qty = 0
        BY <1>3, FoldTypes DEF Richer, FoldOK
    <2>2. /\ k \in SplitLots(st, e) => y.lots[k] = AfterSplit(s, e)
          /\ k \notin SplitLots(st, e) => y.lots[k] = s
          /\ k \in SplitLots(x, e) => z.lots[k] = AfterSplit(t, e)
          /\ k \notin SplitLots(x, e) => z.lots[k] = t
        BY <1>1, <1>3 DEF SplitState
    <2>3. /\ k \in SplitLots(st, e) <=> ~s.closed /\ s.symbol = e.symbol /\ s.qty # 0
          /\ k \in SplitLots(x, e) <=> ~t.closed /\ t.symbol = e.symbol /\ t.qty # 0
        BY <1>3 DEF SplitLots
    <2> HIDE DEF s, t
    <2>4. /\ Kin(AfterSplit(s, e), s) /\ Kin(AfterSplit(t, e), t)
          /\ AfterSplit(s, e).qty = Rescaled(s, e) /\ AfterSplit(t, e).qty = Rescaled(t, e)
          /\ Rescaled(s, e) \in Nat /\ Rescaled(t, e) \in Nat
        BY <2>1, SplitLot DEF Kin
    <2>5. Rescaled(s, e) <= Rescaled(t, e)
        <3>1. s.qty * e.num \in Int /\ t.qty * e.num \in Int /\ s.qty * e.num <= t.qty * e.num
            BY <1>2, <2>1
        <3> QED
            BY <1>2, <3>1, RoundingIsMonotone DEF Rescaled
    <2>6. Kin(z.lots[k], y.lots[k])
        BY <2>1, <2>2, <2>4 DEF Kin
    <2>7. y.lots[k].qty <= z.lots[k].qty
        <3>1. CASE k \in SplitLots(st, e)
            <4>1. k \in SplitLots(x, e)
                BY <2>1, <2>3, <3>1 DEF Kin
            <4> QED
                BY <2>2, <2>4, <2>5, <3>1, <4>1
        <3>2. CASE k \notin SplitLots(st, e) /\ k \in SplitLots(x, e)
            <4>1. s.qty = 0
                BY <2>1, <2>3, <3>2 DEF Kin
            <4> QED
                BY <2>2, <2>4, <3>2, <4>1
        <3>3. CASE k \notin SplitLots(st, e) /\ k \notin SplitLots(x, e)
            BY <2>1, <2>2, <3>3
        <3> QED
            BY <3>1, <3>2, <3>3
    <2> QED
        BY <2>6, <2>7
<1> QED
    BY <1>3, <1>4 DEF Richer

\* An event that one state takes is taken by a richer one, which stays richer, but for
\* a split that is out of range there.
LEMMA EventKeepsRicher ==
    ASSUME NEW st, NEW n, FoldOK(st, n), NEW x, NEW m, FoldOK(x, m), Richer(x, st),
           NEW e \in Payloads, e.kind # "Reversal", NEW seq,
           NEW y, EventDone(st, seq, e, y), NEW z, EventDone(x, seq, e, z), NEW h, FoldOK(z, h),
           seq \notin y.dropped, e.kind = "Split" => seq \notin z.dropped
    PROVE  Richer(z, y) /\ z.dropped = x.dropped
<1>1. seq \in Marked(st, seq).dropped /\ seq \in Marked(x, seq).dropped
    <2>1. "dropped" \in DOMAIN st /\ "dropped" \in DOMAIN x
        BY DEF FoldOK, FoldStates
    <2> QED
        BY <2>1 DEF Marked
<1>2. /\ ~(SplitState(Marked(st, seq), e, SplitReach(st, e), y))
      /\ y # Marked(st, seq)
    BY <1>1 DEF SplitState
<1>3. CASE e.kind \in {"Buy", "Vest"}
    <2>1. OpenVerdict(st, e) = "Ok" /\ OpenState(st, seq, e, y)
        BY <1>2, <1>3 DEF EventDone
    <2>2. OpenVerdict(x, e) = "Ok"
        BY <2>1, RicherOpens
    <2>3. FoldVerdict(x, e) = "Ok"
        BY <1>3, <2>2 DEF FoldVerdict
    <2>4. OpenState(x, seq, e, z)
        BY <1>3, <2>3 DEF EventDone
    <2> QED
        BY <2>1, <2>4, OpenKeepsRicher DEF OpenState
<1>4. CASE e.kind = "Sell"
    <2>1. SellVerdict(st, e) = "Ok" /\ SaleDone(st, seq, e, y)
        BY <1>2, <1>4 DEF EventDone
    <2>2. SellVerdict(x, e) = "Ok"
        BY <1>4, <2>1, RicherCovers
    <2>3. FoldVerdict(x, e) = "Ok"
        BY <1>4, <2>2 DEF FoldVerdict
    <2>4. SaleDone(x, seq, e, z)
        BY <1>4, <2>3 DEF EventDone
    <2>5. z.dropped = x.dropped
        BY <2>4 DEF SaleDone, SoldState
    <2>6. Richer(z, y)
        BY <1>4, <2>1, <2>4, SaleKeepsRicher
    <2> QED
        BY <2>5, <2>6
<1>5. CASE e.kind = "Split"
    <2>1. /\ ~(SplitState(Marked(x, seq), e, SplitReach(x, e), z))
          /\ z # Marked(x, seq)
        BY <1>1, <1>5 DEF SplitState
    <2>2. /\ e.num >= 1 /\ e.den >= 1 /\ OverCap(st, e) = {} /\ OverCap(x, e) = {}
          /\ SplitState(st, e, SplitReach(st, e), y) /\ SplitState(x, e, SplitReach(x, e), z)
        BY <1>2, <1>5, <2>1 DEF EventDone
    <2>3. Richer(z, y)
        BY <1>5, <2>2, SplitKeepsRicher
    <2> QED
        BY <2>2, <2>3 DEF SplitState
<1>6. e.kind \in {"Buy", "Vest", "Sell", "Split"}
    BY PayloadsAssumption
<1> QED
    BY <1>3, <1>4, <1>5, <1>6

\* What was dropped or depended on stays so.
LEMMA EventGrows ==
    ASSUME NEW st, NEW n, FoldOK(st, n), NEW seq, NEW e, NEW x, EventDone(st, seq, e, x)
    PROVE  st.dropped \subseteq x.dropped /\ st.depended \subseteq x.depended
<1>1. /\ Marked(st, seq).dropped = st.dropped \cup {seq}
      /\ Marked(st, seq).depended = st.depended
    BY DEF Marked, FoldOK, FoldStates
<1>2. CASE OpenState(st, seq, e, x)
    BY <1>2 DEF OpenState
<1>3. CASE SaleDone(st, seq, e, x)
    BY <1>3 DEF SaleDone, SoldState
<1>4. CASE SplitState(st, e, SplitReach(st, e), x)
    BY <1>4 DEF SplitState
<1>5. CASE SplitState(Marked(st, seq), e, SplitReach(st, e), x)
    BY <1>1, <1>5 DEF SplitState
<1>6. CASE x = Marked(st, seq)
    BY <1>1, <1>6
<1> QED
    BY <1>2, <1>3, <1>4, <1>5, <1>6 DEF EventDone

\* The end of the fold has all that was dropped or depended on before.
LEMMA ReplayKeepsAll ==
    ASSUME NEW l \in Seq(Payloads), NEW n \in 0..Len(l)
    PROVE  /\ FoldSteps(l)[n].dropped \subseteq Replay(l).dropped
           /\ FoldSteps(l)[n].depended \subseteq Replay(l).depended
<1> DEFINE b == Len(l)
           F == FoldSteps(l)
           Kept(i) == F[i].dropped \subseteq F[b].dropped /\ F[i].depended \subseteq F[b].depended
           P == {d \in Nat : d <= b => Kept(b - d)}
<1>1. b \in Nat
    OBVIOUS
<1>2. ASSUME NEW i \in 1..b PROVE Kept(i) => Kept(i - 1)
    <2>1. CASE i \in Survivors(l)
        <3>1. FoldOK(F[i - 1], i - 1) /\ EventDone(F[i - 1], i, l[i], F[i])
            BY <2>1, StepDone
        <3>2. F[i - 1].dropped \subseteq F[i].dropped /\ F[i - 1].depended \subseteq F[i].depended
            <4> HIDE DEF F
            <4> QED
                BY <3>1, EventGrows
        <3> QED
            BY <3>2
    <2>2. CASE i \notin Survivors(l)
        <3>1. F[i] = F[i - 1]
            BY <2>2, StepDone
        <3> QED
            BY <3>1
    <2> QED
        BY <2>1, <2>2
<1> HIDE DEF F, b
<1>3. 0 \in P
    <2>1. b - 0 = b
        BY <1>1
    <2> QED
        BY <2>1
<1>4. ASSUME NEW d \in Nat, d \in P PROVE d + 1 \in P
    <2> SUFFICES ASSUME d + 1 <= b PROVE Kept(b - (d + 1))
        OBVIOUS
    <2>1. b - d \in 1..b /\ (b - d) - 1 = b - (d + 1) /\ d <= b
        BY <1>1
    <2>2. Kept(b - d)
        BY <1>4, <2>1
    <2>3. Kept((b - d) - 1)
        BY <1>2, <2>1, <2>2
    <2> QED
        BY <2>1, <2>3
<1>5. b - n \in Nat /\ b - n <= b /\ b - (b - n) = n
    BY <1>1 DEF b
<1>6. b - n \in P
    <2> HIDE DEF P
    <2> QED
        BY <1>3, <1>4, <1>5, NumberInduction
<1>7. Kept(n)
    BY <1>5, <1>6
<1> QED
    BY <1>7 DEF Replay, F, b

\* A Reversal takes its target out of the fold and brings nothing into it.
LEMMA ReversalSurvivors ==
    ASSUME NEW l \in Seq(Payloads), NEW e \in Payloads, e.kind = "Reversal", e.target \in DOMAIN l
    PROVE  LET m == Append(l, e)
           IN  /\ m \in Seq(Payloads) /\ Len(l) \in Nat /\ Len(m) = Len(l) + 1
               /\ m[Len(l) + 1] = e /\ \A n \in 1..Len(l) : m[n] = l[n]
               /\ Survivors(m) = Survivors(l) \ {e.target}
               /\ Replay(m) = FoldSteps(m)[Len(l)]
<1> DEFINE m == Append(l, e)
           b == Len(l)
<1>1. /\ m \in Seq(Payloads) /\ b \in Nat /\ Len(m) = b + 1 /\ DOMAIN m = 1..(b + 1)
      /\ DOMAIN l = 1..b /\ m[b + 1] = e /\ \A n \in 1..b : m[n] = l[n]
    OBVIOUS
<1> HIDE DEF m, b
<1>2. \A n : n \in 1..(b + 1) <=> n \in 1..b \/ n = b + 1
    BY <1>1
<1>3. ReversalsOf(m) = ReversalsOf(l) \cup {b + 1} /\ b + 1 \notin 1..b
    BY <1>1, <1>2 DEF ReversalsOf
<1>4. \A i \in ReversalsOf(l) : i \in 1..b
    BY <1>1 DEF ReversalsOf
<1>5. ReversedTargets(m) = ReversedTargets(l) \cup {e.target}
    BY <1>1, <1>3, <1>4 DEF ReversedTargets
<1>6. Survivors(m) = Survivors(l) \ {e.target}
    BY <1>1, <1>2, <1>3, <1>5 DEF Survivors
<1>7. Replay(m) = FoldSteps(m)[b]
    <2>1. b + 1 \in 1..Len(m) /\ (b + 1) - 1 = b
        BY <1>1
    <2>2. b + 1 \notin Survivors(m)
        BY <1>3 DEF Survivors
    <2>3. FoldSteps(m)[b + 1] = FoldSteps(m)[(b + 1) - 1]
        <3> DEFINE c == b + 1
        <3>1. c \in 1..Len(m) /\ c \notin Survivors(m)
            BY <2>1, <2>2
        <3> HIDE DEF c
        <3>2. FoldSteps(m)[c] = FoldSteps(m)[c - 1]
            BY <1>1, <3>1, StepDone
        <3> QED
            BY <3>2 DEF c
    <2> QED
        BY <1>1, <2>1, <2>3 DEF Replay
<1> QED
    BY <1>1, <1>6, <1>7 DEF m, b

\* When a sale is taken back, the sales after it find what they found, and more: the
\* fold drops none of them, and no opening.
LEMMA SaleTakenBack ==
    ASSUME NEW l \in Seq(Payloads), NEW e \in Payloads, e.kind = "Reversal",
           e.target \in DOMAIN l, l[e.target].kind \in {"Sell", "Reversal"},
           Replay(l).dropped = {}, LostSplits(Append(l, e)) = {}
    PROVE  Replay(Append(l, e)).dropped = {}
<1> DEFINE m == Append(l, e)
           b == Len(l)
           t == e.target
           F == FoldSteps(l)
           G == FoldSteps(m)
           P == {n \in Nat : n <= b => G[n].dropped = {} /\ Richer(G[n], F[n])}
<1>1. /\ m \in Seq(Payloads) /\ b \in Nat /\ Len(m) = b + 1 /\ \A n \in 1..b : m[n] = l[n]
      /\ Survivors(m) = Survivors(l) \ {t} /\ Replay(m) = G[b]
    BY ReversalSurvivors
<1>2. /\ F[0] = EmptyFold /\ G[0] = EmptyFold
    BY <1>1, FoldEquations
<1>3. \A n \in 0..b : F[n].dropped = {}
    BY ReplayKeepsAll
<1>4. \A n \in 0..b : \A i \in G[n].dropped : m[i].kind # "Split"
    <2>1. \A n \in 0..(b + 1) : G[n].dropped \subseteq Replay(m).dropped
        BY <1>1, ReplayKeepsAll
    <2>2. \A i \in Replay(m).dropped : m[i].kind # "Split"
        BY DEF LostSplits
    <2>3. \A n \in 0..b : n \in 0..(b + 1)
        BY <1>1
    <2> HIDE DEF m, G
    <2> QED
        BY <2>1, <2>2, <2>3
<1>5. ASSUME NEW n \in 1..b
      PROVE  /\ FoldOK(F[n - 1], n - 1) /\ FoldOK(G[n - 1], n - 1) /\ FoldOK(G[n], n)
             /\ n \in Survivors(l) => l[n] \in Payloads /\ l[n].kind # "Reversal"
                                      /\ EventDone(F[n - 1], n, l[n], F[n])
             /\ n \notin Survivors(l) => F[n] = F[n - 1]
             /\ n \in Survivors(l) \ {t} => EventDone(G[n - 1], n, l[n], G[n])
             /\ n \notin Survivors(l) \ {t} => G[n] = G[n - 1]
    <2>1. n \in 1..Len(m) /\ m[n] = l[n]
        BY <1>1
    <2> HIDE DEF m, t
    <2>2. /\ FoldOK(F[n - 1], n - 1)
          /\ n \in Survivors(l) => l[n] \in Payloads /\ l[n].kind # "Reversal"
                                   /\ EventDone(F[n - 1], n, l[n], F[n])
          /\ n \notin Survivors(l) => F[n] = F[n - 1]
        BY StepDone
    <2>3. /\ FoldOK(G[n - 1], n - 1) /\ FoldOK(G[n], n)
          /\ n \in Survivors(m) => EventDone(G[n - 1], n, m[n], G[n])
          /\ n \notin Survivors(m) => G[n] = G[n - 1]
        BY <1>1, <2>1, StepDone
    <2> QED
        BY <1>1, <2>1, <2>2, <2>3
<1> HIDE DEF F, G, m, b
<1>6. 0 \in P
    <2>1. EmptyFold.dropped = {} /\ Richer(EmptyFold, EmptyFold)
        BY DEF EmptyFold, Richer
    <2> QED
        BY <1>2, <2>1
<1>7. ASSUME NEW h \in Nat, h \in P PROVE h + 1 \in P
    <2> SUFFICES ASSUME h + 1 <= b PROVE G[h + 1].dropped = {} /\ Richer(G[h + 1], F[h + 1])
        OBVIOUS
    <2> DEFINE n == h + 1
               st == F[h]
               x == G[h]
               y == F[n]
               z == G[n]
    <2>1. n \in 1..b /\ n \in 0..b /\ h \in 0..b /\ n - 1 = h
        BY <1>1
    <2>2. x.dropped = {} /\ Richer(x, st)
        BY <1>1, <1>7
    <2>3. /\ FoldOK(st, h) /\ FoldOK(x, h) /\ FoldOK(z, n)
          /\ n \in Survivors(l) => l[n] \in Payloads /\ l[n].kind # "Reversal"
                                   /\ EventDone(st, n, l[n], y)
          /\ n \notin Survivors(l) => y = st
          /\ n \in Survivors(l) \ {t} => EventDone(x, n, l[n], z)
          /\ n \notin Survivors(l) \ {t} => z = x
        BY <1>5, <2>1
    <2>4. n \notin y.dropped /\ (n \in z.dropped => l[n].kind # "Split")
        <3>1. y.dropped = {} /\ \A i \in z.dropped : m[i].kind # "Split"
            BY <1>3, <1>4, <2>1
        <3>2. m[n] = l[n]
            BY <1>1, <2>1
        <3> QED
            BY <3>1, <3>2
    <2> HIDE DEF n, st, x, y, z, P
    <2>5. CASE n \notin Survivors(l)
        BY <2>2, <2>3, <2>5 DEF n, st, x, y, z
    <2>6. CASE n \in Survivors(l) /\ n = t
        <3>1. l[n].kind = "Sell"
            BY <2>3, <2>6 DEF t
        <3>2. SaleDone(st, n, l[n], y)
            <4>1. n \in Marked(st, n).dropped
                BY <2>3 DEF Marked, FoldOK, FoldStates
            <4>2. y # Marked(st, n)
                BY <2>4, <4>1
            <4> QED
                BY <2>3, <2>6, <3>1, <4>2 DEF EventDone
        <3>3. Richer(st, y)
            BY <2>3, <3>2, SaleTakes
        <3>4. Richer(x, y)
            <4>1. \A k \in DOMAIN st.lots : x.lots[k].qty \in Nat
                BY <2>2, <2>3, FoldTypes DEF Richer
            <4>2. \A k \in DOMAIN st.lots : st.lots[k].qty \in Nat
                BY <2>3, FoldTypes
            <4>3. \A k \in DOMAIN st.lots : y.lots[k].qty \in Nat
                <5>1. y \in FoldStates
                    BY <3>2 DEF SaleDone, SoldState
                <5>2. \A k \in DOMAIN y.lots : y.lots[k] \in LotRecords
                    BY <5>1, ElementOfSeq, LenProperties DEF FoldStates
                <5>3. \A k \in DOMAIN y.lots : y.lots[k].qty \in Nat
                    BY <5>2 DEF LotRecords
                <5> QED
                    BY <3>3, <5>3 DEF Richer
            <4> QED
                BY <2>2, <3>3, <4>1, <4>2, <4>3 DEF Richer, Kin
        <3>5. z = x
            BY <2>3, <2>6
        <3> QED
            BY <2>2, <3>4, <3>5 DEF n, y, z
    <2>7. CASE n \in Survivors(l) \ {t}
        <3>1. Richer(z, y) /\ z.dropped = x.dropped
            BY <2>2, <2>3, <2>4, <2>7, EventKeepsRicher
        <3> QED
            BY <2>2, <3>1 DEF n, y, z
    <2> QED
        BY <2>5, <2>6, <2>7
<1>8. b \in P
    <2> HIDE DEF P
    <2> QED
        BY <1>1, <1>6, <1>7, NumberInduction
<1> QED
    BY <1>1, <1>8 DEF m

(***************************************************************************)
(* Openings                                                                *)
(* A surviving Buy or Vest is a lot of the replay, under its own seq.      *)
(***************************************************************************)
\* An event that opens no lot leaves the lots what they are.
LEMMA LotsStay ==
    ASSUME NEW st, NEW n \in Nat, FoldOK(st, n), NEW seq \in Nat, n < seq,
           NEW e \in Payloads, e.kind \notin {"Buy", "Vest"},
           NEW x, EventDone(st, seq, e, x)
    PROVE  DOMAIN x.lots = DOMAIN st.lots /\ \A k \in DOMAIN st.lots : Kin(x.lots[k], st.lots[k])
<1>0. \A k \in DOMAIN st.lots : st.lots[k] \in LotRecords
    BY FoldTypes
<1>1. Marked(st, seq).lots = st.lots
    BY MarkedFold
<1>2. CASE SaleDone(st, seq, e, x)
    <2>1. Richer(st, x)
        BY <1>2, SaleTakes
    <2> QED
        BY <2>1 DEF Richer, Kin
<1>3. ASSUME e.kind = "Split", e.num >= 1, e.den >= 1, NEW y, y.lots = st.lots,
             SplitState(y, e, SplitReach(st, e), x)
      PROVE  DOMAIN x.lots = DOMAIN st.lots /\ \A k \in DOMAIN st.lots : Kin(x.lots[k], st.lots[k])
    <2>1. \A k \in DOMAIN st.lots : Kin(AfterSplit(st.lots[k], e), st.lots[k])
        BY <1>0, <1>3, SplitLot DEF Kin
    <2>2. /\ DOMAIN x.lots = DOMAIN st.lots
          /\ \A k \in DOMAIN st.lots : x.lots[k] = AfterSplit(st.lots[k], e) \/ x.lots[k] = st.lots[k]
        BY <1>3 DEF SplitState
    <2> QED
        BY <2>1, <2>2 DEF Kin
<1>4. CASE x = Marked(st, seq)
    BY <1>1, <1>4 DEF Kin
<1> QED
    BY <1>1, <1>2, <1>3, <1>4 DEF EventDone

\* What the validator makes sure of the openings that stand: there is something in
\* each, it has a name of its own, and its money is in range.
OpensOK(l) ==
    /\ \A i \in Opens(l) : /\ l[i].qty > 0
                           /\ WithinCap(OpeningValue(l[i])) /\ WithinCap(OpeningBasis(l[i]))
    /\ \A i, j \in Opens(l) : l[i].lot = l[j].lot => i = j

\* So the fold state st after n events of l has refused no opening, and has the lot of
\* every one, and no other.
OpensLanded(l, n, st) ==
    /\ \A i \in Opens(l) : i \notin st.dropped
    /\ \A k \in DOMAIN st.lots :
           st.lots[k].openSeq \in Opens(l) /\ st.lots[k].id = l[st.lots[k].openSeq].lot
    /\ \A i \in Opens(l) : i <= n => \E k \in DOMAIN st.lots : st.lots[k].openSeq = i

\* One opening lands.
LEMMA OpeningLands ==
    ASSUME NEW l \in Seq(Payloads), OpensOK(l), NEW n \in Nat, NEW i \in Opens(l), i = n + 1,
           NEW st, FoldOK(st, n), OpensLanded(l, n, st), NEW x, EventDone(st, i, l[i], x)
    PROVE  OpenState(st, i, l[i], x) /\ OpensLanded(l, i, x)
<1> DEFINE e == l[i]
<1>0. i \in Nat /\ e.kind \in {"Buy", "Vest"} /\ e \in Payloads /\ n < i
    BY OpensSurvive
<1>1. e.qty > 0 /\ WithinCap(OpeningValue(e)) /\ WithinCap(OpeningBasis(e)) /\ e.qty \in Int
    BY <1>0, OpenTypes DEF OpensOK
<1>2. \A k \in DOMAIN st.lots : st.lots[k].openSeq \in Nat /\ st.lots[k].openSeq <= n
    BY FoldTypes DEF FoldOK
<1>3. \A k \in DOMAIN st.lots : st.lots[k].id # e.lot
    <2> SUFFICES ASSUME NEW k \in DOMAIN st.lots, st.lots[k].id = e.lot PROVE FALSE
        OBVIOUS
    <2> DEFINE j == st.lots[k].openSeq
    <2>1. j \in Opens(l) /\ st.lots[k].id = l[j].lot
        BY DEF OpensLanded
    <2>2. l[j].lot = l[i].lot
        BY <2>1
    <2> HIDE DEF j, e
    <2>3. j = i
        BY <2>1, <2>2 DEF OpensOK
    <2>4. st.lots[k].openSeq = i
        BY <2>3 DEF j
    <2> QED
        BY <1>0, <1>2, <2>4
<1> HIDE DEF e
<1>4. OpenVerdict(st, e) = "Ok"
    <2>1. ~(e.qty <= 0)
        BY <1>1
    <2> QED
        BY <1>1, <1>3, <2>1 DEF OpenVerdict
<1>5. OpenState(st, i, e, x)
    BY <1>0, <1>4 DEF EventDone, FoldVerdict, e
<1> DEFINE s == Len(st.lots)
<1>6. /\ s \in Nat /\ DOMAIN st.lots = 1..s /\ DOMAIN x.lots = 1..(s + 1)
      /\ \A k \in 1..s : x.lots[k] = st.lots[k]
      /\ x.lots[s + 1] = NewLot(i, e)
    BY <1>5, OpenAdds
<1> HIDE DEF s
<1>7. NewLot(i, e).openSeq = i /\ NewLot(i, e).id = e.lot
    BY DEF NewLot
<1>8. \A k : k \in DOMAIN x.lots <=> k \in DOMAIN st.lots \/ k = s + 1
    BY <1>6
<1>9. x.dropped = st.dropped
    BY <1>5 DEF OpenState
<1>10. \A k \in DOMAIN x.lots : x.lots[k].openSeq \in Opens(l) /\ x.lots[k].id = l[x.lots[k].openSeq].lot
    BY <1>6, <1>7, <1>8 DEF OpensLanded, e
<1>11. ASSUME NEW j \in Opens(l), j <= i PROVE \E k \in DOMAIN x.lots : x.lots[k].openSeq = j
    <2>1. CASE j = i
        BY <1>6, <1>7, <1>8, <2>1
    <2>2. CASE j # i
        <3>1. j <= n
            BY <1>0, <1>11, <2>2, OpensSurvive
        <3>2. PICK k \in DOMAIN st.lots : st.lots[k].openSeq = j
            BY <3>1 DEF OpensLanded
        <3> QED
            BY <1>6, <1>8, <3>2
    <2> QED
        BY <2>1, <2>2
<1>12. OpensLanded(l, i, x)
    BY <1>9, <1>10, <1>11 DEF OpensLanded
<1> QED
    BY <1>5, <1>12 DEF e

\* Every opening that stands lands where it stands in the log.
LEMMA EveryOpeningLands ==
    ASSUME NEW l \in Seq(Payloads), OpensOK(l)
    PROVE  \A n \in 0..Len(l) : OpensLanded(l, n, FoldSteps(l)[n])
<1> DEFINE m == Len(l)
           F == FoldSteps(l)
           P == {n \in Nat : n <= m => OpensLanded(l, n, F[n])}
<1>1. m \in Nat /\ F[0] = EmptyFold
    BY FoldEquations
<1>2. ASSUME NEW n \in 1..m
      PROVE  /\ FoldOK(F[n - 1], n - 1)
             /\ n \in Survivors(l) => l[n] \in Payloads /\ EventDone(F[n - 1], n, l[n], F[n])
             /\ n \notin Survivors(l) => F[n] = F[n - 1]
    BY StepDone
<1>3. \A i \in Opens(l) : i \in Nat /\ i \in Survivors(l) /\ i >= 1
    BY OpensSurvive
<1>4. \A n \in 1..m : n \in Opens(l) <=> n \in Survivors(l) /\ l[n].kind \in {"Buy", "Vest"}
    <2>1. DOMAIN l = 1..m
        OBVIOUS
    <2> HIDE DEF m
    <2> QED
        BY <2>1 DEF Opens, Survivors, ReversalsOf
<1> HIDE DEF F, m
<1>5. 0 \in P
    <2>1. EmptyFold.dropped = {} /\ DOMAIN EmptyFold.lots = {}
        BY DEF EmptyFold
    <2>2. \A i \in Opens(l) : ~(i <= 0)
        BY <1>3
    <2>3. OpensLanded(l, 0, EmptyFold)
        BY <2>1, <2>2 DEF OpensLanded
    <2> QED
        BY <1>1, <2>3
<1>6. ASSUME NEW h \in Nat, h \in P PROVE h + 1 \in P
    <2> SUFFICES ASSUME h + 1 <= m PROVE OpensLanded(l, h + 1, F[h + 1])
        OBVIOUS
    <2> DEFINE n == h + 1
               st == F[h]
               x == F[n]
    <2>1. n \in 1..m /\ n - 1 = h /\ n = h + 1 /\ n \in Nat /\ h < n
        BY <1>1
    <2>2. /\ FoldOK(st, h) /\ OpensLanded(l, h, st)
          /\ n \in Survivors(l) => l[n] \in Payloads /\ EventDone(st, n, l[n], x)
          /\ n \notin Survivors(l) => x = st
        BY <1>1, <1>2, <1>6, <2>1
    <2> HIDE DEF n, st, x, P
    <2>3. CASE n \in Opens(l)
        <3>1. EventDone(st, n, l[n], x)
            BY <1>3, <2>2, <2>3
        <3>2. OpensLanded(l, n, x)
            BY <2>1, <2>2, <2>3, <3>1, OpeningLands
        <3> QED
            BY <3>2 DEF n, x
    <2>4. CASE n \notin Opens(l)
        <3>1. \A i \in Opens(l) : i <= n => i <= h
            BY <1>3, <2>1, <2>4
        <3>2. /\ DOMAIN x.lots = DOMAIN st.lots
              /\ \A k \in DOMAIN st.lots : x.lots[k].openSeq = st.lots[k].openSeq
                                           /\ x.lots[k].id = st.lots[k].id
              /\ x.dropped = st.dropped \/ x.dropped = st.dropped \cup {n}
            <4>1. CASE n \in Survivors(l)
                <5>1. l[n].kind \notin {"Buy", "Vest"} /\ l[n] \in Payloads /\ EventDone(st, n, l[n], x)
                    BY <1>4, <2>1, <2>2, <2>4, <4>1
                <5>2. /\ DOMAIN x.lots = DOMAIN st.lots
                      /\ \A k \in DOMAIN st.lots : Kin(x.lots[k], st.lots[k])
                    BY <2>1, <2>2, <5>1, LotsStay
                <5>3. GrowsTo(st, n, l[n], x)
                    BY <2>2, <5>1, GainsGrow
                <5> QED
                    BY <5>2, <5>3 DEF Kin, GrowsTo
            <4>2. CASE n \notin Survivors(l)
                BY <2>2, <4>2
            <4> QED
                BY <4>1, <4>2
        <3>3. OpensLanded(l, n, x)
            BY <2>2, <2>4, <3>1, <3>2 DEF OpensLanded
        <3> QED
            BY <3>3 DEF n, x
    <2> QED
        BY <2>3, <2>4
<1>7. \A n \in 0..m : n \in P
    <2> HIDE DEF P
    <2> QED
        BY <1>5, <1>6, NumberInduction
<1> QED
    BY <1>1, <1>7 DEF F, m

\* The validator lets no opening in that would not stand beside the others.
LEMMA AcceptedOpens ==
    ASSUME NEW l \in Seq(Payloads), ReversalsPointBack(l), OpensOK(l), NEW e \in Payloads,
           Validate(Replay(l), l, e) = "Ok"
    PROVE  OpensOK(Append(l, e))
<1> DEFINE m == Append(l, e)
           b == Len(l)
           st == Replay(l)
<1>1. /\ m \in Seq(Payloads) /\ b \in Nat /\ Len(m) = b + 1 /\ DOMAIN m = 1..(b + 1)
      /\ DOMAIN l = 1..b /\ m[b + 1] = e /\ \A n \in 1..b : m[n] = l[n]
    OBVIOUS
<1>2. \A i \in Opens(l) : i \in 1..b /\ i # b + 1
    BY <1>1, OpensSurvive
<1>3. CASE e.kind = "Reversal"
    <2>1. e.target \in DOMAIN l
        BY <1>3, AcceptedTarget
    <2>2. Survivors(m) = Survivors(l) \ {e.target}
        BY <1>3, <2>1, ReversalSurvivors
    <2>3. \A i \in Opens(m) : i \in 1..(b + 1) /\ i \in Survivors(m) /\ m[i].kind \in {"Buy", "Vest"}
        BY <1>1, OpensSurvive
    <2> HIDE DEF m, b
    <2>4. ASSUME NEW i \in Opens(m) PROVE i \in Opens(l) /\ m[i] = l[i]
        <3>1. i \in 1..b /\ i \in Survivors(l)
            <4>1. i # b + 1
                BY <1>1, <1>3, <2>3
            <4> QED
                BY <1>1, <2>2, <2>3, <4>1
        <3> QED
            BY <1>1, <2>3, <3>1 DEF Opens, Survivors
    <2>5. OpensOK(m)
        BY <2>4 DEF OpensOK
    <2> QED
        BY <2>5 DEF m
<1>4. CASE e.kind # "Reversal"
    <2>1. ReversedTargets(m) = ReversedTargets(l)
        BY <1>4, AppendSurvives
    <2>2. FoldVerdict(st, e) = "Ok"
        BY <1>4 DEF Validate
    <2>3. OpensLanded(l, b, st)
        BY <1>1, EveryOpeningLands DEF Replay
    <2> HIDE DEF m, b, st
    <2>4. \A i \in Opens(m) : \/ i \in Opens(l) /\ m[i] = l[i]
                              \/ i = b + 1 /\ m[i] = e /\ e.kind \in {"Buy", "Vest"}
        BY <1>1, <2>1 DEF Opens
    <2>5. ASSUME e.kind \in {"Buy", "Vest"}
          PROVE  /\ e.qty > 0 /\ WithinCap(OpeningValue(e)) /\ WithinCap(OpeningBasis(e))
                 /\ \A i \in Opens(l) : l[i].lot # e.lot
        <3>1. OpenVerdict(st, e) = "Ok" /\ e.qty \in Int
            BY <2>2, <2>5, OpenTypes DEF FoldVerdict
        <3>2. /\ ~(e.qty <= 0) /\ WithinCap(OpeningValue(e)) /\ WithinCap(OpeningBasis(e))
              /\ \A k \in DOMAIN st.lots : st.lots[k].id # e.lot
            BY <3>1 DEF OpenVerdict
        <3>3. ASSUME NEW i \in Opens(l) PROVE l[i].lot # e.lot
            <4>1. i <= b
                BY <1>1, <1>2
            <4>2. PICK k \in DOMAIN st.lots : st.lots[k].openSeq = i
                BY <2>3, <4>1 DEF OpensLanded
            <4>3. st.lots[k].id = l[i].lot
                BY <2>3, <4>2 DEF OpensLanded
            <4> QED
                BY <3>2, <4>3
        <3>4. e.qty > 0
            BY <3>1, <3>2
        <3> QED
            BY <3>2, <3>3, <3>4
    <2>6. OpensOK(m)
        BY <2>4, <2>5 DEF OpensOK
    <2> QED
        BY <2>6 DEF m
<1> QED
    BY <1>3, <1>4

\* The openings that no Reversal names are as the validator wants them, and each is a
\* lot of the replay with its own id and seq, which has no other lots: once accepted, a
\* Buy or Vest is not refused by a later replay, whatever is reversed before it.
THEOREM OpeningsStand ==
    Spec => [](TypeOK /\ OpensOK(log) /\ OpensLanded(log, Len(log), Replay(log)))
<1>1. Init => OpensOK(log)
    <2>1. Init => Opens(log) = {}
        BY DEF Init, Opens
    <2> QED
        BY <2>1 DEF OpensOK
<1>2. TypeOK /\ OpensOK(log) /\ [Next]_log => OpensOK(log)'
    <2> SUFFICES ASSUME TypeOK, OpensOK(log), [Next]_log PROVE OpensOK(log')
        OBVIOUS
    <2>1. log \in Seq(Payloads) /\ ReversalsPointBack(log)
        BY DEF TypeOK, ReversalsPointBack
    <2>2. ASSUME NEW e \in Payloads, Accept(Replay(log), e) PROVE OpensOK(log')
        <3>1. log' = Append(log, e) /\ Validate(Replay(log), log, e) = "Ok"
            BY <2>2 DEF Accept
        <3>2. OpensOK(Append(log, e))
            BY <2>1, <3>1, AcceptedOpens
        <3> QED
            BY <3>1, <3>2
    <2>3. CASE UNCHANGED log
        BY <2>3
    <2>4. Next => UNCHANGED log \/ \E e \in Payloads : Accept(Replay(log), e)
        BY DEF Next, Submit, Reject
    <2> QED
        BY <2>2, <2>3, <2>4
<1>3. TypeOK /\ OpensOK(log) => OpensLanded(log, Len(log), Replay(log))
    <2> SUFFICES ASSUME TypeOK, OpensOK(log) PROVE OpensLanded(log, Len(log), Replay(log))
        OBVIOUS
    <2>1. log \in Seq(Payloads) /\ Len(log) \in 0..Len(log)
        BY DEF TypeOK
    <2>2. OpensLanded(log, Len(log), FoldSteps(log)[Len(log)])
        BY <2>1, EveryOpeningLands
    <2> QED
        BY <2>2 DEF Replay
<1> QED
    BY <1>1, <1>2, <1>3, TypeCorrect, PTL DEF Spec

(***************************************************************************)
(* A state without one lot                                                 *)
(* Taking back an opening that nothing consumed leaves the rest as it was. *)
(***************************************************************************)
\* x has the lots of st but the one at p; h says where each of them is in st.
Without(x, st, p, h) ==
    /\ p \in DOMAIN st.lots
    /\ h \in [DOMAIN x.lots -> DOMAIN st.lots \ {p}]
    /\ \A j, k \in DOMAIN x.lots : h[j] = h[k] => j = k
    /\ \A k \in DOMAIN st.lots \ {p} : \E j \in DOMAIN x.lots : h[j] = k
    /\ \A k \in DOMAIN x.lots : x.lots[k] = st.lots[h[k]]

\* Where the lots of K are in st.
Placed(h, K) == {h[k] : k \in K}

\* A set of lots is as many, and has as many shares, in one state as in the other.
LEMMA PlacedSame ==
    ASSUME NEW st, NEW n, FoldOK(st, n), NEW x, NEW m, FoldOK(x, m), NEW p, NEW h, Without(x, st, p, h),
           NEW K \in SUBSET DOMAIN x.lots
    PROVE  /\ Placed(h, K) \in SUBSET (DOMAIN st.lots \ {p})
           /\ IsFiniteSet(K) /\ Cardinality(Placed(h, K)) = Cardinality(K)
           /\ QtyOf(st, Placed(h, K)) = QtyOf(x, K)
<1> DEFINE T == Placed(h, K)
           b == [k \in K |-> h[k]]
<1>1. T \in SUBSET (DOMAIN st.lots \ {p}) /\ T \in SUBSET DOMAIN st.lots
    BY DEF Without, Placed
<1>2. b \in Bijection(K, T)
    <2>1. b \in [K -> T] /\ \A y \in T : \E k \in K : b[k] = y
        BY DEF Placed
    <2>2. \A j, k \in K : b[j] = b[k] => j = k
        BY DEF Without
    <2> HIDE DEF b, T
    <2> QED
        BY <2>1, <2>2 DEF Bijection, Injection, Surjection, IsInjective
<1>3. /\ IsFiniteSet(K)
      /\ QtyOf(x, K) = SumFunctionOnSet(Sizes(x), K)
      /\ QtyOf(st, T) = SumFunctionOnSet(Sizes(st), T)
    <2> HIDE DEF T
    <2> QED
        BY <1>1, QtyIsSum
<1>4. \A k \in K : Sizes(x)[k] \in Int /\ Sizes(x)[k] = Sizes(st)[b[k]]
    <2>1. \A k \in K : /\ x.lots[k].qty \in Nat /\ x.lots[k] = st.lots[h[k]]
                       /\ h[k] \in DOMAIN st.lots /\ k \in DOMAIN x.lots
        BY FoldTypes DEF Without
    <2> QED
        BY <2>1 DEF Sizes
<1> HIDE DEF b, T
<1>5. SumFunctionOnSet(Sizes(x), K) = SumFunctionOnSet(Sizes(st), T)
    BY <1>2, <1>3, <1>4, SumReindexed
<1>6. Cardinality(T) = Cardinality(K)
    BY <1>2, <1>3, FS_Bijection DEF ExistsBijection
<1> QED
    BY <1>1, <1>3, <1>5, <1>6 DEF T

\* The candidates of a sale and the older ones of each are in their places, the lot
\* at p apart.
LEMMA PlacedCandidates ==
    ASSUME NEW x, NEW st, NEW p, NEW h, Without(x, st, p, h), NEW e
    PROVE  /\ FifoCandidates(x, e) \in SUBSET DOMAIN x.lots
           /\ Placed(h, FifoCandidates(x, e)) = FifoCandidates(st, e) \ {p}
           /\ \A k \in DOMAIN x.lots :
                  /\ OlderOpen(x, e, k) \in SUBSET DOMAIN x.lots
                  /\ Placed(h, OlderOpen(x, e, k)) = OlderOpen(st, e, h[k]) \ {p}
                  /\ k \in FifoCandidates(x, e) <=> h[k] \in FifoCandidates(st, e)
<1> DEFINE C == FifoCandidates(x, e)
           D == FifoCandidates(st, e)
<1>1. C \subseteq DOMAIN x.lots /\ D \subseteq DOMAIN st.lots
    BY DEF FifoCandidates
<1>2. \A k \in DOMAIN x.lots : h[k] \in DOMAIN st.lots /\ h[k] # p /\ x.lots[k] = st.lots[h[k]]
    BY DEF Without
<1>3. \A k \in DOMAIN x.lots : k \in C <=> h[k] \in D
    BY <1>2 DEF FifoCandidates
<1>4. \A i \in DOMAIN st.lots : i # p => \E k \in DOMAIN x.lots : h[k] = i
    BY DEF Without
<1> HIDE DEF C, D
<1>5. Placed(h, C) = D \ {p}
    <2>1. \A i : i \in Placed(h, C) <=> \E k \in C : h[k] = i
        BY DEF Placed
    <2>2. ASSUME NEW i PROVE i \in Placed(h, C) <=> i \in D \ {p}
        BY <1>1, <1>2, <1>3, <1>4, <2>1
    <2> QED
        BY <2>2
<1>6. ASSUME NEW k \in DOMAIN x.lots
      PROVE  /\ OlderOpen(x, e, k) \subseteq DOMAIN x.lots
             /\ Placed(h, OlderOpen(x, e, k)) = OlderOpen(st, e, h[k]) \ {p}
    <2> DEFINE A == OlderOpen(x, e, k)
               B == OlderOpen(st, e, h[k])
    <2>1. /\ \A j : j \in A <=> j \in C /\ Older(x.lots[j], x.lots[k])
          /\ \A j : j \in B <=> j \in D /\ Older(st.lots[j], st.lots[h[k]])
        BY DEF OlderOpen, C, D
    <2>2. \A j \in DOMAIN x.lots : j \in A <=> h[j] \in B
        BY <1>2, <1>3, <2>1
    <2>3. A \subseteq DOMAIN x.lots /\ B \subseteq DOMAIN st.lots
        BY <1>1, <2>1
    <2> HIDE DEF A, B
    <2>4. \A i : i \in Placed(h, A) <=> \E j \in A : h[j] = i
        BY DEF Placed
    <2>5. ASSUME NEW i PROVE i \in Placed(h, A) <=> i \in B \ {p}
        BY <1>2, <1>4, <2>2, <2>3, <2>4
    <2> QED
        BY <2>3, <2>5 DEF A, B
<1> QED
    BY <1>1, <1>3, <1>5, <1>6 DEF C, D

\* A lot that FIFO does not reach keeps none from being reached, and is in front of
\* none that is: without it FIFO reaches the same lots, for the same.
LEMMA PlacedReached ==
    ASSUME NEW st, NEW n, FoldOK(st, n), NEW x, NEW m, FoldOK(x, m), NEW p, NEW h, Without(x, st, p, h),
           NEW e \in Payloads, e.kind = "Sell", p \notin Reached(st, e)
    PROVE  /\ Placed(h, Reached(x, e)) = Reached(st, e)
           /\ \A k \in Reached(x, e) :
                  /\ h[k] \in Reached(st, e)
                  /\ OlderOpen(st, e, h[k]) = Placed(h, OlderOpen(x, e, k))
                  /\ Need(st, e, h[k]) = Need(x, e, k)
           /\ QtyOf(st, FifoCandidates(st, e)) >= e.qty => QtyOf(x, FifoCandidates(x, e)) >= e.qty
<1> DEFINE C == FifoCandidates(x, e)
           D == FifoCandidates(st, e)
           A(k) == OlderOpen(x, e, k)
           B(i) == OlderOpen(st, e, i)
<1>1. /\ C \in SUBSET DOMAIN x.lots /\ Placed(h, C) = D \ {p}
      /\ \A k \in DOMAIN x.lots : /\ A(k) \in SUBSET DOMAIN x.lots
                                  /\ Placed(h, A(k)) = B(h[k]) \ {p}
                                  /\ k \in C <=> h[k] \in D
    BY PlacedCandidates
<1>2. /\ D \in SUBSET DOMAIN st.lots /\ p \in DOMAIN st.lots /\ e.qty \in Int
      /\ \A k \in DOMAIN x.lots : h[k] \in DOMAIN st.lots /\ h[k] # p
      /\ \A i \in DOMAIN st.lots : i # p => \E k \in DOMAIN x.lots : h[k] = i
    BY SellTypes DEF FifoCandidates, Without
<1>3. \A i \in DOMAIN st.lots : B(i) \in SUBSET DOMAIN st.lots /\ B(i) \in SUBSET D
    BY <1>2 DEF OlderOpen
<1>4. /\ \A k : k \in Reached(x, e) <=> k \in C /\ Need(x, e, k) > 0
      /\ \A i : i \in Reached(st, e) <=> i \in D /\ Need(st, e, i) > 0
      /\ \A k : Need(x, e, k) = e.qty - QtyOf(x, A(k))
      /\ \A i : Need(st, e, i) = e.qty - QtyOf(st, B(i))
    BY DEF Reached, Need
<1>5. /\ \A K \in SUBSET DOMAIN x.lots : QtyOf(x, K) \in Nat /\ QtyOf(st, Placed(h, K)) = QtyOf(x, K)
      /\ \A K \in SUBSET DOMAIN st.lots : QtyOf(st, K) \in Nat
    BY QtyIsSum, PlacedSame
\* What is older than the lot at p, if that is a candidate, is enough.
<1>6. ASSUME p \in D PROVE QtyOf(st, B(p)) >= e.qty /\ p \notin B(p)
    <2>1. ~(Need(st, e, p) > 0) /\ QtyOf(st, B(p)) \in Nat
        BY <1>2, <1>3, <1>4, <1>5, <1>6
    <2>2. p \notin B(p)
        <3>1. st.lots[p].acquired \in Int /\ st.lots[p].openSeq \in Nat
            BY <1>2, FoldTypes
        <3>2. ~Older(st.lots[p], st.lots[p])
            BY <3>1 DEF Older
        <3> QED
            BY <3>2 DEF OlderOpen
    <2>3. Need(st, e, p) = e.qty - QtyOf(st, B(p))
        BY <1>4
    <2> QED
        BY <1>2, <2>1, <2>2, <2>3
<1>7. ASSUME NEW k \in DOMAIN x.lots, p \in B(h[k]) PROVE ~(Need(x, e, k) > 0)
    <2>1. p \in D /\ h[k] \in DOMAIN st.lots
        BY <1>2, <1>3, <1>7
    <2>2. B(p) \subseteq B(h[k]) \ {p}
        <3>1. \A i \in D : st.lots[i].acquired \in Int /\ st.lots[i].openSeq \in Nat
            BY <1>2, FoldTypes
        <3>2. st.lots[h[k]].acquired \in Int /\ st.lots[h[k]].openSeq \in Nat
            BY <2>1, FoldTypes
        <3>3. Older(st.lots[p], st.lots[h[k]])
            BY <1>7 DEF OlderOpen
        <3>4. \A i \in B(p) : i \in D /\ Older(st.lots[i], st.lots[p])
            BY DEF OlderOpen
        <3>5. \A i \in B(p) : Older(st.lots[i], st.lots[h[k]])
            BY <2>1, <3>1, <3>2, <3>3, <3>4 DEF Older
        <3>6. B(p) \subseteq B(h[k])
            BY <3>4, <3>5 DEF OlderOpen
        <3> QED
            BY <1>6, <2>1, <3>6
    <2> HIDE DEF A, B
    <2>3. B(p) \subseteq Placed(h, A(k))
        BY <1>1, <2>2
    <2>4. Placed(h, A(k)) \in SUBSET DOMAIN st.lots
        BY <1>1, <1>3, <2>1
    <2>5. QtyOf(st, B(p)) <= QtyOf(st, Placed(h, A(k)))
        BY <2>3, <2>4, QtyGrows
    <2>6. QtyOf(x, A(k)) >= e.qty
        <3>1. QtyOf(st, B(p)) \in Nat /\ QtyOf(x, A(k)) \in Nat
              /\ QtyOf(st, Placed(h, A(k))) = QtyOf(x, A(k)) /\ QtyOf(st, B(p)) >= e.qty
            BY <1>1, <1>2, <1>3, <1>5, <1>6, <2>1
        <3> QED
            BY <1>2, <2>5, <3>1
    <2>7. Need(x, e, k) = e.qty - QtyOf(x, A(k)) /\ QtyOf(x, A(k)) \in Nat
        BY <1>1, <1>4, <1>5
    <2> QED
        BY <1>2, <2>6, <2>7
<1>8. ASSUME NEW k \in DOMAIN x.lots, p \notin B(h[k])
      PROVE  Placed(h, A(k)) = B(h[k]) /\ Need(st, e, h[k]) = Need(x, e, k)
    <2> HIDE DEF A, B
    <2>1. Placed(h, A(k)) = B(h[k])
        BY <1>1, <1>8
    <2>2. QtyOf(st, B(h[k])) = QtyOf(x, A(k))
        BY <1>1, <1>5, <2>1
    <2> QED
        BY <1>4, <2>1, <2>2
<1>9. ASSUME NEW k \in DOMAIN x.lots
      PROVE  /\ k \in Reached(x, e) <=> h[k] \in Reached(st, e)
             /\ k \in Reached(x, e) => p \notin B(h[k])
    <2>1. h[k] \in Reached(st, e) => p \notin B(h[k])
        BY OlderAreReached
    <2> HIDE DEF A, B, C, D
    <2> QED
        BY <1>1, <1>4, <1>7, <1>8, <2>1
<1>10. QtyOf(st, D) >= e.qty => QtyOf(x, C) >= e.qty
    <2>1. CASE p \in D
        <3>1. B(p) \subseteq Placed(h, C) /\ Placed(h, C) \in SUBSET DOMAIN st.lots
            <4>1. B(p) \subseteq D
                BY <1>2, <1>3
            <4> HIDE DEF A, B, C, D
            <4> QED
                BY <1>1, <1>2, <1>6, <2>1, <4>1
        <3> HIDE DEF A, B, C, D
        <3>2. QtyOf(st, B(p)) <= QtyOf(st, Placed(h, C))
            BY <3>1, QtyGrows
        <3>3. /\ QtyOf(st, B(p)) \in Nat /\ QtyOf(x, C) \in Nat
              /\ QtyOf(st, Placed(h, C)) = QtyOf(x, C) /\ QtyOf(st, B(p)) >= e.qty
            BY <1>1, <1>2, <1>3, <1>5, <1>6, <2>1
        <3> QED
            BY <1>2, <3>2, <3>3
    <2>2. CASE p \notin D
        <3> HIDE DEF A, B, C, D
        <3>1. Placed(h, C) = D
            BY <1>1, <2>2
        <3> QED
            BY <1>1, <1>5, <3>1
    <2> QED
        BY <2>1, <2>2
<1>11. Placed(h, Reached(x, e)) = Reached(st, e)
    <2>1. \A i : i \in Placed(h, Reached(x, e)) <=> \E k \in Reached(x, e) : h[k] = i
        BY DEF Placed
    <2>2. Reached(x, e) \subseteq DOMAIN x.lots /\ Reached(st, e) \subseteq DOMAIN st.lots
        BY <1>1, <1>2, <1>4
    <2>3. ASSUME NEW i PROVE i \in Placed(h, Reached(x, e)) <=> i \in Reached(st, e)
        <3>1. ASSUME i \in Placed(h, Reached(x, e)) PROVE i \in Reached(st, e)
            <4>1. PICK k \in Reached(x, e) : h[k] = i
                BY <2>1, <3>1
            <4> QED
                BY <1>9, <2>2, <4>1
        <3>2. ASSUME i \in Reached(st, e) PROVE i \in Placed(h, Reached(x, e))
            <4>1. PICK k \in DOMAIN x.lots : h[k] = i
                BY <1>2, <2>2, <3>2
            <4> QED
                BY <1>9, <2>1, <3>2, <4>1
        <3> QED
            BY <3>1, <3>2
    <2> QED
        BY <2>3
<1>12. Reached(x, e) \subseteq DOMAIN x.lots
    BY <1>1, <1>4
<1> QED
    BY <1>8, <1>9, <1>10, <1>11, <1>12

\* Two plans take the same from the same lots.
SamePlan(ps, px, h) ==
    /\ DOMAIN ps = DOMAIN px
    /\ \A i \in DOMAIN px : ps[i][1] = h[px[i][1]] /\ ps[i][2] = px[i][2]

\* FIFO that does not reach the lot at p makes the plan it makes without.
LEMMA FifoSame ==
    ASSUME NEW st, NEW n, FoldOK(st, n), NEW x, NEW m, FoldOK(x, m), NEW p, NEW h, Without(x, st, p, h),
           NEW e \in Payloads, e.kind = "Sell", p \notin Reached(st, e)
    PROVE  SamePlan(FifoPlan(st, e), FifoPlan(x, e), h)
<1> DEFINE ps == FifoPlan(st, e)
           px == FifoPlan(x, e)
           R == Reached(st, e)
           Q == Reached(x, e)
           Take(s, k) == IF s.lots[k].qty >= Need(s, e, k) THEN Need(s, e, k) ELSE s.lots[k].qty
<1>1. /\ Cardinality(R) \in Nat /\ DOMAIN ps = 1..Cardinality(R)
      /\ \A i \in DOMAIN ps : /\ ps[i][1] \in R
                              /\ Cardinality(OlderOpen(st, e, ps[i][1])) = i - 1
                              /\ ps[i][2] = Take(st, ps[i][1])
      /\ \A k \in R : \E i \in DOMAIN ps : ps[i][1] = k
    BY FifoPlanForm
<1>2. /\ Cardinality(Q) \in Nat /\ DOMAIN px = 1..Cardinality(Q)
      /\ \A i \in DOMAIN px : /\ px[i][1] \in Q
                              /\ Cardinality(OlderOpen(x, e, px[i][1])) = i - 1
                              /\ px[i][2] = Take(x, px[i][1])
    BY FifoPlanForm
<1>3. /\ Placed(h, Q) = R
      /\ \A k \in Q : /\ h[k] \in R
                      /\ OlderOpen(st, e, h[k]) = Placed(h, OlderOpen(x, e, k))
                      /\ Need(st, e, h[k]) = Need(x, e, k)
    BY PlacedReached
<1>4. \A k \in Q : k \in DOMAIN x.lots /\ OlderOpen(x, e, k) \in SUBSET DOMAIN x.lots
    BY DEF Reached, FifoCandidates, OlderOpen
<1>5. Cardinality(R) = Cardinality(Q)
    <2>1. Q \in SUBSET DOMAIN x.lots
        BY <1>4
    <2> QED
        BY <1>3, <2>1, PlacedSame
<1>6. \A k \in Q : Cardinality(OlderOpen(st, e, h[k])) = Cardinality(OlderOpen(x, e, k))
    BY <1>3, <1>4, PlacedSame
<1>7. \A k \in Q : Take(st, h[k]) = Take(x, k)
    <2>1. \A k \in Q : x.lots[k] = st.lots[h[k]]
        BY <1>4 DEF Without
    <2> QED
        BY <1>3, <2>1
<1> HIDE DEF ps, px, R, Q, Take
<1>8. ASSUME NEW i \in DOMAIN px PROVE ps[i][1] = h[px[i][1]] /\ ps[i][2] = px[i][2]
    <2> DEFINE k == px[i][1]
    <2>1. k \in Q /\ Cardinality(OlderOpen(x, e, k)) = i - 1 /\ px[i][2] = Take(x, k)
        BY <1>2
    <2> HIDE DEF k
    <2>2. h[k] \in R /\ Cardinality(OlderOpen(st, e, h[k])) = i - 1
        BY <1>3, <1>6, <2>1
    <2>3. PICK j \in DOMAIN ps : ps[j][1] = h[k]
        BY <1>1, <2>2
    <2>4. Cardinality(OlderOpen(st, e, h[k])) = j - 1 /\ ps[j][2] = Take(st, h[k])
        BY <1>1, <2>3
    <2>5. i \in Int /\ j \in Int
        BY <1>1, <1>2, <2>3
    <2>6. j = i
        BY <2>2, <2>4, <2>5
    <2> QED
        BY <1>7, <2>1, <2>3, <2>4, <2>6 DEF k
<1>9. DOMAIN ps = DOMAIN px
    BY <1>1, <1>2, <1>5
<1> QED
    BY <1>8, <1>9 DEF SamePlan, ps, px

\* No two lots have one name.
Named(st) == \A j, k \in DOMAIN st.lots : st.lots[j].id = st.lots[k].id => j = k

\* The lot of a name: the one there is, when no two have it.
LotNamed(st, id) == CHOOSE i \in LotIndex(st, id) : TRUE

\* That one is found.
LEMMA NamedLot ==
    ASSUME NEW st, Named(st), NEW k \in DOMAIN st.lots, NEW id, st.lots[k].id = id
    PROVE  LotIndex(st, id) = {k} /\ LotNamed(st, id) = k
<1>1. LotIndex(st, id) = {k}
    BY DEF Named, LotIndex
<1>2. LotNamed(st, id) = k
    <2>1. (CHOOSE i \in {k} : TRUE) = k
        OBVIOUS
    <2> QED
        BY <1>1, <2>1 DEF LotNamed
<1> QED
    BY <1>1, <1>2

\* References that do not name the lot at p find the same lots without it.
LEMMA SpecificSame ==
    ASSUME NEW st, NEW n, FoldOK(st, n), Named(st), NEW x, NEW m, FoldOK(x, m),
           NEW p, NEW h, Without(x, st, p, h), NEW e \in Payloads, e.kind = "Sell",
           \A j \in DOMAIN e.refs : e.refs[j].lot # st.lots[p].id
    PROVE  /\ SpecificVerdict(x, e) = SpecificVerdict(st, e)
           /\ SpecificVerdict(x, e) = "Ok" => SamePlan(SpecificPlan(st, e), SpecificPlan(x, e), h)
<1>1. /\ p \in DOMAIN st.lots
      /\ \A k \in DOMAIN x.lots : h[k] \in DOMAIN st.lots /\ h[k] # p /\ x.lots[k] = st.lots[h[k]]
      /\ \A j, k \in DOMAIN x.lots : h[j] = h[k] => j = k
      /\ \A i \in DOMAIN st.lots : i # p => \E k \in DOMAIN x.lots : h[k] = i
    BY DEF Without
<1>2. Named(x)
    BY <1>1 DEF Named
<1> DEFINE At(s, j) == LotNamed(s, e.refs[j].lot)
<1>3. ASSUME NEW j \in DOMAIN e.refs
      PROVE  \/ LotIndex(st, e.refs[j].lot) = {} /\ LotIndex(x, e.refs[j].lot) = {}
             \/ /\ LotIndex(st, e.refs[j].lot) # {} /\ LotIndex(x, e.refs[j].lot) # {}
                /\ At(x, j) \in DOMAIN x.lots /\ At(st, j) = h[At(x, j)]
    <2> PICK name : name = e.refs[j].lot
        OBVIOUS
    <2>0. name = e.refs[j].lot /\ name # st.lots[p].id
        OBVIOUS
    <2>1. CASE \E k \in DOMAIN x.lots : x.lots[k].id = name
        <3>1. PICK k \in DOMAIN x.lots : x.lots[k].id = name
            BY <2>1
        <3>2. PICK i \in DOMAIN st.lots : i = h[k] /\ st.lots[i].id = name
            BY <1>1, <3>1
        <3>3. LotIndex(x, name) = {k} /\ LotNamed(x, name) = k
            BY <1>2, <3>1, NamedLot
        <3>4. LotIndex(st, name) = {i} /\ LotNamed(st, name) = i
            <4>1. st.lots[i].id = name
                BY <3>2
            <4> QED
                BY <4>1, NamedLot
        <3> QED
            BY <2>0, <3>2, <3>3, <3>4
    <2>2. CASE ~\E k \in DOMAIN x.lots : x.lots[k].id = name
        <3>1. LotIndex(x, name) = {}
            BY <2>2 DEF LotIndex
        <3>2. \A i \in DOMAIN st.lots : st.lots[i].id # name
            BY <1>1, <2>0, <2>2
        <3>3. LotIndex(st, name) = {}
            BY <3>2 DEF LotIndex
        <3> QED
            BY <2>0, <3>1, <3>3
    <2> QED
        BY <2>1, <2>2
<1>4. ASSUME NEW j \in DOMAIN e.refs PROVE RefVerdict(x, e, j) = RefVerdict(st, e, j)
    <2>1. CASE LotIndex(st, e.refs[j].lot) = {} /\ LotIndex(x, e.refs[j].lot) = {}
        BY <2>1 DEF RefVerdict
    <2>2. CASE /\ LotIndex(st, e.refs[j].lot) # {} /\ LotIndex(x, e.refs[j].lot) # {}
               /\ At(x, j) \in DOMAIN x.lots /\ At(st, j) = h[At(x, j)]
        <3> HIDE DEF At
        <3>1. x.lots[At(x, j)] = st.lots[At(st, j)]
            BY <1>1, <2>2
        <3> QED
            BY <2>2, <3>1 DEF RefVerdict, At, LotNamed
    <2> QED
        BY <1>3, <2>1, <2>2
<1>5. SpecificVerdict(x, e) = SpecificVerdict(st, e)
    <2> DEFINE v == [j \in DOMAIN e.refs |-> RefVerdict(st, e, j)]
               w == [j \in DOMAIN e.refs |-> RefVerdict(x, e, j)]
    <2>1. v = w
        BY <1>4
    <2> QED
        BY <2>1 DEF SpecificVerdict
<1>6. ASSUME SpecificVerdict(x, e) = "Ok"
      PROVE  SamePlan(SpecificPlan(st, e), SpecificPlan(x, e), h)
    <2>1. \A j \in DOMAIN e.refs : RefVerdict(x, e, j) = "Ok"
        BY <1>6, RefsAccepted
    <2>2. \A j \in DOMAIN e.refs : LotIndex(x, e.refs[j].lot) # {}
        BY <2>1 DEF RefVerdict
    <2>3. \A j \in DOMAIN e.refs : At(st, j) = h[At(x, j)]
        BY <1>3, <2>2
    <2> QED
        BY <2>3 DEF SamePlan, SpecificPlan, LotNamed
<1> QED
    BY <1>5, <1>6

\* A specific-lot sale that is accepted without the lot at p does not name it.
LEMMA RefsAvoid ==
    ASSUME NEW st, Named(st), NEW x, NEW p, NEW h, Without(x, st, p, h),
           NEW e \in Payloads, e.kind = "Sell", SpecificVerdict(x, e) = "Ok"
    PROVE  \A j \in DOMAIN e.refs : e.refs[j].lot # st.lots[p].id
<1> SUFFICES ASSUME NEW j \in DOMAIN e.refs, e.refs[j].lot = st.lots[p].id PROVE FALSE
    OBVIOUS
<1>1. \A k \in DOMAIN x.lots : x.lots[k].id # st.lots[p].id
    BY DEF Without, Named
<1>2. LotIndex(x, e.refs[j].lot) = {}
    BY <1>1 DEF LotIndex
<1>3. RefVerdict(x, e, j) = "Ok"
    BY RefsAccepted
<1> QED
    BY <1>2, <1>3 DEF RefVerdict

\* A sale that takes nothing of the lot at p is accepted without it, and takes the same.
LEMMA SaleSame ==
    ASSUME NEW st, NEW n, FoldOK(st, n), Named(st), NEW x, NEW m, FoldOK(x, m),
           NEW p, NEW h, Without(x, st, p, h), NEW e \in Payloads, e.kind = "Sell",
           SellVerdict(st, e) = "Ok", \A i \in DOMAIN SelectLots(st, e) : SelectLots(st, e)[i][1] # p
    PROVE  SellVerdict(x, e) = "Ok" /\ SamePlan(SelectLots(st, e), SelectLots(x, e), h)
<1>1. /\ ~(e.qty <= 0) /\ SelectVerdict(st, e) = "Ok"
      /\ WithinCap(Gross(e)) /\ WithinCap(Net(e))
    BY DEF SellVerdict
<1>2. SelectVerdict(x, e) = "Ok" /\ SamePlan(SelectLots(st, e), SelectLots(x, e), h)
    <2>1. CASE e.refs # <<>>
        <3>1. SpecificVerdict(st, e) = "Ok" /\ SelectLots(st, e) = SpecificPlan(st, e)
              /\ SelectLots(x, e) = SpecificPlan(x, e) /\ SelectVerdict(x, e) = SpecificVerdict(x, e)
            BY <1>1, <2>1 DEF SelectVerdict, SelectLots
        <3>2. \A j \in DOMAIN e.refs : e.refs[j].lot # st.lots[p].id
            <4> SUFFICES ASSUME NEW j \in DOMAIN e.refs, e.refs[j].lot = st.lots[p].id PROVE FALSE
                OBVIOUS
            <4>1. p \in DOMAIN st.lots
                BY DEF Without
            <4>2. LotNamed(st, e.refs[j].lot) = p
                BY <4>1, NamedLot
            <4>3. j \in DOMAIN SpecificPlan(st, e) /\ SpecificPlan(st, e)[j][1] = p
                BY <4>2 DEF SpecificPlan, LotNamed
            <4> QED
                BY <3>1, <4>3
        <3>3. /\ SpecificVerdict(x, e) = SpecificVerdict(st, e)
              /\ SpecificVerdict(x, e) = "Ok" => SamePlan(SpecificPlan(st, e), SpecificPlan(x, e), h)
            BY <3>2, SpecificSame
        <3> QED
            BY <3>1, <3>3
    <2>2. CASE e.refs = <<>>
        <3>1. /\ SelectLots(st, e) = FifoPlan(st, e) /\ SelectLots(x, e) = FifoPlan(x, e)
              /\ ~(QtyOf(st, FifoCandidates(st, e)) < e.qty)
            BY <1>1, <2>2 DEF SelectVerdict, SelectLots
        <3>2. p \notin Reached(st, e)
            <4>1. \A k \in Reached(st, e) : \E i \in DOMAIN FifoPlan(st, e) : FifoPlan(st, e)[i][1] = k
                BY FifoPlanForm
            <4> QED
                BY <3>1, <4>1
        <3> DEFINE a == QtyOf(st, FifoCandidates(st, e))
                   b == QtyOf(x, FifoCandidates(x, e))
        <3>3. a >= e.qty => b >= e.qty
            BY <3>2, PlacedReached
        <3>4. a \in Nat /\ b \in Nat /\ e.qty \in Int
            BY SellTypes, QtyIsSum DEF FifoCandidates
        <3>5. SamePlan(FifoPlan(st, e), FifoPlan(x, e), h)
            BY <3>2, FifoSame
        <3>6. ~(a < e.qty)
            BY <3>1
        <3> HIDE DEF a, b
        <3>7. ~(b < e.qty)
            BY <3>3, <3>4, <3>6
        <3> QED
            BY <2>2, <3>1, <3>5, <3>7 DEF SelectVerdict, b
    <2> QED
        BY <2>1, <2>2
<1> QED
    BY <1>1, <1>2 DEF SellVerdict

\* And a sale that is refused stays so without it.
LEMMA RefusalStays ==
    ASSUME NEW st, NEW n, FoldOK(st, n), Named(st), NEW x, NEW m, FoldOK(x, m),
           NEW p, NEW h, Without(x, st, p, h), NEW e \in Payloads, e.kind = "Sell",
           SellVerdict(x, e) = "Ok"
    PROVE  SellVerdict(st, e) = "Ok"
<1>1. /\ ~(e.qty <= 0) /\ SelectVerdict(x, e) = "Ok"
      /\ WithinCap(Gross(e)) /\ WithinCap(Net(e))
    BY DEF SellVerdict
<1>2. SelectVerdict(st, e) = "Ok"
    <2>1. CASE e.refs # <<>>
        <3>1. SpecificVerdict(x, e) = "Ok" /\ SelectVerdict(st, e) = SpecificVerdict(st, e)
            BY <1>1, <2>1 DEF SelectVerdict
        <3> QED
            BY <3>1, RefsAvoid, SpecificSame
    <2>2. CASE e.refs = <<>>
        <3> DEFINE C == FifoCandidates(x, e)
                   D == FifoCandidates(st, e)
        <3>1. C \in SUBSET DOMAIN x.lots /\ Placed(h, C) = D \ {p}
            BY PlacedCandidates
        <3>2. D \in SUBSET DOMAIN st.lots /\ D \ {p} \in SUBSET D
            BY DEF FifoCandidates
        <3>3. ~(QtyOf(x, C) < e.qty)
            BY <1>1, <2>2 DEF SelectVerdict
        <3> HIDE DEF C, D
        <3>4. QtyOf(x, C) = QtyOf(st, D \ {p}) /\ QtyOf(x, C) \in Nat /\ QtyOf(st, D) \in Nat
            BY <3>1, <3>2, PlacedSame, QtyIsSum
        <3>5. QtyOf(st, D \ {p}) <= QtyOf(st, D)
            BY <3>2, QtyGrows
        <3>6. ~(QtyOf(st, D) < e.qty)
            BY <3>3, <3>4, <3>5, SellTypes
        <3> QED
            BY <2>2, <3>6 DEF SelectVerdict, D
    <2> QED
        BY <2>1, <2>2
<1> QED
    BY <1>1, <1>2 DEF SellVerdict

\* The money of a sale is shared alike among the same lots.
LEMMA ProceedsSame ==
    ASSUME NEW x, NEW st, NEW p, NEW h, Without(x, st, p, h), NEW ps, NEW px, SamePlan(ps, px, h),
           \A i \in DOMAIN px : px[i][1] \in DOMAIN x.lots, NEW net, NEW total
    PROVE  AllocateProceeds(st, ps, net, total) = AllocateProceeds(x, px, net, total)
<1> DEFINE D == DOMAIN px
           rem(k) == AllocRemainder(net, px[k][2], total)
           floor(k) == AllocFloor(net, px[k][2], total)
           aheadS(k) == {j \in DOMAIN ps :
                            \/ AllocRemainder(net, ps[j][2], total) > AllocRemainder(net, ps[k][2], total)
                            \/ /\ AllocRemainder(net, ps[j][2], total) = AllocRemainder(net, ps[k][2], total)
                               /\ Older(st.lots[ps[j][1]], st.lots[ps[k][1]])}
           aheadX(k) == {j \in D : \/ rem(j) > rem(k)
                                   \/ rem(j) = rem(k) /\ Older(x.lots[px[j][1]], x.lots[px[k][1]])}
           leftS == net - SumFunction([k \in DOMAIN ps |-> AllocFloor(net, ps[k][2], total)])
           leftX == net - SumFunction([k \in D |-> floor(k)])
<1>1. /\ DOMAIN ps = D
      /\ \A i \in D : ps[i][2] = px[i][2] /\ st.lots[ps[i][1]] = x.lots[px[i][1]]
    BY DEF SamePlan, Without
<1>2. AllocateProceeds(st, ps, net, total)
          = [k \in DOMAIN ps |-> IF Cardinality(aheadS(k)) < leftS
                                 THEN AllocFloor(net, ps[k][2], total) + 1
                                 ELSE AllocFloor(net, ps[k][2], total)]
    BY DEF AllocateProceeds
<1>3. AllocateProceeds(x, px, net, total)
          = [k \in D |-> IF Cardinality(aheadX(k)) < leftX THEN floor(k) + 1 ELSE floor(k)]
    BY DEF AllocateProceeds
<1>4. \A k \in D : aheadS(k) = aheadX(k)
    BY <1>1
<1>5. leftS = leftX
    <2>1. [k \in DOMAIN ps |-> AllocFloor(net, ps[k][2], total)] = [k \in D |-> floor(k)]
        BY <1>1
    <2> QED
        BY <2>1
<1>6. \A k \in D : AllocFloor(net, ps[k][2], total) = floor(k)
    BY <1>1
<1> HIDE DEF aheadS, aheadX, leftS, leftX, D, floor, rem
<1> QED
    BY <1>1, <1>2, <1>3, <1>4, <1>5, <1>6

\* x is st but for the lot at p, of which nothing was made.
Beside(x, st, p, h) ==
    /\ Without(x, st, p, h)
    /\ x.gains = st.gains /\ x.depended = st.depended /\ x.dropped = st.dropped

\* A sale keeps it so.
LEMMA SaleBeside ==
    ASSUME NEW st, NEW n, FoldOK(st, n), NEW x, NEW m, FoldOK(x, m), NEW p, NEW h, Beside(x, st, p, h),
           NEW e, NEW seq, NEW y, SaleDone(st, seq, e, y), NEW z, SaleDone(x, seq, e, z),
           SamePlan(SelectLots(st, e), SelectLots(x, e), h)
    PROVE  Beside(z, y, p, h) /\ y.lots[p] = st.lots[p]
<1> DEFINE ps == SelectLots(st, e)
           px == SelectLots(x, e)
           qs == AllocateProceeds(st, ps, Net(e), e.qty)
           qx == AllocateProceeds(x, px, Net(e), e.qty)
           c == Len(px)
<1>1. /\ SoldState(st, seq, e, ps, qs, Len(ps), y) /\ Len(ps) \in Nat /\ DOMAIN ps = 1..Len(ps)
      /\ SoldState(x, seq, e, px, qx, c, z) /\ c \in Nat /\ DOMAIN px = 1..c
      /\ Fits(x, e, px)
    BY DEF SaleDone
<1>2. /\ p \in DOMAIN st.lots
      /\ h \in [DOMAIN x.lots -> DOMAIN st.lots \ {p}]
      /\ \A k \in DOMAIN x.lots : h[k] \in DOMAIN st.lots /\ h[k] # p /\ x.lots[k] = st.lots[h[k]]
      /\ \A j, k \in DOMAIN x.lots : h[j] = h[k] => j = k
      /\ \A i \in DOMAIN st.lots : i # p => \E k \in DOMAIN x.lots : h[k] = i
      /\ x.gains = st.gains /\ x.depended = st.depended /\ x.dropped = st.dropped
      /\ Without(x, st, p, h)
    BY DEF Beside, Without
<1>3. \A i \in DOMAIN px : px[i][1] \in DOMAIN x.lots
    BY <1>1 DEF Fits
<1>4. qs = qx
    BY <1>2, <1>3, ProceedsSame
<1>5. /\ DOMAIN ps = DOMAIN px /\ \A i \in DOMAIN px : ps[i][1] = h[px[i][1]] /\ ps[i][2] = px[i][2]
    BY DEF SamePlan
<1> HIDE DEF ps, px, qs, qx, c
<1>6. Len(ps) = c
    <2> DEFINE d == Len(ps)
    <2>1. d \in Nat /\ 1..d = 1..c
        BY <1>1, <1>5
    <2> HIDE DEF d
    <2>2. d = c
        BY <1>1, <2>1
    <2> QED
        BY <2>2 DEF d
<1>7. SoldState(st, seq, e, ps, qx, c, y)
    BY <1>1, <1>4, <1>6
<1>8. /\ DOMAIN y.lots = DOMAIN st.lots /\ DOMAIN z.lots = DOMAIN x.lots
      /\ y \in FoldStates /\ z \in FoldStates
    BY <1>1, <1>7 DEF SoldState
<1>9. \A i \in 1..c : px[i][1] \in DOMAIN x.lots /\ ps[i][1] = h[px[i][1]] /\ ps[i][2] = px[i][2]
    BY <1>1, <1>3, <1>5
<1>10. ASSUME NEW k \in DOMAIN x.lots PROVE z.lots[k] = y.lots[h[k]]
    <2>1. CASE \E i \in 1..c : px[i][1] = k
        <3>1. PICK i \in 1..c : px[i][1] = k
            BY <2>1
        <3>2. z.lots[k] = Reduced(x.lots[k], px[i][2])
            BY <1>1, <3>1 DEF SoldState
        <3>3. y.lots[ps[i][1]] = Reduced(st.lots[ps[i][1]], ps[i][2])
            BY <1>7 DEF SoldState
        <3>4. ps[i][1] = h[k] /\ ps[i][2] = px[i][2]
            BY <1>9, <3>1
        <3> QED
            BY <1>2, <3>2, <3>3, <3>4
    <2>2. CASE \A i \in 1..c : px[i][1] # k
        <3>1. \A i \in 1..c : ps[i][1] # h[k]
            BY <1>2, <1>9, <2>2
        <3>2. z.lots[k] = x.lots[k]
            BY <1>1, <2>2 DEF SoldState
        <3>3. y.lots[h[k]] = st.lots[h[k]]
            BY <1>2, <1>7, <3>1 DEF SoldState
        <3> QED
            BY <1>2, <3>2, <3>3
    <2> QED
        BY <2>1, <2>2
<1>11. y.lots[p] = st.lots[p]
    <2>1. \A i \in 1..c : ps[i][1] # p
        BY <1>2, <1>9
    <2> QED
        BY <1>2, <1>7, <2>1 DEF SoldState
<1>12. z.gains = y.gains
    <2> DEFINE s == y.gains
               t == z.gains
               b == Len(st.gains)
    <2>1. /\ Len(s) = b + c /\ Len(t) = b + c /\ b \in Nat /\ c \in Nat
          /\ DOMAIN st.gains = 1..b /\ DOMAIN x.gains = 1..b
          /\ s \in Seq(GainRecords) /\ t \in Seq(GainRecords)
        <3>1. Len(s) = b + c /\ Len(t) = b + c
            BY <1>1, <1>2, <1>7 DEF SoldState
        <3> QED
            BY <1>1, <1>2, <1>8, <3>1, FoldTypes DEF FoldStates
    <2>2. \A g \in 1..b : s[g] = st.gains[g] /\ t[g] = st.gains[g]
        BY <1>1, <1>2, <1>7, <2>1 DEF SoldState
    <2>3. ASSUME NEW i \in 1..c PROVE s[b + i] = t[b + i]
        <3>1. s[b + i] = GainOf(st.lots[ps[i][1]], seq, e, ps[i][2], qx[i])
            BY <1>7 DEF SoldState
        <3>2. t[b + i] = GainOf(x.lots[px[i][1]], seq, e, px[i][2], qx[i])
            BY <1>1, <1>2 DEF SoldState
        <3>3. x.lots[px[i][1]] = st.lots[ps[i][1]] /\ ps[i][2] = px[i][2]
            BY <1>2, <1>9
        <3> QED
            BY <3>1, <3>2, <3>3
    <2> HIDE DEF s, t, b
    <2>4. \A g \in 1..(b + c) : s[g] = t[g]
        <3> SUFFICES ASSUME NEW g \in 1..(b + c) PROVE s[g] = t[g]
            OBVIOUS
        <3>1. CASE g \in 1..b
            BY <2>2, <3>1
        <3>2. CASE g \notin 1..b
            <4>1. g - b \in 1..c /\ b + (g - b) = g
                BY <2>1, <3>2
            <4>2. s[b + (g - b)] = t[b + (g - b)]
                BY <2>3, <4>1
            <4> QED
                BY <4>1, <4>2
        <3> QED
            BY <3>1, <3>2
    <2>5. s = t
        BY <2>1, <2>4, SeqEqual
    <2> QED
        BY <2>5 DEF s, t
<1>13. z.depended = y.depended
    <2>1. y.depended = st.depended \cup {st.lots[ps[i][1]].openSeq : i \in 1..c}
        BY <1>7 DEF SoldState
    <2>2. z.depended = x.depended \cup {x.lots[px[i][1]].openSeq : i \in 1..c}
        BY <1>1 DEF SoldState
    <2>3. \A i \in 1..c : x.lots[px[i][1]].openSeq = st.lots[ps[i][1]].openSeq
        BY <1>2, <1>9
    <2> QED
        BY <1>2, <2>1, <2>2, <2>3
<1>14. z.dropped = y.dropped
    BY <1>1, <1>2, <1>7 DEF SoldState
<1>15. Without(z, y, p, h)
    BY <1>2, <1>8, <1>10 DEF Without
<1> QED
    BY <1>11, <1>12, <1>13, <1>14, <1>15 DEF Beside

\* So does a split that is in range, when it has nothing of the lot at p.
LEMMA SplitBeside ==
    ASSUME NEW st, NEW n, FoldOK(st, n), NEW x, NEW m, FoldOK(x, m), NEW p, NEW h, Beside(x, st, p, h),
           NEW e, OverCap(st, e) = {}, p \notin SplitLots(st, e),
           NEW y, SplitState(st, e, SplitReach(st, e), y)
    PROVE  /\ OverCap(x, e) = {}
           /\ \A z : SplitState(x, e, SplitReach(x, e), z) => Beside(z, y, p, h)
           /\ y.lots[p] = st.lots[p]
<1> DEFINE S == SplitLots(st, e)
           T == SplitLots(x, e)
<1>1. /\ p \in DOMAIN st.lots
      /\ h \in [DOMAIN x.lots -> DOMAIN st.lots \ {p}]
      /\ \A k \in DOMAIN x.lots : h[k] \in DOMAIN st.lots /\ h[k] # p /\ x.lots[k] = st.lots[h[k]]
      /\ \A j, k \in DOMAIN x.lots : h[j] = h[k] => j = k
      /\ \A i \in DOMAIN st.lots : i # p => \E k \in DOMAIN x.lots : h[k] = i
      /\ x.gains = st.gains /\ x.depended = st.depended /\ x.dropped = st.dropped
    BY DEF Beside, Without
<1>2. \A k \in DOMAIN x.lots : k \in T <=> h[k] \in S
    BY <1>1 DEF SplitLots
<1>3. S \subseteq DOMAIN st.lots /\ T \subseteq DOMAIN x.lots
    BY DEF SplitLots
<1>4. OverCap(x, e) = {}
    <2>1. \A k \in S : WithinCap(Rescaled(st.lots[k], e))
        BY DEF OverCap
    <2>2. \A k \in T : WithinCap(Rescaled(x.lots[k], e))
        <3> HIDE DEF S, T
        <3> QED
            BY <1>1, <1>2, <1>3, <2>1
    <2> QED
        BY <2>2 DEF OverCap
<1>5. SplitReach(st, e) = S /\ SplitReach(x, e) = T
    BY <1>4, SplitsAll
<1>6. SplitState(st, e, S, y) /\ p \notin S
    BY <1>5
<1> HIDE DEF S, T
<1>7. y.lots[p] = st.lots[p]
    BY <1>1, <1>6 DEF SplitState
<1>8. ASSUME NEW z, SplitState(x, e, T, z) PROVE Beside(z, y, p, h)
    <2>1. DOMAIN y.lots = DOMAIN st.lots /\ DOMAIN z.lots = DOMAIN x.lots
        BY <1>6, <1>8 DEF SplitState
    <2>2. ASSUME NEW k \in DOMAIN x.lots PROVE z.lots[k] = y.lots[h[k]]
        <3>1. CASE k \in T
            <4>1. z.lots[k] = AfterSplit(x.lots[k], e)
                BY <1>8, <3>1 DEF SplitState
            <4>2. y.lots[h[k]] = AfterSplit(st.lots[h[k]], e)
                BY <1>2, <1>6, <3>1 DEF SplitState
            <4> QED
                BY <1>1, <4>1, <4>2
        <3>2. CASE k \notin T
            <4>1. z.lots[k] = x.lots[k]
                BY <1>8, <3>2 DEF SplitState
            <4>2. y.lots[h[k]] = st.lots[h[k]]
                BY <1>1, <1>2, <1>6, <3>2 DEF SplitState
            <4> QED
                BY <1>1, <4>1, <4>2
        <3> QED
            BY <3>1, <3>2
    <2>3. Without(z, y, p, h)
        BY <1>1, <2>1, <2>2 DEF Without
    <2>4. z.depended = y.depended
        <3>1. /\ y.depended = st.depended \cup {st.lots[k].openSeq : k \in S}
              /\ z.depended = x.depended \cup {x.lots[k].openSeq : k \in T}
            BY <1>6, <1>8 DEF SplitState
        <3>2. \A o : (\E k \in S : st.lots[k].openSeq = o) <=> (\E k \in T : x.lots[k].openSeq = o)
            <4>1. ASSUME NEW k \in S PROVE \E j \in T : x.lots[j].openSeq = st.lots[k].openSeq
                <5>1. PICK j \in DOMAIN x.lots : h[j] = k
                    BY <1>1, <1>3, <1>6
                <5> QED
                    BY <1>1, <1>2, <5>1
            <4>2. ASSUME NEW j \in T PROVE \E k \in S : x.lots[j].openSeq = st.lots[k].openSeq
                BY <1>1, <1>2, <1>3
            <4> QED
                BY <4>1, <4>2
        <3>3. {st.lots[k].openSeq : k \in S} = {x.lots[k].openSeq : k \in T}
            BY <3>2
        <3> QED
            BY <1>1, <3>1, <3>3
    <2>5. z.gains = y.gains /\ z.dropped = y.dropped
        BY <1>1, <1>6, <1>8 DEF SplitState
    <2> QED
        BY <2>3, <2>4, <2>5 DEF Beside
<1> QED
    BY <1>4, <1>5, <1>7, <1>8

\* So does an opening, whose lot comes behind the others.
LEMMA OpenBeside ==
    ASSUME NEW st, NEW n, FoldOK(st, n), NEW x, NEW m, FoldOK(x, m), NEW p, NEW h, Beside(x, st, p, h),
           NEW e, NEW seq, NEW y, OpenState(st, seq, e, y), NEW z, OpenState(x, seq, e, z)
    PROVE  \E g : Beside(z, y, p, g) /\ y.lots[p] = st.lots[p]
<1> DEFINE s == Len(st.lots)
           r == Len(x.lots)
           g == [k \in 1..(r + 1) |-> IF k = r + 1 THEN s + 1 ELSE h[k]]
<1>1. /\ s \in Nat /\ DOMAIN st.lots = 1..s /\ DOMAIN y.lots = 1..(s + 1)
      /\ \A k \in 1..s : y.lots[k] = st.lots[k]
      /\ y.lots[s + 1] = NewLot(seq, e)
    BY OpenAdds
<1>2. /\ r \in Nat /\ DOMAIN x.lots = 1..r /\ DOMAIN z.lots = 1..(r + 1)
      /\ \A k \in 1..r : z.lots[k] = x.lots[k]
      /\ z.lots[r + 1] = NewLot(seq, e)
    BY OpenAdds
<1>3. /\ p \in DOMAIN st.lots
      /\ \A k \in DOMAIN x.lots : h[k] \in DOMAIN st.lots /\ h[k] # p /\ x.lots[k] = st.lots[h[k]]
      /\ \A j, k \in DOMAIN x.lots : h[j] = h[k] => j = k
      /\ \A i \in DOMAIN st.lots : i # p => \E k \in DOMAIN x.lots : h[k] = i
      /\ x.gains = st.gains /\ x.depended = st.depended /\ x.dropped = st.dropped
    BY DEF Beside, Without
<1> HIDE DEF s, r
<1>4. /\ \A k \in 1..(r + 1) : k = r + 1 \/ (k \in 1..r /\ k # r + 1)
      /\ \A k \in 1..r : k \in 1..(r + 1) /\ k # r + 1
      /\ r + 1 \in 1..(r + 1)
      /\ \A k \in 1..(s + 1) : k = s + 1 \/ (k \in 1..s /\ k # s + 1)
      /\ \A k \in 1..s : k \in 1..(s + 1) /\ k # s + 1
      /\ s + 1 \in 1..(s + 1)
    BY <1>1, <1>2
<1>5. g[r + 1] = s + 1 /\ (\A k \in 1..r : g[k] = h[k]) /\ DOMAIN g = 1..(r + 1)
    BY <1>4
<1>6. \A k \in 1..r : h[k] \in 1..s /\ h[k] # p /\ x.lots[k] = st.lots[h[k]]
    BY <1>1, <1>2, <1>3
<1>7. p \in 1..s
    BY <1>1, <1>3
<1>8. g \in [1..(r + 1) -> 1..(s + 1) \ {p}]
    <2>1. \A k \in 1..(r + 1) : g[k] \in 1..(s + 1) \ {p}
        <3> HIDE DEF g
        <3> QED
            BY <1>4, <1>5, <1>6, <1>7
    <2> QED
        BY <2>1
<1> HIDE DEF g
<1>9. \A j, k \in 1..(r + 1) : g[j] = g[k] => j = k
    <2> SUFFICES ASSUME NEW j \in 1..(r + 1), NEW k \in 1..(r + 1), g[j] = g[k] PROVE j = k
        OBVIOUS
    <2>1. CASE j \in 1..r /\ k \in 1..r
        BY <1>2, <1>3, <1>5, <2>1
    <2>2. CASE j = r + 1 /\ k \in 1..r
        BY <1>4, <1>5, <1>6, <2>2
    <2>3. CASE j \in 1..r /\ k = r + 1
        BY <1>4, <1>5, <1>6, <2>3
    <2> QED
        BY <1>4, <2>1, <2>2, <2>3
<1>10. \A i \in 1..(s + 1) : i # p => \E k \in 1..(r + 1) : g[k] = i
    <2> SUFFICES ASSUME NEW i \in 1..(s + 1), i # p PROVE \E k \in 1..(r + 1) : g[k] = i
        OBVIOUS
    <2>1. CASE i = s + 1
        BY <1>4, <1>5, <2>1
    <2>2. CASE i \in 1..s
        <3>1. PICK k \in 1..r : h[k] = i
            BY <1>1, <1>2, <1>3, <2>2
        <3> QED
            BY <1>4, <1>5, <3>1
    <2> QED
        BY <1>4, <2>1, <2>2
<1>11. \A k \in 1..(r + 1) : z.lots[k] = y.lots[g[k]]
    <2> SUFFICES ASSUME NEW k \in 1..(r + 1) PROVE z.lots[k] = y.lots[g[k]]
        OBVIOUS
    <2>1. CASE k = r + 1
        BY <1>1, <1>2, <1>5, <2>1
    <2>2. CASE k \in 1..r
        BY <1>1, <1>2, <1>5, <1>6, <2>2
    <2> QED
        BY <1>4, <2>1, <2>2
<1>12. Without(z, y, p, g)
    BY <1>1, <1>2, <1>4, <1>7, <1>8, <1>9, <1>10, <1>11 DEF Without
<1>13. z.gains = y.gains /\ z.depended = y.depended /\ z.dropped = y.dropped
    BY <1>3 DEF OpenState
<1> QED
    BY <1>1, <1>7, <1>12, <1>13 DEF Beside

\* Any event keeps the states beside one another, but for one that takes from the lot
\* at p, a split that is refused, and an opening that does not land.
LEMMA EventBeside ==
    ASSUME NEW st, NEW n \in Nat, FoldOK(st, n), Named(st), NEW x, NEW m \in Nat, FoldOK(x, m),
           NEW p, NEW h, Beside(x, st, p, h),
           NEW e \in Payloads, e.kind # "Reversal", NEW seq \in Nat, n < seq, m < seq,
           NEW y, EventDone(st, seq, e, y), NEW z, EventDone(x, seq, e, z),
           st.lots[p].openSeq \notin y.depended,
           e.kind = "Split" => seq \notin y.dropped,
           e.kind \in {"Buy", "Vest"} => OpenState(st, seq, e, y) /\ OpenState(x, seq, e, z)
    PROVE  \E g : Beside(z, y, p, g) /\ y.lots[p] = st.lots[p]
<1>1. /\ Marked(st, seq).lots = st.lots /\ Marked(st, seq).gains = st.gains
      /\ Marked(st, seq).depended = st.depended /\ Marked(st, seq).dropped = st.dropped \cup {seq}
      /\ Marked(x, seq).lots = x.lots /\ Marked(x, seq).gains = x.gains
      /\ Marked(x, seq).depended = x.depended /\ Marked(x, seq).dropped = x.dropped \cup {seq}
    BY MarkedFold
<1>2. p \in DOMAIN st.lots /\ Without(x, st, p, h)
    BY DEF Beside, Without
<1>3. e.kind \in {"Buy", "Vest", "Sell", "Split"}
    BY PayloadsAssumption
<1>4. CASE e.kind \in {"Buy", "Vest"}
    BY <1>4, OpenBeside
<1>5. CASE e.kind = "Sell"
    <2>1. CASE SellVerdict(st, e) = "Ok"
        <3>1. SaleDone(st, seq, e, y)
            BY <1>5, <2>1 DEF EventDone, FoldVerdict
        <3>2. \A i \in DOMAIN SelectLots(st, e) : SelectLots(st, e)[i][1] # p
            <4> DEFINE ps == SelectLots(st, e)
                       qs == AllocateProceeds(st, ps, Net(e), e.qty)
            <4>1. SoldState(st, seq, e, ps, qs, Len(ps), y) /\ DOMAIN ps = 1..Len(ps)
                BY <3>1 DEF SaleDone
            <4> HIDE DEF ps, qs
            <4>2. y.depended = st.depended \cup {st.lots[ps[i][1]].openSeq : i \in 1..Len(ps)}
                BY <4>1 DEF SoldState
            <4>3. \A i \in DOMAIN ps : ps[i][1] # p
                BY <4>1, <4>2
            <4> QED
                BY <4>3 DEF ps
        <3>3. SellVerdict(x, e) = "Ok" /\ SamePlan(SelectLots(st, e), SelectLots(x, e), h)
            BY <1>2, <1>5, <2>1, <3>2, SaleSame
        <3>4. SaleDone(x, seq, e, z)
            BY <1>5, <3>3 DEF EventDone, FoldVerdict
        <3> QED
            BY <3>1, <3>3, <3>4, SaleBeside
    <2>2. CASE SellVerdict(st, e) # "Ok"
        <3>1. SellVerdict(x, e) # "Ok"
            BY <1>2, <1>5, <2>2, RefusalStays
        <3>2. y = Marked(st, seq) /\ z = Marked(x, seq)
            BY <1>5, <2>2, <3>1 DEF EventDone
        <3>3. /\ y.lots = st.lots /\ z.lots = x.lots /\ z.gains = y.gains
              /\ z.depended = y.depended /\ z.dropped = y.dropped
            BY <1>1, <3>2 DEF Beside
        <3>4. Without(z, y, p, h)
            BY <1>2, <3>3 DEF Without
        <3> QED
            BY <3>3, <3>4 DEF Beside
    <2> QED
        BY <2>1, <2>2
<1>6. CASE e.kind = "Split"
    <2>1. seq \notin y.dropped
        BY <1>6
    <2>2. /\ y # Marked(st, seq)
          /\ ~SplitState(Marked(st, seq), e, SplitReach(st, e), y)
        <3>1. seq \in Marked(st, seq).dropped
            BY <1>1
        <3> QED
            BY <2>1, <3>1 DEF SplitState
    <2>3. e.num >= 1 /\ e.den >= 1 /\ OverCap(st, e) = {} /\ SplitState(st, e, SplitReach(st, e), y)
        BY <1>6, <2>2 DEF EventDone
    <2>4. p \notin SplitLots(st, e)
        <3>1. SplitReach(st, e) = SplitLots(st, e)
            BY <2>3, SplitsAll
        <3>2. y.depended = st.depended \cup {st.lots[k].openSeq : k \in SplitLots(st, e)}
            BY <2>3, <3>1 DEF SplitState
        <3> QED
            BY <3>2
    <2>5. /\ OverCap(x, e) = {} /\ y.lots[p] = st.lots[p]
          /\ SplitState(x, e, SplitReach(x, e), z) => Beside(z, y, p, h)
        BY <2>3, <2>4, SplitBeside
    <2>6. FoldVerdict(x, e) = "Ok"
        <3>1. e.num \in Int /\ e.den \in Int
            BY <1>6, PayloadsAssumption
        <3>2. ~(e.num < 1) /\ ~(e.den < 1)
            BY <2>3, <3>1
        <3> QED
            BY <1>6, <2>5, <3>2 DEF FoldVerdict, SplitVerdict
    <2>7. SplitState(x, e, SplitReach(x, e), z)
        BY <1>6, <2>5, <2>6 DEF EventDone
    <2> QED
        BY <2>5, <2>7
<1> QED
    BY <1>3, <1>4, <1>5, <1>6

\* Lots that landed have names of their own.
LEMMA LandedNames ==
    ASSUME NEW l, OpensOK(l), NEW n, NEW st, FoldOK(st, n), OpensLanded(l, n, st)
    PROVE  Named(st)
<1> SUFFICES ASSUME NEW j \in DOMAIN st.lots, NEW k \in DOMAIN st.lots, st.lots[j].id = st.lots[k].id
             PROVE  j = k
    BY DEF Named
<1> DEFINE a == st.lots[j].openSeq
           b == st.lots[k].openSeq
<1>1. a \in Opens(l) /\ b \in Opens(l) /\ st.lots[j].id = l[a].lot /\ st.lots[k].id = l[b].lot
    BY DEF OpensLanded
<1>2. a \in Nat /\ b \in Nat /\ j \in Nat /\ k \in Nat
    BY FoldTypes
<1>3. (j < k => a < b) /\ (k < j => b < a)
    BY DEF FoldOK
<1>4. l[a].lot = l[b].lot
    BY <1>1
<1> HIDE DEF a, b
<1>5. a = b
    BY <1>1, <1>4 DEF OpensOK
<1> QED
    BY <1>2, <1>3, <1>5

\* When an opening is taken back that nothing was sold or split of, the fold does
\* what it did, refuses what it refused, and realizes the gains it did.
LEMMA OpeningTakenBack ==
    ASSUME NEW l \in Seq(Payloads), OpensOK(l), LostSplits(l) = {},
           NEW e \in Payloads, e.kind = "Reversal", e.target \in Opens(l),
           e.target \notin Replay(l).depended, OpensOK(Append(l, e))
    PROVE  /\ Replay(Append(l, e)).gains = Replay(l).gains
           /\ Replay(Append(l, e)).dropped = Replay(l).dropped
<1> DEFINE m == Append(l, e)
           b == Len(l)
           t == e.target
           F == FoldSteps(l)
           G == FoldSteps(m)
           Apart(n) == \E p, h : Beside(G[n], F[n], p, h) /\ F[n].lots[p].openSeq = t
           P == {d \in Nat : t + d <= b => Apart(t + d)}
<1>1. /\ t \in Survivors(l) /\ t \in 1..b /\ l[t].kind \in {"Buy", "Vest"} /\ t \in DOMAIN l
    BY OpensSurvive
<1>2. /\ m \in Seq(Payloads) /\ b \in Nat /\ Len(m) = b + 1 /\ \A n \in 1..b : m[n] = l[n]
      /\ Survivors(m) = Survivors(l) \ {t} /\ Replay(m) = G[b]
    BY <1>1, ReversalSurvivors
<1>3. \A n \in 0..b : \A i \in F[n].dropped : l[i].kind # "Split"
    <2>1. \A n \in 0..b : F[n].dropped \subseteq Replay(l).dropped
        BY ReplayKeepsAll
    <2>2. \A i \in Replay(l).dropped : l[i].kind # "Split"
        BY DEF LostSplits
    <2> HIDE DEF F
    <2> QED
        BY <2>1, <2>2
<1>4. \A n \in 0..b : t \notin F[n].depended
    BY ReplayKeepsAll
<1>5. \A n \in 0..b : OpensLanded(l, n, F[n]) /\ OpensLanded(m, n, G[n])
    <2>1. \A n \in 0..b : OpensLanded(l, n, F[n])
        BY EveryOpeningLands
    <2>2. \A n \in 0..(b + 1) : OpensLanded(m, n, G[n])
        BY <1>2, EveryOpeningLands
    <2>3. \A n \in 0..b : n \in 0..(b + 1)
        BY <1>2
    <2> HIDE DEF m, F, G, b
    <2> QED
        BY <2>1, <2>2, <2>3
<1>6. ASSUME NEW n \in 1..b
      PROVE  /\ FoldOK(F[n - 1], n - 1) /\ FoldOK(G[n - 1], n - 1) /\ FoldOK(F[n], n)
             /\ n \in Survivors(l) => l[n] \in Payloads /\ l[n].kind # "Reversal"
                                      /\ EventDone(F[n - 1], n, l[n], F[n])
             /\ n \notin Survivors(l) => F[n] = F[n - 1]
             /\ n \in Survivors(l) \ {t} => EventDone(G[n - 1], n, l[n], G[n])
             /\ n \notin Survivors(l) \ {t} => G[n] = G[n - 1]
    <2>1. n \in 1..Len(m) /\ m[n] = l[n]
        BY <1>2
    <2> HIDE DEF m, t
    <2>2. /\ FoldOK(F[n - 1], n - 1) /\ FoldOK(F[n], n)
          /\ n \in Survivors(l) => l[n] \in Payloads /\ l[n].kind # "Reversal"
                                   /\ EventDone(F[n - 1], n, l[n], F[n])
          /\ n \notin Survivors(l) => F[n] = F[n - 1]
        BY StepDone
    <2>3. /\ FoldOK(G[n - 1], n - 1)
          /\ n \in Survivors(m) => EventDone(G[n - 1], n, m[n], G[n])
          /\ n \notin Survivors(m) => G[n] = G[n - 1]
        BY <1>2, <2>1, StepDone
    <2> QED
        BY <1>2, <2>1, <2>2, <2>3
\* Before the opening nothing tells the two folds apart.
<1>7. F[t - 1] = G[t - 1]
    <2> DEFINE q == t - 1
    <2>1. q \in Nat /\ q <= Len(l) /\ q <= Len(m) /\ Len(l) \in Nat /\ Len(m) \in Nat /\ q \in 0..q
        BY <1>1, <1>2
    <2>2. \A n \in 1..q : l[n] = m[n] /\ (n \in Survivors(l) <=> n \in Survivors(m))
        <3>1. \A n \in 1..q : n \in 1..b /\ n # t
            BY <1>1, <1>2
        <3> HIDE DEF m, b, t, q
        <3> QED
            BY <1>2, <3>1
    <2> HIDE DEF q, m, b, F, G, P
    <2>3. \A n \in 0..q : FoldSteps(l)[n] = FoldSteps(m)[n]
        BY <2>1, <2>2, StepsAgree
    <2> QED
        BY <2>1, <2>3 DEF F, G, q
<1>8. \A n \in 1..b : n # t => (n \in Opens(l) => n \in Opens(m))
    <2> SUFFICES ASSUME NEW n \in 1..b, n # t, n \in Opens(l) PROVE n \in Opens(m)
        OBVIOUS
    <2>1. n \in Survivors(m) /\ m[n].kind \in {"Buy", "Vest"}
        BY <1>2, OpensSurvive
    <2> HIDE DEF m
    <2> QED
        BY <2>1 DEF Opens, Survivors
<1> HIDE DEF F, G, m, b, t, P
<1>9. Apart(t)
    <2> DEFINE st == F[t - 1]
               y == F[t]
               p == Len(st.lots) + 1
               h == [k \in DOMAIN st.lots |-> k]
    <2>1. FoldOK(st, t - 1) /\ EventDone(st, t, l[t], y) /\ G[t] = st
        BY <1>1, <1>6, <1>7
    <2>2. t - 1 \in 0..b /\ t - 1 \in Nat /\ t = (t - 1) + 1
        BY <1>1, <1>2
    <2>3. OpensLanded(l, t - 1, st)
        BY <1>5, <2>2
    <2>4. t \in Opens(l)
        BY DEF t
    <2> DEFINE q == t - 1
    <2>5. q \in Nat /\ t = q + 1 /\ FoldOK(st, q) /\ OpensLanded(l, q, st)
        BY <2>1, <2>2, <2>3
    <2> HIDE DEF st, y, q
    <2>6. OpenState(st, t, l[t], y)
        BY <2>1, <2>4, <2>5, OpeningLands
    <2>7. /\ Len(st.lots) \in Nat /\ DOMAIN st.lots = 1..Len(st.lots)
          /\ DOMAIN y.lots = 1..(Len(st.lots) + 1)
          /\ \A k \in DOMAIN st.lots : y.lots[k] = st.lots[k]
          /\ y.lots[Len(st.lots) + 1] = NewLot(t, l[t])
        BY <2>5, <2>6, OpenAdds
    <2>8. \A k : k \in DOMAIN y.lots \ {p} <=> k \in DOMAIN st.lots
        BY <2>7
    <2>9. Without(st, y, p, h)
        <3>1. p \in DOMAIN y.lots
            BY <2>7
        <3>2. h \in [DOMAIN st.lots -> DOMAIN y.lots \ {p}] /\ \A k \in DOMAIN st.lots : h[k] = k
            BY <2>8
        <3> HIDE DEF h, p
        <3> QED
            BY <2>7, <2>8, <3>1, <3>2 DEF Without
    <2>10. Beside(st, y, p, h)
        BY <2>6, <2>9 DEF Beside, OpenState
    <2>11. y.lots[p].openSeq = t
        BY <2>7 DEF NewLot
    <2>12. G[t] = st
        BY <2>1
    <2> HIDE DEF p, h
    <2> QED
        BY <2>10, <2>11, <2>12 DEF y
<1>10. 0 \in P
    <2>1. t + 0 = t
        BY <1>1, <1>2
    <2> QED
        BY <1>9, <2>1 DEF P
<1>11. ASSUME NEW d \in Nat, d \in P PROVE d + 1 \in P
    <2> SUFFICES ASSUME t + (d + 1) <= b PROVE Apart(t + (d + 1))
        BY DEF P
    <2> DEFINE c == t + d
               n == c + 1
               st == F[c]
               x == G[c]
               y == F[n]
               z == G[n]
    <2>1. /\ n = t + (d + 1) /\ n \in 1..b /\ n - 1 = c /\ c \in Nat /\ n \in Nat /\ c < n
          /\ n # t /\ c <= b /\ n \in 0..b /\ c \in 0..b
        BY <1>1, <1>2
    <2>2. Apart(c)
        BY <1>11, <2>1 DEF P
    <2>3. PICK p, h : Beside(x, st, p, h) /\ st.lots[p].openSeq = t
        BY <2>2
    <2>4. /\ FoldOK(st, c) /\ FoldOK(x, c) /\ FoldOK(y, n)
          /\ n \in Survivors(l) => l[n] \in Payloads /\ l[n].kind # "Reversal"
                                   /\ EventDone(st, n, l[n], y) /\ EventDone(x, n, l[n], z)
          /\ n \notin Survivors(l) => y = st /\ z = x
        BY <1>6, <2>1
    <2>5. OpensLanded(l, c, st) /\ OpensLanded(m, c, x) /\ t \notin y.depended
        BY <1>4, <1>5, <2>1
    <2>6. n \in y.dropped => l[n].kind # "Split"
        BY <1>3, <2>1
    <2>7. m[n] = l[n] /\ (n \in Opens(l) => n \in Opens(m))
        BY <1>2, <1>8, <2>1
    <2>8. n \in Survivors(l) /\ l[n].kind \in {"Buy", "Vest"} => n \in Opens(l)
        <3>1. n \in DOMAIN l
            BY <2>1 DEF b
        <3> QED
            BY <3>1 DEF Survivors, Opens
    <2> HIDE DEF c, n, st, x, y, z
    <2>9. CASE n \in Survivors(l)
        <3>1. l[n].kind \in {"Buy", "Vest"} => OpenState(st, n, l[n], y) /\ OpenState(x, n, l[n], z)
            <4> SUFFICES ASSUME l[n].kind \in {"Buy", "Vest"}
                         PROVE  OpenState(st, n, l[n], y) /\ OpenState(x, n, l[n], z)
                OBVIOUS
            <4>1. n \in Opens(l) /\ n \in Opens(m) /\ n = c + 1
                BY <2>7, <2>8, <2>9 DEF n
            <4>2. EventDone(st, n, l[n], y) /\ EventDone(x, n, l[n], z)
                BY <2>4, <2>9
            <4>3. OpenState(st, n, l[n], y)
                BY <2>1, <2>4, <2>5, <4>1, <4>2, OpeningLands
            <4>4. OpenState(x, n, m[n], z)
                <5>1. EventDone(x, n, m[n], z) /\ OpensOK(m)
                    BY <2>7, <4>2 DEF m
                <5> QED
                    BY <1>2, <2>1, <2>4, <2>5, <4>1, <5>1, OpeningLands
            <4> QED
                BY <2>7, <4>3, <4>4
        <3>2. Named(st)
            BY <2>4, <2>5, LandedNames
        <3>3. \E g : Beside(z, y, p, g) /\ y.lots[p] = st.lots[p]
            BY <2>1, <2>3, <2>4, <2>5, <2>6, <2>9, <3>1, <3>2, EventBeside
        <3>4. \E g : Beside(z, y, p, g) /\ y.lots[p].openSeq = t
            BY <2>3, <3>3
        <3> QED
            BY <2>1, <3>4 DEF y, z
    <2>10. CASE n \notin Survivors(l)
        <3>1. Beside(z, y, p, h) /\ y.lots[p].openSeq = t
            BY <2>3, <2>4, <2>10
        <3> QED
            BY <2>1, <3>1 DEF y, z
    <2> QED
        BY <2>9, <2>10
<1>12. b - t \in Nat /\ t + (b - t) = b
    BY <1>1, <1>2
<1>13. b - t \in P
    BY <1>10, <1>11, <1>12, NumberInduction
<1>14. Apart(b)
    <2>1. b - t \in Nat /\ t + (b - t) <= b
        BY <1>1, <1>2
    <2> QED
        BY <1>12, <1>13, <2>1 DEF P
<1>15. G[b].gains = F[b].gains /\ G[b].dropped = F[b].dropped
    BY <1>14 DEF Beside
<1> QED
    BY <1>2, <1>15 DEF Replay, F, b, m

(***************************************************************************)
(* What an accepted event does to the events before it                     *)
(***************************************************************************)
\* ReplayLosesNoTrade of any log.
NoTradeLost(l) ==
    \/ \E i \in ReversedTargets(l) : l[i].kind = "Split"
    \/ \E n \in DOMAIN l : LostSplits(SubSeq(l, 1, n)) # {}
    \/ Replay(l).dropped = {}

\* An accepted event other than a Reversal is not refused when it is replayed.
LEMMA AcceptedIsApplied ==
    ASSUME NEW l \in Seq(Payloads), ReversalsPointBack(l), NEW e \in Payloads, e.kind # "Reversal",
           Validate(Replay(l), l, e) = "Ok"
    PROVE  Replay(Append(l, e)).dropped = Replay(l).dropped
<1> DEFINE st == Replay(l)
           x == Replay(Append(l, e))
           seq == Len(l) + 1
<1>1. EventDone(st, seq, e, x)
    BY LastEvent
<1>2. FoldVerdict(st, e) = "Ok"
    BY DEF Validate
<1> HIDE DEF st, x, seq
<1>3. CASE OpenState(st, seq, e, x)
    BY <1>3 DEF OpenState, st, x
<1>4. CASE SaleDone(st, seq, e, x)
    BY <1>4 DEF SaleDone, SoldState, st, x
<1>5. CASE SplitState(st, e, SplitReach(st, e), x)
    BY <1>5 DEF SplitState, st, x
<1>6. ~(e.kind = "Split" /\ e.num >= 1 /\ e.den >= 1 /\ OverCap(st, e) # {})
    <2> SUFFICES ASSUME e.kind = "Split", OverCap(st, e) # {} PROVE FALSE
        OBVIOUS
    <2> QED
        BY <1>2 DEF FoldVerdict, SplitVerdict
<1> QED
    BY <1>1, <1>2, <1>3, <1>4, <1>5, <1>6 DEF EventDone

\* No accepted event makes replay lose a trade, unless it makes it lose a split.
LEMMA KeepsTrades ==
    ASSUME NEW l \in Seq(Payloads), ReversalsPointBack(l), OpensOK(l), NoTradeLost(l),
           NEW e \in Payloads, Validate(Replay(l), l, e) = "Ok"
    PROVE  NoTradeLost(Append(l, e))
<1> DEFINE m == Append(l, e)
           b == Len(l)
<1>1. /\ m \in Seq(Payloads) /\ b \in Nat /\ Len(m) = b + 1 /\ DOMAIN m = 1..(b + 1)
      /\ DOMAIN l = 1..b /\ m[b + 1] = e /\ \A n \in 1..b : m[n] = l[n]
    OBVIOUS
<1>2. \A n \in 1..b : SubSeq(m, 1, n) = SubSeq(l, 1, n)
    OBVIOUS
<1>3. SubSeq(m, 1, b + 1) = m
    OBVIOUS
<1>4. OpensOK(m)
    BY AcceptedOpens
<1>5. CASE \E i \in ReversedTargets(l) : l[i].kind = "Split"
    <2>1. PICK r \in ReversalsOf(l) : l[l[r].target].kind = "Split"
        BY <1>5 DEF ReversedTargets
    <2>2. r \in 1..b /\ l[r].target \in 1..(r - 1)
        BY <1>1 DEF ReversalsOf, ReversalsPointBack
    <2>3. l[r].target \in 1..b
        BY <1>1, <2>2
    <2> HIDE DEF m, b
    <2>4. r \in ReversalsOf(m) /\ m[r] = l[r]
        BY <1>1, <2>2 DEF ReversalsOf
    <2>5. m[r].target \in ReversedTargets(m) /\ m[m[r].target].kind = "Split"
        BY <1>1, <2>1, <2>3, <2>4 DEF ReversedTargets
    <2>6. NoTradeLost(m)
        BY <2>5 DEF NoTradeLost
    <2> QED
        BY <2>6 DEF m
<1>6. CASE \E n \in DOMAIN l : LostSplits(SubSeq(l, 1, n)) # {}
    <2>1. PICK n \in 1..b : LostSplits(SubSeq(l, 1, n)) # {}
        BY <1>1, <1>6
    <2> HIDE DEF m, b
    <2>2. n \in DOMAIN m
        BY <1>1, <2>1
    <2>3. SubSeq(m, 1, n) = SubSeq(l, 1, n)
        BY <1>2, <2>1
    <2>4. LostSplits(SubSeq(m, 1, n)) # {}
        BY <2>1, <2>3
    <2>5. NoTradeLost(m)
        BY <2>2, <2>4 DEF NoTradeLost
    <2> QED
        BY <2>5 DEF m
<1>7. CASE Replay(l).dropped = {}
    <2>1. CASE e.kind # "Reversal"
        BY <1>7, <2>1, AcceptedIsApplied DEF NoTradeLost
    <2>2. CASE e.kind = "Reversal"
        <3>1. e.target \in DOMAIN l /\ e.target \notin ReversedTargets(l)
              /\ e.target \notin Replay(l).depended
            BY <2>2 DEF Validate, ReversalVerdict
        <3>2. l[e.target].kind \in {"Buy", "Vest", "Sell", "Split", "Reversal"}
            BY <1>1, <3>1, PayloadsAssumption
        <3>3. CASE l[e.target].kind = "Split"
            <4> HIDE DEF m, b
            <4>1. b + 1 \in ReversalsOf(m)
                BY <1>1, <2>2 DEF ReversalsOf
            <4>2. e.target \in ReversedTargets(m)
                BY <1>1, <4>1 DEF ReversedTargets
            <4>3. m[e.target].kind = "Split"
                BY <1>1, <3>1, <3>3
            <4>4. NoTradeLost(m)
                BY <4>2, <4>3 DEF NoTradeLost
            <4> QED
                BY <4>4 DEF m
        <3>4. CASE l[e.target].kind \in {"Sell", "Reversal"}
            <4>1. CASE LostSplits(m) = {}
                <5>1. Replay(m).dropped = {}
                    BY <1>7, <2>2, <3>1, <3>4, <4>1, SaleTakenBack
                <5> QED
                    BY <5>1 DEF NoTradeLost
            <4>2. CASE LostSplits(m) # {}
                <5> HIDE DEF m, b
                <5>1. b + 1 \in DOMAIN m
                    BY <1>1
                <5>2. LostSplits(SubSeq(m, 1, b + 1)) # {}
                    BY <1>3, <4>2
                <5>3. NoTradeLost(m)
                    BY <5>1, <5>2 DEF NoTradeLost
                <5> QED
                    BY <5>3 DEF m
            <4> QED
                BY <4>1, <4>2
        <3>5. CASE l[e.target].kind \in {"Buy", "Vest"}
            <4>1. e.target \in Opens(l)
                BY <3>1, <3>5 DEF Opens
            <4>2. LostSplits(l) = {}
                BY <1>7 DEF LostSplits
            <4>3. Replay(m).dropped = Replay(l).dropped
                BY <1>4, <2>2, <3>1, <4>1, <4>2, OpeningTakenBack
            <4> QED
                BY <1>7, <4>3 DEF NoTradeLost
        <3> QED
            BY <3>2, <3>3, <3>4, <3>5
    <2> QED
        BY <2>1, <2>2
<1> QED
    BY <1>5, <1>6, <1>7 DEF NoTradeLost

\* Whatever is reversed, in whatever order, a log in which no Split was reversed, and
\* none lost on the way, replays every trade it holds: the contract replay discards
\* errors on.
THEOREM NoTradeIsLost == Spec => []ReplayLosesNoTrade
<1>1. Init => NoTradeLost(log)
    <2> SUFFICES ASSUME Init PROVE NoTradeLost(log)
        OBVIOUS
    <2>1. log = <<>> /\ Len(log) = 0
        BY DEF Init
    <2>2. FoldSteps(log)[0] = EmptyFold
        BY <2>1, FoldEquations
    <2>3. Replay(log).dropped = {}
        BY <2>1, <2>2 DEF Replay, EmptyFold
    <2> QED
        BY <2>3 DEF NoTradeLost
<1>2. TypeOK /\ OpensOK(log) /\ NoTradeLost(log) /\ [Next]_log => NoTradeLost(log)'
    <2> SUFFICES ASSUME TypeOK, OpensOK(log), NoTradeLost(log), [Next]_log PROVE NoTradeLost(log')
        OBVIOUS
    <2>1. log \in Seq(Payloads) /\ ReversalsPointBack(log)
        BY DEF TypeOK, ReversalsPointBack
    <2>2. ASSUME NEW e \in Payloads, Accept(Replay(log), e) PROVE NoTradeLost(log')
        <3>1. log' = Append(log, e) /\ Validate(Replay(log), log, e) = "Ok"
            BY <2>2 DEF Accept
        <3>2. NoTradeLost(Append(log, e))
            BY <2>1, <3>1, KeepsTrades
        <3> QED
            BY <3>1, <3>2
    <2>3. CASE UNCHANGED log
        BY <2>3
    <2>4. Next => UNCHANGED log \/ \E e \in Payloads : Accept(Replay(log), e)
        BY DEF Next, Submit, Reject
    <2> QED
        BY <2>2, <2>3, <2>4
<1>3. NoTradeLost(log) => ReplayLosesNoTrade
    BY DEF NoTradeLost, ReplayLosesNoTrade
<1> QED
    BY <1>1, <1>2, <1>3, OpeningsStand, PTL DEF Spec

\* Taking back a Buy or a Vest that the validator lets go moves no realized gain, as
\* long as the fold refuses no Split.
THEOREM OpeningReversalIsHarmless == Spec => OpeningReversalKeepsGains
<1>1. TypeOK /\ OpensOK(log) /\ [Next]_log => [OpeningReversal]_log
    <2> SUFFICES ASSUME TypeOK, OpensOK(log), Next, log' # log, NEW i \in (DOMAIN log') \ DOMAIN log,
                        log'[i].kind = "Reversal", log[log'[i].target].kind \in {"Buy", "Vest"},
                        LostSplits(log) = {}
                 PROVE  Replay(log').gains = Replay(log).gains
        BY DEF OpeningReversal
    <2>1. log \in Seq(Payloads) /\ ReversalsPointBack(log)
        BY DEF TypeOK, ReversalsPointBack
    <2>2. PICK e \in Payloads : Accept(Replay(log), e)
        BY DEF Next, Submit, Reject
    <2>3. log' = Append(log, e) /\ Validate(Replay(log), log, e) = "Ok"
        BY <2>2 DEF Accept
    <2>4. i = Len(log) + 1 /\ log'[i] = e
        BY <2>1, <2>3
    <2>5. /\ e.kind = "Reversal" /\ e.target \in DOMAIN log /\ e.target \notin ReversedTargets(log)
          /\ e.target \notin Replay(log).depended
        BY <2>3, <2>4 DEF Validate, ReversalVerdict
    <2>6. e.target \in Opens(log)
        BY <2>4, <2>5 DEF Opens
    <2>7. OpensOK(Append(log, e))
        BY <2>1, <2>3, AcceptedOpens
    <2>8. Replay(Append(log, e)).gains = Replay(log).gains
        BY <2>1, <2>5, <2>6, <2>7, OpeningTakenBack
    <2> QED
        BY <2>3, <2>8
<1> QED
    BY <1>1, OpeningsStand, PTL DEF Spec, OpeningReversalKeepsGains
=============================================================================
