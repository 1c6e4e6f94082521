-------------------------- MODULE EventStoreProofs --------------------------
(***************************************************************************)
(* For any writers, tabs, events, batch and bounds: type correctness with  *)
(* the lock discipline, and that a resent row is the only damage a tab can *)
(* take; and, for a client that never resends a request that landed, that  *)
(* the Seqs are dense, that the store is the append-only log, and that a   *)
(* finished import is in the tabs in the order it was reconciled.          *)
(***************************************************************************)
EXTENDS EventStore, FiniteSetTheorems, SequenceTheorems, TLAPS

\* The values a writer's locals start from and return to have their types.
LEMMA ResetTypes == EmptyLog \in Logs /\ Cold \in Fingerprints
  BY DEF EmptyLog, Logs, Cold, Fingerprints, EventRow

\* A fingerprint of a log is a fingerprint.
LEMMA ProbeType == \A log \in Logs : Probe(log) \in Fingerprints
  BY DEF Logs, Probe, Fingerprints

\* Leaving resets a writer's locals to values of their types and keeps the others'.
LEMMA LeaveTypes ==
    ASSUME TypeOK, NEW w \in Writers, Leave(w)
    PROVE  /\ pc' \in [Writers -> Locations] /\ pc' = [pc EXCEPT ![w] = "idle"]
           /\ mode' \in [Writers -> {"none", "submit", "commit"}]
           /\ job' \in [Writers -> Seq(Events)] /\ job' = [job EXCEPT ![w] = <<>>]
           /\ view' \in [Writers -> Logs]
           /\ cache' \in [Writers -> Fingerprints]
           /\ seqno' \in [Writers -> Nat]
           /\ tries' \in [Writers -> Nat]
<1>1. pc' \in [Writers -> Locations] /\ pc' = [pc EXCEPT ![w] = "idle"]
  BY DEF TypeOK, Leave, Goto, Locations
<1>2. mode' \in [Writers -> {"none", "submit", "commit"}]
  BY DEF TypeOK, Leave
<1>3. job' \in [Writers -> Seq(Events)] /\ job' = [job EXCEPT ![w] = <<>>]
  BY DEF TypeOK, Leave
<1>4. view' \in [Writers -> Logs] /\ cache' \in [Writers -> Fingerprints]
  BY ResetTypes DEF TypeOK, Leave
<1>5. seqno' \in [Writers -> Nat] /\ tries' \in [Writers -> Nat]
  BY DEF TypeOK, Leave
<1> QED BY <1>1, <1>2, <1>3, <1>4, <1>5

\* An error keeps types and gives the lock back exactly when the writer had it.
LEMMA FailTypes ==
    ASSUME TypeOK, NEW w \in Writers, Fail(w)
    PROVE  TypeOK'
<1>1. \A v \in Writers : pc'[v] # "idle" => job'[v] # <<>>
  BY LeaveTypes DEF TypeOK, Fail
<1>2. \A v \in Writers : pc'[v] \in Locked <=> lock' = v
  BY LeaveTypes, WritersAssumption DEF TypeOK, Fail, Locked
<1>3. lock' \in Writers \cup {Free, Orphaned}
  BY DEF TypeOK, Fail
<1> QED BY <1>1, <1>2, <1>3, LeaveTypes DEF TypeOK, Fail

\* A confirmation keeps types, whether the call returns or goes on with the next event.
LEMMA ConfirmTypes ==
    ASSUME TypeOK, NEW w \in Writers, pc[w] \in Locked,
           NEW fingerprint \in Fingerprints, Confirm(w, fingerprint)
    PROVE  TypeOK'
<1>0. pc[w] # "idle" /\ job[w] \in Seq(Events) /\ job[w] # <<>> /\ lock = w
  BY DEF TypeOK, Locked
<1>1. confirmed' \subseteq Events
  BY <1>0 DEF TypeOK, Confirm, Current
<1>2. CASE Tail(job[w]) = <<>>
  <2>1. Leave(w) /\ lock' = Free /\ imported' \in BOOLEAN
    BY <1>2 DEF TypeOK, Confirm
  <2>2. \A v \in Writers : pc'[v] # "idle" => job'[v] # <<>>
    BY <2>1, LeaveTypes DEF TypeOK
  <2>3. ASSUME NEW v \in Writers PROVE pc'[v] \in Locked <=> lock' = v
    <3>1. lock' # v /\ (v # w => lock # v)
      BY <2>1, <1>0, WritersAssumption
    <3>2. pc'[v] = IF v = w THEN "idle" ELSE pc[v]
      BY <2>1, LeaveTypes DEF TypeOK
    <3> QED BY <3>1, <3>2 DEF TypeOK, Locked
  <2> QED BY <1>1, <2>1, <2>2, <2>3, LeaveTypes DEF TypeOK, Confirm
<1>3. CASE Tail(job[w]) # <<>>
  <2>1. Tail(job[w]) \in Seq(Events)
    BY <1>0, HeadTailProperties
  <2>2. /\ pc' = [pc EXCEPT ![w] = "confirm"]
        /\ job' = [job EXCEPT ![w] = Tail(@)]
        /\ cache' = [cache EXCEPT ![w] = fingerprint]
        /\ seqno' = [seqno EXCEPT ![w] = 0]
        /\ tries' = [tries EXCEPT ![w] = 0]
        /\ UNCHANGED <<imported, mode, view, lock, rows, resends, crashes>>
    BY <1>3, Zenon DEF Confirm, Goto
  <2>3. pc' \in [Writers -> Locations] /\ job' \in [Writers -> Seq(Events)]
    BY <2>1, <2>2 DEF TypeOK, Locations, Locked
  <2>4. \A v \in Writers : pc'[v] # "idle" => job'[v] # <<>>
    BY <1>3, <2>2 DEF TypeOK
  <2>5. \A v \in Writers : pc'[v] \in Locked <=> lock' = v
    BY <1>0, <2>2 DEF TypeOK, Locked
  <2> QED BY <1>1, <2>2, <2>3, <2>4, <2>5 DEF TypeOK
<1> QED BY <1>2, <1>3

-----------------------------------------------------------------------------
\* The largest Seq of a tab that misses none is their number.
LEMMA MaxSeqOfInterval ==
    ASSUME NEW s \in Seq(EventRow), NEW k \in Nat, SeqsIn(s) = 1..k
    PROVE  LiveMaxSeq(s) = k
<1>1. k \in SeqsIn(s) \cup {0} /\ \A n \in SeqsIn(s) : n <= k
  OBVIOUS
<1>2. ASSUME NEW m \in SeqsIn(s) \cup {0}, \A n \in SeqsIn(s) : n <= m
      PROVE  m = k
  BY <1>1, <1>2
<1> QED BY <1>1, <1>2 DEF LiveMaxSeq

\* Appending a row adds its Seq.
LEMMA SeqsOfAppend ==
    ASSUME NEW s \in Seq(EventRow), NEW r \in EventRow
    PROVE  SeqsIn(Append(s, r)) = SeqsIn(s) \cup {r.seq}
<1>1. /\ DOMAIN s = 1..Len(s) /\ DOMAIN Append(s, r) = 1..Len(s) + 1
      /\ \A i \in 1..Len(s) : Append(s, r)[i] = s[i]
      /\ Append(s, r)[Len(s) + 1] = r
      /\ Len(s) \in Nat
  BY AppendProperties, LenProperties
<1> QED BY <1>1 DEF SeqsIn

\* A new event under the next Seq keeps a tab sound.
LEMMA AppendNewIsSound ==
    ASSUME NEW s \in Seq(EventRow), NoSeqMissing(s), OneSeqPerEvent(s),
           NEW r \in EventRow, r.seq = LiveMaxSeq(s) + 1,
           \A i \in DOMAIN s : s[i].event # r.event
    PROVE  NoSeqMissing(Append(s, r)) /\ OneSeqPerEvent(Append(s, r))
<1>1. PICK k \in 0..Len(s) : SeqsIn(s) = 1..k
  BY DEF NoSeqMissing
<1>2. k \in Nat /\ k <= Len(s) /\ Len(s) \in Nat
  BY <1>1
<1>3. r.seq = k + 1
  BY <1>1, <1>2, MaxSeqOfInterval
<1>4. /\ DOMAIN s = 1..Len(s) /\ DOMAIN Append(s, r) = 1..Len(s) + 1
      /\ \A i \in 1..Len(s) : Append(s, r)[i] = s[i]
      /\ Append(s, r)[Len(s) + 1] = r
      /\ Len(Append(s, r)) = Len(s) + 1
  BY AppendProperties, LenProperties
<1>5. SeqsIn(Append(s, r)) = 1..k + 1
  <2>1. SeqsIn(Append(s, r)) = (1..k) \cup {k + 1}
    BY <1>1, <1>3, SeqsOfAppend
  <2>2. (1..k) \cup {k + 1} = 1..k + 1
    BY <1>2
  <2> QED BY <2>1, <2>2
<1>6. NoSeqMissing(Append(s, r))
  BY <1>2, <1>4, <1>5 DEF NoSeqMissing
<1>7. \A i \in DOMAIN s : s[i].seq # r.seq
  <2>1. \A i \in DOMAIN s : s[i].seq \in 1..k
    BY <1>1 DEF SeqsIn
  <2> QED BY <2>1, <1>2, <1>3
<1>8. OneSeqPerEvent(Append(s, r))
  BY <1>2, <1>4, <1>7 DEF OneSeqPerEvent
<1> QED BY <1>6, <1>8

\* A copy of a row that is there keeps a tab sound.
LEMMA AppendCopyIsSound ==
    ASSUME NEW s \in Seq(EventRow), NoSeqMissing(s), OneSeqPerEvent(s),
           NEW r \in EventRow, NEW i \in DOMAIN s, s[i] = r
    PROVE  NoSeqMissing(Append(s, r)) /\ OneSeqPerEvent(Append(s, r))
<1>1. PICK k \in 0..Len(s) : SeqsIn(s) = 1..k
  BY DEF NoSeqMissing
<1>2. k \in Nat /\ k <= Len(s) /\ Len(s) \in Nat
  BY <1>1
<1>3. /\ DOMAIN s = 1..Len(s) /\ DOMAIN Append(s, r) = 1..Len(s) + 1
      /\ \A j \in 1..Len(s) : Append(s, r)[j] = s[j]
      /\ Append(s, r)[Len(s) + 1] = r
      /\ Len(Append(s, r)) = Len(s) + 1
  BY AppendProperties, LenProperties
<1>4. SeqsIn(Append(s, r)) = 1..k
  <2>1. r.seq \in SeqsIn(s)
    BY DEF SeqsIn
  <2> QED BY <1>1, <2>1, SeqsOfAppend
<1>5. NoSeqMissing(Append(s, r))
  BY <1>2, <1>3, <1>4 DEF NoSeqMissing
<1>6. OneSeqPerEvent(Append(s, r))
  BY <1>2, <1>3 DEF OneSeqPerEvent
<1> QED BY <1>5, <1>6

-----------------------------------------------------------------------------
\* What a writer knows of the row it is about to append: it is a new event under the
\* next Seq, or a copy of what a first attempt put there.  Once answered, it is there.
PendingRowOf(w) ==
    /\ pc[w] = "assign" => ~Has(rows, Current(w))
    /\ pc[w] = "post" =>
           \/ /\ ~Has(rows, Current(w))
              /\ seqno[w] = LiveMaxSeq(rows[TabOf[Current(w)]]) + 1
           \/ \E i \in DOMAIN rows[TabOf[Current(w)]] :
                  rows[TabOf[Current(w)]][i] = Row(w)
    /\ pc[w] \in {"verify", "reload"} => Has(rows, Current(w))

PendingRow == \A w \in Writers : PendingRowOf(w)

IInv == TypeOK /\ DoubledRowsAreCopies /\ PendingRow

\* The event in hand is an event, its row a row and its tab a tab.
LEMMA CurrentTypes ==
    ASSUME TypeOK, NEW w \in Writers, pc[w] # "idle"
    PROVE  /\ Current(w) \in Events /\ Row(w) \in EventRow
           /\ TabOf[Current(w)] \in Tabs
           /\ rows[TabOf[Current(w)]] \in Seq(EventRow)
<1>1. job[w] \in Seq(Events) /\ job[w] # <<>> /\ seqno[w] \in Nat
  BY DEF TypeOK
<1>2. Current(w) \in Events
  BY <1>1 DEF Current
<1> QED BY <1>1, <1>2, TabOfAssumption DEF Row, EventRow, TypeOK, Logs

\* The next Seq of a sound tab is a number.
LEMMA NextSeqType ==
    ASSUME TypeOK, DoubledRowsAreCopies, NEW t \in Tabs
    PROVE  LiveMaxSeq(rows[t]) \in Nat
<1>1. rows[t] \in Seq(EventRow)
  BY DEF TypeOK, Logs
<1>2. PICK k \in 0..Len(rows[t]) : SeqsIn(rows[t]) = 1..k
  BY DEF DoubledRowsAreCopies, NoSeqMissing
<1>3. k \in Nat
  BY <1>2
<1> QED BY <1>1, <1>2, <1>3, MaxSeqOfInterval

\* Landing the row in hand keeps every tab sound.
LEMMA LandingIsSound ==
    ASSUME IInv, NEW w \in Writers, pc[w] = "post", Landing(w)
    PROVE  DoubledRowsAreCopies' /\ rows' \in Logs
<1> DEFINE u == TabOf[Current(w)]
<1>1. /\ Row(w) \in EventRow /\ u \in Tabs /\ rows[u] \in Seq(EventRow)
      /\ NoSeqMissing(rows[u]) /\ OneSeqPerEvent(rows[u])
  BY CurrentTypes DEF IInv, DoubledRowsAreCopies
<1>2. NoSeqMissing(Append(rows[u], Row(w))) /\ OneSeqPerEvent(Append(rows[u], Row(w)))
  <2>1. CASE ~Has(rows, Current(w)) /\ seqno[w] = LiveMaxSeq(rows[u]) + 1
    <3>1. \A i \in DOMAIN rows[u] : rows[u][i].event # Row(w).event
      BY <2>1 DEF Has, Row
    <3>2. Row(w).seq = LiveMaxSeq(rows[u]) + 1
      BY <2>1 DEF Row
    <3> QED BY <1>1, <3>1, <3>2, AppendNewIsSound
  <2>2. CASE \E i \in DOMAIN rows[u] : rows[u][i] = Row(w)
    BY <1>1, <2>2, AppendCopyIsSound
  <2> QED BY <2>1, <2>2 DEF IInv, PendingRow, PendingRowOf
<1>3. rows' = [rows EXCEPT ![u] = Append(rows[u], Row(w))] /\ rows \in Logs
  BY DEF Landing, IInv, TypeOK
<1>4. rows' \in Logs
  BY <1>1, <1>3 DEF Logs
<1>5. DoubledRowsAreCopies'
  <2> SUFFICES ASSUME NEW t \in Tabs
               PROVE  NoSeqMissing(rows'[t]) /\ OneSeqPerEvent(rows'[t])
    BY DEF DoubledRowsAreCopies
  <2>1. CASE t = u
    BY <1>1, <1>2, <1>3, <2>1 DEF Logs
  <2>2. CASE t # u
    BY <1>1, <1>3, <2>2 DEF Logs, IInv, DoubledRowsAreCopies
  <2> QED BY <2>1, <2>2
<1> QED BY <1>4, <1>5

\* The initial state satisfies the invariant.
LEMMA InitIInv == Init => IInv
<1> SUFFICES ASSUME Init PROVE IInv
  OBVIOUS
<1>1. TypeOK
  <2>1. \A w \in Writers : pc[w] = "idle" /\ lock # w
    BY WritersAssumption DEF Init
  <2>2. /\ \A w \in Writers : pc[w] # "idle" => job[w] # <<>>
        /\ \A w \in Writers : pc[w] \in Locked <=> lock = w
    BY <2>1 DEF Locked
  <2>3. pc \in [Writers -> Locations] /\ job \in [Writers -> Seq(Events)]
    BY DEF Init, Locations
  <2> QED BY <2>2, <2>3, ResetTypes DEF Init, TypeOK
<1>2. DoubledRowsAreCopies
  <2>1. \A t \in Tabs : rows[t] = <<>>
    BY DEF Init, EmptyLog
  <2>2. SeqsIn(<<>>) = 1..0 /\ 0 \in 0..Len(<<>>)
    BY DEF SeqsIn
  <2>3. NoSeqMissing(<<>>) /\ OneSeqPerEvent(<<>>)
    BY <2>2 DEF NoSeqMissing, OneSeqPerEvent
  <2> QED BY <2>1, <2>3 DEF DoubledRowsAreCopies
<1>3. PendingRow
  BY DEF Init, PendingRow, PendingRowOf
<1> QED BY <1>1, <1>2, <1>3 DEF IInv

\* Every step keeps the types and the lock discipline.
LEMMA TypeStep == IInv /\ [Next]_vars => TypeOK'
<1> SUFFICES ASSUME IInv, [Next]_vars PROVE TypeOK'
  OBVIOUS
<1> USE DEF IInv
<1>1. CASE Reclaim
  BY <1>1, WritersAssumption DEF TypeOK, Reclaim, local
<1>2. ASSUME NEW w \in Writers, NEW e \in Submittable, Submit(w, e) PROVE TypeOK'
  BY <1>2, EventsAssumption DEF TypeOK, Submit, Goto, Locations, Locked
<1>3. ASSUME NEW w \in Writers, Validate(w) PROVE TypeOK'
  BY <1>3, FailTypes, ProbeType DEF TypeOK, Validate, Goto, Locations, Locked
<1>4. ASSUME NEW w \in Writers, Commit(w) PROVE TypeOK'
  BY <1>4, EventsAssumption DEF TypeOK, Commit, Goto, Locations, Locked
<1>5. ASSUME NEW w \in Writers, Acquire(w) PROVE TypeOK'
  BY <1>5, FailTypes, WritersAssumption DEF TypeOK, Acquire, Goto, Locations, Locked
<1>6. ASSUME NEW w \in Writers, CheckTarget(w) PROVE TypeOK'
  BY <1>6, FailTypes DEF TypeOK, CheckTarget, Goto, Locations, Locked
<1>7. ASSUME NEW w \in Writers, ConfirmCurrency(w) PROVE TypeOK'
  <2>1. ASSUME Goto(w, "lookup"), cache' = [cache EXCEPT ![w] = Probe(rows)],
               view' = [view EXCEPT ![w] = EmptyLog],
               UNCHANGED <<rows, confirmed, imported, lock, mode, job, seqno, tries,
                           resends, crashes>>
        PROVE TypeOK'
    <3>1. cache' \in [Writers -> Fingerprints] /\ view' \in [Writers -> Logs]
      BY <2>1, ProbeType, ResetTypes DEF TypeOK
    <3>2. pc[w] = "confirm" /\ pc' = [pc EXCEPT ![w] = "lookup"]
      BY <1>7, <2>1 DEF ConfirmCurrency, Goto
    <3> QED BY <2>1, <3>1, <3>2 DEF TypeOK, Locations, Locked
  <2> QED BY <1>7, <2>1, FailTypes DEF ConfirmCurrency
<1>8. ASSUME NEW w \in Writers, Lookup(w) PROVE TypeOK'
  <2>1. pc[w] \in Locked /\ cache[w] \in Fingerprints
    BY <1>8 DEF TypeOK, Lookup, Locked
  <2> QED BY <1>8, <2>1, ConfirmTypes DEF TypeOK, Lookup, Goto, Locations, Locked
<1>9. ASSUME NEW w \in Writers, AssignSeq(w) PROVE TypeOK'
  <2>1. LiveMaxSeq(rows[TabOf[Current(w)]]) + 1 \in Nat
    BY <1>9, CurrentTypes, NextSeqType DEF AssignSeq
  <2>2. seqno' \in [Writers -> Nat]
    BY <1>9, <2>1 DEF AssignSeq, TypeOK
  <2> QED BY <1>9, <2>2 DEF TypeOK, AssignSeq, Goto, Locations, Locked
<1>10. ASSUME NEW w \in Writers, PostAnswered(w) PROVE TypeOK'
  BY <1>10, LandingIsSound DEF TypeOK, PostAnswered, Goto, Locations, Locked
<1>11. ASSUME NEW w \in Writers, PostFails(w) PROVE TypeOK'
  <2>1. CASE /\ tries' = [tries EXCEPT ![w] = @ + 1]
             /\ UNCHANGED <<rows, confirmed, imported, lock, pc, mode, job, view, cache,
                            seqno, resends, crashes>>
    BY <1>11, <2>1 DEF TypeOK
  <2> QED BY <1>11, <2>1, FailTypes DEF PostFails
<1>12. ASSUME NEW w \in Writers, PostUnheard(w) PROVE TypeOK'
  <2>1. rows' \in Logs /\ lock = w
    BY <1>12, LandingIsSound DEF PostUnheard, TypeOK, Locked
  <2>2. CASE /\ resends' = resends + 1 /\ tries' = [tries EXCEPT ![w] = @ + 1]
             /\ UNCHANGED <<lock, pc, mode, job, view, cache, seqno>>
    BY <1>12, <2>1, <2>2 DEF PostUnheard, TypeOK
  <2>3. CASE Leave(w) /\ lock' = Free /\ UNCHANGED resends
    <3>1. \A v \in Writers : pc'[v] # "idle" => job'[v] # <<>>
      BY <2>3, LeaveTypes DEF TypeOK
    <3>2. ASSUME NEW v \in Writers PROVE pc'[v] \in Locked <=> lock' = v
      <4>1. lock' # v /\ (v # w => lock # v)
        BY <2>1, <2>3, WritersAssumption
      <4>2. pc'[v] = IF v = w THEN "idle" ELSE pc[v]
        BY <2>3, LeaveTypes DEF TypeOK
      <4> QED BY <4>1, <4>2 DEF TypeOK, Locked
    <3> QED BY <1>12, <2>1, <2>3, <3>1, <3>2, LeaveTypes DEF PostUnheard, TypeOK
  <2> QED BY <1>12, <2>2, <2>3 DEF PostUnheard
<1>13. ASSUME NEW w \in Writers, ReadBack(w) PROVE TypeOK'
  <2>1. CASE Goto(w, "reload") /\ UNCHANGED <<rows, confirmed, imported, lock, mode, job,
                                    view, cache, seqno, tries, resends, crashes>>
    BY <1>13, <2>1 DEF TypeOK, ReadBack, Goto, Locations, Locked
  <2> QED BY <1>13, <2>1, FailTypes DEF ReadBack
<1>14. ASSUME NEW w \in Writers, Reload(w) PROVE TypeOK'
  BY <1>14, FailTypes, ConfirmTypes, ProbeType DEF TypeOK, Reload, Locked
<1>15. ASSUME NEW w \in Writers, Unreachable(w) PROVE TypeOK'
  BY <1>15, FailTypes DEF Unreachable
<1>16. ASSUME NEW w \in Writers, Crash(w) PROVE TypeOK'
  <2>1. \A v \in Writers : pc'[v] # "idle" => job'[v] # <<>>
    BY <1>16, LeaveTypes DEF TypeOK, Crash
  <2>2. ASSUME NEW v \in Writers PROVE pc'[v] \in Locked <=> lock' = v
    <3>1. pc'[v] = IF v = w THEN "idle" ELSE pc[v]
      BY <1>16, LeaveTypes DEF TypeOK, Crash
    <3>2. lock' = IF lock = w THEN Orphaned ELSE lock
      BY <1>16 DEF Crash
    <3> QED BY <3>1, <3>2, WritersAssumption DEF TypeOK, Locked
  <2>3. lock' \in Writers \cup {Free, Orphaned} /\ crashes' \in Nat
    BY <1>16 DEF Crash, TypeOK
  <2> QED BY <1>16, <2>1, <2>2, <2>3, LeaveTypes DEF Crash, TypeOK
<1>17. CASE UNCHANGED vars
  BY <1>17 DEF TypeOK, vars, local
<1> QED BY <1>1, <1>2, <1>3, <1>4, <1>5, <1>6, <1>7, <1>8, <1>9, <1>10, <1>11, <1>12,
           <1>13, <1>14, <1>15, <1>16, <1>17 DEF Next, Step

-----------------------------------------------------------------------------
\* Only the landing of a writer's own row touches a tab.
LEMMA RowsStepOf ==
    ASSUME NEW w \in Writers, Step(w) \/ \E e \in Submittable : Submit(w, e)
    PROVE  rows' = rows \/ (pc[w] = "post" /\ Landing(w))
<1>1. ASSUME Fail(w) PROVE rows' = rows
  BY <1>1 DEF Fail
<1>2. ASSUME NEW f, Confirm(w, f) PROVE rows' = rows
  BY <1>2 DEF Confirm
<1>3. CASE PostAnswered(w) \/ PostUnheard(w)
  BY <1>3 DEF PostAnswered, PostUnheard
<1>4. CASE Validate(w) \/ Commit(w) \/ Acquire(w) \/ CheckTarget(w)
  BY <1>1, <1>4 DEF Validate, Commit, Acquire, CheckTarget
<1>5. CASE ConfirmCurrency(w) \/ AssignSeq(w) \/ PostFails(w) \/ ReadBack(w)
  BY <1>1, <1>5 DEF ConfirmCurrency, AssignSeq, PostFails, ReadBack
<1>6. CASE Lookup(w) \/ Reload(w)
  BY <1>1, <1>2, <1>6 DEF Lookup, Reload
<1>7. CASE Unreachable(w) \/ Crash(w)
  BY <1>1, <1>7 DEF Unreachable, Crash
<1>8. CASE \E e \in Submittable : Submit(w, e)
  BY <1>8 DEF Submit
<1> QED BY <1>3, <1>4, <1>5, <1>6, <1>7, <1>8 DEF Step

\* A step is a step of one writer, or touches no row and no writer.
LEMMA StepOfOne ==
    ASSUME [Next]_vars
    PROVE  \/ \E w \in Writers : Step(w) \/ \E e \in Submittable : Submit(w, e)
           \/ UNCHANGED <<rows, confirmed, local, resends>>
BY DEF Next, Reclaim, vars, local

\* Every step keeps every tab sound but for copies.
LEMMA SoundStep == IInv /\ [Next]_vars => DoubledRowsAreCopies'
<1> SUFFICES ASSUME IInv, [Next]_vars PROVE DoubledRowsAreCopies'
  OBVIOUS
<1>1. CASE rows' = rows
  BY <1>1 DEF IInv, DoubledRowsAreCopies
<1>2. CASE \E w \in Writers : pc[w] = "post" /\ Landing(w)
  BY <1>2, LandingIsSound
<1> QED BY <1>1, <1>2, StepOfOne, RowsStepOf

-----------------------------------------------------------------------------
\* A writer's step leaves the locals of the others alone.
LEMMA OthersUntouched ==
    ASSUME TypeOK, NEW w \in Writers, Step(w) \/ \E e \in Submittable : Submit(w, e),
           NEW v \in Writers, v # w
    PROVE  pc'[v] = pc[v] /\ job'[v] = job[v] /\ seqno'[v] = seqno[v]
<1> DEFINE Kept == pc'[v] = pc[v] /\ job'[v] = job[v] /\ seqno'[v] = seqno[v]
<1>0. ASSUME Leave(w) PROVE Kept
  BY <1>0 DEF TypeOK, Leave, Goto
<1>1. ASSUME Fail(w) PROVE Kept
  BY <1>0, <1>1 DEF Fail
<1>2. ASSUME NEW f, Confirm(w, f) PROVE Kept
  BY <1>0, <1>2 DEF TypeOK, Confirm, Goto
<1>3. CASE Validate(w) \/ Commit(w) \/ Acquire(w) \/ CheckTarget(w)
  BY <1>1, <1>3 DEF TypeOK, Goto, Validate, Commit, Acquire, CheckTarget
<1>4. CASE ConfirmCurrency(w) \/ AssignSeq(w) \/ PostFails(w) \/ ReadBack(w)
  BY <1>1, <1>4 DEF TypeOK, Goto, ConfirmCurrency, AssignSeq, PostFails, ReadBack
<1>5. CASE Lookup(w) \/ Reload(w)
  BY <1>1, <1>2, <1>5 DEF TypeOK, Goto, Lookup, Reload
<1>6. CASE PostAnswered(w) \/ PostUnheard(w)
  BY <1>0, <1>6 DEF TypeOK, Goto, PostAnswered, PostUnheard
<1>7. CASE Unreachable(w) \/ Crash(w)
  BY <1>0, <1>1, <1>7 DEF Unreachable, Crash
<1>8. ASSUME NEW e \in Submittable, Submit(w, e) PROVE Kept
  BY <1>8 DEF TypeOK, Submit, Goto
<1> QED BY <1>3, <1>4, <1>5, <1>6, <1>7, <1>8 DEF Step

\* A landed row is the last of its tab.
LEMMA LandedIsThere ==
    ASSUME TypeOK, NEW w \in Writers, pc[w] = "post", Landing(w)
    PROVE  \E i \in DOMAIN rows'[TabOf[Current(w)]] : rows'[TabOf[Current(w)]][i] = Row(w)
<1> DEFINE u == TabOf[Current(w)]
<1>1. Row(w) \in EventRow /\ u \in Tabs /\ rows[u] \in Seq(EventRow)
  BY CurrentTypes
<1>2. rows'[u] = Append(rows[u], Row(w))
  BY <1>1 DEF Landing, TypeOK, Logs
<1>3. /\ DOMAIN Append(rows[u], Row(w)) = 1..Len(rows[u]) + 1
      /\ Append(rows[u], Row(w))[Len(rows[u]) + 1] = Row(w)
      /\ Len(rows[u]) \in Nat
  BY <1>1, AppendProperties, LenProperties
<1>4. Len(rows[u]) + 1 \in 1..Len(rows[u]) + 1
  BY <1>3
<1> QED BY <1>2, <1>3, <1>4

\* A writer's own step keeps what it knows of its row.
LEMMA OwnPendingStep ==
    ASSUME IInv, NEW w \in Writers, Step(w) \/ \E e \in Submittable : Submit(w, e)
    PROVE  PendingRowOf(w)'
<1> USE DEF IInv
<1> DEFINE Elsewhere == pc'[w] \notin {"assign", "post", "verify", "reload"}
<1>0. ASSUME Elsewhere PROVE PendingRowOf(w)'
  BY <1>0 DEF PendingRowOf
<1>1. ASSUME Leave(w) PROVE Elsewhere
  BY <1>1, LeaveTypes
<1>2. ASSUME Fail(w) PROVE Elsewhere
  BY <1>1, <1>2 DEF Fail
<1>3. ASSUME NEW f, Confirm(w, f) PROVE Elsewhere
  BY <1>1, <1>3 DEF TypeOK, Confirm, Goto
<1>4. ASSUME UNCHANGED <<rows, pc, job, seqno>> PROVE PendingRowOf(w)'
  BY <1>4 DEF PendingRow, PendingRowOf, Has, Current, Row
<1>5. CASE Validate(w) \/ Commit(w) \/ Acquire(w) \/ CheckTarget(w) \/ ConfirmCurrency(w)
  <2>1. Elsewhere
    BY <1>2, <1>5 DEF TypeOK, Goto, Validate, Commit, Acquire, CheckTarget, ConfirmCurrency
  <2> QED BY <1>0, <2>1
<1>6. CASE \E e \in Submittable : Submit(w, e)
  <2>1. Elsewhere
    BY <1>6 DEF TypeOK, Goto, Submit
  <2> QED BY <1>0, <2>1
<1>7. CASE Unreachable(w) \/ Crash(w)
  BY <1>0, <1>1, <1>2, <1>7 DEF Unreachable, Crash
<1>8. CASE Lookup(w)
  <2>1. CASE Confirm(w, cache[w])
    BY <1>0, <1>3, <2>1
  <2>2. CASE ~Has(rows, Current(w)) /\ Goto(w, "assign") /\ UNCHANGED <<rows, job>>
    <3>1. pc'[w] = "assign" /\ rows' = rows /\ Current(w)' = Current(w)
      BY <2>2 DEF TypeOK, Goto, Current
    <3> QED BY <2>2, <3>1 DEF PendingRowOf, Has
  <2> QED BY <1>8, <2>1, <2>2 DEF Lookup
<1>9. CASE AssignSeq(w)
  <2>1. /\ pc'[w] = "post" /\ rows' = rows /\ Current(w)' = Current(w)
        /\ seqno'[w] = LiveMaxSeq(rows[TabOf[Current(w)]]) + 1
    BY <1>9 DEF TypeOK, Goto, Current, AssignSeq
  <2>2. ~Has(rows, Current(w))
    BY <1>9 DEF AssignSeq, PendingRow, PendingRowOf
  <2> QED BY <2>1, <2>2 DEF PendingRowOf, Has
<1>10. CASE PostAnswered(w)
  <2>1. /\ \E i \in DOMAIN rows'[TabOf[Current(w)]] : rows'[TabOf[Current(w)]][i] = Row(w)
        /\ pc'[w] = "verify" /\ Current(w)' = Current(w)
    BY <1>10, LandedIsThere DEF TypeOK, PostAnswered, Goto, Current
  <2> QED BY <2>1 DEF PendingRowOf, Has, Row
<1>11. CASE PostFails(w)
  BY <1>0, <1>2, <1>4, <1>11 DEF PostFails
<1>12. CASE PostUnheard(w)
  <2>1. CASE UNCHANGED <<lock, pc, mode, job, view, cache, seqno>>
    <3>1. /\ \E i \in DOMAIN rows'[TabOf[Current(w)]] : rows'[TabOf[Current(w)]][i] = Row(w)
          /\ pc'[w] = "post" /\ Current(w)' = Current(w) /\ Row(w)' = Row(w)
      BY <1>12, <2>1, LandedIsThere DEF PostUnheard, Current, Row
    <3> QED BY <3>1 DEF PendingRowOf
  <2> QED BY <1>0, <1>1, <1>12, <2>1 DEF PostUnheard
<1>13. CASE ReadBack(w)
  <2>1. CASE Fail(w)
    BY <1>0, <1>2, <2>1
  <2>2. CASE Goto(w, "reload") /\ UNCHANGED <<rows, job>>
    <3>1. pc'[w] = "reload" /\ rows' = rows /\ Current(w)' = Current(w)
      BY <2>2 DEF TypeOK, Goto, Current
    <3>2. Has(rows, Current(w))
      BY <1>13 DEF ReadBack, PendingRow, PendingRowOf
    <3> QED BY <3>1, <3>2 DEF PendingRowOf, Has
  <2> QED BY <1>13, <2>1, <2>2 DEF ReadBack
<1>14. CASE Reload(w)
  BY <1>0, <1>2, <1>3, <1>14 DEF Reload
<1> QED BY <1>5, <1>6, <1>7, <1>8, <1>9, <1>10, <1>11, <1>12, <1>13, <1>14 DEF Step

\* Every step keeps what the writers know of their rows: the others hold no lock while
\* a writer does, so they neither know anything nor append.
LEMMA PendingStep == IInv /\ [Next]_vars => PendingRow'
<1> SUFFICES ASSUME IInv, [Next]_vars PROVE PendingRow'
  OBVIOUS
<1> USE DEF IInv
<1>1. ASSUME NEW w \in Writers, Step(w) \/ \E e \in Submittable : Submit(w, e),
             NEW v \in Writers
      PROVE  PendingRowOf(v)'
  <2>1. CASE v = w
    BY <1>1, <2>1, OwnPendingStep
  <2>2. CASE v # w /\ pc[v] \in Locked
    <3>1. pc[w] # "post"
      BY <2>2 DEF TypeOK, Locked
    <3>2. rows' = rows
      BY <1>1, <3>1, RowsStepOf
    <3>3. pc'[v] = pc[v] /\ Current(v)' = Current(v) /\ Row(v)' = Row(v)
          /\ seqno'[v] = seqno[v]
      BY <1>1, <2>2, OthersUntouched DEF Current, Row
    <3> QED BY <3>2, <3>3 DEF PendingRow, PendingRowOf, Has
  <2>3. CASE v # w /\ pc[v] \notin Locked
    BY <1>1, <2>3, OthersUntouched DEF PendingRowOf, Locked
  <2> QED BY <2>1, <2>2, <2>3
<1>2. CASE UNCHANGED <<rows, confirmed, local, resends>>
  BY <1>2 DEF local, PendingRow, PendingRowOf, Has, Current, Row
<1> QED BY <1>1, <1>2, StepOfOne DEF PendingRow

-----------------------------------------------------------------------------
\* The inductive invariant holds in every reachable state.
THEOREM Invariance == Spec => []IInv
<1>1. IInv /\ [Next]_vars => IInv'
  BY TypeStep, SoundStep, PendingStep DEF IInv
<1> QED BY <1>1, InitIInv, PTL DEF Spec

\* The variables keep their types, and a writer is between acquiring the lock and
\* returning exactly while the lock is its own: no error path keeps it, no step of
\* another writer takes it.
THEOREM TypeCorrect == Spec => []TypeOK
<1>1. IInv => TypeOK
  BY DEF IInv
<1> QED BY <1>1, Invariance, PTL

\* However many requests are resent after they landed, and whoever fails or crashes,
\* the only damage to a tab is a copy of a row that is there: no Seq is missing, and no
\* Seq is given to two events.
THEOREM ResendsOnlyCopy == Spec => []DoubledRowsAreCopies
<1>1. IInv => DoubledRowsAreCopies
  BY DEF IInv
<1> QED BY <1>1, Invariance, PTL

-----------------------------------------------------------------------------
(***************************************************************************)
(* A client that never resends a request that landed: no tab is damaged,   *)
(* and the store is the append-only log it promises to be.                 *)
(***************************************************************************)
\* The row in hand is no row of its tab yet.
FirstAttempt == \A w \in Writers : pc[w] = "post" => ~Has(rows, Current(w))

OnceInv == IInv /\ FirstAttempt /\ SeqIsDense /\ resends = 0

\* The largest Seq of a dense tab is its length.
LEMMA MaxSeqOfDense ==
    ASSUME NEW s \in Seq(EventRow), \A i \in DOMAIN s : s[i].seq = i
    PROVE  LiveMaxSeq(s) = Len(s)
<1>1. SeqsIn(s) = 1..Len(s) /\ Len(s) \in Nat
  BY LenProperties DEF SeqsIn
<1> QED BY <1>1, MaxSeqOfInterval

\* Without resends, a first attempt stays one until it is answered or given up.
LEMMA FirstAttemptStep ==
    ASSUME MaxResends = 0, OnceInv, [Next]_vars
    PROVE  FirstAttempt' /\ resends' = 0
<1> USE DEF OnceInv, IInv
<1>1. ASSUME NEW w \in Writers, Step(w) \/ \E e \in Submittable : Submit(w, e)
      PROVE  /\ resends' = 0
             /\ pc'[w] = "post" => ~Has(rows', Current(w)')
  <2>1. ASSUME Leave(w) PROVE pc'[w] # "post"
    BY <2>1, LeaveTypes
  <2>2. ASSUME Fail(w) PROVE pc'[w] # "post" /\ resends' = 0
    BY <2>1, <2>2 DEF Fail
  <2>3. ASSUME NEW f, Confirm(w, f) PROVE pc'[w] # "post" /\ resends' = 0
    BY <2>1, <2>3 DEF TypeOK, Confirm, Goto
  <2>4. CASE Validate(w) \/ Commit(w) \/ Acquire(w) \/ CheckTarget(w) \/ ConfirmCurrency(w)
    BY <2>2, <2>4 DEF TypeOK, Goto, Validate, Commit, Acquire, CheckTarget, ConfirmCurrency
  <2>5. CASE Lookup(w) \/ Reload(w) \/ ReadBack(w)
    BY <2>2, <2>3, <2>5 DEF TypeOK, Goto, Lookup, Reload, ReadBack
  <2>6. CASE AssignSeq(w)
    <3>1. rows' = rows /\ Current(w)' = Current(w) /\ resends' = 0
      BY <2>6 DEF AssignSeq, Current
    <3>2. ~Has(rows, Current(w))
      BY <2>6 DEF AssignSeq, PendingRow, PendingRowOf
    <3> QED BY <3>1, <3>2 DEF Has
  <2>7. CASE PostAnswered(w)
    BY <2>7 DEF TypeOK, Goto, PostAnswered
  <2>8. CASE PostFails(w)
    <3>1. CASE UNCHANGED <<rows, pc, job, resends>>
      BY <2>8, <3>1 DEF FirstAttempt, PostFails, Has, Current
    <3> QED BY <2>2, <2>8, <3>1 DEF PostFails
  <2>9. CASE PostUnheard(w)
    <3>1. ~(resends < MaxResends)
      OBVIOUS
    <3> QED BY <2>1, <2>9, <3>1 DEF PostUnheard
  <2>10. CASE Unreachable(w) \/ Crash(w)
    BY <2>1, <2>2, <2>10 DEF Unreachable, Crash
  <2>11. CASE \E e \in Submittable : Submit(w, e)
    BY <2>11 DEF TypeOK, Goto, Submit
  <2> QED BY <1>1, <2>4, <2>5, <2>6, <2>7, <2>8, <2>9, <2>10, <2>11 DEF Step
<1>2. ASSUME NEW w \in Writers, Step(w) \/ \E e \in Submittable : Submit(w, e),
             NEW v \in Writers, v # w, pc'[v] = "post"
      PROVE  ~Has(rows', Current(v)')
  <2>1. pc[v] = "post" /\ Current(v)' = Current(v)
    BY <1>2, OthersUntouched DEF Current
  <2>2. rows' = rows
    <3>1. pc[w] # "post"
      BY <1>2, <2>1 DEF TypeOK, Locked
    <3> QED BY <1>2, <3>1, RowsStepOf
  <2> QED BY <2>1, <2>2 DEF FirstAttempt, Has
<1>3. CASE UNCHANGED <<rows, confirmed, local, resends>>
  BY <1>3 DEF local, FirstAttempt, Has, Current
<1>4. CASE \E w \in Writers : Step(w) \/ \E e \in Submittable : Submit(w, e)
  <2>1. ASSUME NEW v \in Writers, pc'[v] = "post" PROVE ~Has(rows', Current(v)')
    BY <1>1, <1>2, <1>4, <2>1
  <2>2. FirstAttempt'
    BY <2>1 DEF FirstAttempt, Has
  <2> QED BY <1>1, <1>4, <2>2
<1> QED BY <1>3, <1>4, StepOfOne

\* Landing the next row of a dense tab keeps it dense.
LEMMA DenseStep ==
    ASSUME OnceInv, [Next]_vars
    PROVE  SeqIsDense'
<1> USE DEF OnceInv, IInv
<1>1. CASE rows' = rows
  BY <1>1 DEF SeqIsDense
<1>2. ASSUME NEW w \in Writers, pc[w] = "post", Landing(w) PROVE SeqIsDense'
  <2> DEFINE u == TabOf[Current(w)]
  <2>1. /\ Row(w) \in EventRow /\ u \in Tabs /\ rows[u] \in Seq(EventRow)
        /\ \A i \in DOMAIN rows[u] : rows[u][i].seq = i
    BY <1>2, CurrentTypes DEF SeqIsDense
  <2>2. Row(w).seq = LiveMaxSeq(rows[u]) + 1
    <3>1. Row(w).event = Current(w) /\ Row(w).seq = seqno[w]
      BY DEF Row
    <3>2. ~Has(rows, Current(w))
      BY <1>2 DEF FirstAttempt
    <3>3. ~\E i \in DOMAIN rows[u] : rows[u][i] = Row(w)
      BY <3>1, <3>2 DEF Has
    <3>4. seqno[w] = LiveMaxSeq(rows[u]) + 1
      BY <1>2, <3>2, <3>3 DEF PendingRow, PendingRowOf
    <3> QED BY <3>1, <3>4
  <2>3. Row(w).seq = Len(rows[u]) + 1
    BY <2>1, <2>2, MaxSeqOfDense
  <2>4. /\ DOMAIN rows[u] = 1..Len(rows[u])
        /\ DOMAIN Append(rows[u], Row(w)) = 1..Len(rows[u]) + 1
        /\ \A i \in 1..Len(rows[u]) : Append(rows[u], Row(w))[i] = rows[u][i]
        /\ Append(rows[u], Row(w))[Len(rows[u]) + 1] = Row(w)
        /\ Len(rows[u]) \in Nat
    BY <2>1, AppendProperties, LenProperties
  <2>5. \A i \in DOMAIN Append(rows[u], Row(w)) : Append(rows[u], Row(w))[i].seq = i
    BY <2>1, <2>3, <2>4
  <2>6. \A t \in Tabs : rows'[t] = IF t = u THEN Append(rows[u], Row(w)) ELSE rows[t]
    BY <1>2, <2>1 DEF Landing, TypeOK, Logs
  <2> QED BY <2>5, <2>6 DEF SeqIsDense
<1> QED BY <1>1, <1>2, StepOfOne, RowsStepOf

\* The initial state satisfies the invariant of runs without resends.
LEMMA InitOnceInv == Init => OnceInv
<1> SUFFICES ASSUME Init PROVE OnceInv
  OBVIOUS
<1>1. FirstAttempt /\ resends = 0
  BY DEF Init, FirstAttempt
<1>2. SeqIsDense
  BY DEF Init, EmptyLog, SeqIsDense
<1> QED BY <1>1, <1>2, InitIInv DEF OnceInv

\* Without resends, the stronger invariant holds in every reachable state.
LEMMA OnceInvariance == ASSUME MaxResends = 0 PROVE Spec => []OnceInv
<1>1. OnceInv /\ [Next]_vars => OnceInv'
  <2> SUFFICES ASSUME OnceInv, [Next]_vars PROVE OnceInv'
    OBVIOUS
  <2>1. IInv'
    BY TypeStep, SoundStep, PendingStep DEF IInv, OnceInv
  <2> QED BY <2>1, FirstAttemptStep, DenseStep DEF OnceInv
<1> QED BY <1>1, InitOnceInv, PTL DEF Spec

\* When no request is resent after it landed, the Seqs of every tab are 1, 2, ... in
\* order, for any number of writers, failures and crashes.
THEOREM DenseWithoutResends == ASSUME MaxResends = 0 PROVE Spec => []SeqIsDense
<1>1. OnceInv => SeqIsDense
  BY DEF OnceInv
<1> QED BY <1>1, OnceInvariance, PTL

-----------------------------------------------------------------------------
\* The log that a tab's rows stand for.
Entries(tabRows) == [i \in DOMAIN tabRows |-> tabRows[i].event]

\* Appending a row appends its event.
LEMMA EntriesOfAppend ==
    ASSUME NEW s \in Seq(EventRow), NEW r \in EventRow
    PROVE  Entries(Append(s, r)) = Append(Entries(s), r.event)
<1>1. /\ DOMAIN s = 1..Len(s) /\ DOMAIN Append(s, r) = 1..Len(s) + 1
      /\ \A i \in 1..Len(s) : Append(s, r)[i] = s[i]
      /\ Append(s, r)[Len(s) + 1] = r
      /\ Len(s) \in Nat
  BY AppendProperties, LenProperties
<1>2. \A i \in 1..Len(s) : s[i].event \in Events
  <2>1. \A i \in 1..Len(s) : s[i] \in EventRow
    BY ElementOfSeq
  <2> QED BY <2>1 DEF EventRow
<1>3. Entries(s) \in Seq(Events) /\ Len(Entries(s)) = Len(s) /\ r.event \in Events
  BY <1>1, <1>2, LenProperties DEF Entries, EventRow
<1>4. /\ DOMAIN Append(Entries(s), r.event) = 1..Len(s) + 1
      /\ \A i \in 1..Len(s) : Append(Entries(s), r.event)[i] = s[i].event
      /\ Append(Entries(s), r.event)[Len(s) + 1] = r.event
  BY <1>1, <1>3, AppendProperties, LenProperties DEF Entries
<1>5. \A i \in 1..Len(s) + 1 :
          Entries(Append(s, r))[i] = Append(Entries(s), r.event)[i]
  BY <1>1, <1>4 DEF Entries
<1> QED BY <1>1, <1>3, <1>4, <1>5, AppendProperties DEF Entries

\* A landing is the abstract Land, when the event is new.
LEMMA LandingLands ==
    ASSUME TypeOK, NEW w \in Writers, pc[w] = "post", Landing(w),
           ~Has(rows, Current(w)), UNCHANGED confirmed
    PROVE  Log!Next
<1>0. PICK e \in Events : e = Current(w)
  BY CurrentTypes
<1> DEFINE u == TabOf[e]
           mapped == [t \in Tabs |-> Entries(rows[t])]
<1>1. Row(w) \in EventRow /\ u \in Tabs /\ rows[u] \in Seq(EventRow)
  BY <1>0, CurrentTypes
<1>2. ~Log!Landed(e)
  BY <1>0, <1>1 DEF Log!Landed, Has
<1>3. \A t \in Tabs : rows'[t] = IF t = u THEN Append(rows[u], Row(w)) ELSE rows[t]
  BY <1>0, <1>1 DEF Landing, TypeOK, Logs
<1>4. Entries(Append(rows[u], Row(w))) = Append(Entries(rows[u]), e)
  BY <1>0, <1>1, EntriesOfAppend DEF Row
<1>5. [t \in Tabs |-> Entries(rows'[t])] = [mapped EXCEPT ![u] = Append(mapped[u], e)]
  BY <1>1, <1>3, <1>4
<1>6. Log!Land(e)
  BY <1>2, <1>5, Zenon DEF Log!Land, Entries
<1> QED BY <1>6 DEF Log!Next

\* A confirmation is the abstract Confirm, when the event is there.
LEMMA ConfirmConfirms ==
    ASSUME TypeOK, NEW w \in Writers, pc[w] \in Locked, NEW f, Confirm(w, f),
           Has(rows, Current(w))
    PROVE  Log!Next
<1>1. Current(w) \in Events /\ TabOf[Current(w)] \in Tabs
  BY CurrentTypes DEF Locked
<1>2. Log!Landed(Current(w))
  BY <1>1 DEF Log!Landed, Has
<1>3. confirmed' = confirmed \cup {Current(w)} /\ rows' = rows
  BY DEF Confirm
<1>4. Log!Confirm(Current(w))
  BY <1>2, <1>3 DEF Log!Confirm
<1> QED BY <1>1, <1>4 DEF Log!Next

\* Every step of the store is a step of the log or none.
LEMMA LogStep ==
    ASSUME MaxResends = 0, OnceInv, [Next]_vars
    PROVE  Log!Next \/ UNCHANGED <<rows, confirmed>>
<1> USE DEF OnceInv, IInv
<1>1. ASSUME NEW w \in Writers, Step(w) PROVE Log!Next \/ UNCHANGED <<rows, confirmed>>
  <2>1. ASSUME Fail(w) PROVE UNCHANGED <<rows, confirmed>>
    BY <2>1 DEF Fail
  <2>2. CASE PostAnswered(w) \/ PostUnheard(w)
    <3>1. pc[w] = "post" /\ Landing(w) /\ UNCHANGED confirmed
      BY <2>2 DEF PostAnswered, PostUnheard
    <3> QED BY <3>1, LandingLands DEF FirstAttempt
  <2>3. CASE Validate(w) \/ Commit(w) \/ Acquire(w) \/ CheckTarget(w)
    BY <2>1, <2>3 DEF Validate, Commit, Acquire, CheckTarget
  <2>4. CASE ConfirmCurrency(w) \/ AssignSeq(w) \/ PostFails(w) \/ ReadBack(w)
    BY <2>1, <2>4 DEF ConfirmCurrency, AssignSeq, PostFails, ReadBack
  <2>5. CASE Lookup(w)
    <3>1. CASE Has(rows, Current(w)) /\ Confirm(w, cache[w])
      BY <2>5, <3>1, ConfirmConfirms DEF Lookup, Locked
    <3> QED BY <2>5, <3>1 DEF Lookup
  <2>6. CASE Reload(w)
    <3>1. CASE Confirm(w, Probe(rows))
      <4>1. pc[w] = "reload" /\ Has(rows, Current(w))
        BY <2>6 DEF Reload, PendingRow, PendingRowOf
      <4> QED BY <3>1, <4>1, ConfirmConfirms DEF Locked
    <3> QED BY <2>1, <2>6, <3>1 DEF Reload
  <2>7. CASE Unreachable(w) \/ Crash(w)
    BY <2>1, <2>7 DEF Unreachable, Crash
  <2> QED BY <1>1, <2>2, <2>3, <2>4, <2>5, <2>6, <2>7 DEF Step
<1>2. ASSUME NEW w \in Writers, NEW e \in Submittable, Submit(w, e)
      PROVE  UNCHANGED <<rows, confirmed>>
  BY <1>2 DEF Submit
<1> QED BY <1>1, <1>2, StepOfOne

\* When no request is resent after it landed, the store implements the append-only log:
\* an event lands at most once, whoever submits, commits, fails or crashes, and an
\* event that was confirmed is there for good.
THEOREM ImplementsAppendOnlyLog == ASSUME MaxResends = 0 PROVE Spec => ImplementsLog
<1>1. Init => Log!Init
  BY DEF Init, EmptyLog, Log!Init
<1>2. OnceInv /\ [Next]_vars
          => [Log!Next]_<<[t \in Tabs |-> [i \in DOMAIN rows[t] |-> rows[t][i].event]], confirmed>>
  BY LogStep
<1> QED BY <1>1, <1>2, OnceInvariance, PTL DEF Spec, ImplementsLog, Log!Spec

-----------------------------------------------------------------------------
(***************************************************************************)
(* The import: what a commit that returned Ok leaves in the tabs.          *)
(***************************************************************************)
\* The import lists no event twice, and none of its events is entered interactively.
BatchIsApart ==
    /\ \A i, j \in DOMAIN Batch : Batch[i] = Batch[j] => i = j
    /\ \A i \in DOMAIN Batch : Batch[i] \notin Submittable

\* How many of the first k events of the import are for tab t.
Share(t, k) == Cardinality({j \in 1..k : TabOf[Batch[j]] = t})

\* The first k events of the import are in the tabs, in front and in order; the others
\* are in none.
LandedTo(k) ==
    /\ \A t \in Tabs : /\ Share(t, k) <= Len(rows[t])
                       /\ \A r \in DOMAIN rows[t] :
                              r > Share(t, k) => \A i \in DOMAIN Batch : rows[t][r].event # Batch[i]
    /\ \A i \in 1..k : LET t == TabOf[Batch[i]]
                       IN  Share(t, i) \in DOMAIN rows[t] /\ rows[t][Share(t, i)].event = Batch[i]
    /\ \A i \in (k + 1)..Len(Batch) : ~Has(rows, Batch[i])

\* A submit is of one event entered interactively.
Submits(w) == mode[w] = "submit" /\ \E e \in Submittable : job[w] = <<e>>

\* A commit has the events after the n-th to do.
Commits(w, n) ==
    /\ mode[w] = "commit"
    /\ n \in Nat /\ Len(job[w]) = Len(Batch) - n
    /\ \A j \in 1..Len(job[w]) : job[w][j] = Batch[n + j]

\* A commit is past the check of the target.
Checked(w) == mode[w] = "commit" /\ pc[w] \in Locked \ {"target"}

WriterOK(w, k) ==
    /\ pc[w] # "idle" => Submits(w) \/ \E n \in 0..k : Commits(w, n)
    /\ Checked(w) => \A t \in Tabs : Len(rows[t]) = Share(t, k)

\* The strengthening of ImportIsAsReconciled.
ImportInv ==
    \E k \in 0..Len(Batch) :
        /\ LandedTo(k)
        /\ \A w \in Writers : WriterOK(w, k)
        /\ imported => k = Len(Batch)

\* A share is a number, of no events nothing; the next event adds one to its tab's share.
LEMMA ShareGrows ==
    /\ \A t \in Tabs : Share(t, 0) = 0
    /\ \A t \in Tabs : \A k \in Nat : Share(t, k) \in Nat
    /\ \A t \in Tabs : \A k \in Nat :
          Share(t, k + 1) = IF TabOf[Batch[k + 1]] = t THEN Share(t, k) + 1 ELSE Share(t, k)
<1>1. ASSUME NEW t \in Tabs PROVE Share(t, 0) = 0
  <2>1. {j \in 1..0 : TabOf[Batch[j]] = t} = {}
    OBVIOUS
  <2> QED BY <2>1, FS_EmptySet DEF Share
<1>2. ASSUME NEW t \in Tabs, NEW k \in Nat
      PROVE  IsFiniteSet({j \in 1..k : TabOf[Batch[j]] = t}) /\ Share(t, k) \in Nat
  <2>1. IsFiniteSet(1..k)
    BY FS_Interval
  <2>2. IsFiniteSet({j \in 1..k : TabOf[Batch[j]] = t})
    BY <2>1, FS_Subset
  <2> QED BY <2>2, FS_CardinalityType DEF Share
<1>3. ASSUME NEW t \in Tabs, NEW k \in Nat
      PROVE  Share(t, k + 1) = IF TabOf[Batch[k + 1]] = t THEN Share(t, k) + 1 ELSE Share(t, k)
  <2> DEFINE S == {j \in 1..k : TabOf[Batch[j]] = t}
             T == {j \in 1..k + 1 : TabOf[Batch[j]] = t}
  <2>1. k + 1 \notin S
    OBVIOUS
  <2>2. T = IF TabOf[Batch[k + 1]] = t THEN S \cup {k + 1} ELSE S
    OBVIOUS
  <2>3. Cardinality(S \cup {k + 1}) = Cardinality(S) + 1
    BY <1>2, <2>1, FS_AddElement
  <2> QED BY <2>2, <2>3 DEF Share
<1> QED BY <1>1, <1>2, <1>3

\* What a step of a writer may do to its work, the tabs and the outcome of the import.
Ends(w) == pc'[w] = "idle" /\ rows' = rows /\ imported' = imported

Starts(w) ==
    /\ rows' = rows /\ imported' = imported /\ pc'[w] \notin Locked
    /\ \/ mode'[w] = "submit" /\ \E e \in Submittable : job'[w] = <<e>>
       \/ mode'[w] = "commit" /\ job'[w] = Batch /\ Batch # <<>>

GoesOn(w) ==
    /\ rows' = rows /\ imported' = imported /\ mode'[w] = mode[w] /\ job'[w] = job[w]
    /\ pc[w] # "idle"
    /\ mode[w] = "commit" /\ pc'[w] \in Locked \ {"target"} =>
          \/ pc[w] \in Locked \ {"target"}
          \/ \A t \in Tabs : \A i \in DOMAIN rows[t] : \E j \in DOMAIN Batch : rows[t][i].event = Batch[j]

Lands(w) ==
    /\ pc[w] = "post" /\ Landing(w) /\ imported' = imported
    /\ pc'[w] = "idle" \/ (mode'[w] = mode[w] /\ job'[w] = job[w])

HasOne(w) ==
    /\ rows' = rows /\ Has(rows, Current(w)) /\ pc[w] \in Locked \ {"target"}
    /\ \/ /\ Tail(job[w]) = <<>> /\ pc'[w] = "idle" /\ imported' = (imported \/ mode[w] = "commit")
       \/ /\ Tail(job[w]) # <<>> /\ imported' = imported /\ mode'[w] = mode[w]
          /\ job'[w] = Tail(job[w])

\* Every step does one of these, and leaves the work of the other writers alone.
LEMMA StepDoes ==
    ASSUME IInv, NEW w \in Writers, Step(w) \/ \E e \in Submittable : Submit(w, e)
    PROVE  Ends(w) \/ Starts(w) \/ GoesOn(w) \/ Lands(w) \/ HasOne(w)
<1> USE DEF IInv
<1> DEFINE Done == Ends(w) \/ Starts(w) \/ GoesOn(w) \/ Lands(w) \/ HasOne(w)
<1>1. ASSUME Leave(w) PROVE pc'[w] = "idle"
  BY <1>1, LeaveTypes
<1>2. ASSUME Fail(w) PROVE Ends(w)
  BY <1>1, <1>2 DEF Fail, Ends
<1>3. ASSUME NEW f, Confirm(w, f), pc[w] \in Locked \ {"target"}, Has(rows, Current(w)) PROVE HasOne(w)
  <2>1. CASE Tail(job[w]) = <<>>
    BY <1>1, <1>3, <2>1 DEF Confirm, HasOne
  <2>2. CASE Tail(job[w]) # <<>>
    BY <1>3, <2>2 DEF TypeOK, Confirm, HasOne
  <2> QED BY <2>1, <2>2
<1>4. CASE Validate(w) \/ Acquire(w)
  BY <1>2, <1>4 DEF TypeOK, Goto, Validate, Acquire, GoesOn, Locked
<1>5. CASE Commit(w)
  BY <1>5 DEF TypeOK, Goto, Commit, Starts, Locked
<1>6. CASE CheckTarget(w)
  <2> DEFINE own == {Batch[i] : i \in DOMAIN Batch}
             fresh == \A t \in Tabs : \A i \in DOMAIN rows[t] : rows[t][i].event \in own
  <2>1. CASE fresh /\ Goto(w, "confirm") /\ UNCHANGED <<rows, imported, mode, job>>
    <3>1. \A t \in Tabs : \A i \in DOMAIN rows[t] : \E j \in DOMAIN Batch : rows[t][i].event = Batch[j]
      BY <2>1
    <3>2. pc[w] # "idle"
      BY <1>6 DEF CheckTarget
    <3> QED BY <2>1, <3>1, <3>2 DEF GoesOn
  <2> QED BY <1>2, <1>6, <2>1 DEF CheckTarget
<1>7. CASE ConfirmCurrency(w) \/ AssignSeq(w) \/ PostFails(w) \/ ReadBack(w)
  BY <1>2, <1>7 DEF TypeOK, Goto, ConfirmCurrency, AssignSeq, PostFails, ReadBack, GoesOn, Locked
<1>8. CASE Lookup(w)
  BY <1>3, <1>8 DEF TypeOK, Goto, Lookup, GoesOn, Locked
<1>9. CASE Reload(w)
  <2>1. Has(rows, Current(w))
    BY <1>9 DEF Reload, PendingRow, PendingRowOf
  <2> QED BY <1>2, <1>3, <1>9, <2>1 DEF Reload, Locked
<1>10. CASE PostAnswered(w)
  BY <1>10 DEF PostAnswered, Lands
<1>11. CASE PostUnheard(w)
  BY <1>1, <1>11 DEF PostUnheard, Lands
<1>12. CASE Unreachable(w)
  BY <1>2, <1>12 DEF Unreachable
<1>13. CASE Crash(w)
  BY <1>1, <1>13 DEF Crash, Ends
<1>14. CASE \E e \in Submittable : Submit(w, e)
  BY <1>14 DEF TypeOK, Goto, Submit, Starts, Locked
<1> QED BY <1>4, <1>5, <1>6, <1>7, <1>8, <1>9, <1>10, <1>11, <1>12, <1>13, <1>14 DEF Step

\* A writer's step leaves what the others do alone, submit or commit.
LEMMA OthersMode ==
    ASSUME TypeOK, NEW w \in Writers, Step(w) \/ \E e \in Submittable : Submit(w, e),
           NEW v \in Writers, v # w
    PROVE  mode'[v] = mode[v]
<1>1. ASSUME Leave(w) PROVE mode'[v] = mode[v]
  BY <1>1 DEF TypeOK, Leave
<1>2. ASSUME Fail(w) PROVE mode'[v] = mode[v]
  BY <1>1, <1>2 DEF Fail
<1>3. ASSUME NEW f, Confirm(w, f) PROVE mode'[v] = mode[v]
  BY <1>1, <1>3 DEF Confirm
<1>4. CASE Validate(w) \/ Commit(w) \/ Acquire(w) \/ CheckTarget(w)
  BY <1>2, <1>4 DEF TypeOK, Validate, Commit, Acquire, CheckTarget
<1>5. CASE ConfirmCurrency(w) \/ AssignSeq(w) \/ PostFails(w) \/ ReadBack(w)
  BY <1>2, <1>5 DEF ConfirmCurrency, AssignSeq, PostFails, ReadBack
<1>6. CASE Lookup(w) \/ Reload(w)
  BY <1>2, <1>3, <1>6 DEF Lookup, Reload
<1>7. CASE PostAnswered(w) \/ PostUnheard(w)
  BY <1>1, <1>7 DEF PostAnswered, PostUnheard
<1>8. CASE Unreachable(w) \/ Crash(w)
  BY <1>1, <1>2, <1>8 DEF Unreachable, Crash
<1>9. ASSUME NEW e \in Submittable, Submit(w, e) PROVE mode'[v] = mode[v]
  BY <1>9 DEF TypeOK, Submit
<1> QED BY <1>4, <1>5, <1>6, <1>7, <1>8, <1>9 DEF Step

\* The order of the import is kept by an event from elsewhere that lands.
LEMMA ForeignLands ==
    ASSUME IInv, NEW k \in 0..Len(Batch), LandedTo(k), NEW w \in Writers, pc[w] = "post", Landing(w),
           \A i \in DOMAIN Batch : Batch[i] # Current(w)
    PROVE  LandedTo(k)'
<1> USE DEF IInv
<1> DEFINE u == TabOf[Current(w)]
           e == Current(w)
           s == rows[u]
<1>0. k \in Nat /\ Len(Batch) \in Nat /\ Batch \in Seq(Events) /\ DOMAIN Batch = 1..Len(Batch)
  BY EventsAssumption, LenProperties
<1>1. Row(w) \in EventRow /\ u \in Tabs /\ s \in Seq(EventRow) /\ Row(w).event = e
  BY CurrentTypes DEF Row
<1>2. \A t \in Tabs : rows'[t] = IF t = u THEN Append(s, Row(w)) ELSE rows[t]
  BY <1>1 DEF Landing, TypeOK, Logs
<1>3. /\ Len(s) \in Nat /\ DOMAIN s = 1..Len(s)
      /\ DOMAIN Append(s, Row(w)) = 1..Len(s) + 1 /\ Len(Append(s, Row(w))) = Len(s) + 1
      /\ \A i \in 1..Len(s) : Append(s, Row(w))[i] = s[i]
      /\ Append(s, Row(w))[Len(s) + 1] = Row(w)
  BY <1>1, AppendProperties, LenProperties
<1>4. \A i \in DOMAIN Batch : TabOf[Batch[i]] \in Tabs
  BY <1>0, TabOfAssumption
<1>5. Share(u, k) \in Nat
  BY <1>0, <1>1, ShareGrows
<1> HIDE DEF u, e, s
<1>6. ASSUME NEW t \in Tabs
      PROVE  /\ Share(t, k) <= Len(rows'[t])
             /\ \A r \in DOMAIN rows'[t] :
                    r > Share(t, k) => \A i \in DOMAIN Batch : rows'[t][r].event # Batch[i]
  <2>1. CASE t = u
    <3>1. /\ Share(u, k) <= Len(s)
          /\ \A r \in DOMAIN s : r > Share(u, k) => \A i \in DOMAIN Batch : s[r].event # Batch[i]
      BY <1>1 DEF LandedTo, s
    <3>2. \A i \in DOMAIN Batch : Row(w).event # Batch[i]
      BY <1>1 DEF e
    <3>3. rows'[t] = Append(s, Row(w))
      BY <1>2, <2>1
    <3>4. Share(u, k) <= Len(Append(s, Row(w)))
      BY <1>3, <1>5, <3>1
    <3>5. ASSUME NEW r \in DOMAIN Append(s, Row(w)), r > Share(u, k), NEW i \in DOMAIN Batch
          PROVE  Append(s, Row(w))[r].event # Batch[i]
      <4>1. r \in 1..Len(s) \/ r = Len(s) + 1
        BY <1>3, <3>5
      <4>2. CASE r \in 1..Len(s)
        <5>1. Append(s, Row(w))[r] = s[r] /\ r \in DOMAIN s
          BY <1>3, <4>2
        <5>2. s[r].event # Batch[i]
          BY <3>1, <3>5, <5>1
        <5> QED BY <5>1, <5>2
      <4>3. CASE r = Len(s) + 1
        BY <1>3, <3>2, <4>3
      <4> QED BY <4>1, <4>2, <4>3
    <3> QED BY <2>1, <3>3, <3>4, <3>5
  <2>2. CASE t # u
    BY <1>2, <2>2 DEF LandedTo
  <2> QED BY <2>1, <2>2
<1>7. ASSUME NEW i \in 1..k
      PROVE  LET t == TabOf[Batch[i]]
             IN  Share(t, i) \in DOMAIN rows'[t] /\ rows'[t][Share(t, i)].event = Batch[i]
  <2> DEFINE t == TabOf[Batch[i]]
  <2>1. t \in Tabs /\ Share(t, i) \in DOMAIN rows[t] /\ rows[t][Share(t, i)].event = Batch[i]
    BY <1>0, <1>4 DEF LandedTo
  <2> HIDE DEF t
  <2>2. CASE t = u
    <3>1. Share(u, i) \in 1..Len(s) /\ s[Share(u, i)].event = Batch[i]
      BY <1>3, <2>1, <2>2 DEF s
    <3>2. Share(u, i) \in DOMAIN Append(s, Row(w)) /\ Append(s, Row(w))[Share(u, i)].event = Batch[i]
      BY <1>3, <3>1
    <3>3. rows'[t] = Append(s, Row(w))
      BY <1>2, <2>1, <2>2
    <3> QED BY <2>2, <3>2, <3>3 DEF t
  <2>3. CASE t # u
    BY <1>2, <2>1, <2>3 DEF t
  <2> QED BY <2>2, <2>3
<1>8. ASSUME NEW i \in (k + 1)..Len(Batch) PROVE ~Has(rows', Batch[i])
  <2>1. i \in DOMAIN Batch /\ ~Has(rows, Batch[i]) /\ TabOf[Batch[i]] \in Tabs
    BY <1>0, <1>4 DEF LandedTo
  <2>2. Row(w).event # Batch[i]
    BY <1>1, <2>1 DEF e
  <2>3. CASE TabOf[Batch[i]] = u
    <3>1. \A r \in 1..Len(s) : s[r].event # Batch[i]
      BY <1>3, <2>1, <2>3 DEF Has, s
    <3>2. \A r \in DOMAIN Append(s, Row(w)) : Append(s, Row(w))[r].event # Batch[i]
      BY <1>3, <2>2, <3>1
    <3> QED BY <1>2, <2>1, <2>3, <3>2 DEF Has
  <2>4. CASE TabOf[Batch[i]] # u
    BY <1>2, <2>1, <2>4 DEF Has
  <2> QED BY <2>3, <2>4
<1> QED BY <1>6, <1>7, <1>8 DEF LandedTo

\* The next event of the import lands behind those before it, in tabs that hold nothing else.
LEMMA NextLands ==
    ASSUME IInv, BatchIsApart, NEW k \in Nat, k < Len(Batch), LandedTo(k),
           NEW w \in Writers, pc[w] = "post", Landing(w), Current(w) = Batch[k + 1],
           \A t \in Tabs : Len(rows[t]) = Share(t, k)
    PROVE  LandedTo(k + 1)' /\ \A t \in Tabs : Len(rows'[t]) = Share(t, k + 1)
<1> USE DEF IInv
<1> DEFINE u == TabOf[Current(w)]
           e == Current(w)
           s == rows[u]
           h == k + 1
<1>0. /\ Len(Batch) \in Nat /\ Batch \in Seq(Events) /\ DOMAIN Batch = 1..Len(Batch)
      /\ h \in DOMAIN Batch /\ h \in Nat /\ e = Batch[h] /\ h = k + 1
  BY EventsAssumption, LenProperties
<1>1. Row(w) \in EventRow /\ u \in Tabs /\ s \in Seq(EventRow) /\ Row(w).event = e /\ u = TabOf[Batch[h]]
  BY CurrentTypes DEF Row
<1>2. \A t \in Tabs : rows'[t] = IF t = u THEN Append(s, Row(w)) ELSE rows[t]
  BY <1>1 DEF Landing, TypeOK, Logs
<1>3. /\ Len(s) \in Nat /\ DOMAIN s = 1..Len(s)
      /\ DOMAIN Append(s, Row(w)) = 1..Len(s) + 1 /\ Len(Append(s, Row(w))) = Len(s) + 1
      /\ \A i \in 1..Len(s) : Append(s, Row(w))[i] = s[i]
      /\ Append(s, Row(w))[Len(s) + 1] = Row(w)
  BY <1>1, AppendProperties, LenProperties
<1>4. \A i \in DOMAIN Batch : TabOf[Batch[i]] \in Tabs
  BY <1>0, TabOfAssumption
<1>5. Share(u, k) = Len(s) /\ Share(u, h) = Len(s) + 1 /\ \A t \in Tabs : t # u => Share(t, h) = Share(t, k)
  <2>1. Share(u, k) = Len(s)
    BY <1>1
  <2>2. ASSUME NEW t \in Tabs
        PROVE  Share(t, h) = IF TabOf[Batch[h]] = t THEN Share(t, k) + 1 ELSE Share(t, k)
    BY ShareGrows
  <2> HIDE DEF u, e, s, h
  <2> QED BY <1>1, <2>1, <2>2
<1> HIDE DEF u, e, s, h
<1>6. ASSUME NEW t \in Tabs
      PROVE  /\ Share(t, h) = Len(rows'[t])
             /\ \A r \in DOMAIN rows'[t] : ~(r > Share(t, h))
  <2>1. CASE t = u
    <3>1. rows'[t] = Append(s, Row(w)) /\ Share(t, h) = Len(s) + 1
      BY <1>2, <1>5, <2>1
    <3>2. \A r \in DOMAIN Append(s, Row(w)) : ~(r > Len(s) + 1)
      BY <1>3
    <3> QED BY <1>3, <3>1, <3>2
  <2>2. CASE t # u
    <3>1. rows'[t] = rows[t] /\ Share(t, h) = Len(rows[t])
      BY <1>2, <1>5, <2>2
    <3>2. rows[t] \in Seq(EventRow)
      BY DEF TypeOK, Logs
    <3>3. \A r \in DOMAIN rows[t] : ~(r > Len(rows[t]))
      BY <3>2, LenProperties
    <3> QED BY <3>1, <3>3
  <2> QED BY <2>1, <2>2
<1>7. ASSUME NEW i \in 1..h
      PROVE  LET t == TabOf[Batch[i]]
             IN  Share(t, i) \in DOMAIN rows'[t] /\ rows'[t][Share(t, i)].event = Batch[i]
  <2> DEFINE t == TabOf[Batch[i]]
  <2>1. CASE i = h
    <3>1. t = u /\ u \in Tabs
      BY <1>1, <2>1
    <3>2. rows'[u] = Append(s, Row(w))
      BY <1>2, <3>1
    <3>3. Share(u, h) \in DOMAIN Append(s, Row(w)) /\ Append(s, Row(w))[Share(u, h)] = Row(w)
      BY <1>3, <1>5
    <3> QED BY <1>0, <1>1, <2>1, <3>1, <3>2, <3>3
  <2>2. CASE i # h
    <3>1. i \in 1..k /\ i \in DOMAIN Batch
      BY <1>0, <2>2
    <3>2. t \in Tabs /\ Share(t, i) \in DOMAIN rows[t] /\ rows[t][Share(t, i)].event = Batch[i]
      BY <1>4, <3>1 DEF LandedTo
    <3> HIDE DEF t
    <3>3. CASE t = u
      <4>1. Share(u, i) \in 1..Len(s) /\ s[Share(u, i)].event = Batch[i]
        BY <1>3, <3>2, <3>3 DEF s
      <4>2. Share(u, i) \in DOMAIN Append(s, Row(w)) /\ Append(s, Row(w))[Share(u, i)].event = Batch[i]
        BY <1>3, <4>1
      <4>3. rows'[t] = Append(s, Row(w))
        BY <1>2, <3>2, <3>3
      <4> QED BY <3>3, <4>2, <4>3 DEF t
    <3>4. CASE t # u
      BY <1>2, <3>2, <3>4 DEF t
    <3> QED BY <3>3, <3>4
  <2> QED BY <2>1, <2>2
<1>8. ASSUME NEW i \in (h + 1)..Len(Batch) PROVE ~Has(rows', Batch[i])
  <2>1. i \in DOMAIN Batch /\ i # h /\ i \in (k + 1)..Len(Batch)
    BY <1>0
  <2>2. ~Has(rows, Batch[i]) /\ TabOf[Batch[i]] \in Tabs /\ Batch[i] # Batch[h]
    BY <1>0, <1>4, <2>1 DEF LandedTo, BatchIsApart
  <2>3. Row(w).event # Batch[i]
    BY <1>0, <1>1, <2>2
  <2>4. CASE TabOf[Batch[i]] = u
    <3>1. \A r \in 1..Len(s) : s[r].event # Batch[i]
      BY <1>3, <2>2, <2>4 DEF Has, s
    <3>2. \A r \in DOMAIN Append(s, Row(w)) : Append(s, Row(w))[r].event # Batch[i]
      BY <1>3, <2>3, <3>1
    <3> QED BY <1>2, <2>2, <2>4, <3>2 DEF Has
  <2>5. CASE TabOf[Batch[i]] # u
    BY <1>2, <2>2, <2>5 DEF Has
  <2> QED BY <2>4, <2>5
<1>9. \A t \in Tabs : Share(t, h) \in Nat
  BY <1>0, ShareGrows
<1>10. LandedTo(h)'
  <2>1. ASSUME NEW t \in Tabs
        PROVE  /\ Share(t, h) <= Len(rows'[t])
               /\ \A r \in DOMAIN rows'[t] :
                      r > Share(t, h) => \A i \in DOMAIN Batch : rows'[t][r].event # Batch[i]
    <3>1. Share(t, h) <= Len(rows'[t])
      BY <1>6, <1>9
    <3> QED BY <1>6, <3>1
  <2> QED BY <1>7, <1>8, <2>1 DEF LandedTo
<1>11. \A t \in Tabs : Len(rows'[t]) = Share(t, h)
  BY <1>6
<1> QED BY <1>10, <1>11 DEF h

\* An event in the tabs is in them among the first k of the import, or not at all.
LEMMA LandedIsBefore ==
    ASSUME NEW k \in 0..Len(Batch), LandedTo(k), NEW i \in DOMAIN Batch
    PROVE  Has(rows, Batch[i]) <=> i <= k
<1>1. DOMAIN Batch = 1..Len(Batch) /\ Len(Batch) \in Nat /\ k \in Nat
  BY EventsAssumption, LenProperties
<1>2. CASE i <= k
  <2>1. i \in 1..k
    BY <1>1, <1>2
  <2>2. /\ Share(TabOf[Batch[i]], i) \in DOMAIN rows[TabOf[Batch[i]]]
        /\ rows[TabOf[Batch[i]]][Share(TabOf[Batch[i]], i)].event = Batch[i]
    BY <2>1 DEF LandedTo
  <2> QED BY <1>2, <2>2 DEF Has
<1>3. CASE ~(i <= k)
  <2>1. i \in (k + 1)..Len(Batch)
    BY <1>1, <1>3
  <2> QED BY <1>3, <2>1 DEF LandedTo
<1> QED BY <1>2, <1>3

\* What remains of b after n, when it is not nothing; and where n and k stand that are
\* next to each other.
LEMMA Counting ==
    /\ \A a, b, n \in Nat : a # 0 /\ a = b - n => 1 \in 1..a /\ n < b /\ n + 1 \in 1..b
    /\ \A b, n, k \in Nat : k \in 0..b /\ n + 1 <= k /\ n + 1 = b => k = b
    /\ \A b, n, k \in Nat : n \in 0..k /\ n + 1 \in 1..b /\ ~(n + 1 <= k) =>
           n = k /\ k < b /\ k + 1 \in 0..b /\ k # b /\ k \in 0..k + 1
  OBVIOUS

\* A commit has an event to do: the one after the n-th.
LEMMA CommitsNext ==
    ASSUME TypeOK, NEW w \in Writers, pc[w] # "idle", NEW n, Commits(w, n)
    PROVE  /\ n \in Nat /\ n + 1 \in DOMAIN Batch /\ n < Len(Batch) /\ Len(Batch) \in Nat
           /\ Current(w) = Batch[n + 1]
<1>1. job[w] \in Seq(Events) /\ job[w] # <<>>
  BY DEF TypeOK
<1>2. Len(job[w]) \in Nat /\ Len(job[w]) # 0 /\ Head(job[w]) = job[w][1]
  BY <1>1, EmptySeq, LenProperties
<1>3. Len(Batch) \in Nat /\ DOMAIN Batch = 1..Len(Batch) /\ n \in Nat /\ Len(job[w]) = Len(Batch) - n
  BY EventsAssumption, LenProperties DEF Commits
<1>4. 1 \in 1..Len(job[w]) /\ n < Len(Batch) /\ n + 1 \in DOMAIN Batch
  BY <1>2, <1>3, Counting
<1> QED BY <1>2, <1>3, <1>4 DEF Commits, Current

\* Without its first event, a commit has the events after the next to do.
LEMMA CommitsTail ==
    ASSUME TypeOK, NEW w \in Writers, pc[w] # "idle", NEW n, Commits(w, n)
    PROVE  /\ Tail(job[w]) = <<>> => n + 1 = Len(Batch)
           /\ mode'[w] = mode[w] /\ job'[w] = Tail(job[w]) => Commits(w, n + 1)'
<1>1. job[w] \in Seq(Events) /\ job[w] # <<>>
  BY DEF TypeOK
<1>2. /\ Tail(job[w]) \in Seq(Events) /\ Len(job[w]) \in Nat /\ Len(Tail(job[w])) = Len(job[w]) - 1
      /\ \A j \in 1..Len(Tail(job[w])) : Tail(job[w])[j] = job[w][j + 1]
  BY <1>1, HeadTailProperties, LenProperties
<1>3. /\ Len(Batch) \in Nat /\ n \in Nat /\ Len(job[w]) = Len(Batch) - n
      /\ \A j \in 1..Len(job[w]) : job[w][j] = Batch[n + j]
  BY EventsAssumption, LenProperties DEF Commits
<1>4. Tail(job[w]) = <<>> => n + 1 = Len(Batch)
  <2>1. ASSUME Tail(job[w]) = <<>> PROVE Len(Tail(job[w])) = 0
    BY <2>1, EmptySeq
  <2> QED BY <1>2, <1>3, <2>1
<1>5. \A j \in 1..Len(Tail(job[w])) : Tail(job[w])[j] = Batch[(n + 1) + j]
  BY <1>2, <1>3
<1>6. Len(Tail(job[w])) = Len(Batch) - (n + 1) /\ n + 1 \in Nat
  BY <1>2, <1>3
<1>7. mode[w] = "commit"
  BY DEF Commits
<1> QED BY <1>4, <1>5, <1>6, <1>7 DEF Commits

\* The work of another writer stays what it is.
LEMMA OthersOK ==
    ASSUME TypeOK, NEW w \in Writers, Step(w) \/ \E e \in Submittable : Submit(w, e),
           NEW v \in Writers, v # w, NEW k \in Nat, NEW m \in Nat, WriterOK(v, k),
           (rows' = rows /\ m = k) \/ (pc[w] = "post" /\ m = k + 1)
    PROVE  WriterOK(v, m)'
<1>1. pc'[v] = pc[v] /\ job'[v] = job[v] /\ mode'[v] = mode[v]
  BY OthersUntouched, OthersMode
<1>2. pc'[v] # "idle" => Submits(v)' \/ \E n \in 0..m : Commits(v, n)'
  <2>1. Submits(v) => Submits(v)'
    BY <1>1 DEF Submits
  <2>2. \A n : Commits(v, n) => Commits(v, n)'
    BY <1>1 DEF Commits
  <2>3. \A n \in 0..k : n \in 0..m
    OBVIOUS
  <2> QED BY <1>1, <2>1, <2>2, <2>3 DEF WriterOK
<1>3. Checked(v)' => \A t \in Tabs : Len(rows'[t]) = Share(t, m)
  <2>1. Checked(v)' <=> Checked(v)
    BY <1>1 DEF Checked
  <2>2. Checked(v) => pc[w] # "post"
    BY DEF TypeOK, Checked, Locked
  <2>3. Checked(v) => rows' = rows /\ m = k
    BY <2>2
  <2> QED BY <2>1, <2>3 DEF WriterOK
<1> QED BY <1>2, <1>3 DEF WriterOK

\* A step that lands nothing keeps the work of its writer in order; the import that
\* returns Ok is all there.
LEMMA OwnOK ==
    ASSUME IInv, NEW w \in Writers, NEW k \in 0..Len(Batch), LandedTo(k), WriterOK(w, k),
           Ends(w) \/ Starts(w) \/ GoesOn(w) \/ HasOne(w)
    PROVE  rows' = rows /\ WriterOK(w, k)' /\ (imported' => imported \/ k = Len(Batch))
<1> USE DEF IInv
<1>0. k \in Nat /\ Len(Batch) \in Nat /\ DOMAIN Batch = 1..Len(Batch) /\ Batch \in Seq(Events)
  BY EventsAssumption, LenProperties
<1>1. ASSUME pc'[w] = "idle" PROVE WriterOK(w, k)'
  BY <1>1 DEF WriterOK, Checked, Locked
<1>2. CASE Ends(w)
  BY <1>1, <1>2 DEF Ends
<1>3. CASE Starts(w)
  <2>1. ~Checked(w)'
    BY <1>3 DEF Starts, Checked
  <2>2. CASE mode'[w] = "submit" /\ \E e \in Submittable : job'[w] = <<e>>
    <3>1. Submits(w)'
      BY <2>2 DEF Submits
    <3> QED BY <1>3, <2>1, <3>1 DEF WriterOK, Starts
  <2>3. CASE mode'[w] = "commit" /\ job'[w] = Batch
    <3>1. 0 \in 0..k /\ Len(Batch) = Len(Batch) - 0 /\ \A j \in 1..Len(Batch) : Batch[j] = Batch[0 + j]
      BY <1>0
    <3>2. Commits(w, 0)'
      BY <2>3, <3>1 DEF Commits
    <3> QED BY <1>3, <2>1, <3>1, <3>2 DEF WriterOK, Starts
  <2> QED BY <1>3, <2>2, <2>3 DEF Starts
<1>4. CASE GoesOn(w)
  <2>1. Submits(w)' \/ \E n \in 0..k : Commits(w, n)'
    <3>1. Submits(w) => Submits(w)'
      BY <1>4 DEF GoesOn, Submits
    <3>2. \A n : Commits(w, n) => Commits(w, n)'
      BY <1>4 DEF GoesOn, Commits
    <3> QED BY <1>4, <3>1, <3>2 DEF WriterOK, GoesOn
  <2>2. ASSUME Checked(w)', NEW t \in Tabs PROVE Len(rows'[t]) = Share(t, k)
    <3>1. CASE Checked(w)
      BY <1>4, <3>1 DEF GoesOn, WriterOK
    <3>2. CASE \A i \in DOMAIN rows[t] : \E j \in DOMAIN Batch : rows[t][i].event = Batch[j]
      <4>1. rows[t] \in Seq(EventRow) /\ DOMAIN rows[t] = 1..Len(rows[t]) /\ Len(rows[t]) \in Nat
        BY LenProperties DEF TypeOK, Logs
      <4>2. /\ Share(t, k) <= Len(rows[t])
            /\ \A r \in DOMAIN rows[t] :
                   r > Share(t, k) => \A i \in DOMAIN Batch : rows[t][r].event # Batch[i]
        BY DEF LandedTo
      <4>3. Share(t, k) \in Nat
        BY <1>0, ShareGrows
      <4>4. ~(Len(rows[t]) > Share(t, k))
        <5>1. SUFFICES ASSUME Len(rows[t]) > Share(t, k) PROVE FALSE
          OBVIOUS
        <5>2. Len(rows[t]) \in DOMAIN rows[t]
          BY <4>1, <4>3, <5>1
        <5> QED BY <3>2, <4>2, <5>1, <5>2
      <4>5. Len(rows[t]) = Share(t, k)
        BY <4>1, <4>2, <4>3, <4>4
      <4> QED BY <1>4, <4>5 DEF GoesOn
    <3> QED BY <1>4, <2>2, <3>1, <3>2 DEF GoesOn, Checked
  <2> QED BY <1>4, <2>1, <2>2 DEF WriterOK, GoesOn
<1>5. CASE HasOne(w)
  <2>0. pc[w] # "idle" /\ rows' = rows /\ Has(rows, Current(w))
    BY <1>5 DEF HasOne, Locked
  <2>1. CASE Submits(w)
    <3>1. Tail(job[w]) = <<>> /\ mode[w] # "commit"
      BY <2>1 DEF Submits
    <3>2. pc'[w] = "idle" /\ imported' = imported
      BY <1>5, <3>1 DEF HasOne, TypeOK
    <3> QED BY <1>1, <2>0, <3>2
  <2>2. ASSUME NEW n \in 0..k, Commits(w, n)
        PROVE  WriterOK(w, k)' /\ (imported' => imported \/ k = Len(Batch))
    <3>1. /\ n \in Nat /\ n + 1 \in DOMAIN Batch /\ Current(w) = Batch[n + 1]
      BY <2>0, <2>2, CommitsNext
    <3>2. n + 1 <= k
      BY <2>0, <3>1, LandedIsBefore
    <3>3. CASE Tail(job[w]) = <<>> /\ pc'[w] = "idle"
      <4>1. n + 1 = Len(Batch)
        BY <2>0, <2>2, <3>3, CommitsTail
      <4>2. k = Len(Batch)
        BY <1>0, <3>1, <3>2, <4>1, Counting
      <4> QED BY <1>1, <3>3, <4>2
    <3>4. CASE imported' = imported /\ mode'[w] = mode[w] /\ job'[w] = Tail(job[w])
      <4>1. Commits(w, n + 1)'
        BY <2>0, <2>2, <3>4, CommitsTail
      <4>2. n + 1 \in 0..k
        BY <1>0, <3>1, <3>2
      <4>3. Checked(w)' => Checked(w)
        BY <1>5, <3>4 DEF HasOne, Checked
      <4> QED BY <2>0, <3>4, <4>1, <4>2, <4>3 DEF WriterOK
    <3> QED BY <1>5, <3>3, <3>4 DEF HasOne
  <2> QED BY <2>0, <2>1, <2>2 DEF WriterOK
<1> QED BY <1>2, <1>3, <1>4, <1>5 DEF Ends, Starts, GoesOn

\* A landing keeps the tabs and the work of its writer in order.
LEMMA LandingOK ==
    ASSUME OnceInv, BatchIsApart, NEW w \in Writers, NEW k \in 0..Len(Batch), LandedTo(k),
           WriterOK(w, k), Lands(w)
    PROVE  \/ LandedTo(k)' /\ WriterOK(w, k)'
           \/ k + 1 \in 0..Len(Batch) /\ k # Len(Batch) /\ LandedTo(k + 1)' /\ WriterOK(w, k + 1)'
<1> USE DEF OnceInv, IInv
<1>0. k \in Nat /\ Len(Batch) \in Nat /\ DOMAIN Batch = 1..Len(Batch) /\ Batch \in Seq(Events)
  BY EventsAssumption, LenProperties
<1>1. pc[w] = "post" /\ Landing(w) /\ pc[w] # "idle" /\ ~Has(rows, Current(w))
  BY DEF Lands, FirstAttempt
<1>2. CASE Submits(w)
  <2>1. PICK e \in Submittable : job[w] = <<e>>
    BY <1>2 DEF Submits
  <2>2. Current(w) = e
    BY <2>1 DEF Current
  <2>3. LandedTo(k)'
    BY <1>1, <2>2, ForeignLands DEF BatchIsApart
  <2>4. pc'[w] # "idle" => Submits(w)'
    BY <1>2 DEF Lands, Submits
  <2>5. ~Checked(w)'
    BY <1>2 DEF Lands, Submits, Checked, Locked
  <2> QED BY <2>3, <2>4, <2>5 DEF WriterOK
<1>3. ASSUME NEW n \in 0..k, Commits(w, n)
      PROVE  k + 1 \in 0..Len(Batch) /\ k # Len(Batch) /\ LandedTo(k + 1)' /\ WriterOK(w, k + 1)'
  <2>1. n \in Nat /\ n + 1 \in DOMAIN Batch /\ Current(w) = Batch[n + 1]
    BY <1>1, <1>3, CommitsNext
  <2>2. ~(n + 1 <= k)
    BY <1>1, <2>1, LandedIsBefore
  <2>3. n = k /\ k < Len(Batch) /\ k + 1 \in 0..Len(Batch) /\ k # Len(Batch) /\ k \in 0..k + 1
    BY <1>0, <2>1, <2>2, Counting
  <2>4. \A t \in Tabs : Len(rows[t]) = Share(t, k)
    BY <1>1, <1>3 DEF WriterOK, Checked, Commits, Locked
  <2>5. LandedTo(k + 1)' /\ \A t \in Tabs : Len(rows'[t]) = Share(t, k + 1)
    BY <1>0, <1>1, <2>1, <2>3, <2>4, NextLands
  <2>6. pc'[w] # "idle" => Commits(w, k)'
    BY <1>3, <2>3 DEF Lands, Commits
  <2>7. WriterOK(w, k + 1)'
    BY <2>3, <2>5, <2>6 DEF WriterOK
  <2> QED BY <2>3, <2>5, <2>7
<1> QED BY <1>1, <1>2, <1>3 DEF WriterOK

\* Every step keeps the import in order.
LEMMA ImportStep ==
    ASSUME BatchIsApart, OnceInv, ImportInv, [Next]_vars
    PROVE  ImportInv'
<1> USE DEF OnceInv, IInv
<1>1. PICK k \in 0..Len(Batch) : /\ LandedTo(k)
                                 /\ \A w \in Writers : WriterOK(w, k)
                                 /\ imported => k = Len(Batch)
  BY DEF ImportInv
<1>0. k \in Nat /\ k + 1 \in Nat
  BY EventsAssumption, LenProperties
<1>2. CASE rows' = rows /\ imported' = imported /\ local' = local
  <2>1. LandedTo(k)'
    BY <1>1, <1>2 DEF LandedTo, Has
  <2>2. ASSUME NEW w \in Writers PROVE WriterOK(w, k)'
    <3>1. pc' = pc /\ mode' = mode /\ job' = job
      BY <1>2, Zenon DEF local
    <3>2. Checked(w)' <=> Checked(w)
      BY <3>1 DEF Checked
    <3>3. Submits(w) => Submits(w)'
      BY <3>1 DEF Submits
    <3>4. \A n : Commits(w, n) => Commits(w, n)'
      BY <3>1 DEF Commits
    <3>5. WriterOK(w, k)
      BY <1>1
    <3> QED BY <1>2, <3>1, <3>2, <3>3, <3>4, <3>5 DEF WriterOK
  <2> QED BY <1>1, <1>2, <2>1, <2>2 DEF ImportInv
<1>3. ASSUME NEW w \in Writers, Step(w) \/ \E e \in Submittable : Submit(w, e)
      PROVE  ImportInv'
  <2>1. CASE Ends(w) \/ Starts(w) \/ GoesOn(w) \/ HasOne(w)
    <3>1. rows' = rows /\ WriterOK(w, k)' /\ (imported' => imported \/ k = Len(Batch))
      BY <1>1, <2>1, OwnOK
    <3>2. LandedTo(k)'
      BY <1>1, <3>1 DEF LandedTo, Has
    <3>3. \A v \in Writers : WriterOK(v, k)'
      BY <1>0, <1>1, <1>3, <3>1, OthersOK
    <3>4. imported' => k = Len(Batch)
      BY <1>1, <3>1
    <3> QED BY <3>2, <3>3, <3>4 DEF ImportInv
  <2>2. CASE Lands(w)
    <3>1. imported' = imported /\ pc[w] = "post"
      BY <2>2 DEF Lands
    <3>2. CASE LandedTo(k)' /\ WriterOK(w, k)'
      <4>1. ASSUME NEW v \in Writers, v # w PROVE WriterOK(v, k)'
        <5>1. pc'[v] = pc[v] /\ job'[v] = job[v] /\ mode'[v] = mode[v]
          BY <1>3, <4>1, OthersUntouched, OthersMode
        <5>2. ~Checked(v)'
          BY <3>1, <4>1, <5>1 DEF Checked, TypeOK, Locked
        <5>3. Submits(v) => Submits(v)'
          BY <5>1 DEF Submits
        <5>4. \A n : Commits(v, n) => Commits(v, n)'
          BY <5>1 DEF Commits
        <5> QED BY <1>1, <5>1, <5>2, <5>3, <5>4 DEF WriterOK
      <4>2. \A v \in Writers : WriterOK(v, k)'
        BY <3>2, <4>1
      <4> QED BY <1>1, <3>1, <3>2, <4>2 DEF ImportInv
    <3>3. CASE /\ k + 1 \in 0..Len(Batch) /\ k # Len(Batch)
               /\ LandedTo(k + 1)' /\ WriterOK(w, k + 1)'
      <4>1. \A v \in Writers : WriterOK(v, k + 1)'
        BY <1>0, <1>1, <1>3, <3>1, <3>3, OthersOK
      <4>2. ~imported'
        BY <1>1, <3>1, <3>3
      <4> QED BY <3>3, <4>1, <4>2 DEF ImportInv
    <3> QED BY <1>1, <2>2, <3>2, <3>3, LandingOK
  <2> QED BY <1>3, <2>1, <2>2, StepDoes
<1>4. CASE Reclaim \/ UNCHANGED vars
  BY <1>2, <1>4 DEF Reclaim, vars
<1> QED BY <1>3, <1>4 DEF Next

\* At first nothing is in the tabs and nobody is at work.
LEMMA InitImportInv == Init => ImportInv
<1> SUFFICES ASSUME Init PROVE ImportInv
  OBVIOUS
<1>1. 0 \in 0..Len(Batch)
  BY EventsAssumption, LenProperties
<1>2. \A t \in Tabs : rows[t] = <<>> /\ Share(t, 0) = 0
  BY ShareGrows DEF Init, EmptyLog
<1>3. \A i \in DOMAIN Batch : TabOf[Batch[i]] \in Tabs
  BY EventsAssumption, TabOfAssumption, LenProperties, ElementOfSeq
<1>4. DOMAIN Batch = 1..Len(Batch)
  BY EventsAssumption, LenProperties
<1>5. LandedTo(0)
  <2>1. \A t \in Tabs : /\ Share(t, 0) <= Len(rows[t])
                        /\ \A r \in DOMAIN rows[t] :
                               r > Share(t, 0) => \A i \in DOMAIN Batch : rows[t][r].event # Batch[i]
    BY <1>2
  <2>2. \A i \in DOMAIN Batch : ~Has(rows, Batch[i])
    BY <1>2, <1>3 DEF Has
  <2> QED BY <1>4, <2>1, <2>2 DEF LandedTo
<1>6. \A w \in Writers : WriterOK(w, 0)
  BY DEF Init, WriterOK, Checked, Locked
<1>7. ~imported
  BY DEF Init
<1> QED BY <1>1, <1>5, <1>6, <1>7 DEF ImportInv

\* When no request is resent after it landed, a commit that returned Ok left each tab
\* beginning with the imported events in the order that was reconciled, however many
\* runs it took, whatever failed or crashed between, and whoever submitted meanwhile.
\* The import lists no event twice and none that is entered interactively.
THEOREM CommitsAreInOrder ==
    ASSUME MaxResends = 0, BatchIsApart
    PROVE  Spec => []ImportIsAsReconciled
<1>1. ImportInv /\ OnceInv /\ [Next]_vars => ImportInv'
  BY ImportStep
<1>2. ImportInv => ImportIsAsReconciled
  <2> SUFFICES ASSUME ImportInv, imported PROVE ImportIsAsReconciled
    BY DEF ImportIsAsReconciled
  <2>1. LandedTo(Len(Batch)) /\ DOMAIN Batch = 1..Len(Batch)
    BY EventsAssumption, LenProperties DEF ImportInv
  <2> QED BY <2>1 DEF LandedTo, Share, ImportIsAsReconciled
<1> QED BY <1>1, <1>2, InitImportInv, OnceInvariance, PTL DEF Spec
=============================================================================
