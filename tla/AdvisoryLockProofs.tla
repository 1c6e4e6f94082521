------------------------- MODULE AdvisoryLockProofs -------------------------
(***************************************************************************)
(* For any processes, TTL, depth of nesting and crashes: type correctness, *)
(* and that as long as nobody reclaims a lock, one process at a time is in *)
(* a section and its record stays until its outermost drop.                *)
(***************************************************************************)
EXTENDS AdvisoryLock, SequenceTheorems, TLAPS

\* The handles of a process: the outermost owns the file, the others borrow it.
IsNested(hs) ==
    /\ hs # <<>>
    /\ ~hs[1].reentrant
    /\ \A k \in 2..Len(hs) : hs[k].reentrant

Pop(hs) == SubSeq(hs, 1, Len(hs) - 1)

\* Dropping a handle leaves handles.
LEMMA PopType ==
    ASSUME NEW hs \in Seq(Handles), hs # <<>>
    PROVE  /\ Pop(hs) \in Seq(Handles) /\ Len(Pop(hs)) = Len(hs) - 1
           /\ \A k \in 1..Len(hs) - 1 : Pop(hs)[k] = hs[k]
           /\ Len(hs) \in Nat \ {0}
<1>1. Len(hs) \in Nat \ {0} /\ \A i \in 1..Len(hs) : hs[i] \in Handles
  BY EmptySeq, LenProperties
<1>2. \A i \in 1..Len(hs) - 1 : hs[i] \in Handles
  BY <1>1
<1>3. PICK n \in Nat : n = Len(hs) - 1
  BY <1>1
<1>4. /\ SubSeq(hs, 1, n) \in Seq(Handles)
      /\ Len(SubSeq(hs, 1, n)) = IF 1 <= n THEN n - 1 + 1 ELSE 0
      /\ \A i \in 1..n - 1 + 1 : SubSeq(hs, 1, n)[i] = hs[1 + i - 1]
  BY <1>2, <1>3, SubSeqProperties
<1>5. Len(SubSeq(hs, 1, n)) = n
  BY <1>4
<1>6. ASSUME NEW k \in 1..n PROVE SubSeq(hs, 1, n)[k] = hs[k]
  <2>1. k \in 1..n - 1 + 1 /\ 1 + k - 1 = k
    OBVIOUS
  <2>2. SubSeq(hs, 1, n)[k] = hs[1 + k - 1]
    BY <1>4, <2>1
  <2> QED BY <2>1, <2>2
<1> QED BY <1>1, <1>3, <1>4, <1>5, <1>6 DEF Pop

\* A first handle owns the file.
LEMMA FirstIsNested ==
    ASSUME NEW h \in Handles, ~h.reentrant
    PROVE  IsNested(Append(<<>>, h)) /\ Append(<<>>, h)[1] = h
BY DEF IsNested

\* A re-entrant acquisition nests under the ones before.
LEMMA PushIsNested ==
    ASSUME NEW hs \in Seq(Handles), NEW h \in Handles, IsNested(hs), h.reentrant
    PROVE  IsNested(Append(hs, h)) /\ Append(hs, h)[1] = hs[1]
<1>1. /\ Append(hs, h) # <<>> /\ Len(Append(hs, h)) = Len(hs) + 1
      /\ \A i \in 1..Len(hs) : Append(hs, h)[i] = hs[i]
      /\ Append(hs, h)[Len(hs) + 1] = h
      /\ Len(hs) \in Nat \ {0}
  BY AppendProperties, EmptySeq DEF IsNested
<1> QED BY <1>1 DEF IsNested

\* Dropping a re-entrant handle leaves the others nested under the same first one.
LEMMA PopIsNested ==
    ASSUME NEW hs \in Seq(Handles), IsNested(hs), hs[Len(hs)].reentrant
    PROVE  IsNested(Pop(hs)) /\ Pop(hs)[1] = hs[1]
<1>1. /\ Len(Pop(hs)) = Len(hs) - 1 /\ Pop(hs) \in Seq(Handles)
      /\ \A k \in 1..Len(hs) - 1 : Pop(hs)[k] = hs[k]
      /\ Len(hs) \in Nat \ {0}
  BY PopType DEF IsNested
<1>2. Len(hs) # 1
  BY DEF IsNested
<1>3. Pop(hs) # <<>>
  BY <1>1, <1>2, EmptySeq
<1> QED BY <1>1, <1>2, <1>3 DEF IsNested

\* The handle that owns the file is the last one to be dropped.
LEMMA OwningIsLast ==
    ASSUME NEW hs \in Seq(Handles), IsNested(hs), ~hs[Len(hs)].reentrant
    PROVE  Len(hs) = 1 /\ Pop(hs) = <<>>
<1>1. Len(hs) \in Nat \ {0} /\ Len(Pop(hs)) = Len(hs) - 1 /\ Pop(hs) \in Seq(Handles)
  BY PopType DEF IsNested
<1>2. Len(hs) = 1
  BY <1>1 DEF IsNested
<1> QED BY <1>1, <1>2, EmptySeq

-----------------------------------------------------------------------------
\* Return keeps the types of the locals, and a process left without handles is out.
LEMMA ReturnTypes ==
    ASSUME TypeOK, NEW p \in Procs, NEW hs \in Seq(Handles), Return(p, hs)
    PROVE  /\ handles' \in [Procs -> Seq(Handles)]
           /\ pc' \in [Procs -> Locations]
           /\ now' \in [Procs -> Nat] /\ tries' \in [Procs -> Nat]
           /\ \A q \in Procs : pc'[q] \in {"held", "unlink"} => handles'[q] # <<>>
<1>1. handles' \in [Procs -> Seq(Handles)]
  BY DEF TypeOK, Return
<1>2. now' \in [Procs -> Nat] /\ tries' \in [Procs -> Nat]
  BY DEF TypeOK, Return
<1>3. pc' \in [Procs -> Locations]
  BY DEF TypeOK, Return, Goto, Locations
<1>4. ASSUME NEW q \in Procs, pc'[q] \in {"held", "unlink"} PROVE handles'[q] # <<>>
  BY <1>4 DEF TypeOK, Return, Goto
<1> QED BY <1>1, <1>2, <1>3, <1>4

\* The initial state has the types.
LEMMA InitTypeOK == Init => TypeOK
<1> SUFFICES ASSUME Init PROVE TypeOK
  OBVIOUS
<1>1. file \in Files
  BY DEF Init, Files
<1>2. pc \in [Procs -> Locations] /\ \A p \in Procs : pc[p] = "idle"
  BY DEF Init, Locations
<1>3. handles \in [Procs -> Seq(Handles)]
  BY EmptySeq DEF Init
<1>4. clock \in Nat /\ now \in [Procs -> Nat] /\ tries \in [Procs -> Nat]
  BY DEF Init
<1>5. reclaimed \in BOOLEAN /\ faults \in Nat
  BY DEF Init
<1> QED BY <1>1, <1>2, <1>3, <1>4, <1>5 DEF TypeOK

\* Every step keeps the types.
LEMMA TypeStep == TypeOK /\ [Next]_vars => TypeOK'
<1> SUFFICES ASSUME TypeOK, [Next]_vars PROVE TypeOK'
  OBVIOUS
<1>0. NoFile \in Files
  BY DEF Files
<1>1. CASE Tick
  BY <1>1, BoundsAssumption DEF Tick, TypeOK
<1>2. ASSUME NEW p \in Procs, TryAcquire(p) PROVE TypeOK'
  BY <1>2 DEF TryAcquire, TypeOK, Goto, Locations
<1>3. ASSUME NEW p \in Procs, CreateExclusive(p) PROVE TypeOK'
  <2>1. file' \in Files
    BY <1>3 DEF CreateExclusive, TypeOK, Files
  <2>2. pc' \in [Procs -> Locations]
        /\ \A q \in Procs : pc'[q] \in {"held", "unlink"} => handles'[q] # <<>>
    BY <1>3 DEF CreateExclusive, TypeOK, Goto, Locations
  <2> QED BY <1>3, <2>1, <2>2 DEF CreateExclusive, TypeOK
<1>4. ASSUME NEW p \in Procs, GiveUp(p) PROVE TypeOK'
  <2>1. handles[p] \in Seq(Handles) /\ Return(p, handles[p])
    BY <1>4 DEF GiveUp, TypeOK
  <2> QED BY <1>4, <2>1, ReturnTypes DEF GiveUp, TypeOK
<1>5. ASSUME NEW p \in Procs, WriteRecord(p) PROVE TypeOK'
  <2>1. [since |-> now[p], reentrant |-> FALSE] \in Handles
    BY DEF TypeOK, Handles
  <2>2. Append(handles[p], [since |-> now[p], reentrant |-> FALSE]) \in Seq(Handles)
    BY <2>1, AppendProperties DEF TypeOK
  <2>3. file' \in Files
    <3>1. CASE file.by = p /\ file.state = "empty"
      <4>1. file \in [state : {"empty", "written"}, by : Procs, since : Nat, mtime : Nat]
        BY <3>1 DEF TypeOK, Files, NoFile, Unreadable
      <4> QED BY <1>5, <3>1, <4>1 DEF WriteRecord, TypeOK, Files
    <3> QED BY <1>5, <3>1 DEF WriteRecord, TypeOK
  <2> QED BY <1>5, <2>2, <2>3, ReturnTypes DEF WriteRecord, TypeOK
<1>6. ASSUME NEW p \in Procs, ReadRecord(p) PROVE TypeOK'
  <2>1. handles[p] \in Seq(Handles)
    BY DEF TypeOK
  <2>2. CASE file \in {NoFile, Unreadable} /\ Goto(p, "create")
             /\ tries' = [tries EXCEPT ![p] = @ + 1] /\ UNCHANGED <<now, handles>>
    BY <1>6, <2>2 DEF ReadRecord, TypeOK, Goto, Locations
  <2>3. CASE Return(p, Append(handles[p], [since |-> file.since, reentrant |-> TRUE]))
    <3>1. [since |-> file.since, reentrant |-> TRUE] \in Handles
      BY DEF TypeOK, Files, NoFile, Unreadable, Handles
    <3>2. Append(handles[p], [since |-> file.since, reentrant |-> TRUE]) \in Seq(Handles)
      BY <2>1, <3>1, AppendProperties
    <3> QED BY <1>6, <2>3, <3>2, ReturnTypes DEF ReadRecord, TypeOK
  <2>4. CASE Return(p, handles[p])
    BY <1>6, <2>1, <2>4, ReturnTypes DEF ReadRecord, TypeOK
  <2>5. CASE Goto(p, "reclaim_stale") /\ UNCHANGED <<now, tries, handles>>
    BY <1>6, <2>5 DEF ReadRecord, TypeOK, Goto, Locations
  <2>6. CASE Goto(p, "age") /\ UNCHANGED <<now, tries, handles>>
    BY <1>6, <2>6 DEF ReadRecord, TypeOK, Goto, Locations
  <2> QED BY <1>6, <2>2, <2>3, <2>4, <2>5, <2>6 DEF ReadRecord
<1>7. ASSUME NEW p \in Procs, CheckAge(p) PROVE TypeOK'
  <2>1. CASE Goto(p, "reclaim_garbage") /\ UNCHANGED <<now, tries, handles>>
    BY <1>7, <2>1 DEF CheckAge, TypeOK, Goto, Locations
  <2>2. CASE Return(p, handles[p])
    <3>1. handles[p] \in Seq(Handles)
      BY DEF TypeOK
    <3> QED BY <1>7, <2>2, <3>1, ReturnTypes DEF CheckAge, TypeOK
  <2> QED BY <1>7, <2>1, <2>2 DEF CheckAge
<1>8. ASSUME NEW p \in Procs, Reclaim(p) PROVE TypeOK'
  BY <1>0, <1>8 DEF Reclaim, TypeOK, Goto, Locations
<1>9. ASSUME NEW p \in Procs, Release(p) PROVE TypeOK'
  <2>1. CASE Goto(p, "unlink") /\ UNCHANGED <<now, tries, handles>>
    BY <1>9, <2>1 DEF Release, TypeOK, Goto, Locations
  <2>2. CASE Return(p, Dropped(p))
    <3>1. Dropped(p) \in Seq(Handles)
      BY <1>9, PopType DEF Release, TypeOK, Dropped, Pop
    <3> QED BY <1>9, <2>2, <3>1, ReturnTypes DEF Release, TypeOK
  <2> QED BY <1>9, <2>1, <2>2 DEF Release
<1>10. ASSUME NEW p \in Procs, Unlink(p) PROVE TypeOK'
  <2>1. Dropped(p) \in Seq(Handles)
    BY <1>10, PopType DEF Unlink, TypeOK, Dropped, Pop
  <2> QED BY <1>0, <1>10, <2>1, ReturnTypes DEF Unlink, TypeOK
<1>11. ASSUME NEW p \in Procs, Crash(p) PROVE TypeOK'
  BY <1>11, EmptySeq DEF Crash, TypeOK, Goto, Locations
<1>13. ASSUME NEW p \in Procs, AcquireFails(p) \/ WriteFails(p) PROVE TypeOK'
  <2>1. handles[p] \in Seq(Handles) /\ Return(p, handles[p])
    BY <1>13 DEF AcquireFails, WriteFails, TypeOK
  <2> QED BY <1>13, <2>1, ReturnTypes DEF AcquireFails, WriteFails, TypeOK
<1>12. CASE UNCHANGED vars
  BY <1>12 DEF vars, TypeOK
<1> QED BY <1>1, <1>2, <1>3, <1>4, <1>5, <1>6, <1>7, <1>8, <1>9, <1>10, <1>11, <1>12, <1>13
        DEF Next, Step

\* The variables keep their types, and a process is in a section only with a handle.
THEOREM TypeCorrect == Spec => []TypeOK
BY InitTypeOK, TypeStep, PTL DEF Spec

-----------------------------------------------------------------------------
\* While nobody reclaims: a process with handles, nested, is the one its outermost
\* handle's record names; one that is about to write its record holds the empty file;
\* and a live process that a written record names holds it.
OwnFile(p) ==
    /\ handles[p] # <<>> =>
           /\ IsNested(handles[p])
           /\ file.state = "written" /\ file.by = p
           /\ file.since = handles[p][1].since
    /\ pc[p] = "write" => handles[p] = <<>> /\ file.state = "empty" /\ file.by = p
    /\ pc[p] = "unlink" => ~Innermost(p).reentrant
    /\ file.by = p /\ file.state = "written" => pc[p] = "crashed" \/ handles[p] # <<>>

IInv == TypeOK /\ (reclaimed \/ \A p \in Procs : OwnFile(p))

\* A step of p that leaves the file and the handles alone keeps everyone's claim.
LEMMA QuietStep ==
    ASSUME TypeOK, NEW p \in Procs, \A q \in Procs : OwnFile(q),
           UNCHANGED <<file, handles>>, NEW l, l \notin {"write", "unlink"}, Goto(p, l),
           pc[p] \notin {"write", "crashed"}
    PROVE  \A q \in Procs : OwnFile(q)'
<1> SUFFICES ASSUME NEW q \in Procs PROVE OwnFile(q)'
  OBVIOUS
<1>1. OwnFile(q) /\ OwnFile(p)
  OBVIOUS
<1>2. pc'[q] = IF q = p THEN l ELSE pc[q]
  BY DEF TypeOK, Goto
<1> QED BY <1>1, <1>2 DEF OwnFile, Innermost

\* A refused call leaves everyone's claim alone.
LEMMA RefusedStep ==
    ASSUME TypeOK, NEW p \in Procs, \A q \in Procs : OwnFile(q), UNCHANGED file,
           Return(p, handles[p]), pc[p] \notin {"write", "crashed"}
    PROVE  \A q \in Procs : OwnFile(q)'
<1>1. handles' = handles
  BY DEF TypeOK, Return
<1>2. PICK l : l \in {"idle", "held"} /\ Goto(p, l)
  BY DEF Return
<1> QED BY <1>1, <1>2, QuietStep

\* What the others claim survives a step of p that changes the file, when p held it or
\* nobody did.
LEMMA OthersKeepNothing ==
    ASSUME TypeOK, NEW p \in Procs, \A q \in Procs : OwnFile(q),
           file = NoFile \/ file.by = p,
           file'.by \in {p, None},
           NEW q \in Procs, q # p, pc'[q] = pc[q], handles'[q] = handles[q]
    PROVE  OwnFile(q)'
<1>1. file.by # q /\ file'.by # q
  BY NoneAssumption DEF NoFile
<1>2. handles[q] = <<>> /\ pc[q] # "write" /\ pc[q] # "unlink"
  BY <1>1 DEF OwnFile, TypeOK
<1> QED BY <1>1, <1>2 DEF OwnFile

\* Every step keeps the claims, until one reclaims.
LEMMA OwnStep == IInv /\ [Next]_vars => reclaimed' \/ \A p \in Procs : OwnFile(p)'
<1> SUFFICES ASSUME IInv, [Next]_vars, ~reclaimed'
             PROVE  \A p \in Procs : OwnFile(p)'
  OBVIOUS
<1> USE DEF IInv
<1>0. \A p \in Procs : OwnFile(p)
  BY DEF Next, Step, vars, Tick, TryAcquire, CreateExclusive, GiveUp, WriteRecord,
         AcquireFails, WriteFails, ReadRecord, CheckAge, Reclaim, Release, Unlink, Crash
<1>1. CASE Tick \/ UNCHANGED vars
  BY <1>0, <1>1 DEF Tick, vars, OwnFile, Innermost
<1>2. ASSUME NEW p \in Procs, TryAcquire(p) PROVE \A q \in Procs : OwnFile(q)'
  BY <1>0, <1>2, QuietStep DEF TryAcquire
<1>3. ASSUME NEW p \in Procs, CreateExclusive(p) PROVE \A q \in Procs : OwnFile(q)'
  <2>1. CASE file # NoFile
    BY <1>0, <1>3, <2>1, QuietStep DEF CreateExclusive
  <2>2. CASE file = NoFile
    <3>1. /\ file' = [state |-> "empty", by |-> p, since |-> 0, mtime |-> clock]
          /\ handles' = handles
          /\ \A q \in Procs : pc'[q] = IF q = p THEN "write" ELSE pc[q]
      BY <1>3, <2>2 DEF CreateExclusive, Goto, TypeOK
    <3>2. OwnFile(p)'
      BY <1>0, <2>2, <3>1 DEF OwnFile, NoFile
    <3>3. ASSUME NEW q \in Procs, q # p PROVE OwnFile(q)'
      BY <1>0, <2>2, <3>1, <3>3, OthersKeepNothing
    <3> QED BY <3>2, <3>3
  <2> QED BY <2>1, <2>2
<1>4. ASSUME NEW p \in Procs, GiveUp(p) PROVE \A q \in Procs : OwnFile(q)'
  BY <1>0, <1>4, RefusedStep DEF GiveUp
<1>5. ASSUME NEW p \in Procs, WriteRecord(p) PROVE \A q \in Procs : OwnFile(q)'
  <2> DEFINE h == [since |-> now[p], reentrant |-> FALSE]
  <2>1. handles[p] = <<>> /\ file.state = "empty" /\ file.by = p
    BY <1>0, <1>5 DEF OwnFile, WriteRecord
  <2>2. file \in [state : {"empty", "written"}, by : Procs, since : Nat, mtime : Nat]
    BY <2>1 DEF TypeOK, Files, NoFile, Unreadable
  <2>3. file'.state = "written" /\ file'.by = p /\ file'.since = now[p]
    BY <1>5, <2>1, <2>2 DEF WriteRecord
  <2>4. h \in Handles /\ ~h.reentrant /\ h.since = now[p]
    BY DEF TypeOK, Handles
  <2>5. \A q \in Procs : /\ handles'[q] = IF q = p THEN Append(<<>>, h) ELSE handles[q]
                         /\ q # p => pc'[q] = pc[q]
    BY <1>5, <2>1 DEF WriteRecord, Return, Goto, TypeOK
  <2>6. pc'[p] \in {"idle", "held"}
    BY <1>5 DEF WriteRecord, Return, Goto, TypeOK
  <2>7. OwnFile(p)'
    <3>1. IsNested(handles'[p]) /\ handles'[p][1].since = now[p] /\ handles'[p] # <<>>
      BY <2>4, <2>5, FirstIsNested DEF IsNested
    <3> QED BY <2>3, <2>6, <3>1 DEF OwnFile
  <2>8. ASSUME NEW q \in Procs, q # p PROVE OwnFile(q)'
    BY <1>0, <2>1, <2>3, <2>5, <2>8, OthersKeepNothing
  <2> QED BY <2>7, <2>8
<1>6. ASSUME NEW p \in Procs, ReadRecord(p) PROVE \A q \in Procs : OwnFile(q)'
  <2>1. pc[p] = "read" /\ UNCHANGED file
    BY <1>6 DEF ReadRecord
  <2>2. CASE \E l \in {"create", "reclaim_stale", "age"} : Goto(p, l) /\ UNCHANGED handles
    BY <1>0, <2>1, <2>2, QuietStep
  <2>3. CASE Return(p, handles[p])
    BY <1>0, <2>1, <2>3, RefusedStep
  <2>4. CASE /\ file.state = "written" /\ file.by = p
             /\ Return(p, Append(handles[p], [since |-> file.since, reentrant |-> TRUE]))
    <3> DEFINE h == [since |-> file.since, reentrant |-> TRUE]
    <3>1. handles[p] # <<>> /\ handles[p] \in Seq(Handles) /\ h \in Handles /\ h.reentrant
      BY <1>0, <2>1, <2>4 DEF OwnFile, TypeOK, Files, NoFile, Unreadable, Handles
    <3>2. \A q \in Procs : /\ handles'[q] = IF q = p THEN Append(handles[p], h) ELSE handles[q]
                           /\ q # p => pc'[q] = pc[q]
      BY <2>4 DEF Return, Goto, TypeOK
    <3>3. pc'[p] \in {"idle", "held"}
      BY <2>4 DEF Return, Goto, TypeOK
    <3> HIDE DEF h
    <3>4. IsNested(handles'[p]) /\ handles'[p][1] = handles[p][1] /\ handles'[p] # <<>>
      <4>1. handles'[p] = Append(handles[p], h) /\ IsNested(handles[p])
        BY <1>0, <3>1, <3>2 DEF OwnFile
      <4>2. IsNested(Append(handles[p], h)) /\ Append(handles[p], h)[1] = handles[p][1]
        BY <3>1, <4>1, PushIsNested
      <4> QED BY <4>1, <4>2 DEF IsNested
    <3>5. OwnFile(p)'
      BY <1>0, <2>1, <3>1, <3>3, <3>4 DEF OwnFile
    <3>6. ASSUME NEW q \in Procs, q # p PROVE OwnFile(q)'
      BY <1>0, <2>1, <3>2, <3>6 DEF OwnFile, Innermost
    <3> QED BY <3>5, <3>6
  <2> QED BY <1>6, <2>2, <2>3, <2>4 DEF ReadRecord
<1>7. ASSUME NEW p \in Procs, CheckAge(p) PROVE \A q \in Procs : OwnFile(q)'
  BY <1>0, <1>7, QuietStep, RefusedStep DEF CheckAge
<1>8. ASSUME NEW p \in Procs, Reclaim(p) PROVE FALSE
  BY <1>8 DEF Reclaim
<1>9. ASSUME NEW p \in Procs, Release(p) PROVE \A q \in Procs : OwnFile(q)'
  <2>1. /\ OwnFile(p) /\ handles[p] # <<>> /\ handles[p] \in Seq(Handles)
        /\ IsNested(handles[p]) /\ UNCHANGED file /\ Innermost(p) = handles[p][Len(handles[p])]
        /\ Dropped(p) = Pop(handles[p])
    BY <1>0, <1>9 DEF Release, OwnFile, TypeOK, Innermost, Dropped, Pop
  <2>2. CASE ~Innermost(p).reentrant
    <3>1. handles[p][Len(handles[p])] = handles[p][1]
      BY <2>1, <2>2, OwningIsLast
    <3>2. Goto(p, "unlink") /\ UNCHANGED handles
      BY <1>9, <2>1, <2>2, <3>1 DEF Release, OwnFile
    <3>3. ASSUME NEW q \in Procs PROVE OwnFile(q)'
      <4>1. pc'[q] = IF q = p THEN "unlink" ELSE pc[q]
        BY <3>2 DEF Goto, TypeOK
      <4> QED BY <1>0, <2>1, <2>2, <3>2, <4>1 DEF OwnFile, Innermost
    <3> QED BY <3>3
  <2>3. CASE Innermost(p).reentrant
    <3>1. \A q \in Procs : /\ handles'[q] = IF q = p THEN Pop(handles[p]) ELSE handles[q]
                           /\ q # p => pc'[q] = pc[q]
      BY <1>9, <2>1, <2>3 DEF Release, Return, Goto, TypeOK
    <3>2. pc'[p] \in {"idle", "held"}
      BY <1>9, <2>3 DEF Release, Return, Goto, TypeOK
    <3>3. IsNested(handles'[p]) /\ handles'[p][1] = handles[p][1] /\ handles'[p] # <<>>
      BY <2>1, <2>3, <3>1, PopIsNested DEF IsNested
    <3>4. OwnFile(p)'
      BY <2>1, <3>2, <3>3 DEF OwnFile
    <3>5. ASSUME NEW q \in Procs, q # p PROVE OwnFile(q)'
      BY <1>0, <2>1, <3>1, <3>5 DEF OwnFile, Innermost
    <3> QED BY <3>4, <3>5
  <2> QED BY <2>2, <2>3
<1>10. ASSUME NEW p \in Procs, Unlink(p) PROVE \A q \in Procs : OwnFile(q)'
  <2>1. handles[p] # <<>> /\ handles[p] \in Seq(Handles) /\ pc[p] = "unlink"
    BY <1>10 DEF Unlink, TypeOK
  <2>2. IsNested(handles[p]) /\ ~handles[p][Len(handles[p])].reentrant /\ file.by = p
    BY <1>0, <2>1 DEF OwnFile, Innermost
  <2>3. Dropped(p) = <<>>
    BY <2>1, <2>2, OwningIsLast DEF Dropped, Pop
  <2>4. \A q \in Procs : /\ handles'[q] = IF q = p THEN <<>> ELSE handles[q]
                         /\ pc'[q] = IF q = p THEN "idle" ELSE pc[q]
    BY <1>10, <2>3 DEF Unlink, Return, Goto, TypeOK
  <2>5. file' = NoFile
    BY <1>10 DEF Unlink
  <2>6. OwnFile(p)'
    BY <2>4, <2>5, NoneAssumption DEF OwnFile, NoFile
  <2>7. ASSUME NEW q \in Procs, q # p PROVE OwnFile(q)'
    BY <1>0, <2>2, <2>4, <2>5, <2>7, OthersKeepNothing DEF NoFile
  <2> QED BY <2>6, <2>7
<1>11. ASSUME NEW p \in Procs, Crash(p) PROVE \A q \in Procs : OwnFile(q)'
  <2>1. /\ UNCHANGED file
        /\ \A q \in Procs : /\ handles'[q] = IF q = p THEN <<>> ELSE handles[q]
                            /\ pc'[q] = IF q = p THEN "crashed" ELSE pc[q]
    BY <1>11 DEF Crash, Goto, TypeOK
  <2>2. ASSUME NEW q \in Procs PROVE OwnFile(q)'
    BY <1>0, <2>1 DEF OwnFile, Innermost
  <2> QED BY <2>2
<1>12. ASSUME NEW p \in Procs, AcquireFails(p) PROVE \A q \in Procs : OwnFile(q)'
  BY <1>0, <1>12, RefusedStep DEF AcquireFails
<1>13. ASSUME NEW p \in Procs, WriteFails(p) PROVE \A q \in Procs : OwnFile(q)'
  <2>1. handles[p] = <<>> /\ file.state = "empty" /\ file.by = p
    BY <1>0, <1>13 DEF OwnFile, WriteFails
  <2>2. /\ UNCHANGED <<file, handles>>
        /\ \A q \in Procs : pc'[q] = IF q = p THEN "idle" ELSE pc[q]
    BY <1>13, <2>1 DEF WriteFails, Return, Goto, TypeOK
  <2>3. ASSUME NEW q \in Procs PROVE OwnFile(q)'
    BY <1>0, <2>1, <2>2 DEF OwnFile, Innermost
  <2> QED BY <2>3
<1> QED BY <1>1, <1>2, <1>3, <1>4, <1>5, <1>6, <1>7, <1>8, <1>9, <1>10, <1>11, <1>12, <1>13
        DEF Next, Step

\* The claims hold initially.
LEMMA InitIInv == Init => IInv
<1> SUFFICES ASSUME Init PROVE IInv
  OBVIOUS
<1>1. \A p \in Procs : OwnFile(p)
  BY NoneAssumption DEF Init, OwnFile, NoFile, Unreadable
<1> QED BY <1>1, InitTypeOK DEF IInv

\* The claims hold in every reachable state.
LEMMA Invariance == Spec => []IInv
<1>1. IInv /\ [Next]_vars => IInv'
  BY TypeStep, OwnStep DEF IInv
<1> QED BY <1>1, InitIInv, PTL DEF Spec

\* As long as nobody reclaims a lock, no two processes are in a section, whatever
\* crashes, however long a section lasts and however deep acquisitions nest.
THEOREM OneAtATime == Spec => []ExclusionUntilReclaim
<1>1. IInv => ExclusionUntilReclaim
  BY DEF IInv, ExclusionUntilReclaim, MutualExclusion, InSection, OwnFile
<1> QED BY <1>1, Invariance, PTL

\* As long as nobody reclaims a lock, nested acquisitions and their drops leave the
\* outer holder's record in place.
THEOREM OuterHoldStays == Spec => []OuterHoldUntilReclaim
<1>1. IInv => OuterHoldUntilReclaim
  BY DEF IInv, OuterHoldUntilReclaim, OwnFile
<1> QED BY <1>1, Invariance, PTL
=============================================================================
