----------------------------- MODULE EventStore -----------------------------
(***************************************************************************)
(* store's append path over the two event tabs, and its two callers: the   *)
(* interactive submit (load, validate, lock, append) and the import commit *)
(* (lock, check the target, append every event).                           *)
(*                                                                         *)
(* One action is one call to the workbook.  Writers interleave between     *)
(* calls, any call may fail, a writer may crash anywhere.  The advisory    *)
(* lock is taken to exclude (AdvisoryLock says when it does); a crash      *)
(* leaves it held until it is reclaimed.  An event stands for its content, *)
(* and so for the EventId derived from it.  A tab that does not exist      *)
(* reads as empty and is created by the first append to it, so that it is  *)
(* an empty tab here.  Edits made in the workbook itself are not modelled. *)
(***************************************************************************)
EXTENDS Integers, Sequences, FiniteSets

CONSTANTS
    Writers,        \* the writing processes
    Tabs, Events,
    TabOf,          \* the tab of each event
    Submittable,    \* the events entered interactively
    Batch,          \* what the importer reconstructed, in the order of its commit
    Conflicts,      \* <<f, e>>: the kernel rejects e when f is in the log
    MaxAttempts,    \* attempts of one request (BackoffPolicy::max_attempts)
    MaxResends,     \* bound on attempts that follow one that landed unheard
    MaxCrashes      \* bound on crashes

ASSUME TabOfAssumption == TabOf \in [Events -> Tabs]
ASSUME EventsAssumption == Submittable \subseteq Events /\ Batch \in Seq(Events)
ASSUME AttemptsAssumption == MaxAttempts \in Nat \ {0} /\ MaxResends \in Nat /\ MaxCrashes \in Nat

VARIABLES
    rows,           \* the rows of each tab, in the order they were appended
    confirmed,      \* the events some caller was told are durable
    imported,       \* whether an import commit has returned Ok
    lock,           \* who holds the advisory lock
    pc, mode,       \* where each writer is, in a submit or in a commit
    job,            \* the events a writer still has to append
    view,           \* the log a submit loaded and validates against
    cache,          \* the fingerprint a writer's store keeps, or Cold
    seqno,          \* the Seq of the row being appended
    tries,          \* attempts made of the append request
    resends, crashes

local == <<pc, mode, job, view, cache, seqno, tries>>
vars == <<rows, confirmed, imported, lock, local, resends, crashes>>

EventRow == [seq : Nat, event : Events]
Logs == [Tabs -> Seq(EventRow)]
Fingerprints == [Tabs -> Int]

Free == "free"
Orphaned == "orphaned"
Cold == [t \in Tabs |-> -1]      \* the fingerprint no workbook has

ASSUME WritersAssumption == Free \notin Writers /\ Orphaned \notin Writers

Locked == {"target", "confirm", "lookup", "assign", "post", "verify", "reload"}
Locations == {"idle", "probe", "acquire"} \cup Locked

EmptyLog == [t \in Tabs |-> <<>>]
Has(log, e) == \E i \in DOMAIN log[TabOf[e]] : log[TabOf[e]][i].event = e
SeqsIn(tabRows) == {tabRows[i].seq : i \in DOMAIN tabRows}

\* Every load refuses a tab whose Seqs are not 1, 2, ... each once.
Loadable(log) == \A t \in Tabs : SeqsIn(log[t]) = 1..Len(log[t])

\* The count stands for the three cells of the probe: rows are only ever appended.
Probe(log) == [t \in Tabs |-> Len(log[t])]

\* ledger_core::validate and tax::validate_event, as which events exclude which.
Valid(log, e) == \A f \in Events : Has(log, f) => <<f, e>> \notin Conflicts

LiveMaxSeq(tabRows) ==
    CHOOSE m \in SeqsIn(tabRows) \cup {0} : \A n \in SeqsIn(tabRows) : n <= m

Current(w) == Head(job[w])
Goto(w, l) == pc' = [pc EXCEPT ![w] = l]

\* The writer is outside any call: the guards are dropped, its store is gone.
Leave(w) ==
    /\ Goto(w, "idle")
    /\ mode' = [mode EXCEPT ![w] = "none"]
    /\ job' = [job EXCEPT ![w] = <<>>]
    /\ view' = [view EXCEPT ![w] = EmptyLog]
    /\ cache' = [cache EXCEPT ![w] = Cold]
    /\ seqno' = [seqno EXCEPT ![w] = 0]
    /\ tries' = [tries EXCEPT ![w] = 0]

\* Mutant of Fail: an early return that leaves the lock held.
Fail_KeepsLock(w) ==
    /\ Leave(w)
    /\ UNCHANGED <<rows, confirmed, imported, lock, resends, crashes>>

\* An error returns control to the owner, who may submit again.
Fail(w) ==
    /\ Leave(w)
    /\ lock' = IF lock = w THEN Free ELSE lock
    /\ UNCHANGED <<rows, confirmed, imported, resends, crashes>>

\* The current event is confirmed; a commit goes on with its next one.
Confirm(w, fingerprint) ==
    /\ confirmed' = confirmed \cup {Current(w)}
    /\ \/ /\ Tail(job[w]) = <<>>
          /\ imported' = (imported \/ mode[w] = "commit")
          /\ Leave(w)
          /\ lock' = Free
       \/ /\ Tail(job[w]) # <<>>
          /\ Goto(w, "confirm")
          /\ job' = [job EXCEPT ![w] = Tail(@)]
          /\ cache' = [cache EXCEPT ![w] = fingerprint]
          /\ seqno' = [seqno EXCEPT ![w] = 0]
          /\ tries' = [tries EXCEPT ![w] = 0]
          /\ UNCHANGED <<imported, mode, view, lock>>
    /\ UNCHANGED <<rows, resends, crashes>>

-----------------------------------------------------------------------------
Init ==
    /\ rows = EmptyLog
    /\ confirmed = {}
    /\ imported = FALSE
    /\ lock = Free
    /\ pc = [w \in Writers |-> "idle"]
    /\ mode = [w \in Writers |-> "none"]
    /\ job = [w \in Writers |-> <<>>]
    /\ view = [w \in Writers |-> EmptyLog]
    /\ cache = [w \in Writers |-> Cold]
    /\ seqno = [w \in Writers |-> 0]
    /\ tries = [w \in Writers |-> 0]
    /\ resends = 0
    /\ crashes = 0

\* A submit of e, first or repeated, loads the log, which must be sound.
Submit(w, e) ==
    /\ pc[w] = "idle"
    /\ Loadable(rows)
    /\ Goto(w, "probe")
    /\ mode' = [mode EXCEPT ![w] = "submit"]
    /\ job' = [job EXCEPT ![w] = <<e>>]
    /\ view' = [view EXCEPT ![w] = rows]
    /\ UNCHANGED <<rows, confirmed, imported, lock, cache, seqno, tries, resends, crashes>>

\* The load ends by reading the probe; then e is validated against what was loaded,
\* unless it is in there already.
Validate(w) ==
    /\ pc[w] = "probe"
    /\ LET e == Current(w) IN
       \/ /\ Has(view[w], e) \/ Valid(view[w], e)
          /\ Goto(w, "acquire")
          /\ cache' = [cache EXCEPT ![w] = Probe(rows)]
          /\ UNCHANGED <<rows, confirmed, imported, lock, mode, job, view, seqno, tries,
                         resends, crashes>>
       \/ /\ ~Has(view[w], e) /\ ~Valid(view[w], e)
          /\ Fail(w)

\* import --commit, on a reconciliation the owner accepted; a rerun resumes.
Commit(w) ==
    /\ pc[w] = "idle"
    /\ Batch # <<>>
    /\ Goto(w, "acquire")
    /\ mode' = [mode EXCEPT ![w] = "commit"]
    /\ job' = [job EXCEPT ![w] = Batch]
    /\ UNCHANGED <<rows, confirmed, imported, lock, view, cache, seqno, tries, resends, crashes>>

\* Mutant of Acquire: a lock held by another writer is no obstacle.
Acquire_Anyway(w) ==
    /\ pc[w] = "acquire"
    /\ lock' = w
    /\ Goto(w, IF mode[w] = "commit" THEN "target" ELSE "confirm")
    /\ UNCHANGED <<rows, confirmed, imported, mode, job, view, cache, seqno, tries, resends, crashes>>

\* Held by another writer, the lock refuses; nobody waits for it.
Acquire(w) ==
    /\ pc[w] = "acquire"
    /\ \/ /\ lock = Free
          /\ lock' = w
          /\ Goto(w, IF mode[w] = "commit" THEN "target" ELSE "confirm")
          /\ UNCHANGED <<rows, confirmed, imported, mode, job, view, cache, seqno, tries,
                         resends, crashes>>
       \/ /\ lock # Free
          /\ Fail(w)

\* Mutant of CheckTarget: any workbook is a fit target.
CheckTarget_Skipped(w) ==
    /\ pc[w] = "target"
    /\ Goto(w, "confirm")
    /\ UNCHANGED <<rows, confirmed, imported, lock, mode, job, view, cache, seqno, tries,
                   resends, crashes>>

\* A commit goes to a workbook that holds nothing but events of this import.
CheckTarget(w) ==
    /\ pc[w] = "target"
    /\ LET own == {Batch[i] : i \in DOMAIN Batch}
           fresh == \A t \in Tabs : \A i \in DOMAIN rows[t] : rows[t][i].event \in own
       IN \/ /\ fresh
             /\ Goto(w, "confirm")
             /\ UNCHANGED <<rows, confirmed, imported, lock, mode, job, view, cache, seqno,
                            tries, resends, crashes>>
          \/ ~fresh /\ Fail(w)

\* confirm_currency: a cache that is cold or behind is rebuilt by a load, which must
\* find the log sound; what it loads is validated by nobody.
ConfirmCurrency(w) ==
    /\ pc[w] = "confirm"
    /\ \/ /\ cache[w] = Probe(rows) \/ Loadable(rows)
          /\ Goto(w, "lookup")
          /\ cache' = [cache EXCEPT ![w] = Probe(rows)]
          /\ view' = [view EXCEPT ![w] = EmptyLog]
          /\ UNCHANGED <<rows, confirmed, imported, lock, mode, job, seqno, tries, resends,
                         crashes>>
       \/ /\ cache[w] # Probe(rows) /\ ~Loadable(rows)
          /\ Fail(w)

\* Mutant of Lookup: the idempotency check is left out.
Lookup_Skipped(w) ==
    /\ pc[w] = "lookup"
    /\ Goto(w, "assign")
    /\ UNCHANGED <<rows, confirmed, imported, lock, mode, job, view, cache, seqno, tries,
                   resends, crashes>>

\* A row with the event's id is the event: it is confirmed without an append.
Lookup(w) ==
    /\ pc[w] = "lookup"
    /\ \/ /\ Has(rows, Current(w))
          /\ Confirm(w, cache[w])
       \/ /\ ~Has(rows, Current(w))
          /\ Goto(w, "assign")
          /\ UNCHANGED <<rows, confirmed, imported, lock, mode, job, view, cache, seqno,
                         tries, resends, crashes>>

AssignSeq(w) ==
    /\ pc[w] = "assign"
    /\ seqno' = [seqno EXCEPT ![w] = LiveMaxSeq(rows[TabOf[Current(w)]]) + 1]
    /\ Goto(w, "post")
    /\ UNCHANGED <<rows, confirmed, imported, lock, mode, job, view, cache, tries, resends,
                   crashes>>

Row(w) == [seq |-> seqno[w], event |-> Current(w)]
Landing(w) == rows' = [rows EXCEPT ![TabOf[Current(w)]] = Append(@, Row(w))]

\* One attempt of the append request lands and is answered.
PostAnswered(w) ==
    /\ pc[w] = "post"
    /\ Landing(w)
    /\ Goto(w, "verify")
    /\ UNCHANGED <<confirmed, imported, lock, mode, job, view, cache, seqno, tries, resends,
                   crashes>>

\* It fails without landing.  The client tries again; an error that no attempt can
\* mend, or the last attempt, ends the append.
PostFails(w) ==
    /\ pc[w] = "post"
    /\ \/ /\ tries[w] + 1 < MaxAttempts
          /\ tries' = [tries EXCEPT ![w] = @ + 1]
          /\ UNCHANGED <<rows, confirmed, imported, lock, pc, mode, job, view, cache, seqno,
                         resends, crashes>>
       \/ Fail(w)

\* It lands and its answer is lost; the client cannot tell, so tries again or gives up.
PostUnheard(w) ==
    /\ pc[w] = "post"
    /\ Landing(w)
    /\ \/ /\ tries[w] + 1 < MaxAttempts
          /\ resends < MaxResends
          /\ resends' = resends + 1
          /\ tries' = [tries EXCEPT ![w] = @ + 1]
          /\ UNCHANGED <<lock, pc, mode, job, view, cache, seqno>>
       \/ /\ tries[w] + 1 = MaxAttempts
          /\ Leave(w)
          /\ lock' = Free
          /\ UNCHANGED resends
    /\ UNCHANGED <<confirmed, imported, crashes>>

\* The row is read back by its id and compared with the row written.
ReadBack(w) ==
    /\ pc[w] = "verify"
    /\ LET mine == rows[TabOf[Current(w)]]
           found == CHOOSE i \in DOMAIN mine :
                        /\ mine[i].event = Current(w)
                        /\ \A j \in 1..i - 1 : mine[j].event # Current(w)
       IN \/ /\ Has(rows, Current(w)) /\ mine[found] = Row(w)
             /\ Goto(w, "reload")
             /\ UNCHANGED <<rows, confirmed, imported, lock, mode, job, view, cache, seqno,
                            tries, resends, crashes>>
          \/ /\ ~(Has(rows, Current(w)) /\ mine[found] = Row(w))
             /\ Fail(w)

\* The cache is rebuilt from a full load, which must find the log sound.
Reload(w) ==
    /\ pc[w] = "reload"
    /\ \/ Loadable(rows) /\ Confirm(w, Probe(rows))
       \/ ~Loadable(rows) /\ Fail(w)

\* A read of the workbook fails for good.
Unreachable(w) ==
    /\ pc[w] \in {"probe", "target", "confirm", "lookup", "assign", "verify", "reload"}
    /\ Fail(w)

\* A process dies; the lock it holds stays behind.
Crash(w) ==
    /\ pc[w] # "idle"
    /\ crashes < MaxCrashes
    /\ crashes' = crashes + 1
    /\ Leave(w)
    /\ lock' = IF lock = w THEN Orphaned ELSE lock
    /\ UNCHANGED <<rows, confirmed, imported, resends>>

\* Past its TTL, the lock of a dead process is reclaimed.
Reclaim ==
    /\ lock = Orphaned
    /\ lock' = Free
    /\ UNCHANGED <<rows, confirmed, imported, local, resends, crashes>>

Step(w) ==
    \/ Validate(w) \/ Commit(w) \/ Acquire(w) \/ CheckTarget(w) \/ ConfirmCurrency(w)
    \/ Lookup(w) \/ AssignSeq(w) \/ PostAnswered(w) \/ PostFails(w) \/ PostUnheard(w)
    \/ ReadBack(w) \/ Reload(w) \/ Unreachable(w) \/ Crash(w)

Next ==
    \/ Reclaim
    \/ \E w \in Writers : Step(w) \/ \E e \in Submittable : Submit(w, e)

Spec == Init /\ [][Next]_vars

-----------------------------------------------------------------------------
(***************************************************************************)
(* Properties                                                              *)
(***************************************************************************)
\* Every variable has its type, and the lock is the lock of whoever is between
\* acquiring it and returning.
TypeOK ==
    /\ rows \in Logs
    /\ confirmed \subseteq Events
    /\ imported \in BOOLEAN
    /\ lock \in Writers \cup {Free, Orphaned}
    /\ pc \in [Writers -> Locations]
    /\ mode \in [Writers -> {"none", "submit", "commit"}]
    /\ job \in [Writers -> Seq(Events)]
    /\ view \in [Writers -> Logs]
    /\ cache \in [Writers -> Fingerprints]
    /\ seqno \in [Writers -> Nat]
    /\ tries \in [Writers -> Nat]
    /\ resends \in Nat /\ crashes \in Nat
    /\ \A w \in Writers : pc[w] # "idle" => job[w] # <<>>
    /\ \A w \in Writers : pc[w] \in Locked <=> lock = w

\* The Seqs of a tab are 1, 2, ... in the order the rows were appended: whoever
\* appends, whatever fails or crashes, the log can be loaded and folded.
SeqIsDense ==
    \A t \in Tabs : \A i \in DOMAIN rows[t] : rows[t][i].seq = i

NoSeqMissing(tabRows) == \E k \in 0..Len(tabRows) : SeqsIn(tabRows) = 1..k

OneSeqPerEvent(tabRows) ==
    \A i, j \in DOMAIN tabRows :
        tabRows[i].seq = tabRows[j].seq <=> tabRows[i].event = tabRows[j].event

\* A row that a repeated request put there twice is the only damage: rows share a Seq
\* exactly when they are one event, and no Seq is missing, so that deleting the copies
\* restores a sound log.
DoubledRowsAreCopies ==
    \A t \in Tabs : NoSeqMissing(rows[t]) /\ OneSeqPerEvent(rows[t])

\* A fingerprint that still matches means that the log the event was validated against
\* is still the log.
CurrencyIsOfValidatedLog ==
    \A w \in Writers :
        pc[w] = "confirm" /\ mode[w] = "submit" /\ cache[w] = Probe(rows)
            => view[w] = rows

\* A commit that returned Ok left each tab beginning with the imported events in the
\* order that was reconciled, even when it took several runs with other writers between:
\* the n-th event of the import for a tab is the n-th row of it.
ImportIsAsReconciled ==
    imported =>
        \A i \in DOMAIN Batch :
            LET t == TabOf[Batch[i]]
                n == Cardinality({j \in 1..i : TabOf[Batch[j]] = t})
            IN  n \in DOMAIN rows[t] /\ rows[t][n].event = Batch[i]

\* What is folded is what the kernel accepts: no event of the log was excluded by one
\* before it.
LogIsValid ==
    \A t \in Tabs : \A j \in DOMAIN rows[t] : \A i \in 1..j - 1 :
        <<rows[t][i].event, rows[t][j].event>> \notin Conflicts

\* The store is an append-only log in which an event lands at most once and a
\* confirmed event stays.
Log == INSTANCE AppendOnlyLog
           WITH log <- [t \in Tabs |-> [i \in DOMAIN rows[t] |-> rows[t][i].event]]

ImplementsLog == Log!Spec
=============================================================================
