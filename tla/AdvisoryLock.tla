---------------------------- MODULE AdvisoryLock ----------------------------
(***************************************************************************)
(* runtime's machine-local advisory write-lock, at the granularity of its  *)
(* file-system calls: create with O_EXCL, write the record, read it back,  *)
(* stat, unlink.  Processes interleave between any two calls, may crash    *)
(* anywhere, and read a shared clock when a try_acquire begins.            *)
(*                                                                         *)
(* A process never comes back after a crash: a restart has another pid and *)
(* so another holder identity, which is another member of Procs.           *)
(***************************************************************************)
EXTENDS Integers, Sequences, FiniteSets

CONSTANTS
    Procs,          \* the processes (TUI sessions, cron runs, imports)
    TTL,            \* seconds after which a record is stale
    MaxAttempts,    \* create attempts of one try_acquire (8 in the code)
    MaxDepth,       \* bound on nested acquisitions of one process
    MaxTime,        \* bound on the clock
    MaxCrashes,     \* bound on the number of crashes
    MaxFaults,      \* bound on the file-system calls that fail
    Corrupt,        \* whether the lockfile found at the start may be unreadable
    Punctual        \* whether every process leaves its section before the TTL

ASSUME TTLAssumption == TTL \in Nat \ {0}
ASSUME BoundsAssumption ==
    /\ MaxAttempts \in Nat /\ MaxDepth \in Nat
    /\ MaxTime \in Nat /\ MaxCrashes \in Nat /\ MaxFaults \in Nat
ASSUME SwitchesAssumption == Punctual \in BOOLEAN /\ Corrupt \in BOOLEAN

VARIABLES
    clock,          \* the wall clock, in seconds
    file,           \* the lockfile: NoFile, or what the path names
    pc,             \* where each process is in try_acquire or in Drop
    now,            \* the clock as try_acquire read it on entry
    tries,          \* iterations of its loop so far
    handles,        \* the LockHandles a process owns, outermost first
    reclaimed,      \* whether any process has removed a lock it judged stale
    faults          \* file-system calls that failed

vars == <<clock, file, pc, now, tries, handles, reclaimed, faults>>

None == "none"

ASSUME NoneAssumption == None \notin Procs

NoFile == [state |-> "absent", by |-> None, since |-> 0, mtime |-> 0]
\* A file whose bytes are no text cannot even be read.
Unreadable == [state |-> "unreadable", by |-> None, since |-> 0, mtime |-> 0]
Files == {NoFile, Unreadable} \cup
         [state : {"empty", "written"}, by : Procs, since : Nat, mtime : Nat]
Handles == [since : Nat, reentrant : BOOLEAN]

Locations == {"idle", "create", "write", "read", "age", "reclaim_stale",
              "reclaim_garbage", "held", "unlink", "crashed"}

Crashed == {p \in Procs : pc[p] = "crashed"}

Goto(p, l) == pc' = [pc EXCEPT ![p] = l]

\* Mutant of Return: a process whose last handle is dropped goes on as if inside.
Return_StaysInside(p, hs) ==
    /\ handles' = [handles EXCEPT ![p] = hs]
    /\ Goto(p, "held")
    /\ now' = [now EXCEPT ![p] = 0]
    /\ tries' = [tries EXCEPT ![p] = 0]

\* The call ends and leaves the process the handles hs: it goes on with the section
\* it is in, or is out; the locals of the call are gone.
Return(p, hs) ==
    /\ handles' = [handles EXCEPT ![p] = hs]
    /\ Goto(p, IF hs = <<>> THEN "idle" ELSE "held")
    /\ now' = [now EXCEPT ![p] = 0]
    /\ tries' = [tries EXCEPT ![p] = 0]

-----------------------------------------------------------------------------
Init ==
    /\ clock = 0
    /\ file = NoFile \/ (Corrupt /\ file = Unreadable)
    /\ pc = [p \in Procs |-> "idle"]
    /\ now = [p \in Procs |-> 0]
    /\ tries = [p \in Procs |-> 0]
    /\ handles = [p \in Procs |-> <<>>]
    /\ reclaimed = FALSE
    /\ faults = 0

\* try_acquire is entered, from outside or nested in a section already held
\* (the primitives of an import commit).
TryAcquire(p) ==
    /\ pc[p] \in {"idle", "held"}
    /\ Len(handles[p]) < MaxDepth
    /\ Goto(p, "create")
    /\ now' = [now EXCEPT ![p] = clock]
    /\ tries' = [tries EXCEPT ![p] = 0]
    /\ UNCHANGED <<clock, file, handles, reclaimed, faults>>

\* Mutant of CreateExclusive: open without O_EXCL.
CreateExclusive_Truncates(p) ==
    /\ pc[p] = "create"
    /\ tries[p] < MaxAttempts
    /\ file' = [state |-> "empty", by |-> p, since |-> 0, mtime |-> clock]
    /\ Goto(p, "write")
    /\ UNCHANGED <<clock, now, tries, handles, reclaimed, faults>>

\* The O_EXCL create publishes an empty file, or fails because one exists.
CreateExclusive(p) ==
    /\ pc[p] = "create"
    /\ tries[p] < MaxAttempts
    /\ \/ /\ file = NoFile
          /\ file' = [state |-> "empty", by |-> p, since |-> 0, mtime |-> clock]
          /\ Goto(p, "write")
       \/ /\ file # NoFile
          /\ Goto(p, "read")
          /\ UNCHANGED file
    /\ UNCHANGED <<clock, now, tries, handles, reclaimed, faults>>

\* The directory or the file cannot be created: the error goes to the caller.
AcquireFails(p) ==
    /\ pc[p] = "create"
    /\ tries[p] < MaxAttempts
    /\ faults < MaxFaults
    /\ faults' = faults + 1
    /\ Return(p, handles[p])
    /\ UNCHANGED <<clock, file, reclaimed>>

\* The attempts are used up: Held{<contended>}.
GiveUp(p) ==
    /\ pc[p] = "create"
    /\ tries[p] = MaxAttempts
    /\ Return(p, handles[p])
    /\ UNCHANGED <<clock, file, reclaimed, faults>>

\* The record goes to the file this process created, even when the path no longer
\* names it; either way the process holds a handle that owns the lock.
WriteRecord(p) ==
    /\ pc[p] = "write"
    /\ file' = IF file.by = p /\ file.state = "empty"
               THEN [file EXCEPT !.state = "written", !.since = now[p], !.mtime = clock]
               ELSE file
    /\ Return(p, Append(handles[p], [since |-> now[p], reentrant |-> FALSE]))
    /\ UNCHANGED <<clock, reclaimed, faults>>

\* The write fails: the same error, and the file stays behind without a record.
WriteFails(p) ==
    /\ pc[p] = "write"
    /\ faults < MaxFaults
    /\ faults' = faults + 1
    /\ Return(p, handles[p])
    /\ UNCHANGED <<clock, file, reclaimed>>

Live(p) == now[p] - file.since < TTL

\* Mutant of ReadRecord: the vanished file does not count as an attempt.
ReadRecord_Uncounted(p) ==
    /\ pc[p] = "read"
    /\ \/ /\ file \in {NoFile, Unreadable}
          /\ Goto(p, "create")
          /\ UNCHANGED <<now, tries, handles>>
       \/ /\ file.state = "written" /\ Live(p) /\ file.by = p
          /\ Return(p, Append(handles[p], [since |-> file.since, reentrant |-> TRUE]))
       \/ /\ file.state = "written" /\ Live(p) /\ file.by # p
          /\ Return(p, handles[p])
       \/ /\ file.state = "written" /\ ~Live(p)
          /\ Goto(p, "reclaim_stale")
          /\ UNCHANGED <<now, tries, handles>>
       \/ /\ file.state = "empty"
          /\ Goto(p, "age")
          /\ UNCHANGED <<now, tries, handles>>
    /\ UNCHANGED <<clock, file, reclaimed, faults>>

\* The file exists: decode it and decide live, re-entrant or stale.  One that cannot
\* be read counts as one that vanished.
ReadRecord(p) ==
    /\ pc[p] = "read"
    /\ \/ /\ file \in {NoFile, Unreadable}
          /\ Goto(p, "create")
          /\ tries' = [tries EXCEPT ![p] = @ + 1]
          /\ UNCHANGED <<now, handles>>
       \/ /\ file.state = "written" /\ Live(p) /\ file.by = p
          /\ Return(p, Append(handles[p], [since |-> file.since, reentrant |-> TRUE]))
       \/ /\ file.state = "written" /\ Live(p) /\ file.by # p
          /\ Return(p, handles[p])
       \/ /\ file.state = "written" /\ ~Live(p)
          /\ Goto(p, "reclaim_stale")
          /\ UNCHANGED <<now, tries, handles>>
       \/ /\ file.state = "empty"
          /\ Goto(p, "age")
          /\ UNCHANGED <<now, tries, handles>>
    /\ UNCHANGED <<clock, file, reclaimed, faults>>

\* Mutant of CheckAge: an undecodable file is held whatever its age.
CheckAge_AlwaysHeld(p) ==
    /\ pc[p] = "age"
    /\ Return(p, handles[p])
    /\ UNCHANGED <<clock, file, reclaimed, faults>>

\* An undecodable file is garbage once its mtime is past the TTL, or when it has
\* no mtime because it is gone; otherwise Held{<initializing>}.
CheckAge(p) ==
    /\ pc[p] = "age"
    /\ IF file = NoFile \/ now[p] - file.mtime >= TTL
       THEN Goto(p, "reclaim_garbage") /\ UNCHANGED <<now, tries, handles>>
       ELSE Return(p, handles[p])
    /\ UNCHANGED <<clock, file, reclaimed, faults>>

\* remove_file, on whatever the path names by now; then the next attempt.
Reclaim(p) ==
    /\ pc[p] \in {"reclaim_stale", "reclaim_garbage"}
    /\ file' = NoFile
    /\ reclaimed' = TRUE
    /\ Goto(p, "create")
    /\ tries' = [tries EXCEPT ![p] = @ + 1]
    /\ UNCHANGED <<clock, now, handles, faults>>

Innermost(p) == handles[p][Len(handles[p])]
Dropped(p) == SubSeq(handles[p], 1, Len(handles[p]) - 1)

\* Mutant of Release: any handle, re-entrant or not, removes its file.
Release_ReentrantOwns(p) ==
    /\ pc[p] = "held"
    /\ handles[p] # <<>>
    /\ IF file.state = "written" /\ file.by = p /\ file.since = Innermost(p).since
       THEN Goto(p, "unlink") /\ UNCHANGED <<now, tries, handles>>
       ELSE Return(p, Dropped(p))
    /\ UNCHANGED <<clock, file, reclaimed, faults>>

\* Drop of the innermost handle: nothing when it is re-entrant, else the file is
\* read and compared with the handle before it is unlinked.
Release(p) ==
    /\ pc[p] = "held"
    /\ handles[p] # <<>>
    /\ IF /\ ~Innermost(p).reentrant
          /\ file.state = "written" /\ file.by = p
          /\ file.since = Innermost(p).since
       THEN Goto(p, "unlink") /\ UNCHANGED <<now, tries, handles>>
       ELSE Return(p, Dropped(p))
    /\ UNCHANGED <<clock, file, reclaimed, faults>>

\* The unlink that ends the drop of an owning handle.
Unlink(p) ==
    /\ pc[p] = "unlink"
    /\ file' = NoFile
    /\ Return(p, Dropped(p))
    /\ UNCHANGED <<clock, reclaimed, faults>>

\* A process dies in the middle of an acquisition, a section or a release; the
\* file stays as it is.
Crash(p) ==
    /\ pc[p] \notin {"idle", "crashed"}
    /\ Cardinality(Crashed) < MaxCrashes
    /\ Goto(p, "crashed")
    /\ handles' = [handles EXCEPT ![p] = <<>>]
    /\ now' = [now EXCEPT ![p] = 0]
    /\ tries' = [tries EXCEPT ![p] = 0]
    /\ UNCHANGED <<clock, file, reclaimed, faults>>

\* When a process began what it is doing now.
Began(p) == IF handles[p] = <<>> THEN now[p] ELSE handles[p][1].since
Busy(p) == pc[p] \notin {"idle", "crashed"}

\* Time passes.  Punctual processes never let the TTL run out on themselves.
Tick ==
    /\ clock < MaxTime
    /\ Punctual => \A p \in Procs : Busy(p) => clock + 1 - Began(p) < TTL
    /\ clock' = clock + 1
    /\ UNCHANGED <<file, pc, now, tries, handles, reclaimed, faults>>

Step(p) ==
    \/ CreateExclusive(p) \/ GiveUp(p) \/ WriteRecord(p) \/ ReadRecord(p)
    \/ CheckAge(p) \/ Reclaim(p) \/ Unlink(p)

Next ==
    \/ Tick
    \/ \E p \in Procs :
           \/ TryAcquire(p) \/ Step(p) \/ Release(p)
           \/ AcquireFails(p) \/ WriteFails(p) \/ Crash(p)

Spec == Init /\ [][Next]_vars

\* A live process finishes the call it is in and the section it holds, writers keep
\* coming back (cron runs, the owner's retries), and time passes.
Fairness ==
    /\ WF_vars(Tick)
    /\ \A p \in Procs : /\ WF_vars(Step(p))
                        /\ WF_vars(Release(p))
                        /\ WF_vars(pc[p] = "idle" /\ TryAcquire(p))

FairSpec == Spec /\ Fairness

-----------------------------------------------------------------------------
(***************************************************************************)
(* Properties                                                              *)
(***************************************************************************)
\* Every variable has its type, and only a process that owns a handle is in a
\* section.
TypeOK ==
    /\ clock \in Nat
    /\ file \in Files
    /\ pc \in [Procs -> Locations]
    /\ now \in [Procs -> Nat]
    /\ tries \in [Procs -> Nat]
    /\ handles \in [Procs -> Seq(Handles)]
    /\ reclaimed \in BOOLEAN
    /\ faults \in Nat
    /\ \A p \in Procs : pc[p] \in {"held", "unlink"} => handles[p] # <<>>

\* The process is inside a section: it has a handle and is not done with it.
InSection(p) ==
    /\ handles[p] # <<>>
    /\ ~(pc[p] = "unlink" /\ Len(handles[p]) = 1)

\* No two processes are ever in a section.
MutualExclusion ==
    \A p, q \in Procs : InSection(p) /\ InSection(q) => p = q

\* As long as nobody reclaims a lock, the exclusive create and the compared
\* release admit one process at a time, whatever crashes and however slow.
ExclusionUntilReclaim == reclaimed \/ MutualExclusion

\* As long as nobody reclaims a lock, nested acquisitions and their drops leave
\* the outer holder's record in place until its outermost drop.
OuterHoldUntilReclaim ==
    \A p \in Procs :
        handles[p] # <<>> =>
            reclaimed \/ (/\ file.state = "written" /\ file.by = p
                          /\ file.since = handles[p][1].since)

\* The same without the proviso: only the outermost drop releases the lock.
OuterHoldKept ==
    \A p \in Procs : pc[p] = "held" => file.state = "written" /\ file.by = p

\* A reclaimer that decoded a stale record removes only a stale record: of several
\* reclaimers, the later ones do not take away the lock of the first.
ReclaimRemovesOnlyStale ==
    [][\A p \in Procs :
           pc[p] = "reclaim_stale" /\ pc'[p] = "create"
               => file.state # "written" \/ ~Live(p)]_vars

\* A file left behind, by a crashed process or by an acquisition that failed to write
\* its record, is eventually taken away, so that it does not lock every writer out.
AbandonedLockReclaimed ==
    \A p \in Procs :
        (/\ pc[p] \in {"crashed", "idle"} /\ file.by = p
         /\ file.since + TTL <= MaxTime /\ file.mtime + TTL <= MaxTime)
            ~> file.by # p

\* try_acquire never blocks: under any contention it ends, and the process either
\* holds the lock or was refused.
AcquireReturns ==
    \A p \in Procs : pc[p] = "create" ~> pc[p] \in {"idle", "held", "crashed"}
=============================================================================
