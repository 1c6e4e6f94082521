-------------------------- MODULE MarksCycleProofs --------------------------
(***************************************************************************)
(* Theorems of MarksCycle.  Four invariants are inductive: one of the lock *)
(* and the History tab, in which a process that is to write has the rows   *)
(* it shows, one of the view tabs, in which those that a publish has come  *)
(* by show what it loaded, one of what a run has loaded and read, from     *)
(* which the numbers it shows follow, and one of the points on record and  *)
(* in the reports.                                                         *)
(***************************************************************************)
EXTENDS MarksCycle, TaxBookProofs

(***************************************************************************)
(* The steps of one process                                                *)
(***************************************************************************)
\* The phases in which a process has the write-lock.
Locked == {"tabs", "write", "verify"}

\* A step of p leaves the other processes alone, takes the lock when it is free
\* or gives it back, takes the rows of the History tab with it, and changes that
\* tab only to record a point.
StepOf(p) ==
    /\ DOMAIN run' = Procs
    /\ \A q \in Procs : q # p => run'[q] = run[q]
    /\ run'[p].pc = "idle" \/ DOMAIN run'[p] = DOMAIN Begun
    /\ \/ holder' = holder /\ (run'[p].pc \in Locked <=> run[p].pc \in Locked)
       \/ holder = {} /\ holder' = {p} /\ run'[p].pc \in Locked
       \/ holder' = holder \ {p} /\ run'[p].pc \notin Locked
    /\ run'[p].pc = "write" => holder = {} /\ run'[p].rows = history /\ history' = history
    /\ history' = history \/ (run[p].pc = "write" /\ history' = Recorded(p))
    /\ board' = board

\* The records of the processes: one that is in a cycle has every field of it.
RunOK ==
    /\ DOMAIN run = Procs
    /\ \A p \in Procs : run[p].pc = "idle" \/ DOMAIN run[p] = DOMAIN Begun

\* The fields that the steps of a cycle change.
LEMMA BegunFields ==
    {"pc", "report", "tab", "ok", "polls", "latest", "marks", "view", "tries", "stored", "rows", "at", "cell"}
        \subseteq DOMAIN Begun
BY DEF Begun

\* A process that loads is at the beginning of a cycle.
LEMMA LoadedHasBegun ==
    ASSUME NEW c, NEW r \in LoadOf(c)
    PROVE  r.pc = "publish" /\ DOMAIN r = DOMAIN Begun /\ r.stored = <<>> /\ r.report = {}
<1>1. PICK b, accruals, snap : r \in Loaded(c, b, accruals, snap)
    BY DEF LoadOf
<1> DEFINE made(annual, estimates) ==
               [Begun EXCEPT !.st = b.st, !.ctx = b.ctx, !.cell = c, !.brackets = Brackets(c),
                             !.annual = annual, !.symbols = Held(snap),
                             !.view = Render(snap, estimates, accruals, annual)]
           annuals == {AnnualRows(events, b.ctx, accruals)}
           estimated == {UnrealizedEstimates(snap, b.ctx, Today)}
<1>2. r \in {made(annual, estimates) : annual \in annuals, estimates \in estimated}
    BY <1>1 DEF Loaded
<1>3. \A annual, estimates : made(annual, estimates).pc = "publish"
                            /\ DOMAIN made(annual, estimates) = DOMAIN Begun
                            /\ made(annual, estimates).stored = <<>>
                            /\ made(annual, estimates).report = {}
    BY DEF Begun
<1> HIDE DEF made, annuals, estimated
<1>4. \E annual, estimates : r = made(annual, estimates)
    BY <1>2
<1> QED
    BY <1>3, <1>4

\* The start of a cycle.
LEMMA StartStep == ASSUME RunOK, NEW p \in Procs, Start(p) PROVE StepOf(p)
<1>1. PICK r : /\ r.pc = "publish" /\ DOMAIN r = DOMAIN Begun
               /\ run' = [run EXCEPT ![p] = [r EXCEPT !.at = started]]
    <2>1. PICK c : \E r \in LoadOf(c) : run' = [run EXCEPT ![p] = [r EXCEPT !.at = started]]
        BY DEF Start
    <2>2. PICK r \in LoadOf(c) : run' = [run EXCEPT ![p] = [r EXCEPT !.at = started]]
        BY <2>1
    <2>3. r.pc = "publish" /\ DOMAIN r = DOMAIN Begun
        BY LoadedHasBegun
    <2> QED
        BY <2>2, <2>3
<1>2. run'[p] = [r EXCEPT !.at = started]
    BY <1>1 DEF RunOK
<1>3. run'[p].pc = "publish" /\ DOMAIN run'[p] = DOMAIN Begun
    BY <1>1, <1>2, BegunFields
<1>4. run[p].pc = "idle" /\ UNCHANGED <<board, history, holder>>
    BY DEF Start
<1> QED
    BY <1>1, <1>3, <1>4 DEF StepOf, RunOK, Locked

\* A process that ends its cycle is idle.
LEMMA FinishStep ==
    ASSUME RunOK, NEW p \in Procs, NEW report, Finish(p, report)
    PROVE  /\ DOMAIN run' = Procs /\ \A q \in Procs : q # p => run'[q] = run[q]
           /\ run'[p].pc = "idle" /\ run'[p].report = report
BY DEF RunOK, Finish

\* A capture that failed is tried again or is reported to have failed.
LEMMA CaptureFailedStep ==
    ASSUME RunOK, NEW p \in Procs, run[p].pc # "idle", CaptureFailed(p)
    PROVE  /\ DOMAIN run' = Procs /\ \A q \in Procs : q # p => run'[q] = run[q]
           /\ \/ run'[p].pc = "capture" /\ DOMAIN run'[p] = DOMAIN Begun
              \/ /\ run'[p].pc = "idle"
                 /\ run'[p].report = Reported(run[p], "AppendFailed", run[p].stored)
<1>1. CASE run[p].tries + 1 < Attempts
    BY <1>1, BegunFields DEF CaptureFailed, RunOK
<1>2. CASE ~(run[p].tries + 1 < Attempts)
    BY <1>2, FinishStep DEF CaptureFailed
<1> QED
    BY <1>1, <1>2

\* Publishing, pricing and showing.
LEMMA PublishSteps ==
    ASSUME RunOK, NEW p \in Procs,
           LockForPublish(p) \/ SkipPublish(p) \/ WriteTab(p) \/ FailTab(p)
    PROVE  StepOf(p)
<1>1. CASE LockForPublish(p)
    BY <1>1, BegunFields DEF LockForPublish, RunOK, StepOf, Locked
<1>2. CASE SkipPublish(p)
    BY <1>2, BegunFields DEF SkipPublish, RunOK, StepOf, Locked
<1>3. ASSUME NEW ok, run[p].pc = "tabs", AfterTab(p, ok), UNCHANGED <<board, history>>
      PROVE  StepOf(p)
    <2>1. CASE run[p].tab < Len(TabOrder)
        BY <1>3, <2>1, BegunFields DEF AfterTab, RunOK, StepOf, Locked
    <2>2. CASE ~(run[p].tab < Len(TabOrder))
        BY <1>3, <2>2, BegunFields DEF AfterTab, RunOK, StepOf, Locked
    <2> QED
        BY <2>1, <2>2
<1>4. CASE WriteTab(p)
    BY <1>3, <1>4 DEF WriteTab
<1>5. CASE FailTab(p)
    BY <1>3, <1>5 DEF FailTab
<1> QED
    BY <1>1, <1>2, <1>4, <1>5

\* Pricing, and the end of a terminal's cycle.
LEMMA PriceSteps ==
    ASSUME RunOK, NEW p \in Procs, Poll(p) \/ FailPoll(p) \/ ShowView(p)
    PROVE  StepOf(p)
<1>1. CASE Poll(p)
    <2>1. PICK latest :
              run' = IF LastPoll(p, latest)
                     THEN [run EXCEPT ![p].pc = "priced", ![p].ok = TRUE, ![p].polls = 0,
                                      ![p].latest = <<>>,
                                      ![p].marks = ProducedMarks(run[p].symbols, latest, <<>>)]
                     ELSE [run EXCEPT ![p].latest = latest, ![p].polls = Lesser(@ + 1, MaxPolls)]
        BY <1>1 DEF Poll
    <2>2. run[p].pc = "poll" /\ UNCHANGED <<board, history, holder>>
        BY <1>1 DEF Poll
    <2>3. CASE LastPoll(p, latest)
        BY <2>1, <2>2, <2>3, BegunFields DEF RunOK, StepOf, Locked
    <2>4. CASE ~LastPoll(p, latest)
        BY <2>1, <2>2, <2>4, BegunFields DEF RunOK, StepOf, Locked
    <2> QED
        BY <2>3, <2>4
<1>2. CASE FailPoll(p)
    BY <1>2, FinishStep DEF FailPoll, StepOf, Locked
<1>3. CASE ShowView(p)
    BY <1>3, FinishStep DEF ShowView, StepOf, Locked
<1> QED
    BY <1>1, <1>2, <1>3

\* Capturing.
LEMMA CaptureSteps ==
    ASSUME RunOK, NEW p \in Procs,
           \/ ReadStored(p) \/ FailStored(p) \/ LockForCapture(p) \/ CaptureHeld(p)
           \/ WritePoint(p) \/ FailWrite(p) \/ VerifyPoint(p) \/ FailVerify(p)
    PROVE  StepOf(p)
<1>1. CASE ReadStored(p)
    <2>1. run[p].pc = "priced" /\ UNCHANGED <<board, history, holder>>
        BY <1>1 DEF ReadStored
    <2>2. CASE run' = [run EXCEPT ![p].pc = "capture", ![p].stored = history]
        BY <2>1, <2>2, BegunFields DEF RunOK, StepOf, Locked
    <2>3. CASE \E report : Finish(p, report)
        BY <2>1, <2>3, FinishStep DEF StepOf, Locked
    <2> QED
        BY <1>1, <2>2, <2>3 DEF ReadStored
<1>2. CASE FailStored(p)
    BY <1>2, FinishStep DEF FailStored, StepOf, Locked
<1>3. CASE LockForCapture(p)
    BY <1>3, BegunFields DEF LockForCapture, RunOK, StepOf, Locked
<1>4. CASE CaptureHeld(p)
    BY <1>4, CaptureFailedStep DEF CaptureHeld, StepOf, Locked
<1>5. CASE WritePoint(p)
    BY <1>5, BegunFields DEF WritePoint, RunOK, StepOf, Locked
<1>6. CASE FailWrite(p)
    BY <1>6, CaptureFailedStep DEF FailWrite, StepOf, Locked
<1>7. CASE VerifyPoint(p)
    <2>1. run[p].pc = "verify" /\ UNCHANGED <<board, history>> /\ holder' = holder \ {p}
        BY <1>7 DEF VerifyPoint
    <2>2. CASE \E report : Finish(p, report)
        BY <2>1, <2>2, FinishStep DEF StepOf, Locked
    <2>3. CASE CaptureFailed(p)
        BY <2>1, <2>3, CaptureFailedStep DEF StepOf, Locked
    <2> QED
        BY <1>7, <2>2, <2>3 DEF VerifyPoint
<1>8. CASE FailVerify(p)
    BY <1>8, CaptureFailedStep DEF FailVerify, StepOf, Locked
<1> QED
    BY <1>1, <1>2, <1>3, <1>4, <1>5, <1>6, <1>7, <1>8

\* Every step of a process, a crash included.
LEMMA ProcessSteps ==
    ASSUME RunOK, NEW p \in Procs, Start(p) \/ Advance(p) \/ Fault(p)
    PROVE  StepOf(p)
<1>1. CASE Crash(p)
    BY <1>1 DEF Crash, RunOK, StepOf, Locked, Idle
<1> QED
    BY <1>1, StartStep, PublishSteps, PriceSteps, CaptureSteps DEF Advance, Fault

(***************************************************************************)
(* The History tab                                                         *)
(***************************************************************************)
\* Rows of distinct trading days.
Distinct(rows) ==
    /\ rows \in Seq(Range(rows))
    /\ \A i, j \in DOMAIN rows : rows[i].key = rows[j].key => i = j

\* The trading days on record.
Keys(rows) == {rows[i].key : i \in DOMAIN rows}

\* A function over an interval is a sequence of its values.
LEMMA FunctionIsSeq ==
    ASSUME NEW n \in Nat, NEW f, f = [i \in 1..n |-> f[i]]
    PROVE  f \in Seq(Range(f)) /\ Len(f) = n /\ DOMAIN f = 1..n
<1>1. f \in [1..n -> Range(f)]
    BY DEF Range
<1>2. f \in Seq(Range(f))
    BY <1>1, SeqDef
<1>3. DOMAIN f = 1..n /\ DOMAIN f = 1..Len(f) /\ Len(f) \in Nat
    BY <1>1, <1>2, LenProperties
<1> QED
    BY <1>2, <1>3

\* A range update with no fewer rows than there were leaves those it is given.
LEMMA OverwriteWhole ==
    ASSUME NEW S, NEW old, NEW new \in Seq(S), Len(old) \in Nat, Len(new) >= Len(old)
    PROVE  Overwrite(old, new) = new
<1>1. Len(new) \in Nat
    BY LenProperties
<1>2. SubSeq(old, Len(new) + 1, Len(old)) = <<>>
    BY <1>1, SubSeqEmpty
<1>3. new \o <<>> = new
    BY ConcatEmptySeq
<1> QED
    BY <1>2, <1>3 DEF Overwrite

\* A point that is put in its day's row, or below the last, leaves every day a row.
LEMMA UpsertFacts ==
    ASSUME NEW rows, Distinct(rows), NEW point
    PROVE  LET new == Upsert(rows, point)
           IN  Distinct(new) /\ Overwrite(rows, new) = new /\ Keys(rows) \subseteq Keys(new)
<1> DEFINE new == Upsert(rows, point)
           n == Len(rows)
           S == Range(rows) \cup {point}
<1>1. n \in Nat /\ DOMAIN rows = 1..n /\ rows \in Seq(S)
    BY LenProperties, SeqMonotonic DEF Distinct
<1>2. CASE \E i \in DOMAIN rows : rows[i].key = point.key
    <2>1. new = [i \in 1..n |-> IF rows[i].key = point.key THEN point ELSE rows[i]]
        BY <1>1, <1>2 DEF Upsert
    <2> HIDE DEF new, n, S
    <2>2. new \in Seq(Range(new)) /\ Len(new) = n /\ DOMAIN new = 1..n
        BY <1>1, <2>1, FunctionIsSeq
    <2>3. \A i \in 1..n : new[i].key = rows[i].key
        BY <2>1
    <2>4. Distinct(new) /\ Keys(rows) \subseteq Keys(new)
        BY <1>1, <2>2, <2>3 DEF Distinct, Keys
    <2>5. Overwrite(rows, new) = new
        BY <1>1, <2>2, OverwriteWhole DEF n
    <2> QED
        BY <2>4, <2>5 DEF new
<1>3. CASE ~\E i \in DOMAIN rows : rows[i].key = point.key
    <2>1. new = Append(rows, point)
        BY <1>3 DEF Upsert
    <2> HIDE DEF new
    <2>2. /\ new \in Seq(S) /\ Len(new) = n + 1
          /\ \A i \in 1..n : new[i] = rows[i]
          /\ new[n + 1] = point
        BY <1>1, <2>1, AppendProperties
    <2> HIDE DEF S, n
    <2>3. DOMAIN new = 1..(n + 1) /\ new = [i \in 1..(n + 1) |-> new[i]]
        BY <1>1, <2>2, LenProperties
    <2>4. new \in Seq(Range(new))
        BY <1>1, <2>3, FunctionIsSeq
    <2>5. ASSUME NEW i \in DOMAIN new, NEW j \in DOMAIN new, new[i].key = new[j].key
          PROVE  i = j
        <3>1. i \in 1..n \/ i = n + 1
            BY <1>1, <2>3
        <3>2. j \in 1..n \/ j = n + 1
            BY <1>1, <2>3
        <3> QED
            BY <1>1, <1>3, <2>2, <2>5, <3>1, <3>2 DEF Distinct
    <2>6. Distinct(new)
        BY <2>4, <2>5 DEF Distinct
    <2>7. Keys(rows) \subseteq Keys(new)
        <3> SUFFICES ASSUME NEW i \in 1..n PROVE rows[i].key \in Keys(new)
            BY <1>1 DEF Keys
        <3>1. i \in 1..(n + 1)
            BY <1>1
        <3>2. i \in DOMAIN new /\ new[i] = rows[i]
            BY <2>2, <2>3, <3>1
        <3> QED
            BY <3>2 DEF Keys
    <2>8. Overwrite(rows, new) = new
        BY <1>1, <2>2, OverwriteWhole DEF n
    <2> QED
        BY <2>6, <2>7, <2>8 DEF new
<1> QED
    BY <1>2, <1>3

\* The History tab of the start has a row or none.
LEMMA SmallSetToSeq ==
    ASSUME NEW S, \A x, y \in S : x = y
    PROVE  Distinct(SetToSeq(S)) /\ \A i \in DOMAIN SetToSeq(S) : SetToSeq(S)[i] \in S
<1>1. IsFiniteSet(S) /\ Cardinality(S) \in {0, 1}
    <2>1. CASE S = {}
        BY <2>1, FS_EmptySet
    <2>2. CASE S # {}
        <3>1. PICK x : x \in S
            BY <2>2
        <3>2. S = {x}
            BY <3>1
        <3> QED
            BY <3>2, FS_Singleton
    <2> QED
        BY <2>1, <2>2
<1>2. \E f \in [1..Cardinality(S) -> S] : IsInjective(f)
    <2>1. CASE Cardinality(S) = 0
        <3>1. [i \in 1..0 |-> i] \in [1..Cardinality(S) -> S] /\ IsInjective([i \in 1..0 |-> i])
            BY <2>1 DEF IsInjective
        <3> QED
            BY <3>1
    <2>2. CASE Cardinality(S) = 1
        <3>1. S # {}
            BY <2>2, FS_EmptySet
        <3>2. PICK x : x \in S
            BY <3>1
        <3>3. [i \in 1..1 |-> x] \in [1..Cardinality(S) -> S] /\ IsInjective([i \in 1..1 |-> x])
            BY <2>2, <3>2 DEF IsInjective
        <3> QED
            BY <3>3
    <2> QED
        BY <1>1, <2>1, <2>2
<1>3. SetToSeq(S) \in [1..Cardinality(S) -> S] /\ IsInjective(SetToSeq(S))
    BY <1>2 DEF SetToSeq
<1> HIDE DEF SetToSeq
<1> DEFINE f == SetToSeq(S)
<1> HIDE DEF f
<1>4. f \in [1..Cardinality(S) -> S]
    BY <1>3 DEF f
<1>5. Cardinality(S) \in Nat /\ f = [i \in 1..Cardinality(S) |-> f[i]]
    BY <1>1, <1>4
<1>6. f \in Seq(Range(f)) /\ DOMAIN f = 1..Cardinality(S)
    BY <1>5, FunctionIsSeq
<1>7. \A i, j \in DOMAIN f : i = j
    BY <1>1, <1>6
<1>8. \A i \in DOMAIN f : f[i] \in S
    BY <1>4
<1> QED
    BY <1>6, <1>7, <1>8 DEF Distinct, f

(***************************************************************************)
(* The invariant of the cycles                                             *)
(***************************************************************************)
\* A process that is to write the History tab has the rows it shows, since it
\* is the one that has the lock.
CycleInv ==
    /\ RunOK
    /\ board \in DOMAIN Boards
    /\ \A p \in Procs : p \in holder <=> run[p].pc \in Locked
    /\ holder = {} \/ \E p \in Procs : holder = {p}
    /\ Distinct(history)
    /\ \A p \in Procs : run[p].pc = "write" => run[p].rows = history

\* The first state.
LEMMA CycleInitInv == CycleInit => CycleInv
<1> SUFFICES ASSUME CycleInit PROVE CycleInv
    OBVIOUS
<1>1. board = 1 /\ holder = {} /\ run = [p \in Procs |-> Idle]
    BY DEF CycleInit
<1>2. RunOK /\ \A p \in Procs : run[p].pc = "idle"
    BY <1>1 DEF RunOK, Idle
<1>3. board \in DOMAIN Boards
    BY <1>1, BoardsAssumption
<1>4. Distinct(history)
    <2>1. PICK r : history = SetToSeq({[key |-> key, at |-> 0, st |-> r.st, ctx |-> r.ctx, marks |-> OpeningMarks]
                                          : key \in TradingDayKey(OpeningMarks)})
        BY DEF CycleInit
    <2>2. \A x, y \in TradingDayKey(OpeningMarks) : x = y
        BY DEF TradingDayKey
    <2> QED
        BY <2>1, <2>2, SmallSetToSeq
<1> QED
    BY <1>1, <1>2, <1>3, <1>4 DEF CycleInv, Locked

\* What a step of a process keeps, and what it does to the days on record.
LEMMA ProcessKeeps ==
    ASSUME CycleInv, NEW p \in Procs, StepOf(p)
    PROVE  CycleInv' /\ Keys(history) \subseteq Keys(history')
<1>1. RunOK'
    BY DEF CycleInv, RunOK, StepOf
<1>2. board' \in DOMAIN Boards
    BY DEF CycleInv, StepOf
<1>3. \A q \in Procs : q \in holder' <=> run'[q].pc \in Locked
    BY DEF CycleInv, StepOf
<1>4. holder' = {} \/ \E q \in Procs : holder' = {q}
    BY DEF CycleInv, StepOf
<1>5. Distinct(history') /\ Keys(history) \subseteq Keys(history')
    <2>1. CASE history' = history
        BY <2>1 DEF CycleInv
    <2>2. CASE run[p].pc = "write" /\ history' = Recorded(p)
        <3>1. history' = Overwrite(history, Upsert(history, ThePoint(p)))
            BY <2>2 DEF CycleInv, Recorded
        <3>2. Distinct(history)
            BY DEF CycleInv
        <3> QED
            BY <3>1, <3>2, UpsertFacts
    <2> QED
        BY <2>1, <2>2 DEF StepOf
<1>6. ASSUME NEW q \in Procs, run'[q].pc = "write" PROVE run'[q].rows = history'
    <2>1. CASE q = p
        BY <1>6, <2>1 DEF StepOf
    <2>2. CASE q # p
        <3>1. run'[q] = run[q] /\ run[q].rows = history
            BY <1>6, <2>2 DEF StepOf, CycleInv
        <3>2. q \in holder
            BY <1>6, <3>1 DEF CycleInv, Locked
        <3>3. p \notin holder
            BY <2>2, <3>2 DEF CycleInv
        <3>4. run[p].pc # "write"
            BY <3>3 DEF CycleInv, Locked
        <3> QED
            BY <3>1, <3>4 DEF StepOf
    <2> QED
        BY <2>1, <2>2
<1> QED
    BY <1>1, <1>2, <1>3, <1>4, <1>5, <1>6 DEF CycleInv

\* Every step.
LEMMA CycleStep ==
    ASSUME CycleInv, [CycleNext]_vars
    PROVE  CycleInv' /\ Keys(history) \subseteq Keys(history')
<1>1. CASE BookStep \/ UNCHANGED vars
    <2>1. UNCHANGED cycle
        BY <1>1 DEF BookStep, vars
    <2> QED
        BY <2>1 DEF cycle, CycleInv, RunOK
<1>2. CASE Tick
    <2>1. board' \in DOMAIN Boards
        BY <1>2, BoardsAssumption DEF Tick, CycleInv
    <2>2. UNCHANGED <<history, holder, run>>
        BY <1>2 DEF Tick
    <2> QED
        BY <2>1, <2>2 DEF CycleInv, RunOK
<1>3. CASE \E p \in Procs : Start(p) \/ Advance(p) \/ Fault(p)
    BY <1>3, ProcessSteps, ProcessKeeps DEF CycleInv
<1> QED
    BY <1>1, <1>2, <1>3 DEF CycleNext

\* The invariant of every behaviour.
LEMMA CycleInvariant == CycleSpec => []CycleInv
<1> QED
    BY CycleInitInv, CycleStep, PTL DEF CycleSpec

\* The lock is with the process that publishes or captures and with no other, and
\* the History tab has one row for a trading day.
THEOREM CycleTypeCorrect == CycleSpec => []CycleTypeOK
<1>1. CycleInv => CycleTypeOK
    <2> SUFFICES ASSUME CycleInv PROVE CycleTypeOK
        OBVIOUS
    <2>1. Cardinality(holder) <= 1
        <3>1. CASE holder = {}
            BY <3>1, FS_EmptySet
        <3>2. CASE \E p \in Procs : holder = {p}
            BY <3>2, FS_Singleton
        <3> QED
            BY <3>1, <3>2 DEF CycleInv
    <2> QED
        BY <2>1 DEF CycleInv, CycleTypeOK, Locked, Distinct
<1> QED
    BY <1>1, CycleInvariant, PTL

(***************************************************************************)
(* Captured points                                                         *)
(***************************************************************************)
\* A step that reports a capture as made has read its point back.
Captured(p) ==
    run[p].pc = "verify" /\ run'[p].pc = "idle" /\ (\E rep \in run'[p].report : rep.outcome = "Appended")
        => \E i \in DOMAIN history' : history'[i] = ThePoint(p)

\* A step of another process does not end the cycle of this one, and what follows
\* a write is the reading of it.
LEMMA CaptureIsVerified ==
    ASSUME CycleInv, [CycleNext]_vars, NEW p \in Procs
    PROVE  Captured(p)
<1> SUFFICES ASSUME run[p].pc = "verify", run'[p].pc = "idle",
                    NEW rep \in run'[p].report, rep.outcome = "Appended"
             PROVE  \E i \in DOMAIN history' : history'[i] = ThePoint(p)
    BY DEF Captured
<1>1. RunOK
    BY DEF CycleInv
<1>2. run' # run
    OBVIOUS
<1>3. PICK q \in Procs : Start(q) \/ Advance(q) \/ Fault(q)
    BY <1>2 DEF CycleNext, BookStep, Tick, vars, cycle
<1>4. q = p
    BY <1>1, <1>3, ProcessSteps DEF StepOf
<1>5. VerifyPoint(p) \/ FailVerify(p) \/ Crash(p)
    BY <1>3, <1>4 DEF Start, Advance, Fault, LockForPublish, SkipPublish, WriteTab, Poll, ShowView,
        ReadStored, LockForCapture, CaptureHeld, WritePoint, FailTab, FailPoll, FailStored, FailWrite
<1>6. \A r : rep \notin Reported(r, "AppendFailed", r.stored)
    BY DEF Reported
<1>7. CASE Crash(p)
    BY <1>1, <1>7 DEF Crash, RunOK, Idle
<1>8. ASSUME CaptureFailed(p) PROVE FALSE
    BY <1>1, <1>6, <1>8, CaptureFailedStep
<1>9. CASE FailVerify(p)
    BY <1>8, <1>9 DEF FailVerify
<1>10. CASE VerifyPoint(p)
    <2>1. UNCHANGED history
        BY <1>10 DEF VerifyPoint
    <2>2. \E i \in DOMAIN history : history[i] = ThePoint(p)
        BY <1>8, <1>10 DEF VerifyPoint
    <2> QED
        BY <2>1, <2>2
<1> QED
    BY <1>5, <1>7, <1>9, <1>10

\* A captured trading day stays on record, and the point that a summary reports as
\* captured is there, however other processes capture theirs or fail.
THEOREM CapturedPointsStay == CycleSpec => CapturedPointsPersist
<1>1. CycleInv /\ [CycleNext]_vars
          => [/\ {history[i].key : i \in DOMAIN history} \subseteq {history'[i].key : i \in DOMAIN history'}
              /\ \A p \in Procs :
                    run[p].pc = "verify" /\ run'[p].pc = "idle"
                        /\ (\E rep \in run'[p].report : rep.outcome = "Appended")
                    => \E i \in DOMAIN history' : history'[i] = ThePoint(p)]_vars
    BY CycleStep, CaptureIsVerified DEF Keys, Captured
<1> QED
    BY <1>1, CycleInvariant, PTL DEF CycleSpec, CapturedPointsPersist

(***************************************************************************)
(* The tabs as they are rendered                                           *)
(***************************************************************************)
\* The view tabs.
Tabs == {"Positions", "OpenLots", "Realized", "Tax", "Reserve"}

\* Rows for every tab.
Rendered(view) == DOMAIN view = Tabs /\ \A t \in Tabs : view[t] \in Seq(Range(view[t]))

\* The elements of a finite set, in some order.
LEMMA FiniteSetToSeq ==
    ASSUME NEW S, IsFiniteSet(S)
    PROVE  SetToSeq(S) \in Seq(Range(SetToSeq(S)))
<1>1. Cardinality(S) \in Nat /\ ExistsBijection(1..Cardinality(S), S)
    BY FS_CardinalityType
<1>2. \E f \in [1..Cardinality(S) -> S] : IsInjective(f)
    BY <1>1 DEF ExistsBijection, Bijection, Injection
<1>3. SetToSeq(S) \in [1..Cardinality(S) -> S]
    BY <1>2 DEF SetToSeq
<1> DEFINE f == SetToSeq(S)
<1>4. f = [i \in 1..Cardinality(S) |-> f[i]]
    <2> HIDE DEF f
    <2> QED
        BY <1>3 DEF f
<1> HIDE DEF f
<1>5. f \in Seq(Range(f))
    BY <1>1, <1>4, FunctionIsSeq
<1> QED
    BY <1>5 DEF f

\* The members of a finite set of numbers, in their order.
LEMMA InOrderDomain ==
    ASSUME NEW S, IsFiniteSet(S)
    PROVE  Cardinality(S) \in Nat /\ DOMAIN InOrder(S) = 1..Cardinality(S)
BY FS_CardinalityType DEF InOrder

\* Rows made from a sequence, or from an order, are a sequence.
LEMMA RowsAreSeq ==
    ASSUME NEW n \in Nat, NEW f, DOMAIN f = 1..n, f = [i \in DOMAIN f |-> f[i]]
    PROVE  f \in Seq(Range(f))
<1>1. f = [i \in 1..n |-> f[i]]
    OBVIOUS
<1> QED
    BY <1>1, FunctionIsSeq

\* A snapshot of a replayed log.
LEMMA SnapshotFacts ==
    ASSUME NEW l \in Seq(Payloads)
    PROVE  LET snap == Snapshot(Replay(l), <<>>)
           IN  /\ \E n \in Nat : DOMAIN snap.lots = 1..n
               /\ \E n \in Nat : DOMAIN snap.gains = 1..n
               /\ IsFiniteSet(DOMAIN snap.positions)
<1> DEFINE st == Replay(l)
           snap == Snapshot(st, <<>>)
           K == {k \in DOMAIN st.lots : ~st.lots[k].closed /\ st.lots[k].qty # 0}
           symbol == [k \in DOMAIN st.lots |-> st.lots[k].symbol]
<1>1. FoldOK(st, Len(l))
    BY EveryStepOK DEF Replay
<1>2. /\ Len(st.lots) \in Nat /\ DOMAIN st.lots = 1..Len(st.lots)
      /\ Len(st.gains) \in Nat /\ DOMAIN st.gains = 1..Len(st.gains)
    BY <1>1, FoldTypes
<1> HIDE DEF st
<1>3. IsFiniteSet(DOMAIN st.lots) /\ IsFiniteSet(K)
    <2> DEFINE n == Len(st.lots)
    <2>0. n \in Int
        BY <1>2
    <2>1. IsFiniteSet(1..n)
        <3> HIDE DEF n, K
        <3> QED
            BY <2>0, FS_Interval
    <2>2. K \in SUBSET DOMAIN st.lots
        OBVIOUS
    <2> HIDE DEF K
    <2> QED
        BY <1>2, <2>1, <2>2, FS_Subset
<1>4. DOMAIN snap.lots = 1..Cardinality(K) /\ Cardinality(K) \in Nat
    BY <1>3, InOrderDomain DEF Snapshot, OpenLots
<1>5. DOMAIN snap.gains = 1..Len(st.gains)
    BY <1>2 DEF Snapshot
<1>6. DOMAIN snap.positions = {symbol[k] : k \in DOMAIN st.lots}
    BY DEF Snapshot, Positions
<1>7. IsFiniteSet(DOMAIN snap.positions)
    <2> HIDE DEF symbol
    <2> QED
        BY <1>3, <1>6, FiniteImage
<1> QED
    BY <1>2, <1>4, <1>5, <1>7 DEF st

\* The buckets of finitely many accruals are finitely many, and so are their rows.
LEMMA AnnualRowsFinite ==
    ASSUME NEW A, IsFiniteSet(A), events \in Seq(TaxPayloads), NEW ctx
    PROVE  IsFiniteSet(AnnualRows(events, ctx, A))
<1> DEFINE moves == {k \in DOMAIN events : events[k].kind = "Move"}
           accrued == [a \in A |-> <<a.key.jur, a.key.year>>]
           moved == [i \in moves |-> <<events[i].key.jur, events[i].key.year>>]
           row == [b \in Buckets(A) |->
                      With([jur |-> b[1], year |-> b[2]], AnnualRow(events, ctx, A, b[1], b[2]))]
<1>1. IsFiniteSet(moves)
    BY LenProperties, FS_Interval, FS_Subset
<1>2. IsFiniteSet({accrued[a] : a \in A}) /\ IsFiniteSet({moved[i] : i \in moves})
    <2> HIDE DEF accrued, moved, moves
    <2> QED
        BY <1>1, FiniteImage
<1>3. Buckets(A) = {accrued[a] : a \in A} \cup {moved[i] : i \in moves}
    BY DEF Buckets
<1>4. IsFiniteSet(Buckets(A))
    <2> HIDE DEF accrued, moved, moves
    <2> QED
        BY <1>2, <1>3, FS_Union
<1>5. IsFiniteSet({row[b] : b \in Buckets(A)})
    <2> HIDE DEF row
    <2> QED
        BY <1>4, FiniteImage
<1>6. AnnualRows(events, ctx, A) = {row[b] : b \in Buckets(A)}
    BY DEF AnnualRows
<1> QED
    BY <1>5, <1>6

\* What is rendered of a replayed log, its accruals and their rows.
LEMMA RenderFacts ==
    ASSUME NEW l \in Seq(Payloads), NEW A, IsFiniteSet(A), NEW annual, IsFiniteSet(annual), NEW rates
    PROVE  Rendered(Render(Snapshot(Replay(l), <<>>), rates, A, annual))
<1> DEFINE snap == Snapshot(Replay(l), <<>>)
           view == Render(snap, rates, A, annual)
           taxed == [a \in A |-> [key |-> a.key, amount |-> a.applied, state |-> a.state]]
<1>1. PICK lots \in Nat : DOMAIN snap.lots = 1..lots
    BY SnapshotFacts
<1>2. PICK gains \in Nat : DOMAIN snap.gains = 1..gains
    BY SnapshotFacts
<1>3. IsFiniteSet(DOMAIN snap.positions)
    BY SnapshotFacts
<1> HIDE DEF snap
<1>4. DOMAIN view = Tabs
    BY DEF Render, Tabs
<1>5. view.Positions \in Seq(Range(view.Positions))
    <2> DEFINE rows == PositionRows(snap, [s \in DOMAIN rates |-> rates[s].rate])
               n == Cardinality(DOMAIN snap.positions)
    <2>1. n \in Nat /\ DOMAIN rows = 1..n /\ rows = [i \in DOMAIN rows |-> rows[i]]
        BY <1>3, InOrderDomain DEF PositionRows
    <2>2. view.Positions = rows
        BY DEF Render
    <2> HIDE DEF rows, n, view
    <2> QED
        BY <2>1, <2>2, RowsAreSeq
<1>6. view.OpenLots \in Seq(Range(view.OpenLots))
    <2>1. DOMAIN LotRows(snap) = 1..lots /\ LotRows(snap) = [i \in DOMAIN LotRows(snap) |-> LotRows(snap)[i]]
        BY <1>1 DEF LotRows
    <2>2. view.OpenLots = LotRows(snap)
        BY DEF Render
    <2> HIDE DEF view
    <2> QED
        BY <2>1, <2>2, RowsAreSeq
<1>7. view.Realized \in Seq(Range(view.Realized))
    <2> DEFINE rows == RealizedRows(snap, A)
    <2>1. DOMAIN rows = 1..gains /\ rows = [i \in DOMAIN rows |-> rows[i]]
        BY <1>2 DEF RealizedRows
    <2>2. view.Realized = rows
        BY DEF Render
    <2> HIDE DEF rows, view
    <2> QED
        BY <2>1, <2>2, RowsAreSeq
<1>8. view.Tax \in Seq(Range(view.Tax))
    <2>1. IsFiniteSet({taxed[a] : a \in A})
        <3> HIDE DEF taxed
        <3> QED
            BY FiniteImage
    <2>2. view.Tax = SetToSeq({taxed[a] : a \in A})
        BY DEF Render, TaxRows
    <2> QED
        BY <2>1, <2>2, FiniteSetToSeq
<1>9. view.Reserve \in Seq(Range(view.Reserve))
    BY FiniteSetToSeq DEF Render
<1> HIDE DEF view
<1>10. \A t \in Tabs : view[t] \in Seq(Range(view[t]))
    BY <1>5, <1>6, <1>7, <1>8, <1>9 DEF Tabs
<1> QED
    BY <1>4, <1>10 DEF Rendered, view, snap

\* What a cycle loads is rendered, and the cycle is at its first tab.
LEMMA LoadedIsRendered ==
    ASSUME BookTypeOK, NEW c, \A data \in c : c = {data} /\ SoundConfig(data), NEW r \in LoadOf(c)
    PROVE  Rendered(r.view) /\ r.tab = 1 /\ r.cell = c
<1> DEFINE b == ReadBook(c)
           snap == Snapshot(b.st, <<>>)
           A == ComputeAccruals(b.gains, events, b.ctx)
           made(annual, estimates) ==
               [Begun EXCEPT !.st = b.st, !.ctx = b.ctx, !.cell = c, !.brackets = Brackets(c),
                             !.annual = annual, !.symbols = Held(snap),
                             !.view = Render(snap, estimates, A, annual)]
           annuals == {AnnualRows(events, b.ctx, A)}
           estimated == {UnrealizedEstimates(snap, b.ctx, Today)}
<1>1. r \in Loaded(c, b, A, snap)
    <2>1. PICK x \in {ReadBook(c)} :
              r \in UNION {Loaded(c, x, accruals, y) : accruals \in {ComputeAccruals(x.gains, events, x.ctx)},
                                                     y \in {Snapshot(x.st, <<>>)}}
        BY DEF LoadOf
    <2>2. x = b
        OBVIOUS
    <2> HIDE DEF b
    <2>3. r \in UNION {Loaded(c, b, accruals, y) : accruals \in {A}, y \in {snap}}
        BY <2>1, <2>2
    <2> HIDE DEF A, snap
    <2> QED
        BY <2>3
<1>2. r \in {made(annual, estimates) : annual \in annuals, estimates \in estimated}
    BY <1>1 DEF Loaded
<1>3. \A annual, estimates :
          /\ made(annual, estimates).tab = 1 /\ made(annual, estimates).cell = c
          /\ made(annual, estimates).view = Render(snap, estimates, A, annual)
    BY DEF Begun
<1>4. log \in Seq(Payloads) /\ events \in Seq(TaxPayloads)
    BY DEF BookTypeOK
<1>5. b.st = Replay(log) /\ b.gains = RealizedGains(log) /\ b.ctx = ContextOf(c)
    BY DEF ReadBook
<1>6. IsFiniteSet(A)
    <2>1. GainsTyped(b.gains) /\ ContextTyped(b.ctx)
        BY <1>4, <1>5, GainFacts, ContextFacts
    <2> QED
        BY <1>4, <2>1, AccrualFacts
<1>7. \A annual \in annuals : IsFiniteSet(annual)
    BY <1>4, <1>6, AnnualRowsFinite
<1>8. ASSUME NEW annual \in annuals, NEW estimates \in estimated
      PROVE  Rendered(Render(snap, estimates, A, annual))
    BY <1>4, <1>5, <1>6, <1>7, RenderFacts
<1> HIDE DEF made, annuals, estimated, b, snap, A
<1>9. PICK annual \in annuals, estimates \in estimated : r = made(annual, estimates)
    BY <1>2
<1> QED
    BY <1>3, <1>8, <1>9

(***************************************************************************)
(* Publishing                                                              *)
(***************************************************************************)
\* The configuration in a cell is sound.
CellOK(c) == \A data \in c : c = {data} /\ SoundConfig(data)

\* A tab starts with the rows of a view.
Starts(rows, view) == SubSeq(rows, 1, Len(view)) = view

\* The tabs that a publish has come by show what it loaded, as long as none of its
\* writes failed: it is the one that has the lock.
TabsInv ==
    /\ BookTypeOK
    /\ \A p \in Procs : "cell" \in DOMAIN run[p] => CellOK(run[p].cell)
    /\ Rendered(tabs)
    /\ \A p \in Procs : run[p].pc \in {"publish", "tabs"} =>
          Rendered(run[p].view) /\ run[p].tab \in 1..Len(TabOrder)
    /\ \A p \in Procs : run[p].pc = "publish" => run[p].tab = 1
    /\ \A p \in Procs : run[p].pc = "tabs" /\ run[p].ok =>
          \A i \in 1..(run[p].tab - 1) : Starts(tabs[TabOrder[i]], run[p].view[TabOrder[i]])

\* A step that is not of publishing, which may give a publish up.
Aside(p) ==
    /\ run'[p].pc \notin {"publish", "tabs"}
    /\ run[p].pc = "tabs" => run'[p].pc = "idle"
    /\ "cell" \in DOMAIN run'[p] => "cell" \in DOMAIN run[p] /\ run'[p].cell = run[p].cell
    /\ tabs' = tabs

\* The start of a cycle.
Begins(p) ==
    /\ run[p].pc = "idle" /\ run'[p].pc = "publish" /\ tabs' = tabs
    /\ CellOK(run'[p].cell) /\ Rendered(run'[p].view) /\ run'[p].tab = 1

\* The lock is had, and the tabs are still to be written.
Locks(p) ==
    /\ run[p].pc = "publish" /\ run'[p].pc = "tabs" /\ tabs' = tabs
    /\ run'[p].cell = run[p].cell /\ run'[p].view = run[p].view
    /\ run'[p].tab = run[p].tab

\* A tab is written, or a write of it has failed.
Writes(p) ==
    /\ run[p].pc = "tabs" /\ run'[p].cell = run[p].cell
    /\ tabs' \in {tabs, TabsWritten(p)}
    /\ run'[p].ok => run[p].ok /\ tabs' = TabsWritten(p)
    /\ IF run[p].tab < Len(TabOrder)
       THEN run'[p].pc = "tabs" /\ run'[p].tab = run[p].tab + 1 /\ run'[p].view = run[p].view
       ELSE run'[p].pc = "poll"

\* The end of a cycle keeps at most the configuration.
LEMMA FinishKeepsCell ==
    ASSUME RunOK, NEW p \in Procs, run[p].pc # "idle", NEW report, Finish(p, report)
    PROVE  /\ run'[p].pc = "idle"
           /\ "cell" \in DOMAIN run'[p] => "cell" \in DOMAIN run[p] /\ run'[p].cell = run[p].cell
<1>1. "cell" \in DOMAIN run[p]
    BY DEF RunOK, Begun
<1>2. CASE p \in Summaries
    <2>1. run'[p] = [pc |-> "idle", report |-> report]
        BY <1>2 DEF Finish, RunOK
    <2> QED
        BY <2>1
<1>3. CASE p \notin Summaries
    <2>1. run'[p] = [pc |-> "idle", report |-> report, cell |-> run[p].cell]
        BY <1>3 DEF Finish, RunOK
    <2> QED
        BY <1>1, <2>1
<1> QED
    BY <1>2, <1>3

\* A failed capture is no publish either.
LEMMA CaptureFailedKeepsCell ==
    ASSUME RunOK, NEW p \in Procs, run[p].pc # "idle", CaptureFailed(p)
    PROVE  /\ run'[p].pc \in {"idle", "capture"}
           /\ "cell" \in DOMAIN run'[p] => "cell" \in DOMAIN run[p] /\ run'[p].cell = run[p].cell
<1>1. CASE run[p].tries + 1 < Attempts
    BY <1>1, BegunFields DEF CaptureFailed, RunOK
<1>2. CASE ~(run[p].tries + 1 < Attempts)
    BY <1>2, FinishKeepsCell DEF CaptureFailed
<1> QED
    BY <1>1, <1>2

\* The steps that are not of publishing.
LEMMA AsideSteps ==
    ASSUME RunOK, NEW p \in Procs,
           \/ SkipPublish(p) \/ Poll(p) \/ FailPoll(p) \/ ShowView(p)
           \/ ReadStored(p) \/ FailStored(p) \/ LockForCapture(p) \/ CaptureHeld(p)
           \/ WritePoint(p) \/ FailWrite(p) \/ VerifyPoint(p) \/ FailVerify(p) \/ Crash(p)
    PROVE  Aside(p)
<1>1. CASE SkipPublish(p)
    BY <1>1, BegunFields DEF SkipPublish, RunOK, Aside
<1>2. CASE Poll(p)
    <2>1. PICK latest :
              run' = IF LastPoll(p, latest)
                     THEN [run EXCEPT ![p].pc = "priced", ![p].ok = TRUE, ![p].polls = 0,
                                      ![p].latest = <<>>,
                                      ![p].marks = ProducedMarks(run[p].symbols, latest, <<>>)]
                     ELSE [run EXCEPT ![p].latest = latest, ![p].polls = Lesser(@ + 1, MaxPolls)]
        BY <1>2 DEF Poll
    <2>2. run[p].pc = "poll" /\ UNCHANGED tabs
        BY <1>2 DEF Poll
    <2>3. CASE LastPoll(p, latest)
        BY <2>1, <2>2, <2>3, BegunFields DEF RunOK, Aside
    <2>4. CASE ~LastPoll(p, latest)
        BY <2>1, <2>2, <2>4, BegunFields DEF RunOK, Aside
    <2> QED
        BY <2>3, <2>4
<1>3. CASE FailPoll(p)
    BY <1>3, FinishKeepsCell DEF FailPoll, Aside
<1>4. CASE ShowView(p)
    BY <1>4, FinishKeepsCell DEF ShowView, Aside
<1>5. CASE ReadStored(p)
    <2>1. run[p].pc = "priced" /\ UNCHANGED tabs
        BY <1>5 DEF ReadStored
    <2>2. CASE run' = [run EXCEPT ![p].pc = "capture", ![p].stored = history]
        BY <2>1, <2>2, BegunFields DEF RunOK, Aside
    <2>3. CASE \E report : Finish(p, report)
        BY <2>1, <2>3, FinishKeepsCell DEF Aside
    <2> QED
        BY <1>5, <2>2, <2>3 DEF ReadStored
<1>6. CASE FailStored(p)
    BY <1>6, FinishKeepsCell DEF FailStored, Aside
<1>7. CASE LockForCapture(p)
    BY <1>7, BegunFields DEF LockForCapture, RunOK, Aside
<1>8. CASE CaptureHeld(p)
    BY <1>8, CaptureFailedKeepsCell DEF CaptureHeld, Aside
<1>9. CASE WritePoint(p)
    BY <1>9, BegunFields DEF WritePoint, RunOK, Aside
<1>10. CASE FailWrite(p)
    BY <1>10, CaptureFailedKeepsCell DEF FailWrite, Aside
<1>11. CASE VerifyPoint(p)
    <2>1. run[p].pc = "verify" /\ UNCHANGED tabs
        BY <1>11 DEF VerifyPoint
    <2>2. CASE \E report : Finish(p, report)
        BY <2>1, <2>2, FinishKeepsCell DEF Aside
    <2>3. CASE CaptureFailed(p)
        BY <2>1, <2>3, CaptureFailedKeepsCell DEF Aside
    <2> QED
        BY <1>11, <2>2, <2>3 DEF VerifyPoint
<1>12. CASE FailVerify(p)
    BY <1>12, CaptureFailedKeepsCell DEF FailVerify, Aside
<1>13. CASE Crash(p)
    BY <1>13 DEF Crash, RunOK, Aside, Idle
<1> QED
    BY <1>1, <1>2, <1>3, <1>4, <1>5, <1>6, <1>7, <1>8, <1>9, <1>10, <1>11, <1>12, <1>13

\* The steps of publishing.
LEMMA WriteSteps ==
    ASSUME RunOK, NEW p \in Procs
    PROVE  /\ LockForPublish(p) => Locks(p)
           /\ WriteTab(p) \/ FailTab(p) => Writes(p)
<1>1. ASSUME LockForPublish(p) PROVE Locks(p)
    BY <1>1, BegunFields DEF LockForPublish, RunOK, Locks
<1>2. ASSUME NEW ok, run[p].pc = "tabs", AfterTab(p, ok)
      PROVE  /\ run'[p].cell = run[p].cell /\ run'[p].ok = ok
             /\ IF run[p].tab < Len(TabOrder)
                THEN run'[p].pc = "tabs" /\ run'[p].tab = run[p].tab + 1 /\ run'[p].view = run[p].view
                ELSE run'[p].pc = "poll"
    <2>1. CASE run[p].tab < Len(TabOrder)
        BY <1>2, <2>1, BegunFields DEF AfterTab, RunOK
    <2>2. CASE ~(run[p].tab < Len(TabOrder))
        BY <1>2, <2>2, BegunFields DEF AfterTab, RunOK
    <2> QED
        BY <2>1, <2>2
<1>3. ASSUME WriteTab(p) PROVE Writes(p)
    BY <1>2, <1>3 DEF WriteTab, Writes
<1>4. ASSUME FailTab(p) PROVE Writes(p)
    BY <1>2, <1>4 DEF FailTab, Writes
<1> QED
    BY <1>1, <1>3, <1>4

\* The start of a cycle, with the configuration of its launch or the one of now.
LEMMA StartBegins ==
    ASSUME RunOK, TabsInv, NEW p \in Procs, Start(p)
    PROVE  Begins(p)
<1> DEFINE c == IF "cell" \in DOMAIN run[p] THEN run[p].cell ELSE cell
<1>1. PICK r \in LoadOf(c) : run' = [run EXCEPT ![p] = [r EXCEPT !.at = started]]
    BY DEF Start
<1>2. CellOK(c) /\ BookTypeOK
    BY DEF TabsInv, CellOK, BookTypeOK
<1> HIDE DEF c
<1>3. Rendered(r.view) /\ r.tab = 1 /\ r.cell = c
    BY <1>2, LoadedIsRendered DEF CellOK
<1>4. r.pc = "publish" /\ DOMAIN r = DOMAIN Begun
    BY LoadedHasBegun
<1>5. run'[p] = [r EXCEPT !.at = started]
    BY <1>1 DEF RunOK
<1>6. /\ run'[p].pc = "publish" /\ run'[p].view = r.view /\ run'[p].tab = 1 /\ run'[p].cell = c
    <2>1. "cell" \in DOMAIN r
        BY <1>4 DEF Begun
    <2> QED
        BY <1>3, <1>4, <1>5, <2>1, BegunFields
<1> QED
    BY <1>2, <1>3, <1>6 DEF Begins, Start

\* Every step of a process is one of these.
LEMMA PublishCases ==
    ASSUME RunOK, TabsInv, NEW p \in Procs, Start(p) \/ Advance(p) \/ Fault(p)
    PROVE  Aside(p) \/ Begins(p) \/ Locks(p) \/ Writes(p)
BY StartBegins, WriteSteps, AsideSteps DEF Advance, Fault

\* The tabs are published in turn, each once.
LEMMA TabsInTurn ==
    /\ Len(TabOrder) = 5
    /\ \A i \in 1..Len(TabOrder) : TabOrder[i] \in Tabs
    /\ \A i, j \in 1..Len(TabOrder) : TabOrder[i] = TabOrder[j] => i = j
    /\ \A t \in Tabs : \E i \in 1..Len(TabOrder) : t = TabOrder[i]
<1>1. Len(TabOrder) = 5
    BY DEF TabOrder
<1>2. /\ TabOrder[1] = "Positions" /\ TabOrder[2] = "OpenLots" /\ TabOrder[3] = "Realized"
      /\ TabOrder[4] = "Tax" /\ TabOrder[5] = "Reserve"
    BY DEF TabOrder
<1> HIDE DEF TabOrder
<1>3. \A i \in 1..5 : i = 1 \/ i = 2 \/ i = 3 \/ i = 4 \/ i = 5
    OBVIOUS
<1>4. \A i \in 1..5 : TabOrder[i] \in Tabs
    BY <1>2, <1>3 DEF Tabs
<1>5. \A i, j \in 1..5 : TabOrder[i] = TabOrder[j] => i = j
    BY <1>2, <1>3
<1>6. \A t \in Tabs : \E i \in 1..5 : t = TabOrder[i]
    BY <1>2 DEF Tabs
<1> QED
    BY <1>1, <1>4, <1>5, <1>6

\* A range update starts with the rows it is given.
LEMMA OverwriteStarts ==
    ASSUME NEW old, old \in Seq(Range(old)), NEW new, new \in Seq(Range(new))
    PROVE  /\ Starts(Overwrite(old, new), new)
           /\ Overwrite(old, new) \in Seq(Range(Overwrite(old, new)))
<1> DEFINE S == Range(old) \cup Range(new)
           rest == SubSeq(old, Len(new) + 1, Len(old))
           all == new \o rest
<1>1. old \in Seq(S) /\ new \in Seq(S)
    BY SeqMonotonic
<1>2. Len(old) \in Nat /\ Len(new) \in Nat
    BY LenProperties
<1>3. rest \in Seq(S)
    <2>1. \A i \in (Len(new) + 1)..Len(old) : i \in 1..Len(old)
        BY <1>2
    <2>2. \A i \in (Len(new) + 1)..Len(old) : old[i] \in S
        BY <1>1, <2>1, ElementOfSeq
    <2> HIDE DEF S
    <2>3. Len(new) + 1 \in Int /\ Len(old) \in Int
        BY <1>2
    <2> QED
        BY <2>2, <2>3, SubSeqProperties
<1>4. SubSeq(all, 1, Len(new)) = new
    <2> HIDE DEF S, rest
    <2>1. CASE Len(new) = 0
        <3>1. SubSeq(all, 1, Len(new)) = <<>>
            BY <2>1, SubSeqEmpty
        <3>2. new = <<>>
            BY <1>1, <2>1, EmptySeq
        <3> QED
            BY <3>1, <3>2
    <2>2. CASE Len(new) > 0
        <3>1. 1 \in 1..Len(new) /\ Len(new) \in 1..Len(new)
            BY <1>2, <2>2
        <3>2. SubSeq(all, 1, Len(new)) = SubSeq(new, 1, Len(new))
            BY <1>1, <1>3, <3>1, SubSeqOfConcat1
        <3> QED
            BY <1>1, <3>2, SubSeqFull
    <2> QED
        BY <1>2, <2>1, <2>2
<1>5. all \in Seq(Range(all))
    <2>1. all \in Seq(S)
        BY <1>1, <1>3, ConcatProperties
    <2> HIDE DEF S, all
    <2>2. Len(all) \in Nat /\ DOMAIN all = 1..Len(all) /\ all = [i \in 1..Len(all) |-> all[i]]
        BY <2>1, LenProperties
    <2> QED
        BY <2>2, FunctionIsSeq
<1> QED
    BY <1>4, <1>5 DEF Starts, Overwrite

\* The tab of p is rewritten from its view, the others stay.
LEMMA TabsWrittenFacts ==
    ASSUME Rendered(tabs), NEW p \in Procs, Rendered(run[p].view), run[p].tab \in 1..Len(TabOrder)
    PROVE  /\ Rendered(TabsWritten(p))
           /\ Starts(TabsWritten(p)[TabOrder[run[p].tab]], run[p].view[TabOrder[run[p].tab]])
           /\ \A t \in Tabs : t # TabOrder[run[p].tab] => TabsWritten(p)[t] = tabs[t]
<1> DEFINE t == TabOrder[run[p].tab]
           view == run[p].view
<1>1. t \in Tabs
    BY TabsInTurn
<1>2. TabsWritten(p) = [tabs EXCEPT ![t] = Overwrite(tabs[t], view[t])]
    BY DEF TabsWritten
<1>3. DOMAIN tabs = Tabs /\ tabs[t] \in Seq(Range(tabs[t])) /\ view[t] \in Seq(Range(view[t]))
    BY <1>1 DEF Rendered
<1>4. /\ Starts(Overwrite(tabs[t], view[t]), view[t])
      /\ Overwrite(tabs[t], view[t]) \in Seq(Range(Overwrite(tabs[t], view[t])))
    <2> HIDE DEF t, view
    <2> QED
        BY <1>3, OverwriteStarts
<1> HIDE DEF t, view
<1>5. DOMAIN TabsWritten(p) = Tabs /\ TabsWritten(p)[t] = Overwrite(tabs[t], view[t])
      /\ \A u \in Tabs : u # t => TabsWritten(p)[u] = tabs[u]
    BY <1>1, <1>2, <1>3
<1>6. Rendered(TabsWritten(p))
    BY <1>4, <1>5 DEF Rendered
<1> QED
    BY <1>4, <1>5, <1>6 DEF t, view

\* After a write that did not fail, the tabs up to the one written show the view.
LEMMA WrittenShows ==
    ASSUME TabsInv, NEW p \in Procs, Writes(p), run'[p].ok
    PROVE  \A i \in 1..run[p].tab : Starts(tabs'[TabOrder[i]], run[p].view[TabOrder[i]])
<1>1. /\ run[p].pc = "tabs" /\ run[p].ok /\ tabs' = TabsWritten(p)
    BY DEF Writes
<1>2. /\ Rendered(tabs) /\ Rendered(run[p].view) /\ run[p].tab \in 1..Len(TabOrder)
      /\ \A i \in 1..(run[p].tab - 1) : Starts(tabs[TabOrder[i]], run[p].view[TabOrder[i]])
    BY <1>1 DEF TabsInv
<1> SUFFICES ASSUME NEW i \in 1..run[p].tab PROVE Starts(tabs'[TabOrder[i]], run[p].view[TabOrder[i]])
    OBVIOUS
<1>3. CASE i = run[p].tab
    BY <1>1, <1>2, <1>3, TabsWrittenFacts
<1>4. CASE i # run[p].tab
    <2>1. i \in 1..(run[p].tab - 1) /\ i \in 1..Len(TabOrder)
        BY <1>2, <1>4, TabsInTurn
    <2>2. TabOrder[i] \in Tabs /\ TabOrder[i] # TabOrder[run[p].tab]
        BY <1>2, <1>4, <2>1, TabsInTurn
    <2>3. tabs'[TabOrder[i]] = tabs[TabOrder[i]]
        BY <1>1, <1>2, <2>2, TabsWrittenFacts
    <2> QED
        BY <1>2, <2>1, <2>3
<1> QED
    BY <1>3, <1>4

\* The first state.
LEMMA TabsInitInv == CycleInit => TabsInv
<1> SUFFICES ASSUME CycleInit PROVE TabsInv
    OBVIOUS
<1>1. BookTypeOK
    BY BookInitTyped DEF CycleInit
<1>2. PICK r \in LoadOf(cell) : tabs = r.view
    BY DEF CycleInit
<1>3. Rendered(tabs)
    BY <1>1, <1>2, LoadedIsRendered DEF BookTypeOK
<1>4. \A p \in Procs : run[p] = Idle
    BY DEF CycleInit
<1>5. \A p \in Procs : run[p].pc = "idle" /\ "cell" \notin DOMAIN run[p]
    BY <1>4 DEF Idle
<1> QED
    BY <1>1, <1>3, <1>5 DEF TabsInv

\* What a process of its own has to keep.
TabsOf(p) ==
    /\ "cell" \in DOMAIN run[p] => CellOK(run[p].cell)
    /\ run[p].pc \in {"publish", "tabs"} => Rendered(run[p].view) /\ run[p].tab \in 1..Len(TabOrder)
    /\ run[p].pc = "publish" => run[p].tab = 1
    /\ run[p].pc = "tabs" /\ run[p].ok =>
          \A i \in 1..(run[p].tab - 1) : Starts(tabs[TabOrder[i]], run[p].view[TabOrder[i]])

\* A step of p keeps what p has to.
LEMMA OwnStep ==
    ASSUME CycleInv, TabsInv, NEW p \in Procs, Aside(p) \/ Begins(p) \/ Locks(p) \/ Writes(p)
    PROVE  TabsOf(p)' /\ Rendered(tabs')
<1>1. CASE Aside(p)
    BY <1>1 DEF Aside, TabsInv, TabsOf
<1>2. CASE Begins(p)
    <2>1. 1 \in 1..Len(TabOrder)
        BY TabsInTurn
    <2> QED
        BY <1>2, <2>1 DEF Begins, TabsInv, TabsOf
<1>3. CASE Locks(p)
    <2>1. "cell" \in DOMAIN run[p]
        BY <1>3 DEF Locks, CycleInv, RunOK, Begun
    <2>2. CellOK(run'[p].cell) /\ Rendered(run'[p].view) /\ run'[p].tab \in 1..Len(TabOrder)
        BY <1>3, <2>1 DEF Locks, TabsInv
    <2>3. run'[p].tab = 1 /\ run'[p].pc = "tabs"
        BY <1>3 DEF Locks, TabsInv
    <2>4. Rendered(tabs')
        BY <1>3 DEF Locks, TabsInv
    <2>5. ~\E i : i \in 1..(1 - 1)
        OBVIOUS
    <2> QED
        BY <2>2, <2>3, <2>4, <2>5 DEF TabsOf
<1>4. CASE Writes(p)
    <2>1. run[p].pc = "tabs" /\ "cell" \in DOMAIN run[p]
        BY <1>4 DEF Writes, CycleInv, RunOK, Begun
    <2>2. Rendered(tabs) /\ Rendered(run[p].view) /\ run[p].tab \in 1..Len(TabOrder)
        BY <2>1 DEF TabsInv
    <2>3. Rendered(tabs')
        BY <1>4, <2>2, TabsWrittenFacts DEF Writes
    <2>4. CellOK(run'[p].cell)
        BY <1>4, <2>1 DEF Writes, TabsInv
    <2>5. CASE run[p].tab < Len(TabOrder)
        <3>1. run'[p].pc = "tabs" /\ run'[p].tab = run[p].tab + 1 /\ run'[p].view = run[p].view
            BY <1>4, <2>5 DEF Writes
        <3>2. run'[p].tab \in 1..Len(TabOrder) /\ run'[p].tab - 1 = run[p].tab
            BY <2>2, <2>5, <3>1, TabsInTurn
        <3>3. run'[p].ok => \A i \in 1..(run'[p].tab - 1) : Starts(tabs'[TabOrder[i]], run'[p].view[TabOrder[i]])
            BY <1>4, <3>1, <3>2, WrittenShows
        <3> QED
            BY <2>2, <2>3, <2>4, <3>1, <3>2, <3>3 DEF TabsOf
    <2>6. CASE ~(run[p].tab < Len(TabOrder))
        <3>1. run'[p].pc = "poll"
            BY <1>4, <2>6 DEF Writes
        <3> QED
            BY <2>3, <2>4, <3>1 DEF TabsOf
    <2> QED
        BY <2>5, <2>6
<1> QED
    BY <1>1, <1>2, <1>3, <1>4

\* A step of p keeps what another process has to: while that one publishes, p does not.
LEMMA OtherStep ==
    ASSUME CycleInv, TabsInv, NEW p \in Procs, StepOf(p),
           Aside(p) \/ Begins(p) \/ Locks(p) \/ Writes(p), NEW q \in Procs, q # p
    PROVE  TabsOf(q)'
<1>1. run'[q] = run[q]
    BY DEF StepOf
<1>2. ASSUME run[q].pc = "tabs" PROVE tabs' = tabs
    <2>1. q \in holder /\ p \notin holder
        BY <1>2 DEF CycleInv, Locked
    <2>2. run[p].pc # "tabs"
        BY <2>1 DEF CycleInv, Locked
    <2> QED
        BY <2>2 DEF Aside, Begins, Locks, Writes
<1>3. TabsOf(q)
    BY DEF TabsInv, TabsOf
<1> QED
    BY <1>1, <1>2, <1>3 DEF TabsOf

\* Every step.
LEMMA TabsStep ==
    ASSUME CycleInv, TabsInv, [CycleNext]_vars
    PROVE  TabsInv'
<1>1. BookTypeOK /\ Rendered(tabs) /\ \A p \in Procs : TabsOf(p)
    BY DEF TabsInv, TabsOf
<1>2. ASSUME UNCHANGED <<tabs, run>> PROVE Rendered(tabs)' /\ \A p \in Procs : TabsOf(p)'
    BY <1>1, <1>2 DEF TabsOf
<1>3. ASSUME NEW p \in Procs, Start(p) \/ Advance(p) \/ Fault(p)
      PROVE  UNCHANGED book
    BY <1>3 DEF Start, Advance, Fault, LockForPublish, SkipPublish, WriteTab, Poll, ShowView,
        ReadStored, LockForCapture, CaptureHeld, WritePoint, VerifyPoint, FailTab, FailPoll,
        FailStored, FailWrite, FailVerify, Crash
<1>4. BookTypeOK'
    <2>1. [BookNext]_book
        BY <1>3 DEF CycleNext, BookStep, Tick, vars
    <2> QED
        BY <1>1, <2>1, BookKeepsTypes
<1>5. Rendered(tabs)' /\ \A p \in Procs : TabsOf(p)'
    <2>1. CASE BookStep \/ Tick \/ UNCHANGED vars
        BY <1>2, <2>1 DEF BookStep, Tick, vars, cycle
    <2>2. ASSUME NEW p \in Procs, Start(p) \/ Advance(p) \/ Fault(p)
          PROVE  Rendered(tabs)' /\ \A q \in Procs : TabsOf(q)'
        <3>1. RunOK
            BY DEF CycleInv
        <3>2. StepOf(p) /\ (Aside(p) \/ Begins(p) \/ Locks(p) \/ Writes(p))
            BY <2>2, <3>1, ProcessSteps, PublishCases
        <3> QED
            BY <3>2, OwnStep, OtherStep
    <2> QED
        BY <2>1, <2>2 DEF CycleNext
<1> QED
    BY <1>4, <1>5 DEF TabsInv, TabsOf

\* When a publish of p has come to its end and none of its writes failed, every tab
\* starts with the rows of its view.
Undivided(p) ==
    run[p].pc = "tabs" /\ run'[p].pc = "poll" /\ run'[p].ok =>
        \A t \in DOMAIN tabs : SubSeq(tabs'[t], 1, Len(run[p].view[t])) = run[p].view[t]

\* The end of a publish is its last write.
LEMMA PublishEnds ==
    ASSUME CycleInv, TabsInv, [CycleNext]_vars, NEW p \in Procs
    PROVE  Undivided(p)
<1> SUFFICES ASSUME run[p].pc = "tabs", run'[p].pc = "poll", run'[p].ok,
                    NEW t \in DOMAIN tabs
             PROVE  Starts(tabs'[t], run[p].view[t])
    BY DEF Undivided, Starts
<1>1. RunOK /\ run' # run
    BY DEF CycleInv
<1>2. PICK q \in Procs : Start(q) \/ Advance(q) \/ Fault(q)
    BY <1>1 DEF CycleNext, BookStep, Tick, vars, cycle
<1>3. q = p
    BY <1>1, <1>2, ProcessSteps DEF StepOf
<1>4. Writes(p)
    BY <1>1, <1>2, <1>3, PublishCases DEF Aside, Begins, Locks
<1>5. run[p].tab = Len(TabOrder)
    <2>1. run[p].tab \in 1..Len(TabOrder)
        BY DEF TabsInv
    <2>2. ~(run[p].tab < Len(TabOrder))
        BY <1>4 DEF Writes
    <2> QED
        BY <2>1, <2>2, TabsInTurn
<1>6. PICK i \in 1..Len(TabOrder) : t = TabOrder[i]
    BY TabsInTurn DEF TabsInv, Rendered
<1> QED
    BY <1>4, <1>5, <1>6, WrittenShows

\* A published set of tabs is all of one log, whatever other processes published
\* before, and whatever the book and the configuration did meanwhile.
THEOREM PublishesAreUndivided == CycleSpec => PublishIsUndivided
<1>1. CycleSpec => []TabsInv
    BY CycleInvariant, TabsInitInv, TabsStep, PTL DEF CycleSpec
<1>2. CycleInv /\ TabsInv /\ [CycleNext]_vars
          => [\A p \in Procs :
                 /\ run[p].pc = "tabs" /\ run'[p].pc = "poll" /\ run'[p].ok
                 => \A t \in DOMAIN tabs :
                       SubSeq(tabs'[t], 1, Len(run[p].view[t])) = run[p].view[t]]_vars
    BY PublishEnds DEF Undivided
<1> QED
    BY <1>1, <1>2, CycleInvariant, PTL DEF CycleSpec, PublishIsUndivided

(***************************************************************************)
(* Division in proportion                                                  *)
(***************************************************************************)
\* The sum of a function that agrees with f on its domain.
LEMMA SumOver ==
    ASSUME NEW f, NEW g, NEW S, IsFiniteSet(S), DOMAIN g = S, \A x \in S : g[x] = f[x]
    PROVE  SumFunction(g) = SumFunctionOnSet(f, S)
BY SumSame DEF SumFunction

\* Indices by their number are in order.
LEMMA NumbersInOrder ==
    ASSUME NEW D, D \subseteq Int, NEW tie, \A i, j \in D : <<i, j>> \in tie <=> i < j
    PROVE  StrictOrder(tie, D)
<1>1. \A i, j \in D : <<i, j>> \in tie <=> i < j
    OBVIOUS
<1>2. \A i \in D : i \in Int
    OBVIOUS
<1>3. \A i \in D : <<i, i>> \notin tie
    BY <1>1, <1>2
<1>4. \A i, j, k \in D : <<i, j>> \in tie /\ <<j, k>> \in tie => <<i, k>> \in tie
    BY <1>1, <1>2
<1>5. \A i, j \in D : i # j => <<i, j>> \in tie \/ <<j, i>> \in tie
    BY <1>1, <1>2
<1> QED
    BY <1>3, <1>4, <1>5 DEF StrictOrder

\* What is divided in proportion to weights adds up, unless they weigh nothing.
LEMMA LargestRemainderAddsUp ==
    ASSUME NEW total \in Int, NEW w, IsFiniteSet(DOMAIN w), DOMAIN w \subseteq Int,
           \A i \in DOMAIN w : w[i] \in Int
    PROVE  /\ DOMAIN LargestRemainder(total, w) = DOMAIN w
           /\ \A i \in DOMAIN w : LargestRemainder(total, w)[i] \in Int
           /\ SumFunction(LargestRemainder(total, w)) = IF SumFunction(w) <= 0 THEN 0 ELSE total
<1> DEFINE D == DOMAIN w
           sum == SumFunction(w)
           floors == [i \in D |-> (total * w[i]) \div sum]
           rems == [i \in D |-> (total * w[i]) % sum]
           tie == {p \in D \X D : p[1] < p[2]}
           order == {p \in D \X D : rems[p[1]] > rems[p[2]] \/ (rems[p[1]] = rems[p[2]] /\ p \in tie)}
           shares == LargestRemainder(total, w)
           left == total - SumFunction(floors)
<1>1. IsFiniteSet(D) /\ D \subseteq Int /\ \A i \in D : w[i] \in Int
    OBVIOUS
<1>2. sum \in Int /\ sum = SumFunctionOnSet(w, D)
    <2>1. SumFunctionOnSet(w, D) \in Int
        BY SumIsInt
    <2> QED
        BY <2>1 DEF SumFunction
<1>3. DOMAIN shares = D
    BY DEF LargestRemainder
<1>4. CASE sum <= 0
    <2>1. \A i \in D : shares[i] = 0
        BY <1>4 DEF LargestRemainder
    <2> HIDE DEF shares
    <2>2. SumFunctionOnSet(shares, D) = 0
        BY <1>1, <2>1, SumOfZeros
    <2> QED
        BY <1>3, <1>4, <2>1, <2>2 DEF SumFunction, shares
<1>5. CASE ~(sum <= 0)
    <2>0. sum > 0
        BY <1>2, <1>5
    <2>1. \A i \in D : shares[i] = IF Cardinality({j \in D : rems[j] > rems[i] \/ (rems[j] = rems[i] /\ j < i)}) < left
                                  THEN floors[i] + 1 ELSE floors[i]
        BY <1>5 DEF LargestRemainder
    <2>2. \A i \in D : {j \in D : rems[j] > rems[i] \/ (rems[j] = rems[i] /\ j < i)} = Ahead(order, D, i)
        BY DEF Ahead
    <2>3. Quotients(D, total, sum, w, floors, rems)
        <3> SUFFICES ASSUME NEW i \in D
                     PROVE  /\ w[i] \in Int /\ floors[i] \in Int /\ rems[i] \in Int
                            /\ total * w[i] = sum * floors[i] + rems[i]
                            /\ 0 <= rems[i] /\ rems[i] < sum
            BY DEF Quotients
        <3> DEFINE x == total * w[i]
        <3>1. x \in Int /\ w[i] \in Int
            BY <1>1
        <3>2. floors[i] = x \div sum /\ rems[i] = x % sum
            OBVIOUS
        <3> HIDE DEF x, sum, floors, rems
        <3>3. /\ x \div sum \in Int /\ x % sum \in Int /\ x = sum * (x \div sum) + (x % sum)
              /\ 0 <= x % sum /\ x % sum < sum
            BY <1>2, <2>0, <3>1, DivMod
        <3>4. x = sum * floors[i] + rems[i]
            BY <3>2, <3>3
        <3> QED
            BY <3>1, <3>2, <3>3, <3>4 DEF x
    <2>4. StrictOrder(order, D)
        <3>1. \A i, j \in D : <<i, j>> \in tie <=> i < j
            OBVIOUS
        <3>2. \A i, j \in D : <<i, j>> \in order <=> rems[i] > rems[j] \/ (rems[i] = rems[j] /\ <<i, j>> \in tie)
            OBVIOUS
        <3>3. \A i \in D : rems[i] \in Int
            BY <2>3 DEF Quotients
        <3> HIDE DEF tie, order, rems, D
        <3>4. StrictOrder(tie, D)
            BY <1>1, <3>1, NumbersInOrder
        <3> QED
            BY <3>2, <3>3, <3>4, RemaindersOrder
    <2>5. left = total - SumFunctionOnSet(floors, D)
        BY DEF SumFunction
    <2> HIDE DEF floors, rems, tie, order, shares, left, sum, D
    <2>6. RaisedFirst(D, total, floors, order, shares)
        BY <2>1, <2>2, <2>5 DEF RaisedFirst
    <2>7. (\A i \in D : shares[i] \in Int) /\ SumFunctionOnSet(shares, D) = total
        BY <1>1, <1>2, <2>0, <2>3, <2>4, <2>6, SharesAddUp
    <2>8. SumFunction(shares) = total
        BY <1>3, <2>7 DEF SumFunction
    <2> QED
        BY <1>3, <1>5, <2>7, <2>8 DEF shares, D, sum
<1> QED
    BY <1>4, <1>5

(***************************************************************************)
(* The estimated tax of some lots                                          *)
(***************************************************************************)
\* The sums of an amount and of those there are of another.
SumsWith(a, others) == {f + s : f \in {a}, s \in others}

\* An amount with or without a code adds its own, or nothing.
LEMMA AddedOptions ==
    ASSUME NEW a, NEW b, NEW code
    PROVE  SumsWith(a, IF code = "" THEN {0} ELSE {b}) = {a + (IF code = "" THEN 0 ELSE b)}
<1>1. \A c : SumsWith(a, {c}) = {a + c}
    BY DEF SumsWith
<1> QED
    BY <1>1

\* An estimate of lots whose gains are known is one amount, which is none on a loss
\* and no more than the gain, or there is none.
EstimateOK(tax, gain) ==
    tax = {} \/ \E t \in Int : tax = {t} /\ 0 <= t /\ t <= AtLeastZero(gain)

\* An estimate is such an amount of the lots' gains.
LEMMA EstimateIsBounded ==
    ASSUME NEW lots, IsFiniteSet(DOMAIN lots), \A k \in DOMAIN lots : Optional(lots[k].unrealized),
           NEW asOf, NEW stamp, NEW st \in Int, NEW lt \in Int, NEW ctx, ContextTyped(ctx)
    PROVE  EstimateOK(UnrealizedEstimate(lots, asOf, stamp, st, lt, ctx).tax,
                      SumFunction([k \in DOMAIN lots |-> ValueOf(lots[k].unrealized)]))
<1> DEFINE total(K) == SumFunction([k \in K |-> ValueOf(lots[k].unrealized)])
           inTerm(term) == {k \in DOMAIN lots : ClassifyTerm(lots[k].acquired, asOf) = term}
           code == ResolveState(ctx, stamp)
           brackets == MostDegraded({ctx.federal.state,
                           IF code = "" THEN "Verified" ELSE BracketStateFor(ctx, code)})
           degraded == \/ \E k \in DOMAIN lots : lots[k].unrealized = {}
                       \/ brackets = "NoBracketsAvailable"
           gain == total(DOMAIN lots)
           dst == total(inTerm("ShortTerm"))
           dlt == total(inTerm("LongTerm"))
           federal == ValueOf(Increment(Jurisdiction(ctx, "Federal"), st, lt, dst, dlt))
           ofState == ValueOf(Increment(Jurisdiction(ctx, code), st, lt, dst, dlt))
           both == federal + (IF code = "" THEN 0 ELSE ofState)
           e == UnrealizedEstimate(lots, asOf, stamp, st, lt, ctx)
<1>1. \A K \in SUBSET DOMAIN lots : total(K) \in Int
    <2> SUFFICES ASSUME NEW K \in SUBSET DOMAIN lots PROVE total(K) \in Int
        OBVIOUS
    <2> DEFINE f == [k \in K |-> ValueOf(lots[k].unrealized)]
    <2>1. IsFiniteSet(K) /\ \A k \in K : f[k] \in Int
        BY FS_Subset, OptionalValue
    <2> HIDE DEF f
    <2>2. SumFunctionOnSet(f, K) \in Int
        BY <2>1, SumIsInt
    <2> QED
        BY <2>2 DEF SumFunction, f
<1>2. gain \in Int /\ dst \in Int /\ dlt \in Int
    <2>1. DOMAIN lots \in SUBSET DOMAIN lots /\ inTerm("ShortTerm") \in SUBSET DOMAIN lots
          /\ inTerm("LongTerm") \in SUBSET DOMAIN lots
        OBVIOUS
    <2> HIDE DEF total, inTerm
    <2> QED
        BY <1>1, <2>1
<1>3. e.tax = {Greater(0, Lesser(t, AtLeastZero(gain))) : t \in IF degraded THEN {} ELSE {both}}
    <2> DEFINE combined == SumsWith(federal, IF code = "" THEN {0} ELSE {ofState})
    <2>1. e.tax = {Greater(0, Lesser(t, AtLeastZero(gain))) : t \in IF degraded THEN {} ELSE combined}
        BY DEF UnrealizedEstimate, SumsWith
    <2> HIDE DEF total, inTerm, degraded, e, gain, dst, dlt, code, brackets, federal, ofState
    <2>2. combined = {both}
        BY AddedOptions
    <2> HIDE DEF combined, both
    <2> QED
        BY <2>1, <2>2
<1> HIDE DEF total, inTerm, degraded, e, gain, dst, dlt, code
<1>4. federal \in Int /\ ofState \in Int
    BY <1>2, IncrementIsOptional, OptionalValue
<1> HIDE DEF federal, ofState
<1>5. both \in Int
    BY <1>4
<1> HIDE DEF both
<1>6. CASE degraded
    BY <1>3, <1>6 DEF EstimateOK, e, gain, total
<1>7. CASE ~degraded
    <2> DEFINE t == Greater(0, Lesser(both, AtLeastZero(gain)))
    <2>1. e.tax = {t}
        BY <1>3, <1>7
    <2>2. t \in Int /\ 0 <= t /\ t <= AtLeastZero(gain)
        BY <1>2, <1>5 DEF Greater, Lesser, AtLeastZero
    <2> HIDE DEF t
    <2>3. EstimateOK(e.tax, gain)
        BY <2>1, <2>2 DEF EstimateOK
    <2> QED
        BY <2>3 DEF e, gain, total
<1> QED
    BY <1>6, <1>7

(***************************************************************************)
(* Roundings, lot by lot and together                                      *)
(***************************************************************************)
\* Sums of integers differ, and add up, as their terms do.
LEMMA SumsDiffer ==
    ASSUME NEW f, NEW g, NEW h, NEW S, IsFiniteSet(S),
           \A x \in S : f[x] \in Int /\ g[x] \in Int /\ h[x] = f[x] - g[x]
    PROVE  SumFunctionOnSet(h, S) = SumFunctionOnSet(f, S) - SumFunctionOnSet(g, S)
<1> DEFINE one == 1
           minus == -1
<1>1. one \in Int /\ minus \in Int /\ \A u, v \in Int : u - v = one * u + minus * v
    OBVIOUS
<1>2. SumFunctionOnSet(f, S) \in Int /\ SumFunctionOnSet(g, S) \in Int
    BY SumIsInt
<1> HIDE DEF one, minus
<1>3. \A x \in S : f[x] \in Int /\ g[x] \in Int /\ h[x] = one * f[x] + minus * g[x]
    BY <1>1
<1>4. SumFunctionOnSet(h, S) = one * SumFunctionOnSet(f, S) + minus * SumFunctionOnSet(g, S)
    BY <1>1, <1>3, SumLinear
<1> QED
    BY <1>1, <1>2, <1>4

\* A sum of sums.
LEMMA SumsAdd ==
    ASSUME NEW f, NEW g, NEW h, NEW S, IsFiniteSet(S),
           \A x \in S : f[x] \in Int /\ g[x] \in Int /\ h[x] = f[x] + g[x]
    PROVE  SumFunctionOnSet(h, S) = SumFunctionOnSet(f, S) + SumFunctionOnSet(g, S)
<1> DEFINE one == 1
<1>1. one \in Int /\ \A u, v \in Int : u + v = one * u + one * v
    OBVIOUS
<1>2. SumFunctionOnSet(f, S) \in Int /\ SumFunctionOnSet(g, S) \in Int
    BY SumIsInt
<1> HIDE DEF one
<1>3. \A x \in S : f[x] \in Int /\ g[x] \in Int /\ h[x] = one * f[x] + one * g[x]
    BY <1>1
<1>4. SumFunctionOnSet(h, S) = one * SumFunctionOnSet(f, S) + one * SumFunctionOnSet(g, S)
    BY <1>1, <1>3, SumLinear
<1> QED
    BY <1>1, <1>2, <1>4

\* The sum of a constant.
LEMMA SumOfConstant ==
    ASSUME NEW c \in Int, NEW f, NEW S, IsFiniteSet(S), \A x \in S : f[x] = c
    PROVE  SumFunctionOnSet(f, S) = c * Cardinality(S) /\ Cardinality(S) \in Nat
<1> DEFINE one == [x \in S |-> 1]
           zero == 0
           F == SumFunctionOnSet(f, S)
           N == SumFunctionOnSet(one, S)
<1>1. N = Cardinality(S)
    BY SumOfOnes
<1>2. \A x \in S : one[x] \in Int /\ f[x] = c * one[x] + zero * one[x]
    OBVIOUS
<1>3. Cardinality(S) \in Nat
    BY FS_CardinalityType
<1>4. zero \in Int /\ \A u, n \in Int : u = c * n + zero * n => u = c * n
    OBVIOUS
<1> HIDE DEF one, zero
<1>5. \A x \in S : one[x] \in Int /\ one[x] \in Int /\ f[x] = c * one[x] + zero * one[x]
    BY <1>2
<1>6. \A x \in S : f[x] \in Int
    OBVIOUS
<1>7. F \in Int
    BY <1>6, SumIsInt
<1>8. F = c * N + zero * N
    BY <1>4, <1>5, SumLinear
<1> HIDE DEF F, N
<1>9. N \in Int
    BY <1>1, <1>3
<1>10. F = c * N
    BY <1>4, <1>7, <1>8, <1>9
<1> QED
    BY <1>1, <1>3, <1>10 DEF F

\* Lots that are valued one by one are worth what they are worth together, but for
\* half a cent each and half a cent together.
LEMMA LotsRound ==
    ASSUME NEW K, IsFiniteSet(K), NEW price \in Int, NEW qty, NEW worth,
           \A k \in K : qty[k] \in Int /\ worth[k] = MarketValue(price, qty[k])
    PROVE  2 * Magnitude(SumFunctionOnSet(worth, K) - MarketValue(price, SumFunctionOnSet(qty, K)))
               <= Cardinality(K) + 1
<1> DEFINE err == [k \in K |-> (2 * ShareScale) * worth[k] + (-(2 * price)) * qty[k]]
           most == [k \in K |-> ShareScale]
           least == [k \in K |-> -ShareScale]
           W == SumFunctionOnSet(worth, K)
           Q == SumFunctionOnSet(qty, K)
           E == SumFunctionOnSet(err, K)
           V == MarketValue(price, Q)
           n == Cardinality(K)
<1>1. ShareScale \in Int /\ ShareScale > 0
    BY ShareScaleAssumption
<1>2. ASSUME NEW q \in Int
      PROVE  /\ MarketValue(price, q) \in Int
             /\ 2 * ShareScale * MarketValue(price, q) - 2 * (price * q) <= ShareScale
             /\ 2 * (price * q) - 2 * ShareScale * MarketValue(price, q) <= ShareScale
    <2> DEFINE x == price * q
    <2>1. x \in Int
        OBVIOUS
    <2>2. MarketValue(price, q) = RoundHalfEven(x, ShareScale)
        BY DEF MarketValue, Scale
    <2> HIDE DEF x
    <2> QED
        BY <1>1, <2>1, <2>2, RoundsToNearest DEF x
<1>3. \A k \in K : /\ qty[k] \in Int /\ worth[k] \in Int /\ err[k] \in Int
                   /\ err[k] = (2 * ShareScale) * worth[k] + (-(2 * price)) * qty[k]
                   /\ err[k] <= ShareScale /\ -ShareScale <= err[k]
    <2> SUFFICES ASSUME NEW k \in K
                 PROVE  /\ qty[k] \in Int /\ worth[k] \in Int /\ err[k] \in Int
                        /\ err[k] = (2 * ShareScale) * worth[k] + (-(2 * price)) * qty[k]
                        /\ err[k] <= ShareScale /\ -ShareScale <= err[k]
        OBVIOUS
    <2>1. PICK q \in Int, w \in Int : q = qty[k] /\ w = worth[k] /\ w = MarketValue(price, q)
        BY <1>2
    <2>2. /\ 2 * ShareScale * w - 2 * (price * q) <= ShareScale
          /\ 2 * (price * q) - 2 * ShareScale * w <= ShareScale
        BY <1>2, <2>1
    <2>3. err[k] = (2 * ShareScale) * w + (-(2 * price)) * q
        BY <2>1
    <2>4. 2 * (price * q) = (2 * price) * q /\ (-(2 * price)) * q = -((2 * price) * q)
          /\ 2 * ShareScale * w \in Int /\ (2 * price) * q \in Int
        BY <1>1
    <2> HIDE DEF err
    <2> QED
        BY <1>1, <2>1, <2>2, <2>3, <2>4
<1>4. W \in Int /\ Q \in Int /\ E \in Int /\ n \in Nat
    <2> HIDE DEF err
    <2> QED
        BY <1>3, SumIsInt, FS_CardinalityType
<1>5. E = (2 * ShareScale) * W + (-(2 * price)) * Q
    <2> DEFINE a == 2 * ShareScale
               b == -(2 * price)
    <2>1. a \in Int /\ b \in Int
        BY <1>1
    <2>2. \A k \in K : worth[k] \in Int /\ qty[k] \in Int /\ err[k] = a * worth[k] + b * qty[k]
        BY <1>3
    <2> HIDE DEF err, a, b
    <2>3. E = a * W + b * Q
        BY <2>1, <2>2, SumLinear
    <2> QED
        BY <2>3 DEF a, b
<1>6. E <= ShareScale * n
    <2>1. \A k \in K : err[k] \in Int /\ most[k] \in Int /\ err[k] <= most[k] /\ most[k] = ShareScale
        BY <1>1, <1>3
    <2> HIDE DEF err, most
    <2>2. SumFunctionOnSet(err, K) <= SumFunctionOnSet(most, K)
        BY <2>1, SumMonotone
    <2>3. SumFunctionOnSet(most, K) = ShareScale * Cardinality(K)
        BY <1>1, <2>1, SumOfConstant
    <2> QED
        BY <2>2, <2>3
<1>7. -(ShareScale * n) <= E
    <2>1. \A k \in K : err[k] \in Int /\ least[k] \in Int /\ least[k] <= err[k] /\ least[k] = -ShareScale
        BY <1>1, <1>3
    <2>2. -ShareScale \in Int
        BY <1>1
    <2> HIDE DEF err, least
    <2>3. SumFunctionOnSet(least, K) <= SumFunctionOnSet(err, K)
        BY <2>1, SumMonotone
    <2>4. SumFunctionOnSet(least, K) = (-ShareScale) * Cardinality(K)
        BY <2>1, <2>2, SumOfConstant
    <2>5. (-ShareScale) * n = -(ShareScale * n)
        BY <1>1, <1>4
    <2> QED
        BY <2>3, <2>4, <2>5
<1>8. /\ V \in Int
      /\ 2 * ShareScale * V - 2 * (price * Q) <= ShareScale
      /\ 2 * (price * Q) - 2 * ShareScale * V <= ShareScale
    BY <1>2, <1>4
<1> HIDE DEF W, Q, E, V, n
<1>9. /\ (2 * (W - V)) * ShareScale <= (n + 1) * ShareScale
      /\ (2 * (V - W)) * ShareScale <= (n + 1) * ShareScale
    <2>1. /\ (2 * ShareScale) * W \in Int /\ 2 * (price * Q) \in Int /\ ShareScale * n \in Int
          /\ (2 * ShareScale) * V \in Int
          /\ (-(2 * price)) * Q = -(2 * (price * Q))
          /\ (2 * (W - V)) * ShareScale = (2 * ShareScale) * W - (2 * ShareScale) * V
          /\ (2 * (V - W)) * ShareScale = (2 * ShareScale) * V - (2 * ShareScale) * W
          /\ (n + 1) * ShareScale = ShareScale * n + ShareScale
        BY <1>1, <1>4, <1>8
    <2> QED
        BY <1>1, <1>4, <1>5, <1>6, <1>7, <1>8, <2>1
<1>10. \A a, b, c \in Int : c > 0 /\ a * c <= b * c => a <= b
    OBVIOUS
<1>11. 2 * (W - V) <= n + 1 /\ 2 * (V - W) <= n + 1
    <2>1. 2 * (W - V) \in Int /\ 2 * (V - W) \in Int /\ n + 1 \in Int
        BY <1>4, <1>8
    <2> QED
        BY <1>1, <1>9, <1>10, <2>1
<1>12. 2 * Magnitude(W - V) <= n + 1
    BY <1>4, <1>8, <1>11 DEF Magnitude
<1> QED
    BY <1>12 DEF W, V, Q, n

\* A tax that is no more than the gain of some lots is divided over them whole.
LEMMA LotsBearTax ==
    ASSUME NEW K, IsFiniteSet(K), K \subseteq Int, NEW gain, \A k \in K : gain[k] \in Int,
           NEW w, DOMAIN w = K, \A k \in K : w[k] = AtLeastZero(gain[k]),
           NEW tax \in Int, 0 <= tax, tax <= AtLeastZero(SumFunctionOnSet(gain, K))
    PROVE  /\ SumFunction(LargestRemainder(tax, w)) = tax
           /\ DOMAIN LargestRemainder(tax, w) = K
           /\ \A k \in K : LargestRemainder(tax, w)[k] \in Int
<1> DEFINE G == SumFunctionOnSet(gain, K)
           U == SumFunctionOnSet(w, K)
           zero == [k \in K |-> 0]
<1>1. \A k \in K : w[k] \in Int /\ 0 <= w[k] /\ gain[k] <= w[k]
    BY DEF AtLeastZero
<1>2. G \in Int /\ U \in Int
    BY <1>1, SumIsInt
<1>3. G <= U
    BY <1>1, SumMonotone
<1>4. 0 <= U
    <2>1. \A k \in K : zero[k] = 0 /\ zero[k] \in Int /\ zero[k] <= w[k]
        BY <1>1
    <2> HIDE DEF zero
    <2>2. SumFunctionOnSet(zero, K) = 0
        BY <2>1, SumOfZeros
    <2>3. SumFunctionOnSet(zero, K) <= SumFunctionOnSet(w, K)
        BY <1>1, <2>1, SumMonotone
    <2> QED
        BY <2>2, <2>3
<1>5. SumFunction(w) = U
    BY DEF SumFunction
<1>6. IsFiniteSet(DOMAIN w) /\ DOMAIN w \subseteq Int /\ \A k \in DOMAIN w : w[k] \in Int
    BY <1>1
<1>7. /\ DOMAIN LargestRemainder(tax, w) = DOMAIN w
      /\ \A k \in DOMAIN w : LargestRemainder(tax, w)[k] \in Int
      /\ SumFunction(LargestRemainder(tax, w)) = IF SumFunction(w) <= 0 THEN 0 ELSE tax
    BY <1>6, LargestRemainderAddsUp
<1> HIDE DEF U
<1>8. U <= 0 => tax = 0
    <2>1. tax <= AtLeastZero(G)
        OBVIOUS
    <2> HIDE DEF G
    <2> QED
        BY <1>2, <1>3, <1>4, <2>1 DEF AtLeastZero
<1> QED
    BY <1>5, <1>7, <1>8

\* What a symbol is up after a tax that is no more than the gain of its lots.
LEMMA NetIsBounded ==
    ASSUME NEW value \in Int, NEW basis \in Int, NEW worth \in Int, NEW tax \in Int, NEW n \in Int,
           2 * Magnitude(worth - value) <= n + 1,
           0 <= tax, tax <= AtLeastZero(worth - basis)
    PROVE  /\ value - basis - tax <= value - basis
           /\ 2 * (value - basis - tax) >= Lesser(2 * (value - basis), -(n + 1))
BY DEF Magnitude, AtLeastZero, Lesser

(***************************************************************************)
(* A priced snapshot                                                       *)
(***************************************************************************)
\* The lots of a snapshot are of held symbols, and valued by the marks; what is held
\* of a symbol is its lots.
PricedOK(snap, marks) ==
    /\ IsFiniteSet(DOMAIN snap.lots) /\ DOMAIN snap.lots \subseteq Int
    /\ IsFiniteSet(DOMAIN snap.positions) /\ DOMAIN snap.positions \subseteq Int
    /\ \A s \in DOMAIN marks : marks[s].price \in Int
    /\ \A k \in DOMAIN snap.lots :
          /\ snap.lots[k].qty \in Int /\ snap.lots[k].basis \in Int
          /\ snap.lots[k].symbol \in Held(snap)
          /\ snap.lots[k].unrealized =
                IF snap.lots[k].symbol \in DOMAIN marks
                THEN {MarketValue(marks[snap.lots[k].symbol].price, snap.lots[k].qty)
                          - snap.lots[k].basis}
                ELSE {}
    /\ \A s \in Held(snap) :
          /\ snap.positions[s].qty = SumFunction([k \in LotsOf(snap.lots, s) |-> snap.lots[k].qty])
          /\ snap.positions[s].basis = SumFunction([k \in LotsOf(snap.lots, s) |-> snap.lots[k].basis])

\* An estimate for each held symbol, of the gain of its lots.
EstimatesOK(snap, estimates) ==
    \A s \in Held(snap) :
        EstimateOK(estimates[s].tax,
                   SumFunction([k \in LotsOf(snap.lots, s) |-> ValueOf(snap.lots[k].unrealized)]))

\* What each lot is worth, was bought for, and bears of the tax of its symbol.
LotWorth(snap, marks) ==
    [k \in DOMAIN snap.lots |-> MarketValue(marks[snap.lots[k].symbol].price, snap.lots[k].qty)]
LotBasis(snap) == [k \in DOMAIN snap.lots |-> snap.lots[k].basis]
LotTaxes(snap, estimates) ==
    [k \in DOMAIN snap.lots |-> LotTax(snap, estimates, snap.lots[k].symbol)[k]]

\* The symbols that a composition shows with a value.
Shown(snap, marks, estimates) == Held(snap) \ Degraded(snap, marks, estimates)

\* What the lots of a symbol come to, and what the composition shows of it.
SymbolAddsUp(snap, marks, estimates, s) ==
    LET K == LotsOf(snap.lots, s)
        value == SymbolValues(snap, marks, estimates)[s]
        net == SymbolNet(snap, marks, estimates)[s]
        pretax == value - snap.positions[s].basis
    IN  /\ value \in Int /\ net \in Int
        /\ \A k \in K : /\ LotWorth(snap, marks)[k] \in Int /\ LotBasis(snap)[k] \in Int
                        /\ LotTaxes(snap, estimates)[k] \in Int
        /\ value - net = SumFunctionOnSet(LotBasis(snap), K) + SumFunctionOnSet(LotTaxes(snap, estimates), K)
        /\ 2 * Magnitude(SumFunctionOnSet(LotWorth(snap, marks), K) - value) <= Cardinality(K) + 1
        /\ SumFunction(LotTax(snap, estimates, s)) = ValueOf(estimates[s].tax)
        /\ net <= pretax
        /\ 2 * net >= Lesser(2 * pretax, -(Cardinality(K) + 1))

\* The value of one amount that is an integer, in any form.
LEMMA OneAmount == \A x : \A y \in Int : x = {y} => ValueOf(x) = y
<1>1. \A y \in Int : ValueOf({y}) = y
    BY ValueOfOne
<1> QED
    BY <1>1, Zenon

\* The value of a quantity is an integer.
LEMMA ValuesAreInt == ASSUME NEW price \in Int PROVE \A q \in Int : MarketValue(price, q) \in Int
<1> SUFFICES ASSUME NEW q \in Int PROVE MarketValue(price, q) \in Int
    OBVIOUS
<1> DEFINE x == price * q
<1>1. x \in Int
    OBVIOUS
<1> HIDE DEF x
<1>2. ShareScale \in Int /\ ShareScale > 0
    BY ShareScaleAssumption
<1>3. RoundHalfEven(x, ShareScale) \in Int
    BY <1>1, <1>2, RoundsToNearest
<1> QED
    BY <1>3 DEF MarketValue, Scale, x

\* They agree for each symbol that is shown.
LEMMA ShownAddsUp ==
    ASSUME NEW snap, NEW marks, NEW estimates, PricedOK(snap, marks), EstimatesOK(snap, estimates),
           NEW s \in Shown(snap, marks, estimates)
    PROVE  SymbolAddsUp(snap, marks, estimates, s)
<1> DEFINE K == LotsOf(snap.lots, s)
           price == marks[s].price
           qty == [k \in DOMAIN snap.lots |-> snap.lots[k].qty]
           worth == LotWorth(snap, marks)
           basis == LotBasis(snap)
           taxes == LotTaxes(snap, estimates)
           gain == [k \in DOMAIN snap.lots |-> worth[k] - basis[k]]
           weights == [k \in K |-> AtLeastZero(ValueOf(snap.lots[k].unrealized))]
           tax == ValueOf(estimates[s].tax)
           shares == LotTax(snap, estimates, s)
           W == SumFunctionOnSet(worth, K)
           B == SumFunctionOnSet(basis, K)
           Q == SumFunctionOnSet(qty, K)
           T == SumFunctionOnSet(taxes, K)
           V == MarketValue(price, Q)
           n == Cardinality(K)
<1>1. s \in Held(snap) /\ s \in DOMAIN marks /\ estimates[s].tax # {}
    BY DEF Shown, Degraded
<1>2. IsFiniteSet(K) /\ K \subseteq Int /\ K \subseteq DOMAIN snap.lots /\ n \in Nat
    <2>1. K \in SUBSET DOMAIN snap.lots
        BY DEF LotsOf
    <2>2. IsFiniteSet(DOMAIN snap.lots) /\ DOMAIN snap.lots \subseteq Int
        BY DEF PricedOK
    <2> HIDE DEF K
    <2> QED
        BY <2>1, <2>2, FS_Subset, FS_CardinalityType
<1>3. price \in Int
    BY <1>1 DEF PricedOK
<1>4. \A k \in K : snap.lots[k].symbol = s
    BY DEF LotsOf
<1>5. \A k \in K : /\ qty[k] \in Int /\ qty[k] = snap.lots[k].qty
                   /\ basis[k] \in Int /\ basis[k] = snap.lots[k].basis
                   /\ worth[k] = MarketValue(price, qty[k])
                   /\ snap.lots[k].unrealized = {worth[k] - basis[k]}
    BY <1>1, <1>2, <1>4 DEF PricedOK, LotBasis, LotWorth
<1>6. \A q \in Int : MarketValue(price, q) \in Int
    BY <1>3, ValuesAreInt
<1>7. \A k \in K : /\ worth[k] \in Int /\ gain[k] \in Int /\ gain[k] = worth[k] - basis[k]
                   /\ snap.lots[k].unrealized = {gain[k]}
    <2>1. \A k \in K : gain[k] = worth[k] - basis[k]
        BY <1>2
    <2>2. \A k \in K : worth[k] \in Int
        BY <1>5, <1>6
    <2> HIDE DEF gain, worth, basis, qty, K, price
    <2>3. \A k \in K : gain[k] \in Int /\ gain[k] = worth[k] - basis[k]
        BY <1>5, <2>1, <2>2
    <2> QED
        BY <1>5, <2>1, <2>2, <2>3
<1>8. \A k \in K : ValueOf(snap.lots[k].unrealized) = gain[k]
    BY <1>7, OneAmount
<1>9. W \in Int /\ B \in Int /\ Q \in Int /\ V \in Int
    <2> HIDE DEF worth, basis, qty, K, price
    <2>1. W \in Int /\ B \in Int /\ Q \in Int
        BY <1>2, <1>5, <1>7, SumIsInt
    <2> QED
        BY <1>6, <2>1
<1>10. SumFunctionOnSet(gain, K) = W - B
    <2> HIDE DEF gain, worth, basis, qty, K
    <2>1. \A k \in K : worth[k] \in Int /\ basis[k] \in Int /\ gain[k] = worth[k] - basis[k]
        BY <1>5, <1>7
    <2>2. IsFiniteSet(K)
        BY <1>2
    <2> HIDE DEF gain, worth, basis, K
    <2> QED
        BY <2>1, <2>2, SumsDiffer
<1>11. snap.positions[s].qty = Q /\ snap.positions[s].basis = B
    <2> DEFINE q == [k \in K |-> snap.lots[k].qty]
               b == [k \in K |-> snap.lots[k].basis]
    <2>1. snap.positions[s].qty = SumFunction(q) /\ snap.positions[s].basis = SumFunction(b)
        BY <1>1 DEF PricedOK
    <2>2. DOMAIN q = K /\ \A k \in K : q[k] = qty[k]
        BY <1>5
    <2>3. DOMAIN b = K /\ \A k \in K : b[k] = basis[k]
        BY <1>5
    <2>4. IsFiniteSet(K)
        BY <1>2
    <2> HIDE DEF q, b, qty, basis, K
    <2>5. SumFunction(q) = Q
        BY <2>2, <2>4, SumOver
    <2>6. SumFunction(b) = B
        BY <2>3, <2>4, SumOver
    <2> QED
        BY <2>1, <2>5, <2>6
<1>12. \E t \in Int : estimates[s].tax = {t} /\ 0 <= t /\ t <= AtLeastZero(W - B)
    <2> DEFINE g == [k \in K |-> ValueOf(snap.lots[k].unrealized)]
    <2>1. EstimateOK(estimates[s].tax, SumFunction(g))
        BY <1>1 DEF EstimatesOK
    <2>2. DOMAIN g = K /\ \A k \in K : g[k] = gain[k]
        BY <1>8
    <2> HIDE DEF g, gain, K
    <2>3. SumFunction(g) = W - B
        BY <1>2, <1>10, <2>2, SumOver
    <2> QED
        BY <1>1, <2>1, <2>3 DEF EstimateOK
<1>13. tax \in Int /\ 0 <= tax /\ tax <= AtLeastZero(W - B)
    <2>1. PICK t \in Int : estimates[s].tax = {t} /\ 0 <= t /\ t <= AtLeastZero(W - B)
        BY <1>12
    <2>2. tax = t
        BY <2>1, OneAmount
    <2> HIDE DEF tax, W, B
    <2> QED
        BY <2>1, <2>2
<1>14. shares = LargestRemainder(tax, weights)
    BY DEF LotTax
<1>15. DOMAIN weights = K /\ \A k \in K : weights[k] = AtLeastZero(gain[k])
    BY <1>8
<1>16. 2 * Magnitude(W - V) <= n + 1
    <2> HIDE DEF worth, qty, K, price
    <2> QED
        BY <1>2, <1>3, <1>5, LotsRound
<1>17. SumFunction(shares) = tax /\ DOMAIN shares = K /\ \A k \in K : shares[k] \in Int
    <2>1. \A k \in K : gain[k] \in Int
        BY <1>7
    <2> HIDE DEF shares, weights, gain, K, tax, W, B
    <2> QED
        BY <1>2, <1>10, <1>13, <1>14, <1>15, <2>1, LotsBearTax
<1>18. (\A k \in K : taxes[k] = shares[k]) /\ T = tax
    <2>1. \A k \in K : taxes[k] = shares[k]
        BY <1>2, <1>4 DEF LotTaxes
    <2> HIDE DEF taxes, shares, K
    <2>2. SumFunction(shares) = SumFunctionOnSet(taxes, K)
        BY <1>2, <1>17, <2>1, SumOver
    <2> QED
        BY <1>17, <2>1, <2>2
<1>19. SymbolValues(snap, marks, estimates)[s] = V /\ SymbolNet(snap, marks, estimates)[s] = V - B - tax
    BY <1>11 DEF SymbolValues, SymbolNet, Shown
<1>20. V - B - tax <= V - B /\ 2 * (V - B - tax) >= Lesser(2 * (V - B), -(n + 1))
    <2>1. n \in Int
        BY <1>2
    <2> HIDE DEF V, B, tax, W, n
    <2> QED
        BY <1>9, <1>13, <1>16, <2>1, NetIsBounded
<1>21. V - B - tax \in Int /\ V - (V - B - tax) = B + T
    <2> HIDE DEF V, B, tax, T
    <2> QED
        BY <1>9, <1>13, <1>18
<1>22. \A k \in K : worth[k] \in Int /\ basis[k] \in Int /\ taxes[k] \in Int
    BY <1>5, <1>7, <1>17, <1>18
<1> HIDE DEF K, worth, basis, taxes, V, W, B, T, tax, n, shares, gain, weights, qty, price
<1> DEFINE value == SymbolValues(snap, marks, estimates)[s]
           net == SymbolNet(snap, marks, estimates)[s]
           pretax == value - snap.positions[s].basis
<1>23. value = V /\ net = V - B - tax /\ pretax = V - B
    BY <1>11, <1>19
<1> HIDE DEF value, net, pretax
<1>24. value \in Int /\ net \in Int /\ value - net = B + T
    BY <1>9, <1>21, <1>23
<1>25. 2 * Magnitude(W - value) <= n + 1 /\ net <= pretax /\ 2 * net >= Lesser(2 * pretax, -(n + 1))
    BY <1>16, <1>20, <1>23
<1> QED
    BY <1>17, <1>22, <1>24, <1>25
    DEF SymbolAddsUp, K, worth, basis, taxes, W, B, T, tax, n, shares, value, net, pretax

\* The held symbols are finitely many numbers.
LEMMA ShownAreFinite ==
    ASSUME NEW snap, NEW marks, NEW estimates, PricedOK(snap, marks)
    PROVE  IsFiniteSet(Shown(snap, marks, estimates)) /\ Shown(snap, marks, estimates) \subseteq Int
<1>1. Shown(snap, marks, estimates) \in SUBSET DOMAIN snap.positions
    BY DEF Shown, Held
<1>2. IsFiniteSet(DOMAIN snap.positions) /\ DOMAIN snap.positions \subseteq Int
    BY DEF PricedOK
<1> QED
    BY <1>1, <1>2, FS_Subset

\* Each symbol's tax is borne by its lots.
LEMMA TaxesAreBorne ==
    ASSUME NEW snap, NEW marks, NEW estimates, PricedOK(snap, marks), EstimatesOK(snap, estimates)
    PROVE  TaxIsBorne(snap, estimates, SymbolValues(snap, marks, estimates), SymbolNet(snap, marks, estimates))
<1>1. DOMAIN SymbolValues(snap, marks, estimates) = Shown(snap, marks, estimates)
    BY DEF SymbolValues, Shown
<1>2. \A s \in Shown(snap, marks, estimates) : SymbolAddsUp(snap, marks, estimates, s)
    BY ShownAddsUp
<1> QED
    BY <1>1, <1>2 DEF TaxIsBorne, SymbolAddsUp

\* The shares of the symbols are shares of the whole.
LEMMA SharesMakeTheWhole ==
    ASSUME NEW snap, NEW marks, NEW estimates, PricedOK(snap, marks), EstimatesOK(snap, estimates)
    PROVE  SharesAreWhole(SymbolValues(snap, marks, estimates))
<1> DEFINE values == SymbolValues(snap, marks, estimates)
<1>1. DOMAIN values = Shown(snap, marks, estimates)
    BY DEF SymbolValues, Shown
<1>2. \A s \in DOMAIN values : values[s] \in Int
    BY <1>1, ShownAddsUp DEF SymbolAddsUp
<1>3. IsFiniteSet(DOMAIN values) /\ DOMAIN values \subseteq Int
    BY <1>1, ShownAreFinite
<1> HIDE DEF values
<1>4. PpmFull \in Int
    BY PpmFullAssumption
<1>5. SumFunction(LargestRemainder(PpmFull, values)) = IF SumFunction(values) <= 0 THEN 0 ELSE PpmFull
    BY <1>2, <1>3, <1>4, LargestRemainderAddsUp
<1>6. SharesAreWhole(values)
    BY <1>5 DEF SharesAreWhole, SharesOfWhole
<1> QED
    BY <1>6 DEF values

\* Lots by symbol and by platform, and what they come to by each.
LotsAmong(lots, S) == {k \in DOMAIN lots : lots[k].symbol \in S}
LotsOn(lots, K, p) == {k \in K : lots[k].platform = p}
PlatformsOf(lots) == {lots[k].platform : k \in DOMAIN lots}
BySymbol(g, f, lots, S) == \A s \in S : g[s] = SumFunctionOnSet(f, LotsOf(lots, s))
ByPlatform(g, f, lots, K) ==
    DOMAIN g = PlatformsOf(lots) /\ \A p \in DOMAIN g : g[p] = SumFunctionOnSet(f, LotsOn(lots, K, p))

\* What lots of symbols come to, added up by symbol.
LEMMA SymbolsAddUp ==
    ASSUME NEW lots, NEW S, IsFiniteSet(S), IsFiniteSet(LotsAmong(lots, S)), NEW f,
           \A k \in LotsAmong(lots, S) : f[k] \in Int, NEW g, BySymbol(g, f, lots, S)
    PROVE  SumFunctionOnSet(g, S) = SumFunctionOnSet(f, LotsAmong(lots, S))
<1> DEFINE K == LotsAmong(lots, S)
           class == [k \in K |-> lots[k].symbol]
           sums == ByClass(f, K, class, S)
<1>1. \A k \in K : class[k] \in S
    BY DEF LotsAmong
<1>2. ASSUME NEW s \in S PROVE g[s] = sums[s]
    <2>1. {k \in K : class[k] = s} = LotsOf(lots, s)
        BY DEF LotsOf, LotsAmong
    <2> HIDE DEF class, K
    <2> QED
        BY <2>1 DEF ByClass, BySymbol
<1> HIDE DEF class, K
<1>3. SumFunctionOnSet(sums, S) = SumFunctionOnSet(f, K)
    BY <1>1, SumPartition DEF K
<1> HIDE DEF sums
<1>4. SumFunctionOnSet(g, S) = SumFunctionOnSet(sums, S)
    BY <1>2, SumSame
<1> QED
    BY <1>3, <1>4 DEF K

\* And by platform.
LEMMA PlatformsAddUp ==
    ASSUME NEW lots, IsFiniteSet(DOMAIN lots), NEW f, NEW K, K \subseteq DOMAIN lots,
           \A k \in K : f[k] \in Int, NEW g, ByPlatform(g, f, lots, K)
    PROVE  SumFunction(g) = SumFunctionOnSet(f, K)
<1> DEFINE class == [k \in DOMAIN lots |-> lots[k].platform]
           P == PlatformsOf(lots)
           sums == ByClass(f, K, class, P)
<1>1. IsFiniteSet(K)
    BY FS_Subset
<1>2. IsFiniteSet(P)
    <2> DEFINE D == DOMAIN lots
    <2>1. P = {class[k] : k \in D}
        BY DEF PlatformsOf
    <2>2. IsFiniteSet(D)
        OBVIOUS
    <2> HIDE DEF class, D, P
    <2> QED
        BY <2>1, <2>2, FiniteImage
<1>3. \A k \in K : class[k] \in P
    BY DEF PlatformsOf
<1>4. ASSUME NEW p \in P PROVE g[p] = sums[p]
    <2>1. {k \in K : class[k] = p} = LotsOn(lots, K, p)
        BY DEF LotsOn
    <2> HIDE DEF class
    <2> QED
        BY <2>1 DEF ByClass, ByPlatform
<1> HIDE DEF class
<1>5. DOMAIN g = P
    BY DEF ByPlatform
<1> HIDE DEF P
<1>6. SumFunctionOnSet(sums, P) = SumFunctionOnSet(f, K)
    BY <1>1, <1>2, <1>3, SumPartition
<1> HIDE DEF sums
<1>7. SumFunctionOnSet(g, P) = SumFunctionOnSet(sums, P)
    BY <1>2, <1>4, SumSame
<1> QED
    BY <1>5, <1>6, <1>7 DEF SumFunction

\* The platforms and the symbols agree.
LEMMA PlatformsAndSymbols ==
    ASSUME NEW snap, NEW marks, NEW estimates, PricedOK(snap, marks), EstimatesOK(snap, estimates)
    PROVE  PlatformsAgree(snap, SymbolValues(snap, marks, estimates), SymbolNet(snap, marks, estimates),
                          PlatformRows(snap, marks, estimates))
<1> DEFINE values == SymbolValues(snap, marks, estimates)
           nets == SymbolNet(snap, marks, estimates)
           rows == PlatformRows(snap, marks, estimates)
           S == Shown(snap, marks, estimates)
           K == LotsAmong(snap.lots, S)
           P == PlatformsOf(snap.lots)
           worth == LotWorth(snap, marks)
           basis == LotBasis(snap)
           taxes == LotTaxes(snap, estimates)
           cost == [k \in DOMAIN snap.lots |-> basis[k] + taxes[k]]
           up == [k \in DOMAIN snap.lots |-> worth[k] - basis[k] - taxes[k]]
           one == [k \in K |-> 1]
           W == SumFunctionOnSet(worth, K)
           C == SumFunctionOnSet(cost, K)
           V == SumFunctionOnSet(values, S)
           N == SumFunctionOnSet(nets, S)
<1>1. DOMAIN values = S /\ DOMAIN nets = S /\ DOMAIN rows = P
    BY DEF SymbolValues, SymbolNet, PlatformRows, Shown, PlatformsOf
<1>2. IsFiniteSet(S) /\ IsFiniteSet(DOMAIN snap.lots) /\ K \subseteq DOMAIN snap.lots
    BY ShownAreFinite DEF PricedOK, LotsAmong
<1>3. IsFiniteSet(K) /\ Cardinality(K) \in Nat /\ Cardinality(S) \in Nat
    <2> HIDE DEF K, S
    <2> QED
        BY <1>2, FS_Subset, FS_CardinalityType
<1>4. \A s \in S : SymbolAddsUp(snap, marks, estimates, s)
    BY ShownAddsUp
<1>5. \A k \in K : k \in LotsOf(snap.lots, snap.lots[k].symbol) /\ snap.lots[k].symbol \in S
    BY DEF LotsOf, LotsAmong
<1>6. \A k \in K : worth[k] \in Int /\ basis[k] \in Int /\ taxes[k] \in Int
    BY <1>4, <1>5 DEF SymbolAddsUp
<1>7. \A k \in K : /\ cost[k] \in Int /\ cost[k] = basis[k] + taxes[k]
                   /\ up[k] \in Int /\ up[k] = worth[k] - cost[k]
    <2>1. \A k \in K : cost[k] = basis[k] + taxes[k] /\ up[k] = worth[k] - basis[k] - taxes[k]
        BY <1>2
    <2> HIDE DEF cost, up, worth, basis, taxes, K
    <2> QED
        BY <1>6, <2>1
<1>8. \A p \in P : rows[p].value = SumFunctionOnSet(worth, LotsOn(snap.lots, K, p)) /\ rows[p].net = SumFunctionOnSet(up, LotsOn(snap.lots, K, p))
    <2> SUFFICES ASSUME NEW p \in P
                 PROVE  rows[p].value = SumFunctionOnSet(worth, LotsOn(snap.lots, K, p)) /\ rows[p].net = SumFunctionOnSet(up, LotsOn(snap.lots, K, p))
        OBVIOUS
    <2> DEFINE priced == {k \in {k \in DOMAIN snap.lots : snap.lots[k].platform = p} :
                              snap.lots[k].symbol \notin Degraded(snap, marks, estimates)}
               value == [k \in priced |-> MarketValue(marks[snap.lots[k].symbol].price, snap.lots[k].qty)]
               net == [k \in priced |->
                          MarketValue(marks[snap.lots[k].symbol].price, snap.lots[k].qty)
                              - snap.lots[k].basis - LotTax(snap, estimates, snap.lots[k].symbol)[k]]
    <2>1. rows[p].value = SumFunction(value) /\ rows[p].net = SumFunction(net)
        BY DEF PlatformRows, PlatformsOf
    <2>2. priced = LotsOn(snap.lots, K, p)
        BY DEF PricedOK, Shown, LotsOn, LotsAmong
    <2>3. \A k \in priced : value[k] = worth[k] /\ net[k] = up[k]
        BY DEF LotWorth, LotBasis, LotTaxes
    <2>4. DOMAIN value = priced /\ DOMAIN net = priced
        OBVIOUS
    <2>5. IsFiniteSet(priced)
        <3>1. LotsOn(snap.lots, K, p) \in SUBSET K
            BY DEF LotsOn
        <3> HIDE DEF priced, K
        <3> QED
            BY <1>3, <2>2, <3>1, FS_Subset
    <2> HIDE DEF value, net, priced, worth, up, rows
    <2>6. SumFunction(value) = SumFunctionOnSet(worth, priced)
        BY <2>3, <2>4, <2>5, SumOver
    <2>7. SumFunction(net) = SumFunctionOnSet(up, priced)
        BY <2>3, <2>4, <2>5, SumOver
    <2> QED
        BY <2>1, <2>2, <2>6, <2>7
<1> DEFINE value == [p \in DOMAIN rows |-> rows[p].value]
           net == [p \in DOMAIN rows |-> rows[p].net]
<1>9. SumFunction(value) = W /\ SumFunction(net) = SumFunctionOnSet(up, K)
    <2>1. ByPlatform(value, worth, snap.lots, K) /\ ByPlatform(net, up, snap.lots, K)
        <3> HIDE DEF K, worth, up
        <3> QED
            BY <1>1, <1>8 DEF ByPlatform
    <2>2. (\A k \in K : worth[k] \in Int) /\ \A k \in K : up[k] \in Int
        BY <1>6, <1>7
    <2> HIDE DEF value, net, K, worth, up
    <2> QED
        BY <1>2, <2>1, <2>2, PlatformsAddUp
<1>10. W \in Int /\ C \in Int /\ SumFunctionOnSet(up, K) = W - C
    <2>1. \A k \in K : worth[k] \in Int /\ cost[k] \in Int /\ up[k] = worth[k] - cost[k]
        BY <1>6, <1>7
    <2>2. IsFiniteSet(K)
        BY <1>3
    <2> HIDE DEF K, worth, cost, up
    <2>3. W \in Int /\ C \in Int
        BY <2>1, <2>2, SumIsInt
    <2>4. SumFunctionOnSet(up, K) = SumFunctionOnSet(worth, K) - SumFunctionOnSet(cost, K)
        BY <2>1, <2>2, SumsDiffer
    <2> QED
        BY <2>3, <2>4
<1>11. \A s \in S : values[s] \in Int /\ nets[s] \in Int
    BY <1>4 DEF SymbolAddsUp
<1>12. V \in Int /\ N \in Int /\ SumFunction(values) = V /\ SumFunction(nets) = N
    <2> HIDE DEF values, nets, S
    <2>1. V \in Int /\ N \in Int
        BY <1>2, <1>11, SumIsInt
    <2> QED
        BY <1>1, <2>1 DEF SumFunction
<1> DEFINE worths == [s \in S |-> SumFunctionOnSet(worth, LotsOf(snap.lots, s))]
           costs == [s \in S |-> SumFunctionOnSet(cost, LotsOf(snap.lots, s))]
           counts == [s \in S |-> SumFunctionOnSet(one, LotsOf(snap.lots, s))]
<1>13. /\ SumFunctionOnSet(worths, S) = W /\ SumFunctionOnSet(costs, S) = C
       /\ SumFunctionOnSet(counts, S) = Cardinality(K)
    <2>0. \A k \in K : one[k] = 1
        OBVIOUS
    <2> HIDE DEF worth, cost, one
    <2>1. /\ \A k \in K : worth[k] \in Int
          /\ \A k \in K : cost[k] \in Int
          /\ \A k \in K : one[k] \in Int
          /\ \A k \in K : one[k] = 1
        <3> HIDE DEF K
        <3>1. (\A k \in K : worth[k] \in Int) /\ \A k \in K : cost[k] \in Int
            BY <1>6, <1>7
        <3>2. (\A k \in K : one[k] \in Int) /\ \A k \in K : one[k] = 1
            BY <2>0
        <3> QED
            BY <3>1, <3>2
    <2>2. /\ BySymbol(worths, worth, snap.lots, S) /\ BySymbol(costs, cost, snap.lots, S)
          /\ BySymbol(counts, one, snap.lots, S)
        BY DEF BySymbol
    <2>3. IsFiniteSet(LotsAmong(snap.lots, S))
        BY <1>3
    <2> HIDE DEF S, worths, costs, counts
    <2>4. SumFunctionOnSet(worths, S) = SumFunctionOnSet(worth, K)
        BY <1>2, <2>1, <2>2, <2>3, SymbolsAddUp
    <2>5. SumFunctionOnSet(costs, S) = SumFunctionOnSet(cost, K)
        BY <1>2, <2>1, <2>2, <2>3, SymbolsAddUp
    <2>6. SumFunctionOnSet(counts, S) = SumFunctionOnSet(one, K)
        BY <1>2, <2>1, <2>2, <2>3, SymbolsAddUp
    <2>7. SumFunctionOnSet(one, K) = Cardinality(K)
        BY <1>3, <2>1, SumOfOnes
    <2> QED
        BY <2>4, <2>5, <2>6, <2>7
<1>14. ASSUME NEW s \in S
       PROVE  /\ worths[s] \in Int /\ costs[s] \in Int /\ counts[s] \in Int
              /\ costs[s] = values[s] - nets[s]
              /\ 2 * Magnitude(worths[s] - values[s]) <= counts[s] + 1
    <2> DEFINE L == LotsOf(snap.lots, s)
               val == values[s]
    <2>1. L \subseteq K /\ IsFiniteSet(L) /\ Cardinality(L) \in Nat
        <3>1. L \in SUBSET K
            BY DEF LotsOf, LotsAmong
        <3> HIDE DEF L, K
        <3> QED
            BY <1>3, <3>1, FS_Subset, FS_CardinalityType
    <2>2. \A k \in L : /\ worth[k] \in Int /\ basis[k] \in Int /\ taxes[k] \in Int /\ cost[k] \in Int
                       /\ cost[k] = basis[k] + taxes[k] /\ one[k] = 1
        BY <1>6, <1>7, <2>1
    <2>3. /\ val - nets[s] = SumFunctionOnSet(basis, L) + SumFunctionOnSet(taxes, L)
          /\ 2 * Magnitude(SumFunctionOnSet(worth, L) - val) <= Cardinality(L) + 1
        BY <1>4 DEF SymbolAddsUp
    <2>4. /\ worths[s] = SumFunctionOnSet(worth, L) /\ costs[s] = SumFunctionOnSet(cost, L)
          /\ counts[s] = SumFunctionOnSet(one, L)
        OBVIOUS
    <2> HIDE DEF L, K, worth, basis, taxes, cost, one, worths, costs, counts, values, nets, val
    <2>5. SumFunctionOnSet(worth, L) \in Int /\ SumFunctionOnSet(cost, L) \in Int
        BY <2>1, <2>2, SumIsInt
    <2>6. SumFunctionOnSet(cost, L) = SumFunctionOnSet(basis, L) + SumFunctionOnSet(taxes, L)
        BY <2>1, <2>2, SumsAdd
    <2>7. SumFunctionOnSet(one, L) = Cardinality(L)
        BY <2>1, <2>2, SumOfOnes
    <2> QED
        BY <2>1, <2>3, <2>4, <2>5, <2>6, <2>7 DEF val
<1> HIDE DEF K, P, worth, basis, taxes, cost, up, one, worths, costs, counts, values, nets, S, rows, value, net
<1>15. C = V - N
    <2>1. \A s \in S : values[s] \in Int /\ nets[s] \in Int /\ costs[s] = values[s] - nets[s]
        BY <1>11, <1>14
    <2>2. SumFunctionOnSet(costs, S) = SumFunctionOnSet(values, S) - SumFunctionOnSet(nets, S)
        BY <1>2, <2>1, SumsDiffer
    <2> QED
        BY <1>13, <2>2
<1>16. 2 * Magnitude(W - V) <= Cardinality(K) + Cardinality(S)
    <2> DEFINE off == [s \in S |-> worths[s] - values[s]]
               under == [s \in S |-> values[s] - worths[s]]
               twice == [s \in S |-> off[s] + off[s]]
               twiceUnder == [s \in S |-> under[s] + under[s]]
               unit == [s \in S |-> 1]
               most == [s \in S |-> counts[s] + unit[s]]
    <2>1. \A s \in S : /\ worths[s] \in Int /\ values[s] \in Int /\ counts[s] \in Int
                       /\ 2 * Magnitude(worths[s] - values[s]) <= counts[s] + 1
        BY <1>11, <1>14
    <2>2. /\ \A s \in S : worths[s] \in Int /\ values[s] \in Int /\ off[s] = worths[s] - values[s]
          /\ \A s \in S : values[s] \in Int /\ worths[s] \in Int /\ under[s] = values[s] - worths[s]
          /\ \A s \in S : unit[s] = 1
          /\ \A s \in S : counts[s] \in Int /\ unit[s] \in Int /\ most[s] = counts[s] + unit[s]
          /\ \A s \in S : off[s] \in Int /\ off[s] \in Int /\ twice[s] = off[s] + off[s]
          /\ \A s \in S : under[s] \in Int /\ under[s] \in Int /\ twiceUnder[s] = under[s] + under[s]
        BY <2>1
    <2>3. \A u, v, c \in Int : 2 * Magnitude(u - v) <= c + 1
                                  => /\ (u - v) + (u - v) \in Int /\ (v - u) + (v - u) \in Int
                                     /\ c + 1 \in Int
                                     /\ (u - v) + (u - v) <= c + 1 /\ (v - u) + (v - u) <= c + 1
        BY DEF Magnitude
    <2> HIDE DEF off, under, twice, twiceUnder, unit, most
    <2>4. ASSUME NEW s \in S
          PROVE  /\ twice[s] \in Int /\ most[s] \in Int /\ twice[s] <= most[s]
                 /\ twiceUnder[s] \in Int /\ twiceUnder[s] <= most[s]
        <3> DEFINE u == worths[s]
                   v == values[s]
                   c == counts[s]
        <3>1. u \in Int /\ v \in Int /\ c \in Int /\ 2 * Magnitude(u - v) <= c + 1
            BY <2>1
        <3>2. twice[s] = (u - v) + (u - v)
            BY <2>2
        <3>3. twiceUnder[s] = (v - u) + (v - u)
            BY <2>2
        <3>4. most[s] = c + 1
            BY <2>2
        <3> HIDE DEF u, v, c
        <3>5. /\ (u - v) + (u - v) \in Int /\ (v - u) + (v - u) \in Int /\ c + 1 \in Int
              /\ (u - v) + (u - v) <= c + 1 /\ (v - u) + (v - u) <= c + 1
            BY <2>3, <3>1
        <3> QED
            BY <3>2, <3>3, <3>4, <3>5
    <2>5. SumFunctionOnSet(off, S) = SumFunctionOnSet(worths, S) - SumFunctionOnSet(values, S)
        BY <1>2, <2>2, SumsDiffer
    <2>6. SumFunctionOnSet(under, S) = SumFunctionOnSet(values, S) - SumFunctionOnSet(worths, S)
        BY <1>2, <2>2, SumsDiffer
    <2>7. SumFunctionOnSet(most, S) = SumFunctionOnSet(counts, S) + SumFunctionOnSet(unit, S)
        BY <1>2, <2>2, SumsAdd
    <2>8. SumFunctionOnSet(twice, S) = SumFunctionOnSet(off, S) + SumFunctionOnSet(off, S)
        BY <1>2, <2>2, SumsAdd
    <2>9. SumFunctionOnSet(twiceUnder, S) = SumFunctionOnSet(under, S) + SumFunctionOnSet(under, S)
        BY <1>2, <2>2, SumsAdd
    <2>10. SumFunctionOnSet(unit, S) = Cardinality(S)
        BY <1>2, <2>2, SumOfOnes
    <2>11. SumFunctionOnSet(twice, S) <= SumFunctionOnSet(most, S)
        BY <1>2, <2>4, SumMonotone
    <2>12. SumFunctionOnSet(twiceUnder, S) <= SumFunctionOnSet(most, S)
        BY <1>2, <2>4, SumMonotone
    <2> DEFINE bound == Cardinality(K) + Cardinality(S)
    <2>13. (W - V) + (W - V) <= bound /\ (V - W) + (V - W) <= bound
        BY <1>13, <2>5, <2>6, <2>7, <2>8, <2>9, <2>10, <2>11, <2>12
    <2>14. bound \in Int
        BY <1>3
    <2> HIDE DEF bound, W, V
    <2>15. 2 * Magnitude(W - V) <= bound
        BY <1>10, <1>12, <2>13, <2>14 DEF Magnitude
    <2> QED
        BY <2>15 DEF bound
<1> HIDE DEF W, C, V, N
<1>17. W - (W - C) = V - N
    BY <1>10, <1>12, <1>15
<1>18. SumFunction(value) - SumFunction(net) = SumFunction(values) - SumFunction(nets)
    BY <1>9, <1>10, <1>12, <1>17
<1>19. 2 * Magnitude(SumFunction(value) - SumFunction(values)) <= Cardinality(K) + Cardinality(DOMAIN values)
    BY <1>1, <1>9, <1>12, <1>16
<1>20. K = {k \in DOMAIN snap.lots : snap.lots[k].symbol \in DOMAIN values}
    BY <1>1 DEF K, LotsAmong
<1>21. PlatformsAgree(snap, values, nets, rows)
    BY <1>18, <1>19, <1>20 DEF PlatformsAgree, value, net
<1> QED
    BY <1>21 DEF values, nets, rows

(***************************************************************************)
(* The snapshot of a replayed log                                          *)
(***************************************************************************)
\* The members of a finite set of numbers, in their order, are members of it.
LEMMA InOrderMembers ==
    ASSUME NEW S, IsFiniteSet(S), S \subseteq Int
    PROVE  /\ Cardinality(S) \in Nat /\ DOMAIN InOrder(S) = 1..Cardinality(S)
           /\ \A i \in 1..Cardinality(S) : InOrder(S)[i] \in S
<1> DEFINE R == {p \in S \X S : p[1] < p[2]}
<1>1. StrictOrder(R, S)
    <2>1. \A i, j \in S : <<i, j>> \in R <=> i < j
        OBVIOUS
    <2> HIDE DEF R
    <2> QED
        BY <2>1, NumbersInOrder
<1>2. Cardinality(S) \in Nat /\ DOMAIN InOrder(S) = 1..Cardinality(S)
    BY InOrderDomain
<1>3. ASSUME NEW s \in S
      PROVE  Cardinality({t \in S : t <= s}) = Cardinality(Ahead(R, S, s)) + 1 /\ Cardinality(Ahead(R, S, s)) \in Nat
    <2>1. Ahead(R, S, s) \in SUBSET S
        BY DEF Ahead
    <2>2. {t \in S : t <= s} = Ahead(R, S, s) \cup {s} /\ s \notin Ahead(R, S, s)
        <3>1. \A t \in S : t \in Ahead(R, S, s) <=> t < s
            BY DEF Ahead
        <3>2. \A t \in S : t <= s <=> t < s \/ t = s
            OBVIOUS
        <3>3. s \in S /\ ~(s < s)
            OBVIOUS
        <3> HIDE DEF R
        <3> QED
            BY <2>1, <3>1, <3>2, <3>3
    <2> HIDE DEF R
    <2>3. IsFiniteSet(Ahead(R, S, s)) /\ Cardinality(Ahead(R, S, s)) \in Nat
        BY <2>1, FS_Subset, FS_CardinalityType
    <2>4. Cardinality(Ahead(R, S, s) \cup {s}) = Cardinality(Ahead(R, S, s)) + 1
        BY <2>2, <2>3, FS_AddElement
    <2> QED
        BY <2>2, <2>3, <2>4
<1> HIDE DEF R
<1>4. ASSUME NEW i \in 1..Cardinality(S) PROVE InOrder(S)[i] \in S
    <2> DEFINE r == i - 1
    <2>1. r \in 0..(Cardinality(S) - 1) /\ i \in Int /\ r + 1 = i
        BY <1>2
    <2> HIDE DEF r
    <2>2. PICK s \in S : Cardinality(Ahead(R, S, s)) = r
        BY <1>1, <2>1, RanksAreDense
    <2>3. Cardinality({t \in S : t <= s}) = i
        BY <1>3, <2>1, <2>2
    <2>4. InOrder(S)[i] = CHOOSE x \in S : Cardinality({t \in S : t <= x}) = i
        BY DEF InOrder
    <2> QED
        BY <2>3, <2>4
<1> QED
    BY <1>2, <1>4

\* Positive quantities add up to one.
LEMMA PositiveSum ==
    ASSUME NEW f, NEW S, IsFiniteSet(S), S # {}, \A x \in S : f[x] \in Nat \ {0}
    PROVE  SumFunctionOnSet(f, S) \in Int /\ SumFunctionOnSet(f, S) > 0
<1> DEFINE one == [x \in S |-> 1]
<1>1. \A x \in S : one[x] = 1 /\ one[x] \in Int /\ f[x] \in Int /\ one[x] <= f[x]
    OBVIOUS
<1> HIDE DEF one
<1>2. SumFunctionOnSet(one, S) = Cardinality(S)
    BY <1>1, SumOfOnes
<1>3. SumFunctionOnSet(one, S) <= SumFunctionOnSet(f, S)
    BY <1>1, SumMonotone
<1>4. Cardinality(S) \in Nat /\ Cardinality(S) # 0
    BY FS_CardinalityType, FS_EmptySet
<1>5. SumFunctionOnSet(f, S) \in Int
    BY <1>1, SumIsInt
<1> QED
    BY <1>2, <1>3, <1>4, <1>5

\* The symbols of a snapshot are ones that a payload opened lots of, and are numbers.
LEMMA SymbolsAreOpened ==
    ASSUME NEW st, NEW n, FoldOK(st, n), NEW marks
    PROVE  DOMAIN Snapshot(st, marks).positions \subseteq OpenedSymbols
<1>1. DOMAIN Snapshot(st, marks).positions = {st.lots[k].symbol : k \in DOMAIN st.lots}
    BY DEF Snapshot, Positions
<1>2. ASSUME NEW k \in DOMAIN st.lots PROVE st.lots[k].symbol \in OpenedSymbols
    <2>1. st.lots[k] \in LotRecords
        BY FoldTypes
    <2> QED
        BY <2>1 DEF LotRecords
<1> QED
    BY <1>1, <1>2

\* Symbols that trades open are the numbers of the boards.
LEMMA OpenedAreNumbers == OpenedSymbols \subseteq Int
BY BoardsAssumption DEF OpenedSymbols

\* The snapshot of what the fold has made, priced by marks.
LEMMA SnapshotIsPriced ==
    ASSUME NEW st, NEW n, FoldOK(st, n), NEW marks, \A s \in DOMAIN marks : marks[s].price \in Int
    PROVE  PricedOK(Snapshot(st, marks), marks)
<1> DEFINE snap == Snapshot(st, marks)
           lots == OpenLots(st, marks)
           K == {k \in DOMAIN st.lots : ~st.lots[k].closed /\ st.lots[k].qty # 0}
           open == InOrder(K)
           symbol == [k \in DOMAIN st.lots |-> st.lots[k].symbol]
<1>1. IsFiniteSet(DOMAIN st.lots) /\ DOMAIN st.lots \subseteq Int /\ st.lots \in Seq(LotRecords)
    BY FoldTypes
<1>2. /\ IsFiniteSet(K) /\ K \subseteq Int /\ K \subseteq DOMAIN st.lots
      /\ Cardinality(K) \in Nat /\ DOMAIN open = 1..Cardinality(K) /\ \A i \in DOMAIN open : open[i] \in K
    <2>1. K \in SUBSET DOMAIN st.lots
        OBVIOUS
    <2> HIDE DEF K
    <2>2. IsFiniteSet(K) /\ K \subseteq Int
        BY <1>1, <2>1, FS_Subset
    <2> QED
        BY <2>1, <2>2, InOrderMembers
<1>3. snap.lots = lots /\ snap.positions = Positions(st, lots)
    BY DEF Snapshot
<1>4. DOMAIN lots = DOMAIN open
    BY DEF OpenLots
<1>5. ASSUME NEW i \in DOMAIN open
      PROVE  /\ lots[i].symbol = st.lots[open[i]].symbol /\ lots[i].qty = st.lots[open[i]].qty
             /\ lots[i].basis = st.lots[open[i]].basis
             /\ lots[i].unrealized =
                   IF lots[i].symbol \in DOMAIN marks
                   THEN {MarketValue(marks[lots[i].symbol].price, lots[i].qty) - lots[i].basis} ELSE {}
    BY DEF OpenLots
<1>6. IsFiniteSet(DOMAIN lots) /\ DOMAIN lots \subseteq Int
    <2> DEFINE c == Cardinality(K)
    <2>1. c \in Int /\ DOMAIN lots = 1..c
        BY <1>2, <1>4
    <2> HIDE DEF c, lots
    <2>2. IsFiniteSet(1..c)
        BY <2>1, FS_Interval
    <2> QED
        BY <2>1, <2>2
<1>7. ASSUME NEW k \in K
      PROVE  /\ st.lots[k].symbol \in OpenedSymbols /\ st.lots[k].qty \in Nat \ {0} /\ st.lots[k].basis \in Int
    <2>1. k \in DOMAIN st.lots /\ st.lots[k].qty # 0
        OBVIOUS
    <2> HIDE DEF K
    <2>2. st.lots[k] \in LotRecords
        BY <1>1, <2>1, ElementOfSeq
    <2>3. st.lots[k].symbol \in OpenedSymbols /\ st.lots[k].qty \in Nat /\ st.lots[k].basis \in Int
        BY <2>2 DEF LotRecords
    <2> QED
        BY <2>1, <2>3
<1>8. DOMAIN snap.positions = {symbol[k] : k \in DOMAIN st.lots}
    BY <1>3 DEF Positions
<1>9. IsFiniteSet(DOMAIN snap.positions)
    <2> DEFINE D == DOMAIN st.lots
    <2>1. IsFiniteSet(D)
        BY <1>1
    <2>2. DOMAIN snap.positions = {symbol[k] : k \in D}
        BY <1>8
    <2> HIDE DEF symbol, D, snap
    <2> QED
        BY <2>1, <2>2, FiniteImage
<1>10. DOMAIN snap.positions \subseteq Int
    BY SymbolsAreOpened, OpenedAreNumbers
<1>11. \A s \in DOMAIN snap.positions :
           /\ snap.positions[s].qty = SumFunction([k \in LotsOf(lots, s) |-> lots[k].qty])
           /\ snap.positions[s].basis = SumFunction([k \in LotsOf(lots, s) |-> lots[k].basis])
    BY <1>3 DEF Positions
<1> HIDE DEF K, open
<1>12. \A i \in DOMAIN lots : /\ lots[i].qty \in Nat \ {0} /\ lots[i].basis \in Int
                              /\ lots[i].symbol \in DOMAIN snap.positions
    <2> SUFFICES ASSUME NEW i \in DOMAIN lots
                 PROVE  /\ lots[i].qty \in Nat \ {0} /\ lots[i].basis \in Int
                        /\ lots[i].symbol \in DOMAIN snap.positions
        OBVIOUS
    <2>1. open[i] \in K /\ open[i] \in DOMAIN st.lots /\ i \in DOMAIN open
        BY <1>2, <1>4
    <2>2. /\ lots[i].symbol = st.lots[open[i]].symbol /\ lots[i].qty = st.lots[open[i]].qty
          /\ lots[i].basis = st.lots[open[i]].basis
        BY <1>5, <2>1
    <2>3. st.lots[open[i]].symbol \in DOMAIN snap.positions
        BY <1>8, <2>1
    <2> HIDE DEF lots, snap
    <2> QED
        BY <1>7, <2>1, <2>2, <2>3
<1>13. \A i \in DOMAIN lots : lots[i].symbol \in Held(snap)
    <2> SUFFICES ASSUME NEW i \in DOMAIN lots PROVE lots[i].symbol \in Held(snap)
        OBVIOUS
    <2> DEFINE s == lots[i].symbol
               L == LotsOf(lots, s)
               qty == [k \in L |-> lots[k].qty]
    <2>1. s \in DOMAIN snap.positions
        BY <1>12
    <2>2. i \in L /\ L \in SUBSET DOMAIN lots
        BY DEF LotsOf
    <2>3. \A k \in L : qty[k] \in Nat \ {0}
        BY <1>12, <2>2
    <2>4. snap.positions[s].qty = SumFunction(qty)
        BY <1>11, <2>1
    <2>5. DOMAIN qty = L
        OBVIOUS
    <2>6. IsFiniteSet(L)
        <3> HIDE DEF L, lots
        <3> QED
            BY <1>6, <2>2, FS_Subset
    <2> HIDE DEF qty, L, s, lots, snap
    <2>7. SumFunctionOnSet(qty, L) \in Int /\ SumFunctionOnSet(qty, L) > 0
        BY <2>2, <2>3, <2>6, PositiveSum
    <2>8. snap.positions[s].qty # 0
        BY <2>4, <2>5, <2>7 DEF SumFunction
    <2> QED
        BY <2>1, <2>8 DEF Held, s
<1>14. \A i \in DOMAIN lots :
           lots[i].unrealized =
               IF lots[i].symbol \in DOMAIN marks
               THEN {MarketValue(marks[lots[i].symbol].price, lots[i].qty) - lots[i].basis} ELSE {}
    BY <1>4, <1>5
<1> HIDE DEF lots, snap
<1>15. Held(snap) \subseteq DOMAIN snap.positions
    BY DEF Held
<1>16. \A i \in DOMAIN snap.lots : snap.lots[i].qty \in Int /\ snap.lots[i].basis \in Int
    BY <1>3, <1>12
<1> QED
    BY <1>3, <1>6, <1>9, <1>10, <1>11, <1>13, <1>14, <1>15, <1>16 DEF PricedOK, snap

\* What is estimated on it.
LEMMA EstimatesAreBounded ==
    ASSUME NEW st, NEW n, FoldOK(st, n), NEW marks, PricedOK(Snapshot(st, marks), marks),
           NEW ctx, ContextTyped(ctx)
    PROVE  EstimatesOK(Snapshot(st, marks), Estimates(Snapshot(st, marks), ctx))
<1> DEFINE snap == Snapshot(st, marks)
           counted(term) ==
               {k \in DOMAIN snap.gains :
                   /\ YearOf(snap.gains[k].saleDate) = ctx.year
                   /\ ClassifyTerm(snap.gains[k].acquired, snap.gains[k].saleDate) = term}
           ofYear(term) ==
               SumFunction([k \in counted(term) |-> snap.gains[k].proceeds - snap.gains[k].basis])
           short == ofYear("ShortTerm")
           long == ofYear("LongTerm")
<1>1. snap.gains = st.gains
    BY DEF Snapshot
<1>2. IsFiniteSet(DOMAIN st.gains) /\ st.gains \in Seq(GainRecords)
    <2> DEFINE c == Len(st.gains)
    <2>1. c \in Int /\ DOMAIN st.gains = 1..c /\ st.gains \in Seq(GainRecords)
        BY FoldTypes
    <2> HIDE DEF c
    <2>2. IsFiniteSet(1..c)
        BY <2>1, FS_Interval
    <2> QED
        BY <2>1, <2>2
<1>3. \A k \in DOMAIN st.gains : st.gains[k].proceeds - st.gains[k].basis \in Int
    <2> SUFFICES ASSUME NEW k \in DOMAIN st.gains PROVE st.gains[k].proceeds - st.gains[k].basis \in Int
        OBVIOUS
    <2>1. st.gains[k] \in GainRecords
        BY <1>2, ElementOfSeq
    <2>2. st.gains[k].proceeds \in Int /\ st.gains[k].basis \in Int
        BY <2>1 DEF GainRecords
    <2> QED
        BY <2>2
<1>4. ASSUME NEW C, C \subseteq DOMAIN st.gains
      PROVE  SumFunction([k \in C |-> snap.gains[k].proceeds - snap.gains[k].basis]) \in Int
    <2> DEFINE f == [k \in C |-> snap.gains[k].proceeds - snap.gains[k].basis]
    <2>1. DOMAIN f = C /\ \A k \in C : f[k] \in Int
        BY <1>1, <1>3, <1>4
    <2>2. IsFiniteSet(C)
        BY <1>2, <1>4, FS_Subset
    <2> HIDE DEF f
    <2>3. SumFunctionOnSet(f, C) \in Int
        BY <2>1, <2>2, SumIsInt
    <2>4. SumFunction(f) \in Int
        BY <2>1, <2>3 DEF SumFunction
    <2> QED
        BY <2>4 DEF f
<1>5. short \in Int /\ long \in Int
    <2>1. counted("ShortTerm") \subseteq DOMAIN st.gains /\ counted("LongTerm") \subseteq DOMAIN st.gains
        BY <1>1
    <2> HIDE DEF counted, snap
    <2> QED
        BY <1>4, <2>1
<1> DEFINE estimate(s) ==
               UnrealizedEstimate([k \in LotsOf(snap.lots, s) |-> snap.lots[k]], Today, ctx.residency, short, long, ctx)
<1>6. \A s \in Held(snap) : Estimates(snap, ctx)[s] = estimate(s)
    BY DEF Estimates, UnrealizedEstimates
<1> HIDE DEF short, long
<1>7. ASSUME NEW s \in Held(snap)
      PROVE  EstimateOK(estimate(s).tax,
                        SumFunction([k \in LotsOf(snap.lots, s) |-> ValueOf(snap.lots[k].unrealized)]))
    <2> DEFINE L == LotsOf(snap.lots, s)
               lots == [k \in L |-> snap.lots[k]]
               gain == [k \in DOMAIN lots |-> ValueOf(lots[k].unrealized)]
               same == [k \in L |-> ValueOf(snap.lots[k].unrealized)]
    <2>1. L \in SUBSET DOMAIN snap.lots
        BY DEF LotsOf
    <2>2. DOMAIN lots = L /\ \A k \in L : lots[k] = snap.lots[k]
        OBVIOUS
    <2>3. IsFiniteSet(L)
        <3>1. IsFiniteSet(DOMAIN snap.lots)
            BY DEF PricedOK
        <3> HIDE DEF L, snap
        <3> QED
            BY <2>1, <3>1, FS_Subset
    <2>4. \A k \in L : Optional(snap.lots[k].unrealized)
        <3> SUFFICES ASSUME NEW k \in L PROVE Optional(snap.lots[k].unrealized)
            OBVIOUS
        <3> DEFINE x == snap.lots[k].symbol
                   v == MarketValue(marks[x].price, snap.lots[k].qty)
                   b == snap.lots[k].basis
                   u == snap.lots[k].unrealized
        <3>1. /\ snap.lots[k].qty \in Int /\ b \in Int
              /\ u = IF x \in DOMAIN marks THEN {v - b} ELSE {}
              /\ x \in DOMAIN marks => marks[x].price \in Int
            BY <2>1 DEF PricedOK
        <3>2. x \in DOMAIN marks => v \in Int
            BY <3>1, ValuesAreInt
        <3> HIDE DEF x, v, b, u
        <3>3. Optional(u)
            <4>1. CASE x \in DOMAIN marks
                <5>1. u = {v - b} /\ v - b \in Int
                    BY <3>1, <3>2, <4>1
                <5> QED
                    BY <5>1 DEF Optional
            <4>2. CASE x \notin DOMAIN marks
                BY <3>1, <4>2 DEF Optional
            <4> QED
                BY <4>1, <4>2
        <3> QED
            BY <3>3 DEF u
    <2>5. gain = same
        BY <2>2
    <2>6. IsFiniteSet(DOMAIN lots) /\ \A k \in DOMAIN lots : Optional(lots[k].unrealized)
        BY <2>2, <2>3, <2>4
    <2> HIDE DEF lots, L, snap
    <2>7. EstimateOK(UnrealizedEstimate(lots, Today, ctx.residency, short, long, ctx).tax, SumFunction(gain))
        BY <1>5, <2>6, EstimateIsBounded
    <2> HIDE DEF gain
    <2>8. EstimateOK(UnrealizedEstimate(lots, Today, ctx.residency, short, long, ctx).tax, SumFunction(same))
        BY <2>5, <2>7
    <2> QED
        BY <2>8 DEF lots, L
<1> HIDE DEF estimate, snap
<1>8. \A s \in Held(snap) :
          EstimateOK(Estimates(snap, ctx)[s].tax,
                     SumFunction([k \in LotsOf(snap.lots, s) |-> ValueOf(snap.lots[k].unrealized)]))
    BY <1>6, <1>7
<1> QED
    BY <1>8 DEF EstimatesOK, snap

(***************************************************************************)
(* What a run has loaded, and the quotes it has read                       *)
(***************************************************************************)
\* The numeric readings show a number, of a day.
Quoted(latest) ==
    \A s \in DOMAIN latest :
        latest[s].kind = "Numeric" => latest[s].quoted \in Int /\ latest[s].date \in Int

\* The prices and the days of marks, which are finitely many, are numbers.
PricesOK(marks) ==
    /\ IsFiniteSet(DOMAIN marks)
    /\ \A s \in DOMAIN marks : marks[s].price \in Int /\ marks[s].date \in Int

\* A run has a fold of a log, a context, and quotes of symbols that were opened.
PricedRun(r) ==
    /\ \E n : FoldOK(r.st, n)
    /\ ContextTyped(r.ctx)
    /\ r.symbols \subseteq OpenedSymbols /\ IsFiniteSet(r.symbols)
    /\ Quoted(r.latest)
    /\ PricesOK(r.marks)

PricedInv == \A p \in Procs : run[p].pc # "idle" => PricedRun(run[p])

\* A step by which p goes on with what it has loaded and read.
Carries(p) ==
    /\ run[p].pc # "idle"
    /\ run'[p].st = run[p].st /\ run'[p].ctx = run[p].ctx /\ run'[p].symbols = run[p].symbols
    /\ run'[p].latest = run[p].latest /\ run'[p].marks = run[p].marks

\* The fields of a run that they are.
LEMMA CarriedFields == {"st", "ctx", "symbols", "latest", "marks"} \subseteq DOMAIN Begun
BY DEF Begun

\* A sequence of none has no domain.
LEMMA NothingIsQuoted == Quoted(<<>>) /\ PricesOK(<<>>)
<1>1. DOMAIN <<>> = {}
    OBVIOUS
<1>2. IsFiniteSet(DOMAIN <<>>)
    BY <1>1, FS_EmptySet
<1> QED
    BY <1>1, <1>2 DEF Quoted, PricesOK

\* A publish, too, carries on.
LEMMA PublishCarries ==
    ASSUME RunOK, NEW p \in Procs,
           LockForPublish(p) \/ SkipPublish(p) \/ WriteTab(p) \/ FailTab(p)
    PROVE  Carries(p)
<1>1. run[p].pc # "idle" /\ DOMAIN run = Procs /\ DOMAIN run[p] = DOMAIN Begun
    BY DEF LockForPublish, SkipPublish, WriteTab, FailTab, RunOK
<1>2. CASE LockForPublish(p)
    BY <1>1, <1>2, CarriedFields DEF LockForPublish, Carries
<1>3. CASE SkipPublish(p)
    BY <1>1, <1>3, CarriedFields DEF SkipPublish, Carries
<1>4. ASSUME NEW ok, AfterTab(p, ok) PROVE Carries(p)
    <2>1. CASE run[p].tab < Len(TabOrder)
        BY <1>1, <1>4, <2>1, CarriedFields DEF AfterTab, Carries
    <2>2. CASE ~(run[p].tab < Len(TabOrder))
        BY <1>1, <1>4, <2>2, CarriedFields DEF AfterTab, Carries
    <2> QED
        BY <2>1, <2>2
<1>5. CASE WriteTab(p)
    BY <1>4, <1>5 DEF WriteTab
<1>6. CASE FailTab(p)
    BY <1>4, <1>6 DEF FailTab
<1> QED
    BY <1>2, <1>3, <1>5, <1>6

\* So does a capture, unless it is its end.
LEMMA CaptureCarries ==
    ASSUME RunOK, NEW p \in Procs,
           \/ ReadStored(p) \/ FailStored(p) \/ LockForCapture(p) \/ CaptureHeld(p)
           \/ WritePoint(p) \/ FailWrite(p) \/ VerifyPoint(p) \/ FailVerify(p)
    PROVE  run'[p].pc = "idle" \/ Carries(p)
<1>1. run[p].pc # "idle" /\ DOMAIN run = Procs /\ DOMAIN run[p] = DOMAIN Begun
    BY DEF ReadStored, FailStored, LockForCapture, CaptureHeld, WritePoint, FailWrite, VerifyPoint,
           FailVerify, RunOK
<1>2. ASSUME CaptureFailed(p) PROVE run'[p].pc = "idle" \/ Carries(p)
    <2>1. CASE run[p].tries + 1 < Attempts
        BY <1>1, <1>2, <2>1, CarriedFields DEF CaptureFailed, Carries
    <2>2. CASE ~(run[p].tries + 1 < Attempts)
        BY <1>2, <2>2, FinishStep DEF CaptureFailed
    <2> QED
        BY <2>1, <2>2
<1>3. CASE ReadStored(p)
    <2>1. CASE run' = [run EXCEPT ![p].pc = "capture", ![p].stored = history]
        BY <1>1, <2>1, CarriedFields DEF Carries
    <2>2. CASE \E report : Finish(p, report)
        BY <2>2, FinishStep
    <2> QED
        BY <1>3, <2>1, <2>2 DEF ReadStored
<1>4. CASE FailStored(p)
    BY <1>4, FinishStep DEF FailStored
<1>5. CASE LockForCapture(p)
    BY <1>1, <1>5, CarriedFields DEF LockForCapture, Carries
<1>6. CASE CaptureHeld(p)
    BY <1>2, <1>6 DEF CaptureHeld
<1>7. CASE WritePoint(p)
    BY <1>1, <1>7, CarriedFields DEF WritePoint, Carries
<1>8. CASE FailWrite(p)
    BY <1>2, <1>8 DEF FailWrite
<1>9. CASE VerifyPoint(p)
    <2>1. CASE \E report : Finish(p, report)
        BY <2>1, FinishStep
    <2>2. CASE CaptureFailed(p)
        BY <1>2, <2>2
    <2> QED
        BY <1>9, <2>1, <2>2 DEF VerifyPoint
<1>10. CASE FailVerify(p)
    BY <1>2, <1>10 DEF FailVerify
<1> QED
    BY <1>3, <1>4, <1>5, <1>6, <1>7, <1>8, <1>9, <1>10

\* What a cycle loads.
LEMMA LoadedIsPriced ==
    ASSUME BookTypeOK, NEW c, CellOK(c), NEW r \in LoadOf(c)
    PROVE  PricedRun(r)
<1> DEFINE b == ReadBook(c)
           snap == Snapshot(b.st, <<>>)
           A == ComputeAccruals(b.gains, events, b.ctx)
           made(annual, estimates) ==
               [Begun EXCEPT !.st = b.st, !.ctx = b.ctx, !.cell = c, !.brackets = Brackets(c),
                             !.annual = annual, !.symbols = Held(snap),
                             !.view = Render(snap, estimates, A, annual)]
           annuals == {AnnualRows(events, b.ctx, A)}
           estimated == {UnrealizedEstimates(snap, b.ctx, Today)}
<1>1. r \in Loaded(c, b, A, snap)
    <2>1. PICK x \in {ReadBook(c)} :
              r \in UNION {Loaded(c, x, accruals, y) : accruals \in {ComputeAccruals(x.gains, events, x.ctx)},
                                                     y \in {Snapshot(x.st, <<>>)}}
        BY DEF LoadOf
    <2>2. x = b
        OBVIOUS
    <2> HIDE DEF b
    <2>3. r \in UNION {Loaded(c, b, accruals, y) : accruals \in {A}, y \in {snap}}
        BY <2>1, <2>2
    <2> HIDE DEF A, snap
    <2> QED
        BY <2>3
<1>2. r \in {made(annual, estimates) : annual \in annuals, estimates \in estimated}
    BY <1>1 DEF Loaded
<1>3. \A annual, estimates :
          /\ made(annual, estimates).st = b.st /\ made(annual, estimates).ctx = b.ctx
          /\ made(annual, estimates).symbols = Held(snap)
          /\ made(annual, estimates).latest = <<>> /\ made(annual, estimates).marks = <<>>
    BY DEF Begun
<1>4. b.st = Replay(log) /\ b.ctx = ContextOf(c) /\ log \in Seq(Payloads)
    BY DEF ReadBook, BookTypeOK
<1>5. FoldOK(b.st, Len(log))
    BY <1>4, EveryStepOK DEF Replay
<1>6. ContextTyped(b.ctx)
    BY <1>4, ContextFacts DEF CellOK
<1>7. Held(snap) \subseteq OpenedSymbols /\ IsFiniteSet(Held(snap))
    <2>1. DOMAIN snap.positions \subseteq OpenedSymbols
        BY <1>5, SymbolsAreOpened
    <2>2. IsFiniteSet(DOMAIN snap.positions)
        <3> DEFINE none == <<>>
        <3>1. \A s \in DOMAIN none : none[s].price \in Int
            OBVIOUS
        <3> HIDE DEF none
        <3>2. PricedOK(Snapshot(b.st, none), none)
            BY <1>5, <3>1, SnapshotIsPriced
        <3> QED
            BY <3>2 DEF PricedOK, none
    <2>3. Held(snap) \in SUBSET DOMAIN snap.positions
        BY DEF Held
    <2> QED
        BY <2>1, <2>2, <2>3, FS_Subset
<1> HIDE DEF made, annuals, estimated, b, snap, A
<1>8. PICK annual \in annuals, estimates \in estimated : r = made(annual, estimates)
    BY <1>2
<1>9. r.st = b.st /\ r.ctx = b.ctx /\ r.symbols = Held(snap) /\ r.latest = <<>> /\ r.marks = <<>>
    BY <1>3, <1>8
<1> QED
    BY <1>5, <1>6, <1>7, <1>9, NothingIsQuoted DEF PricedRun

\* The start of a cycle.
LEMMA StartLoads ==
    ASSUME RunOK, TabsInv, NEW p \in Procs, Start(p)
    PROVE  PricedRun(run'[p])
<1> DEFINE c == IF "cell" \in DOMAIN run[p] THEN run[p].cell ELSE cell
<1>1. PICK r \in LoadOf(c) : run' = [run EXCEPT ![p] = [r EXCEPT !.at = started]]
    BY DEF Start
<1>2. CellOK(c) /\ BookTypeOK
    BY DEF TabsInv, CellOK, BookTypeOK
<1> HIDE DEF c
<1>3. PricedRun(r)
    BY <1>2, LoadedIsPriced
<1>4. DOMAIN r = DOMAIN Begun
    BY LoadedHasBegun
<1>5. run'[p] = [r EXCEPT !.at = started]
    BY <1>1 DEF RunOK
<1>6. /\ run'[p].st = r.st /\ run'[p].ctx = r.ctx /\ run'[p].symbols = r.symbols
      /\ run'[p].latest = r.latest /\ run'[p].marks = r.marks
    BY <1>4, <1>5, CarriedFields
<1> QED
    BY <1>3, <1>6 DEF PricedRun

(***************************************************************************)
(* A pass over the prices                                                  *)
(***************************************************************************)
\* What a pass reads of symbols that were opened.
LEMMA PassIsQuoted ==
    ASSUME CycleInv, NEW S, S \subseteq OpenedSymbols
    PROVE  Quoted([s \in S \cap DOMAIN Pass |-> Pass[s]])
<1>1. board \in DOMAIN Boards
    BY DEF CycleInv
<1> SUFFICES ASSUME NEW s \in S \cap DOMAIN Pass, Pass[s].kind = "Numeric"
             PROVE  Pass[s].quoted \in Int /\ Pass[s].date \in Int
    BY DEF Quoted
<1>2. Pass[s] = Boards[board][s]
    BY DEF Pass
<1>3. PICK e \in Payloads : e.kind \in {"Buy", "Vest"} /\ e.symbol = s
    BY DEF OpenedSymbols
<1> QED
    BY <1>1, <1>2, <1>3, BoardsAssumption

\* Readings put over earlier ones.
LEMMA WithQuotes ==
    ASSUME NEW f, NEW g, Quoted(f), Quoted(g)
    PROVE  Quoted(With(f, g))
BY DEF Quoted, With

\* A price in cents is a number.
LEMMA PricesAreInt == ASSUME NEW quoted \in Int, NEW c \in PriceToCents(quoted) PROVE c \in Int
<1>1. QuoteScale \in Int /\ QuoteScale > 0
    BY QuoteScaleAssumption
<1>2. RoundHalfEven(quoted, QuoteScale) \in Int
    BY <1>1, RoundsToNearest
<1> QED
    BY <1>2 DEF PriceToCents

\* The marks of the last pass: there are none of an earlier cycle.
LEMMA MarksArePriced ==
    ASSUME NEW symbols, IsFiniteSet(symbols), NEW latest, Quoted(latest)
    PROVE  PricesOK(ProducedMarks(symbols, latest, <<>>))
<1> DEFINE none == <<>>
           mark == [s \in symbols |-> MarkOf(s, latest, none)]
           marks == ProducedMarks(symbols, latest, none)
<1>1. DOMAIN none = {}
    OBVIOUS
<1> HIDE DEF none
<1>2. /\ DOMAIN marks = {t \in symbols : mark[t] # {}}
      /\ \A s \in DOMAIN marks : marks[s] = CHOOSE m \in mark[s] : TRUE
    BY DEF ProducedMarks
<1>3. ASSUME NEW s \in symbols, NEW m \in MarkOf(s, latest, none)
      PROVE  m.price \in Int /\ m.date \in Int
    <2>1. s \in DOMAIN latest /\ latest[s].kind = "Numeric"
        BY <1>1 DEF MarkOf
    <2>2. PICK c \in PriceToCents(latest[s].quoted) : m = [price |-> c, date |-> latest[s].date]
        BY <2>1 DEF MarkOf
    <2>3. c \in Int /\ latest[s].date \in Int
        BY <2>1, <2>2, PricesAreInt DEF Quoted
    <2> QED
        BY <2>2, <2>3
<1>4. ASSUME NEW s \in DOMAIN marks PROVE marks[s].price \in Int /\ marks[s].date \in Int
    <2>1. s \in symbols /\ mark[s] # {} /\ marks[s] = CHOOSE m \in mark[s] : TRUE
        BY <1>2
    <2>2. mark[s] = MarkOf(s, latest, none)
        BY <2>1
    <2> HIDE DEF mark, marks
    <2>3. marks[s] \in MarkOf(s, latest, none)
        BY <2>1, <2>2
    <2> QED
        BY <1>3, <2>1, <2>3
<1>5. IsFiniteSet(DOMAIN marks)
    <2>1. DOMAIN marks \in SUBSET symbols
        BY <1>2
    <2> QED
        BY <2>1, FS_Subset
<1> QED
    BY <1>4, <1>5 DEF PricesOK, none

\* A pass.
LEMMA PollPrices ==
    ASSUME CycleInv, NEW p \in Procs, PricedRun(run[p]), Poll(p)
    PROVE  PricedRun(run'[p])
<1> DEFINE latest == With([s \in run[p].symbols \cap DOMAIN Pass |-> Pass[s]], run[p].latest)
           marks == ProducedMarks(run[p].symbols, latest, <<>>)
<1>1. run' = IF LastPoll(p, latest)
             THEN [run EXCEPT ![p].pc = "priced", ![p].ok = TRUE, ![p].polls = 0,
                              ![p].latest = <<>>, ![p].marks = marks]
             ELSE [run EXCEPT ![p].latest = latest, ![p].polls = Lesser(@ + 1, MaxPolls)]
    BY DEF Poll
<1>2. run[p].pc = "poll" /\ DOMAIN run = Procs /\ DOMAIN run[p] = DOMAIN Begun
    BY DEF Poll, CycleInv, RunOK
<1>3. Quoted(latest)
    <2>1. run[p].symbols \subseteq OpenedSymbols /\ Quoted(run[p].latest)
        BY DEF PricedRun
    <2> QED
        BY <2>1, PassIsQuoted, WithQuotes
<1>4. PricesOK(marks)
    <2>1. IsFiniteSet(run[p].symbols)
        BY DEF PricedRun
    <2> HIDE DEF latest
    <2> QED
        BY <1>3, <2>1, MarksArePriced
<1> HIDE DEF latest, marks
<1>5. CASE LastPoll(p, latest)
    <2>1. /\ run'[p].st = run[p].st /\ run'[p].ctx = run[p].ctx /\ run'[p].symbols = run[p].symbols
          /\ run'[p].latest = <<>> /\ run'[p].marks = marks
        BY <1>1, <1>2, <1>5, CarriedFields
    <2> QED
        BY <1>4, <2>1, NothingIsQuoted DEF PricedRun
<1>6. CASE ~LastPoll(p, latest)
    <2>1. /\ run'[p].st = run[p].st /\ run'[p].ctx = run[p].ctx /\ run'[p].symbols = run[p].symbols
          /\ run'[p].latest = latest /\ run'[p].marks = run[p].marks
        BY <1>1, <1>2, <1>6, CarriedFields
    <2> QED
        BY <1>3, <2>1 DEF PricedRun
<1> QED
    BY <1>5, <1>6

(***************************************************************************)
(* The valuation of every run                                              *)
(***************************************************************************)
\* Every step of a process.
LEMMA ProcessPrices ==
    ASSUME CycleInv, TabsInv, PricedInv, NEW p \in Procs, Start(p) \/ Advance(p) \/ Fault(p)
    PROVE  run'[p].pc = "idle" \/ PricedRun(run'[p])
<1>1. RunOK
    BY DEF CycleInv
<1>2. CASE Start(p)
    BY <1>1, <1>2, StartLoads
<1>3. CASE Poll(p)
    <2>1. PricedRun(run[p])
        BY <1>3 DEF Poll, PricedInv
    <2> QED
        BY <1>3, <2>1, PollPrices
<1>4. CASE FailPoll(p)
    BY <1>1, <1>4, FinishStep DEF FailPoll
<1>5. CASE ShowView(p)
    BY <1>1, <1>5, FinishStep DEF ShowView
<1>6. CASE Crash(p)
    BY <1>1, <1>6 DEF Crash, RunOK, Idle
<1>7. ASSUME Carries(p) PROVE PricedRun(run'[p])
    BY <1>7 DEF Carries, PricedInv, PricedRun
<1>8. CASE LockForPublish(p) \/ SkipPublish(p) \/ WriteTab(p) \/ FailTab(p)
    BY <1>1, <1>7, <1>8, PublishCarries
<1>9. CASE \/ ReadStored(p) \/ FailStored(p) \/ LockForCapture(p) \/ CaptureHeld(p)
           \/ WritePoint(p) \/ FailWrite(p) \/ VerifyPoint(p) \/ FailVerify(p)
    BY <1>1, <1>7, <1>9, CaptureCarries
<1> QED
    BY <1>2, <1>3, <1>4, <1>5, <1>6, <1>8, <1>9 DEF Advance, Fault

\* Every step.
LEMMA PricedStep ==
    ASSUME CycleInv, TabsInv, PricedInv, [CycleNext]_vars
    PROVE  PricedInv'
<1>1. CASE BookStep \/ Tick \/ UNCHANGED vars
    BY <1>1 DEF BookStep, Tick, vars, cycle, PricedInv
<1>2. ASSUME NEW p \in Procs, Start(p) \/ Advance(p) \/ Fault(p) PROVE PricedInv'
    <2>1. \A q \in Procs : q # p => run'[q] = run[q]
        BY <1>2, ProcessSteps DEF CycleInv, StepOf
    <2>2. run'[p].pc = "idle" \/ PricedRun(run'[p])
        BY <1>2, ProcessPrices
    <2> QED
        BY <2>1, <2>2 DEF PricedInv
<1> QED
    BY <1>1, <1>2 DEF CycleNext

\* What a priced run shows adds up.
LEMMA PricedBalances == PricedInv => ValuationBalances
<1> SUFFICES ASSUME PricedInv PROVE ValuationBalances
    OBVIOUS
<1>1. ASSUME NEW p \in Procs, run[p].pc = "priced"
      PROVE  LET snap == Snapshot(run[p].st, run[p].marks)
                 estimates == Estimates(snap, run[p].ctx)
                 values == SymbolValues(snap, run[p].marks, estimates)
                 nets == SymbolNet(snap, run[p].marks, estimates)
             IN  /\ TaxIsBorne(snap, estimates, values, nets)
                 /\ PlatformsAgree(snap, values, nets, PlatformRows(snap, run[p].marks, estimates))
                 /\ SharesAreWhole(values)
    <2> DEFINE st == run[p].st
               marks == run[p].marks
               ctx == run[p].ctx
               snap == Snapshot(st, marks)
               estimates == Estimates(snap, ctx)
    <2>1. PricedRun(run[p])
        BY <1>1 DEF PricedInv
    <2>2. PICK n : FoldOK(st, n)
        BY <2>1 DEF PricedRun
    <2>3. ContextTyped(ctx) /\ \A s \in DOMAIN marks : marks[s].price \in Int
        BY <2>1 DEF PricedRun, PricesOK
    <2> HIDE DEF st, marks, ctx
    <2>4. PricedOK(snap, marks)
        BY <2>2, <2>3, SnapshotIsPriced
    <2>5. EstimatesOK(snap, estimates)
        BY <2>2, <2>3, <2>4, EstimatesAreBounded
    <2> HIDE DEF snap, estimates
    <2>6. TaxIsBorne(snap, estimates, SymbolValues(snap, marks, estimates), SymbolNet(snap, marks, estimates))
        BY <2>4, <2>5, TaxesAreBorne
    <2>7. PlatformsAgree(snap, SymbolValues(snap, marks, estimates), SymbolNet(snap, marks, estimates),
                         PlatformRows(snap, marks, estimates))
        BY <2>4, <2>5, PlatformsAndSymbols
    <2>8. SharesAreWhole(SymbolValues(snap, marks, estimates))
        BY <2>4, <2>5, SharesMakeTheWhole
    <2> QED
        BY <2>6, <2>7, <2>8 DEF snap, estimates, st, marks, ctx
<1> QED
    BY <1>1 DEF ValuationBalances

\* Whatever the shares are counted in, what a run shows adds up: the tax is borne by the
\* lots to the cent, the shares of the whole to the last part, and the platforms and the
\* symbols agree but for the roundings.
THEOREM ValuationsBalance == CycleSpec => []ValuationBalances
<1>1. CycleSpec => []TabsInv
    BY CycleInvariant, TabsInitInv, TabsStep, PTL DEF CycleSpec
<1>2. CycleInit => PricedInv
    BY DEF CycleInit, PricedInv, Idle
<1>3. CycleInv /\ TabsInv /\ PricedInv /\ [CycleNext]_vars => PricedInv'
    BY PricedStep
<1> QED
    BY <1>1, <1>2, <1>3, CycleInvariant, PricedBalances, PTL DEF CycleSpec

(***************************************************************************)
(* The change that a report states                                         *)
(***************************************************************************)
\* What is known of a point on record: it is of a fold and of marks, and its trading
\* day is a number.
PointOK(q) == (\E n : FoldOK(q.st, n)) /\ PricesOK(q.marks) /\ q.key \in Int

\* Points of distinct trading days.
PointsOK(rows) == Distinct(rows) /\ \A i \in DOMAIN rows : PointOK(rows[i])

\* A report has such points, and its own is of what it reports.
ReportOK(rep) ==
    /\ PointsOK(rep.stored)
    /\ \A q \in rep.point : PointOK(q) /\ q.st = rep.st /\ q.marks = rep.marks

\* What is held of a symbol is a number.
LEMMA HeldIsInt ==
    ASSUME NEW snap, NEW marks, PricedOK(snap, marks), NEW s \in Held(snap)
    PROVE  snap.positions[s].qty \in Int
<1> DEFINE K == LotsOf(snap.lots, s)
           qty == [k \in K |-> snap.lots[k].qty]
<1>1. snap.positions[s].qty = SumFunction(qty)
    BY DEF PricedOK
<1>2. IsFiniteSet(K)
    <2>1. K \in SUBSET DOMAIN snap.lots /\ IsFiniteSet(DOMAIN snap.lots)
        BY DEF LotsOf, PricedOK
    <2> QED
        BY <2>1, FS_Subset
<1>3. DOMAIN qty = K /\ \A k \in K : qty[k] \in Int
    BY DEF LotsOf, PricedOK
<1> HIDE DEF qty, K
<1>4. SumFunctionOnSet(qty, K) \in Int
    BY <1>2, <1>3, SumIsInt
<1> QED
    BY <1>1, <1>3, <1>4 DEF SumFunction

\* Finitely many numbers have a greatest.
LEMMA GreatestNumber ==
    ASSUME NEW S, IsFiniteSet(S), S \subseteq Int, S # {}
    PROVE  Max(S) \in S /\ \A i \in S : i <= Max(S)
<1> DEFINE P == {T \in SUBSET S : T = {} \/ \E m \in T : \A i \in T : i <= m}
<1>1. {} \in P
    OBVIOUS
<1>2. ASSUME NEW T \in SUBSET S, T # {}, \A x \in T : T \ {x} \in P PROVE T \in P
    <2>1. PICK x \in T : TRUE
        BY <1>2
    <2>2. T \ {x} = {} \/ \E m \in T \ {x} : \A i \in T \ {x} : i <= m
        BY <1>2, <2>1
    <2>3. \A i \in T : i \in Int
        OBVIOUS
    <2>4. CASE T \ {x} = {}
        BY <2>1, <2>3, <2>4
    <2>5. CASE \E m \in T \ {x} : \A i \in T \ {x} : i <= m
        <3>1. PICK m \in T \ {x} : \A i \in T \ {x} : i <= m
            BY <2>5
        <3>2. m \in T /\ m \in Int /\ x \in Int /\ \A i \in T : i = x \/ i <= m
            BY <2>1, <2>3, <3>1
        <3>3. CASE m <= x
            BY <2>1, <2>3, <3>2, <3>3
        <3>4. CASE ~(m <= x)
            BY <2>1, <2>3, <3>2, <3>4
        <3> QED
            BY <3>3, <3>4
    <2> QED
        BY <2>2, <2>4, <2>5
<1> HIDE DEF P
<1>3. S \in P
    BY <1>1, <1>2, SetDescent
<1>4. \E m \in S : \A i \in S : m >= i
    <2>1. PICK m \in S : \A i \in S : i <= m
        BY <1>3 DEF P
    <2>2. \A i \in S : i \in Int
        OBVIOUS
    <2> QED
        BY <2>1, <2>2
<1>5. Max(S) \in S /\ \A i \in S : Max(S) >= i
    BY <1>4 DEF Max
<1>6. \A i \in S : i \in Int
    OBVIOUS
<1> QED
    BY <1>5, <1>6

\* The trading day of marks is a number.
LEMMA TradingDayIsInt ==
    ASSUME NEW marks, PricesOK(marks), NEW key \in TradingDayKey(marks)
    PROVE  key \in Int
<1> DEFINE date == [s \in DOMAIN marks |-> marks[s].date]
           dates == {date[s] : s \in DOMAIN marks}
<1>1. DOMAIN marks # {} /\ key = Max({marks[s].date : s \in DOMAIN marks})
    BY DEF TradingDayKey
<1>2. {marks[s].date : s \in DOMAIN marks} = dates
    OBVIOUS
<1>3. dates # {} /\ dates \subseteq Int
    BY <1>1 DEF PricesOK
<1>4. IsFiniteSet(DOMAIN marks)
    BY DEF PricesOK
<1> HIDE DEF date
<1>5. IsFiniteSet(dates)
    BY <1>4, FiniteImage
<1> HIDE DEF dates
<1>6. Max(dates) \in dates
    BY <1>3, <1>5, GreatestNumber
<1> QED
    BY <1>1, <1>2, <1>3, <1>6

\* What is held does not depend on the marks.
LEMMA HeldIgnoresMarks ==
    ASSUME NEW st, NEW before, NEW after
    PROVE  Held(Snapshot(st, before)) = Held(Snapshot(st, after))
<1> DEFINE K == {k \in DOMAIN st.lots : ~st.lots[k].closed /\ st.lots[k].qty # 0}
           sum(lots, s) == SumFunction([k \in LotsOf(lots, s) |-> lots[k].qty])
<1>1. \A marks : /\ DOMAIN OpenLots(st, marks) = DOMAIN InOrder(K)
                 /\ \A i \in DOMAIN InOrder(K) :
                       /\ OpenLots(st, marks)[i].symbol = st.lots[InOrder(K)[i]].symbol
                       /\ OpenLots(st, marks)[i].qty = st.lots[InOrder(K)[i]].qty
    BY DEF OpenLots
<1>2. \A marks : /\ DOMAIN Snapshot(st, marks).positions = {st.lots[k].symbol : k \in DOMAIN st.lots}
                 /\ \A s \in {st.lots[k].symbol : k \in DOMAIN st.lots} :
                       Snapshot(st, marks).positions[s].qty = sum(OpenLots(st, marks), s)
    BY DEF Snapshot, Positions
<1> HIDE DEF K
<1>3. ASSUME NEW s
      PROVE  sum(OpenLots(st, before), s) = sum(OpenLots(st, after), s)
    <2> DEFINE one == OpenLots(st, before)
               other == OpenLots(st, after)
    <2>1. DOMAIN one = DOMAIN other /\ \A i \in DOMAIN one : one[i].symbol = other[i].symbol /\ one[i].qty = other[i].qty
        BY <1>1
    <2> HIDE DEF one, other
    <2>2. LotsOf(one, s) = LotsOf(other, s)
        BY <2>1 DEF LotsOf
    <2>3. \A k \in LotsOf(one, s) : one[k].qty = other[k].qty
        BY <2>1 DEF LotsOf
    <2>4. [k \in LotsOf(one, s) |-> one[k].qty] = [k \in LotsOf(other, s) |-> other[k].qty]
        BY <2>2, <2>3
    <2> QED
        BY <2>4 DEF one, other
<1> HIDE DEF sum
<1>4. \A s \in {st.lots[k].symbol : k \in DOMAIN st.lots} :
          Snapshot(st, before).positions[s].qty = Snapshot(st, after).positions[s].qty
    BY <1>2, <1>3
<1>5. DOMAIN Snapshot(st, before).positions = {st.lots[k].symbol : k \in DOMAIN st.lots}
      /\ DOMAIN Snapshot(st, after).positions = {st.lots[k].symbol : k \in DOMAIN st.lots}
    BY <1>2
<1> QED
    BY <1>4, <1>5 DEF Held

\* What the numbers of a point are.
LEMMA ValuedPointIs ==
    ASSUME NEW q
    PROVE  ValuedPoint(q) = SeriesPoint(Snapshot(q.st, q.marks), q.marks,
                                        Estimates(Snapshot(q.st, q.marks), q.ctx), q.key, q.at)
<1> DEFINE made(snap, estimates) == SeriesPoint(snap, q.marks, estimates, q.key, q.at)
           theSnap == Snapshot(q.st, q.marks)
           theEstimates == Estimates(theSnap, q.ctx)
           valued == UNION {{made(snap, estimates) : estimates \in {Estimates(snap, q.ctx)}}
                               : snap \in {theSnap}}
<1>1. valued = {made(theSnap, theEstimates)}
    <2> HIDE DEF made, theSnap
    <2> QED
        BY DEF theEstimates
<1>2. ValuedPoint(q) = CHOOSE point \in valued : TRUE
    BY DEF ValuedPoint
<1> HIDE DEF made, theSnap, theEstimates, valued
<1>3. ValuedPoint(q) = made(theSnap, theEstimates)
    BY <1>1, <1>2
<1> QED
    BY <1>3 DEF made, theSnap, theEstimates

\* A point has a number for each symbol that is held and priced, and one that is
\* complete for each that is held.
LEMMA PointValues ==
    ASSUME NEW q, PointOK(q)
    PROVE  /\ ValuedPoint(q).key = q.key
           /\ ~ValuedPoint(q).incomplete => DOMAIN ValuedPoint(q).values = Held(Snapshot(q.st, q.marks))
           /\ IsFiniteSet(DOMAIN ValuedPoint(q).values)
           /\ \A s \in DOMAIN ValuedPoint(q).values : ValuedPoint(q).values[s] \in Int
           /\ ValuedPoint(q).total = SumFunction(ValuedPoint(q).values)
<1> DEFINE marks == q.marks
           snap == Snapshot(q.st, marks)
           estimates == Estimates(snap, q.ctx)
           held == Held(snap)
           priced == held \cap DOMAIN marks
           value == [s \in priced |-> MarketValue(marks[s].price, snap.positions[s].qty)]
           v == ValuedPoint(q)
<1>1. v = SeriesPoint(snap, marks, estimates, q.key, q.at)
    BY ValuedPointIs
<1>2. /\ v.key = q.key /\ v.values = value /\ v.total = SumFunction(value)
      /\ v.incomplete = \E s \in held : s \notin priced \/ estimates[s].tax = {}
    BY <1>1 DEF SeriesPoint
<1>3. DOMAIN value = priced
    OBVIOUS
<1>4. ~v.incomplete => priced = held
    BY <1>2
<1>5. PricedOK(snap, marks)
    <2>1. PICK n : FoldOK(q.st, n)
        BY DEF PointOK
    <2>2. \A s \in DOMAIN marks : marks[s].price \in Int
        BY DEF PointOK, PricesOK
    <2> QED
        BY <2>1, <2>2, SnapshotIsPriced
<1>6. IsFiniteSet(held)
    <2>1. held \in SUBSET DOMAIN snap.positions /\ IsFiniteSet(DOMAIN snap.positions)
        BY <1>5 DEF Held, PricedOK
    <2> QED
        BY <2>1, FS_Subset
<1>7. IsFiniteSet(priced)
    BY <1>6, FS_Subset
<1>8. ASSUME NEW s \in priced PROVE value[s] \in Int
    <2>1. snap.positions[s].qty \in Int
        BY <1>5, <1>8, HeldIsInt
    <2>2. marks[s].price \in Int
        BY <1>5 DEF PricedOK
    <2>3. MarketValue(marks[s].price, snap.positions[s].qty) \in Int
        BY <2>1, <2>2, ValuesAreInt
    <2> QED
        BY <2>3
<1> HIDE DEF value, priced, held, v, snap, marks, estimates
<1> QED
    BY <1>2, <1>3, <1>4, <1>7, <1>8 DEF v, held, snap, marks

\* Of the points before a day the last is one at most.
LEMMA BaselineIsOne ==
    ASSUME NEW stored, NEW key \in Int, \A i \in DOMAIN stored : stored[i].key \in Int,
           \A i, j \in DOMAIN stored : stored[i].key = stored[j].key => i = j,
           NEW i \in DOMAIN stored, NEW j \in DOMAIN stored,
           stored[i] \in Baseline(stored, key), stored[j] \in Baseline(stored, key)
    PROVE  stored[i] = stored[j]
<1> DEFINE past == {k \in DOMAIN stored : stored[k].key < key}
           last(k) == k \in past /\ \A h \in past : stored[h].key <= stored[k].key
<1>1. \A p \in Baseline(stored, key) : \E k \in DOMAIN stored : p = stored[k] /\ last(k)
    BY DEF Baseline
<1>2. PICK a \in DOMAIN stored : stored[i] = stored[a] /\ last(a)
    BY <1>1
<1>3. PICK b \in DOMAIN stored : stored[j] = stored[b] /\ last(b)
    BY <1>1
<1>4. stored[a].key <= stored[b].key /\ stored[b].key <= stored[a].key
    BY <1>2, <1>3
<1>5. stored[a].key = stored[b].key
    BY <1>4
<1> QED
    BY <1>2, <1>3, <1>5

\* A change that is plain is from one point of an earlier day to the report's own.
LEMMA PlainChange ==
    ASSUME NEW rep, ReportOK(rep), NEW lines \in LinesOf(rep), lines.delta.kind = "PointToPoint"
    PROVE  \E i \in DOMAIN rep.stored : \E q \in rep.point :
               LET base == ValuedPoint(rep.stored[i])
                   point == ValuedPoint(q)
               IN  /\ ~base.incomplete /\ ~point.incomplete
                   /\ lines.delta.from = {base}
                   /\ lines.delta.change = {point.total - base.total}
                   /\ lines.symbols = SymbolDeltas(Snapshot(rep.st, rep.marks), point, lines.delta)
<1> DEFINE stored == [i \in DOMAIN rep.stored |-> ValuedPoint(rep.stored[i])]
           points == IF rep.point = {} THEN {NoPoint} ELSE {ValuedPoint(q) : q \in rep.point}
           snap == Snapshot(rep.st, rep.marks)
<1>1. PICK point \in points : lines = Lines(rep, point, stored)
    BY DEF LinesOf
<1> DEFINE delta == Delta(rep.outcome, point, stored, {})
           base == Baseline(stored, point.key)
           b == CHOOSE x \in base : TRUE
<1>2. lines.delta = delta /\ lines.symbols = SymbolDeltas(snap, point, delta)
    BY <1>1 DEF Lines, Report
<1>3. \A i \in DOMAIN stored : stored[i] = ValuedPoint(rep.stored[i])
    OBVIOUS
<1>4. DOMAIN stored = DOMAIN rep.stored
    OBVIOUS
<1> HIDE DEF stored, points, snap
<1>5. rep.outcome = "Appended"
    BY <1>2 DEF Delta, UncapturedDelta
<1>6. delta = CapturedDelta(point, stored, {})
    BY <1>5 DEF Delta
<1>7. base # {} /\ Comparable(b, point)
    BY <1>2, <1>6 DEF CapturedDelta
<1>8. delta.from = base /\ delta.change = {point.total - b.total}
    BY <1>6, <1>7 DEF CapturedDelta
<1> HIDE DEF delta
<1>9. ~b.incomplete /\ ~point.incomplete /\ b \in base
    BY <1>7 DEF Comparable
<1>10. PICK q \in rep.point : point = ValuedPoint(q)
    <2>1. rep.point # {}
        BY <1>9 DEF points, NoPoint
    <2> QED
        BY <2>1 DEF points
<1> HIDE DEF b
<1>11. PICK i \in DOMAIN rep.stored : b = stored[i]
    BY <1>4, <1>9 DEF Baseline
<1>12. base = {b}
    <2>1. \A k \in DOMAIN stored : stored[k].key = rep.stored[k].key /\ stored[k].key \in Int
        <3> SUFFICES ASSUME NEW k \in DOMAIN stored
                     PROVE  stored[k].key = rep.stored[k].key /\ stored[k].key \in Int
            OBVIOUS
        <3>1. PointOK(rep.stored[k])
            BY <1>4 DEF ReportOK, PointsOK
        <3>2. stored[k].key = rep.stored[k].key
            BY <1>3, <3>1, PointValues
        <3> QED
            BY <3>1, <3>2 DEF PointOK
    <2>2. \A k, h \in DOMAIN stored : stored[k].key = stored[h].key => k = h
        BY <1>4, <2>1 DEF ReportOK, PointsOK, Distinct
    <2>3. point.key \in Int
        <3>1. PointOK(q)
            BY <1>10 DEF ReportOK
        <3> QED
            BY <1>10, <3>1, PointValues DEF PointOK
    <2>4. ASSUME NEW x \in base PROVE x = b
        <3>1. PICK j \in DOMAIN stored : x = stored[j]
            BY DEF Baseline
        <3> QED
            BY <1>4, <1>9, <1>11, <2>1, <2>2, <2>3, <2>4, <3>1, BaselineIsOne
    <2> QED
        BY <1>9, <2>4
<1>13. b = ValuedPoint(rep.stored[i])
    BY <1>3, <1>4, <1>11
<1> QED
    BY <1>2, <1>8, <1>9, <1>10, <1>12, <1>13 DEF snap

\* With the same holdings it is the sum of the changes of the symbols.
LEMMA ChangeAddsUp ==
    ASSUME NEW rep, ReportOK(rep), NEW lines \in LinesOf(rep), lines.delta.kind = "PointToPoint",
           \A b \in lines.delta.from : \A i \in DOMAIN rep.stored :
               rep.stored[i].key = b.key =>
                   Held(Snapshot(rep.stored[i].st, rep.marks)) = DOMAIN lines.symbols
    PROVE  lines.delta.change = {SumFunction([s \in DOMAIN lines.symbols |-> ValueOf(lines.symbols[s])])}
<1>1. PICK i \in DOMAIN rep.stored, q \in rep.point :
          LET base == ValuedPoint(rep.stored[i])
              point == ValuedPoint(q)
          IN  /\ ~base.incomplete /\ ~point.incomplete
              /\ lines.delta.from = {base}
              /\ lines.delta.change = {point.total - base.total}
              /\ lines.symbols = SymbolDeltas(Snapshot(rep.st, rep.marks), point, lines.delta)
    BY PlainChange
<1> DEFINE base == ValuedPoint(rep.stored[i])
           point == ValuedPoint(q)
           snap == Snapshot(rep.st, rep.marks)
           H == Held(snap)
           change == [s \in H |-> ValueOf(lines.symbols[s])]
<1>2. PointOK(rep.stored[i]) /\ PointOK(q) /\ q.st = rep.st /\ q.marks = rep.marks
    BY DEF ReportOK, PointsOK
<1>3. DOMAIN point.values = H
    BY <1>1, <1>2, PointValues
<1>4. DOMAIN lines.symbols = H
    BY <1>1 DEF SymbolDeltas
<1>5. DOMAIN base.values = H
    <2>1. base.key = rep.stored[i].key
        BY <1>2, PointValues
    <2>2. Held(Snapshot(rep.stored[i].st, rep.marks)) = H
        BY <1>1, <1>4, <2>1
    <2>3. Held(Snapshot(rep.stored[i].st, rep.stored[i].marks)) = H
        BY <2>2, HeldIgnoresMarks
    <2> QED
        BY <1>1, <1>2, <2>3, PointValues
<1>6. /\ IsFiniteSet(H) /\ point.total = SumFunction(point.values) /\ base.total = SumFunction(base.values)
      /\ \A s \in H : point.values[s] \in Int /\ base.values[s] \in Int
    BY <1>2, <1>3, <1>5, PointValues
<1>7. /\ lines.delta.from = {base} /\ lines.delta.change = {point.total - base.total}
      /\ lines.symbols = SymbolDeltas(snap, point, lines.delta)
    BY <1>1
<1> HIDE DEF base, point, snap
<1>8. ASSUME NEW s \in H PROVE lines.symbols[s] = {point.values[s] - base.values[s]}
    <2>1. lines.symbols[s] = UNION {SymbolChange(b, point, s).cents : b \in lines.delta.from}
        BY <1>3, <1>7 DEF SymbolDeltas
    <2>2. lines.symbols[s] = SymbolChange(base, point, s).cents
        BY <1>7, <2>1
    <2> QED
        BY <1>3, <1>5, <2>2 DEF SymbolChange
<1> HIDE DEF H
<1>9. \A s \in H : change[s] = point.values[s] - base.values[s]
    <2> SUFFICES ASSUME NEW s \in H PROVE change[s] = point.values[s] - base.values[s]
        OBVIOUS
    <2>1. PICK d \in Int : d = point.values[s] - base.values[s]
        BY <1>6
    <2>2. ValueOf(lines.symbols[s]) = d
        BY <1>8, <2>1, OneAmount
    <2> QED
        BY <2>1, <2>2
<1>10. DOMAIN change = H
    OBVIOUS
<1>11. change = [s \in DOMAIN lines.symbols |-> ValueOf(lines.symbols[s])]
    BY <1>4
<1> HIDE DEF change
<1>12. SumFunctionOnSet(change, H)
           = SumFunctionOnSet(point.values, H) - SumFunctionOnSet(base.values, H)
    <2> DEFINE f == point.values
               g == base.values
    <2>1. \A s \in H : f[s] \in Int /\ g[s] \in Int /\ change[s] = f[s] - g[s]
        BY <1>6, <1>9
    <2>2. IsFiniteSet(H)
        BY <1>6
    <2> HIDE DEF f, g
    <2>3. SumFunctionOnSet(change, H) = SumFunctionOnSet(f, H) - SumFunctionOnSet(g, H)
        BY <2>1, <2>2, SumsDiffer
    <2> QED
        BY <2>3 DEF f, g
<1>13. /\ SumFunction(change) = SumFunctionOnSet(change, H)
       /\ SumFunction(point.values) = SumFunctionOnSet(point.values, H)
       /\ SumFunction(base.values) = SumFunctionOnSet(base.values, H)
    BY <1>3, <1>5, <1>10 DEF SumFunction
<1>14. SumFunction(change) = point.total - base.total
    BY <1>6, <1>12, <1>13
<1> QED
    BY <1>7, <1>11, <1>14

(***************************************************************************)
(* The points on record, and those a run has read                          *)
(***************************************************************************)
\* The phases in which a summary has a point to capture.
Capturing == {"capture", "write", "verify"}

\* A run has points it read, and one of its own when it comes to capture it.
PointsRun(r) == PointsOK(r.stored) /\ (r.pc \in Capturing => DOMAIN r.marks # {})

PointsInv ==
    /\ PointsOK(history)
    /\ \A p \in Procs : run[p].pc # "idle" => PointsRun(run[p])
    /\ \A p \in Summaries : \A rep \in run[p].report : ReportOK(rep)

\* A step of p: a cycle begins; it goes on; it comes to its capture with the points
\* it read; or it ends, with a report or without.
Loads(p) == run'[p].pc = "publish" /\ run'[p].stored = <<>> /\ run'[p].report = {}

GoesOn(p) ==
    /\ run[p].pc # "idle"
    /\ run'[p].stored = run[p].stored /\ run'[p].report = run[p].report
    /\ run'[p].pc \in Capturing => run[p].pc \in Capturing /\ run'[p].marks = run[p].marks

Reads(p) ==
    /\ run[p].pc # "idle" /\ DOMAIN run[p].marks # {}
    /\ run'[p].stored = history /\ run'[p].report = run[p].report /\ run'[p].marks = run[p].marks

Reports(p) ==
    /\ run[p].pc # "idle" /\ run'[p].pc = "idle"
    /\ \/ p \notin Summaries \/ run'[p].report = {}
       \/ \E outcome : \E stored \in {run[p].stored, history} :
             run'[p].report = Reported(run[p], outcome, stored)

PointsStepOf(p) == Loads(p) \/ GoesOn(p) \/ Reads(p) \/ Reports(p)

\* The fields of a run that they are about.
LEMMA PointFields == {"pc", "stored", "report", "marks"} \subseteq DOMAIN Begun
BY DEF Begun

\* No points are points in order.
LEMMA NoPoints == PointsOK(<<>>)
<1> DEFINE none == <<>>
<1>1. DOMAIN none = {} /\ none \in Seq(Range(none))
    OBVIOUS
<1> HIDE DEF none
<1>2. PointsOK(none)
    BY <1>1 DEF PointsOK, Distinct
<1> QED
    BY <1>2 DEF none

\* The start of a cycle.
LEMMA StartIsFresh == ASSUME RunOK, NEW p \in Procs, Start(p) PROVE Loads(p)
<1>1. PICK c : \E r \in LoadOf(c) : run' = [run EXCEPT ![p] = [r EXCEPT !.at = started]]
    BY DEF Start
<1>2. PICK r \in LoadOf(c) : run' = [run EXCEPT ![p] = [r EXCEPT !.at = started]]
    BY <1>1
<1>3. r.pc = "publish" /\ r.stored = <<>> /\ r.report = {} /\ DOMAIN r = DOMAIN Begun
    BY LoadedHasBegun
<1>4. run'[p] = [r EXCEPT !.at = started]
    BY <1>2 DEF RunOK
<1>5. run'[p].pc = r.pc /\ run'[p].stored = r.stored /\ run'[p].report = r.report
    BY <1>3, <1>4, PointFields
<1> QED
    BY <1>3, <1>5 DEF Loads

\* Publishing and pricing go on, or end without a report of a summary.
LEMMA PublishGoesOn ==
    ASSUME RunOK, NEW p \in Procs,
           LockForPublish(p) \/ SkipPublish(p) \/ WriteTab(p) \/ FailTab(p)
    PROVE  GoesOn(p)
<1>1. run[p].pc # "idle" /\ DOMAIN run = Procs /\ DOMAIN run[p] = DOMAIN Begun
    BY DEF LockForPublish, SkipPublish, WriteTab, FailTab, RunOK
<1>2. CASE LockForPublish(p)
    BY <1>1, <1>2, PointFields DEF LockForPublish, GoesOn, Capturing
<1>3. CASE SkipPublish(p)
    BY <1>1, <1>3, PointFields DEF SkipPublish, GoesOn, Capturing
<1>4. ASSUME NEW ok, run[p].pc = "tabs", AfterTab(p, ok) PROVE GoesOn(p)
    <2>1. CASE run[p].tab < Len(TabOrder)
        BY <1>1, <1>4, <2>1, PointFields DEF AfterTab, GoesOn, Capturing
    <2>2. CASE ~(run[p].tab < Len(TabOrder))
        BY <1>1, <1>4, <2>2, PointFields DEF AfterTab, GoesOn, Capturing
    <2> QED
        BY <2>1, <2>2
<1>5. CASE WriteTab(p)
    BY <1>4, <1>5 DEF WriteTab
<1>6. CASE FailTab(p)
    BY <1>4, <1>6 DEF FailTab
<1> QED
    BY <1>2, <1>3, <1>5, <1>6

\* So does a pass over the prices.
LEMMA PollGoesOn == ASSUME RunOK, NEW p \in Procs, Poll(p) PROVE GoesOn(p)
<1>1. run[p].pc = "poll" /\ DOMAIN run = Procs /\ DOMAIN run[p] = DOMAIN Begun
    BY DEF Poll, RunOK
<1>2. PICK latest, marks :
          run' = IF LastPoll(p, latest)
                 THEN [run EXCEPT ![p].pc = "priced", ![p].ok = TRUE, ![p].polls = 0,
                                  ![p].latest = <<>>, ![p].marks = marks]
                 ELSE [run EXCEPT ![p].latest = latest, ![p].polls = Lesser(@ + 1, MaxPolls)]
    BY DEF Poll
<1>3. CASE LastPoll(p, latest)
    BY <1>1, <1>2, <1>3, PointFields DEF GoesOn, Capturing
<1>4. CASE ~LastPoll(p, latest)
    BY <1>1, <1>2, <1>4, PointFields DEF GoesOn, Capturing
<1> QED
    BY <1>3, <1>4

\* A run without marks has no point, and one with marks has one.
LEMMA PointsOfMarks == ASSUME NEW r PROVE PointOf(r) = {} <=> DOMAIN r.marks = {}
BY DEF PointOf, TradingDayKey

\* A capture that failed goes on, or ends with a report.
LEMMA FailedCapture ==
    ASSUME RunOK, NEW p \in Procs, run[p].pc \in Capturing, CaptureFailed(p)
    PROVE  GoesOn(p) \/ Reports(p)
<1>1. run[p].pc # "idle" /\ DOMAIN run = Procs /\ DOMAIN run[p] = DOMAIN Begun
    BY DEF RunOK, Capturing
<1>2. CASE run[p].tries + 1 < Attempts
    BY <1>1, <1>2, PointFields DEF CaptureFailed, GoesOn
<1>3. CASE ~(run[p].tries + 1 < Attempts)
    BY <1>1, <1>3, FinishStep DEF CaptureFailed, Reports
<1> QED
    BY <1>2, <1>3

\* The steps of a capture.
LEMMA CaptureGoesOn ==
    ASSUME RunOK, NEW p \in Procs,
           \/ ReadStored(p) \/ FailStored(p) \/ LockForCapture(p) \/ CaptureHeld(p)
           \/ WritePoint(p) \/ FailWrite(p) \/ VerifyPoint(p) \/ FailVerify(p)
    PROVE  GoesOn(p) \/ Reads(p) \/ Reports(p)
<1>1. run[p].pc # "idle" /\ DOMAIN run = Procs /\ DOMAIN run[p] = DOMAIN Begun
    BY DEF ReadStored, FailStored, LockForCapture, CaptureHeld, WritePoint, FailWrite, VerifyPoint,
           FailVerify, RunOK
<1>2. ASSUME NEW report, Finish(p, report),
             report = {} \/ \E outcome : \E stored \in {run[p].stored, history} :
                                report = Reported(run[p], outcome, stored)
      PROVE  Reports(p)
    BY <1>1, <1>2, FinishStep DEF Reports
<1>3. CASE ReadStored(p)
    <2>1. CASE ~Readable(history)
        BY <1>2, <1>3, <2>1 DEF ReadStored
    <2>2. CASE Readable(history) /\ PointOf(run[p]) = {}
        BY <1>2, <1>3, <2>2 DEF ReadStored
    <2>3. CASE Readable(history) /\ PointOf(run[p]) # {}
        <3>1. run' = [run EXCEPT ![p].pc = "capture", ![p].stored = history]
            BY <1>3, <2>3 DEF ReadStored
        <3>2. DOMAIN run[p].marks # {}
            BY <2>3, PointsOfMarks
        <3> QED
            BY <1>1, <3>1, <3>2, PointFields DEF Reads
    <2> QED
        BY <2>1, <2>2, <2>3
<1>4. CASE FailStored(p)
    BY <1>2, <1>4 DEF FailStored
<1>5. CASE LockForCapture(p)
    BY <1>1, <1>5, PointFields DEF LockForCapture, GoesOn, Capturing
<1>6. CASE CaptureHeld(p)
    BY <1>6, FailedCapture DEF CaptureHeld, Capturing
<1>7. CASE WritePoint(p)
    BY <1>1, <1>7, PointFields DEF WritePoint, GoesOn, Capturing
<1>8. CASE FailWrite(p)
    BY <1>8, FailedCapture DEF FailWrite, Capturing
<1>9. CASE VerifyPoint(p)
    <2>1. CASE Finish(p, Reported(run[p], "Appended", run[p].stored))
        BY <1>2, <2>1
    <2>2. CASE CaptureFailed(p)
        BY <1>9, <2>2, FailedCapture DEF VerifyPoint, Capturing
    <2> QED
        BY <1>9, <2>1, <2>2 DEF VerifyPoint
<1>10. CASE FailVerify(p)
    BY <1>10, FailedCapture DEF FailVerify, Capturing
<1> QED
    BY <1>3, <1>4, <1>5, <1>6, <1>7, <1>8, <1>9, <1>10

\* Every step of a process is one of the four.
LEMMA ProcessPoints ==
    ASSUME RunOK, NEW p \in Procs, Start(p) \/ Advance(p) \/ Fault(p)
    PROVE  PointsStepOf(p)
<1>1. CASE Start(p)
    BY <1>1, StartIsFresh DEF PointsStepOf
<1>2. CASE Poll(p)
    BY <1>2, PollGoesOn DEF PointsStepOf
<1>3. CASE FailPoll(p)
    BY <1>3, FinishStep DEF FailPoll, PointsStepOf, Reports
<1>4. CASE ShowView(p)
    BY <1>4, FinishStep DEF ShowView, PointsStepOf, Reports
<1>5. CASE Crash(p)
    BY <1>5 DEF Crash, RunOK, Idle, PointsStepOf, Reports
<1>6. CASE LockForPublish(p) \/ SkipPublish(p) \/ WriteTab(p) \/ FailTab(p)
    BY <1>6, PublishGoesOn DEF PointsStepOf
<1>7. CASE \/ ReadStored(p) \/ FailStored(p) \/ LockForCapture(p) \/ CaptureHeld(p)
           \/ WritePoint(p) \/ FailWrite(p) \/ VerifyPoint(p) \/ FailVerify(p)
    BY <1>7, CaptureGoesOn DEF PointsStepOf
<1> QED
    BY <1>1, <1>2, <1>3, <1>4, <1>5, <1>6, <1>7 DEF Advance, Fault

\* The point of a run is of what it has loaded and of its marks.
LEMMA PointIsOfRun ==
    ASSUME NEW r, PricedRun(r), NEW q \in PointOf(r)
    PROVE  PointOK(q) /\ q.st = r.st /\ q.marks = r.marks
<1>1. PICK key \in TradingDayKey(r.marks) :
          q = [key |-> key, at |-> r.at, st |-> r.st, ctx |-> r.ctx, marks |-> r.marks]
    BY DEF PointOf
<1>2. q.key = key /\ q.st = r.st /\ q.marks = r.marks
    BY <1>1
<1>3. key \in Int
    BY TradingDayIsInt DEF PricedRun
<1> QED
    BY <1>2, <1>3 DEF PointOK, PricedRun

\* Recording a point keeps the others.
LEMMA UpsertKeepsPoints ==
    ASSUME NEW rows, PointsOK(rows), NEW point, PointOK(point)
    PROVE  PointsOK(Overwrite(rows, Upsert(rows, point)))
<1> DEFINE new == Upsert(rows, point)
<1>1. Distinct(new) /\ Overwrite(rows, new) = new
    BY UpsertFacts DEF PointsOK
<1>2. ASSUME NEW i \in DOMAIN new PROVE PointOK(new[i])
    <2>1. CASE \E k \in DOMAIN rows : rows[k].key = point.key
        <3>1. new = [k \in DOMAIN rows |-> IF rows[k].key = point.key THEN point ELSE rows[k]]
            BY <2>1 DEF Upsert
        <3>2. i \in DOMAIN rows /\ new[i] = IF rows[i].key = point.key THEN point ELSE rows[i]
            BY <1>2, <3>1
        <3> QED
            BY <3>2 DEF PointsOK
    <2>2. CASE ~\E k \in DOMAIN rows : rows[k].key = point.key
        <3> DEFINE n == Len(rows)
                   S == Range(rows) \cup {point}
        <3>1. n \in Nat /\ DOMAIN rows = 1..n /\ rows \in Seq(S) /\ point \in S
            BY LenProperties, SeqMonotonic DEF PointsOK, Distinct
        <3>2. new = Append(rows, point)
            BY <2>2 DEF Upsert
        <3> HIDE DEF new, S
        <3>3. /\ new \in Seq(S) /\ Len(new) = n + 1
              /\ \A k \in 1..n : new[k] = rows[k]
              /\ new[n + 1] = point
            BY <3>1, <3>2, AppendProperties
        <3> HIDE DEF n
        <3>4. i \in 1..(n + 1)
            BY <1>2, <3>3, LenProperties
        <3>5. i \in 1..n \/ i = n + 1
            BY <3>1, <3>4
        <3> QED
            BY <3>1, <3>3, <3>5 DEF PointsOK
    <2> QED
        BY <2>1, <2>2
<1> HIDE DEF new
<1>3. PointsOK(new)
    BY <1>1, <1>2 DEF PointsOK
<1> QED
    BY <1>1, <1>3 DEF new

\* Whatever is written to the History tab, its rows are points.
LEMMA HistoryKeepsPoints ==
    ASSUME CycleInv, PricedInv, PointsInv, NEW p \in Procs, StepOf(p)
    PROVE  PointsOK(history')
<1>1. CASE history' = history
    BY <1>1 DEF PointsInv
<1>2. CASE run[p].pc = "write" /\ history' = Recorded(p)
    <2>1. history' = Overwrite(history, Upsert(history, ThePoint(p)))
        BY <1>2 DEF CycleInv, Recorded
    <2>2. DOMAIN run[p].marks # {} /\ PricedRun(run[p])
        BY <1>2 DEF PointsInv, PointsRun, Capturing, PricedInv
    <2>3. ThePoint(p) \in PointOf(run[p])
        BY <2>2, PointsOfMarks DEF ThePoint
    <2>4. PointOK(ThePoint(p))
        BY <2>2, <2>3, PointIsOfRun
    <2>5. PointsOK(history)
        BY DEF PointsInv
    <2> QED
        BY <2>1, <2>4, <2>5, UpsertKeepsPoints
<1> QED
    BY <1>1, <1>2 DEF StepOf

\* A report of what the run has loaded and read.
LEMMA ReportedIsOK ==
    ASSUME NEW r, PricedRun(r), NEW stored, PointsOK(stored), NEW outcome,
           NEW rep \in Reported(r, outcome, stored)
    PROVE  ReportOK(rep)
<1>1. rep.point = PointOf(r) /\ rep.stored = stored /\ rep.st = r.st /\ rep.marks = r.marks
    BY DEF Reported
<1>2. \A q \in rep.point : PointOK(q) /\ q.st = rep.st /\ q.marks = rep.marks
    BY <1>1, PointIsOfRun
<1> QED
    BY <1>1, <1>2 DEF ReportOK

\* Every step.
LEMMA PointsStep ==
    ASSUME CycleInv, PricedInv, PointsInv, [CycleNext]_vars
    PROVE  PointsInv'
<1>1. CASE BookStep \/ Tick \/ UNCHANGED vars
    BY <1>1 DEF BookStep, Tick, vars, cycle, PointsInv
<1>2. ASSUME NEW p \in Procs, Start(p) \/ Advance(p) \/ Fault(p) PROVE PointsInv'
    <2>1. StepOf(p) /\ PointsStepOf(p)
        BY <1>2, ProcessSteps, ProcessPoints DEF CycleInv
    <2>2. \A q \in Procs : q # p => run'[q] = run[q]
        BY <2>1 DEF StepOf
    <2>3. PointsOK(history')
        BY <2>1, HistoryKeepsPoints
    <2>4. PointsOK(history) /\ (run[p].pc # "idle" => PointsRun(run[p]) /\ PricedRun(run[p]))
        BY DEF PointsInv, PricedInv
    <2>5. run'[p].pc # "idle" => PointsRun(run'[p])
        <3>1. CASE Loads(p)
            BY <3>1, NoPoints DEF Loads, PointsRun, Capturing
        <3>2. CASE GoesOn(p)
            BY <2>4, <3>2 DEF GoesOn, PointsRun
        <3>3. CASE Reads(p)
            BY <2>4, <3>3 DEF Reads, PointsRun
        <3>4. CASE Reports(p)
            BY <3>4 DEF Reports
        <3> QED
            BY <2>1, <3>1, <3>2, <3>3, <3>4 DEF PointsStepOf
    <2>6. p \in Summaries => \A rep \in run'[p].report : ReportOK(rep)
        <3>1. CASE Loads(p)
            BY <3>1 DEF Loads
        <3>2. CASE GoesOn(p) \/ Reads(p)
            BY <3>2 DEF GoesOn, Reads, PointsInv
        <3>3. CASE Reports(p)
            <4>1. PricedRun(run[p]) /\ PointsOK(run[p].stored)
                BY <2>4, <3>3 DEF Reports, PointsRun
            <4> QED
                BY <2>4, <3>3, <4>1, ReportedIsOK DEF Reports
        <3> QED
            BY <2>1, <3>1, <3>2, <3>3 DEF PointsStepOf
    <2> QED
        BY <2>2, <2>3, <2>5, <2>6, SummariesAssumption DEF PointsInv
<1> QED
    BY <1>1, <1>2 DEF CycleNext

\* The first state: the point on record is of the opening log and marks.
LEMMA PointsInitInv == CycleInit => PointsInv
<1> SUFFICES ASSUME CycleInit PROVE PointsInv
    OBVIOUS
<1>1. run = [p \in Procs |-> Idle]
    BY DEF CycleInit
<1>2. CycleInv /\ TabsInv
    BY CycleInitInv, TabsInitInv
<1>3. PICK r \in LoadOf(cell) :
          history = SetToSeq({[key |-> key, at |-> 0, st |-> r.st, ctx |-> r.ctx, marks |-> OpeningMarks]
                                 : key \in TradingDayKey(OpeningMarks)})
    BY DEF CycleInit
<1>4. PricedRun(r)
    <2>1. BookTypeOK /\ CellOK(cell)
        BY <1>2 DEF TabsInv, CellOK, BookTypeOK
    <2> QED
        BY <2>1, LoadedIsPriced
<1>5. PricesOK(OpeningMarks)
    BY OpeningMarksAssumption DEF PricesOK
<1> DEFINE points == {[key |-> key, at |-> 0, st |-> r.st, ctx |-> r.ctx, marks |-> OpeningMarks]
                         : key \in TradingDayKey(OpeningMarks)}
<1>6. ASSUME NEW q \in points PROVE PointOK(q)
    <2>1. PICK key \in TradingDayKey(OpeningMarks) :
              q = [key |-> key, at |-> 0, st |-> r.st, ctx |-> r.ctx, marks |-> OpeningMarks]
        OBVIOUS
    <2>2. key \in Int
        BY <1>5, TradingDayIsInt
    <2>3. q.key = key /\ q.st = r.st /\ q.marks = OpeningMarks
        BY <2>1
    <2> QED
        BY <1>4, <1>5, <2>2, <2>3 DEF PointOK, PricedRun
<1>7. \A x, y \in points : x = y
    BY DEF TradingDayKey
<1> HIDE DEF points
<1>8. \A i \in DOMAIN history : history[i] \in points
    BY <1>3, <1>7, SmallSetToSeq DEF points
<1>9. PointsOK(history)
    BY <1>2, <1>6, <1>8 DEF CycleInv, PointsOK
<1>10. \A p \in Procs : run[p].pc = "idle" /\ run[p].report = {}
    BY <1>1 DEF Idle
<1> QED
    BY <1>9, <1>10, SummariesAssumption DEF PointsInv

\* In a report whose change is plain, and of the same holdings, the changes of the
\* symbols add up to it, whoever captured what meanwhile.
THEOREM ReportedChangesAddUp == CycleSpec => ReportedChangeAddsUp
<1>1. CycleSpec => []TabsInv
    BY CycleInvariant, TabsInitInv, TabsStep, PTL DEF CycleSpec
<1>2. CycleSpec => []PricedInv
    <2>1. CycleInit => PricedInv
        BY DEF CycleInit, PricedInv, Idle
    <2>2. CycleInv /\ TabsInv /\ PricedInv /\ [CycleNext]_vars => PricedInv'
        BY PricedStep
    <2> QED
        BY <1>1, <2>1, <2>2, CycleInvariant, PTL DEF CycleSpec
<1>3. CycleInv /\ PricedInv /\ PointsInv /\ [CycleNext]_vars => PointsInv'
    BY PointsStep
<1>4. PointsInv'
      => [\A p \in Summaries : \A rep \in run'[p].report \ run[p].report : \A lines \in LinesOf(rep) :
             /\ lines.delta.kind = "PointToPoint"
             /\ \A b \in lines.delta.from : \A i \in DOMAIN rep.stored :
                   rep.stored[i].key = b.key =>
                       Held(Snapshot(rep.stored[i].st, rep.marks)) = DOMAIN lines.symbols
             => lines.delta.change =
                   {SumFunction([s \in DOMAIN lines.symbols |-> ValueOf(lines.symbols[s])])}]_vars
    BY ChangeAddsUp DEF PointsInv
<1> QED
    BY <1>2, <1>3, <1>4, PointsInitInv, CycleInvariant, PTL DEF CycleSpec, ReportedChangeAddsUp
=============================================================================
