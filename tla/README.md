# portfolio-tracker: formal models and proofs

TLA+ modules that model the core of the portfolio tracker, TLC configurations that
check them on small instances, and TLAPS proofs of the properties that matter most.
Paths such as `lock.rs:349` are below `src/crates/<crate>/src/`.

## 1. The system

An owner records trades and tax actions. Both are events in two append-only tabs of a
Google Sheets workbook (`Ledger Events`, `Tax Events`); everything else is derived by
replaying them. Several processes work on one workbook from one machine: an interactive
terminal session, a `summary` run from cron, a one-off `import`. There is no server and
no transaction: the only coordination is an advisory lockfile.

| Component | State it keeps | Operations | What makes it correct |
|---|---|---|---|
| ledger kernel (`ledger-core`) | none; folds the log | `replay`, `validate` | basis conservation, sales fully realized, FIFO by date, replay never meets an event it rejects |
| tax kernel (`tax`) | none; folds both logs | `compute_accruals`, `validate_event`, `reserves`, reports | forward-only accrual lifecycle, no double payment, no accrual lost when the ledger changes |
| event store (`store`) | the two tabs, a cache with a fingerprint | `load`, `append_ledger`, `append_tax`, `refresh`, `verify_integrity` | dense `Seq`, each event once, confirmed means durable, the cache never believed when stale |
| advisory lock (`runtime/lock.rs`) | one lockfile | `try_acquire`, handle drop | one holder, re-entrancy, recovery after a crash |
| Sheets client (`runtime/sheets.rs`) | an access token | read, append, update, retry | retries that do not change what the caller asked for |
| submit path (`pt/wiring.rs`, `revalidate.rs`, `eventid.rs`) | the pending event | load, identify, validate, lock, append | what is appended was valid in the log it is appended to; a retry lands once |
| import (`import`, `pt/import_app.rs`) | a reconstruction | parse, map, reconcile, `commit` | a book that tells what was done passes the gate and another does not; the log ends up as it was reconciled, also after a resume |
| cycle and views (`runtime/cycle.rs`, `sheets-view`) | the view tabs | republish, settle, re-price | tabs of one log, a cycle that ends, values that add up |
| History (`reports`, `runtime/history.rs`) | the History tab | `append_snapshot`, `read_history`, retry | one point per trading day, days in order, no lost point |
| configuration (`config`) | the Config cell: brackets, residency, thresholds, labels | resolve, put | only valid tables are stored; degraded brackets are signalled |
| entry and shell (`tui`, `pt`) | the form, its phase, the view | keys, compose, submit, retry, refresh | an entry is one event or still on the screen; the view catches up |
| summary (`summary`) | none | capture, compare, report | what is reported as captured is on record; changes are of what was comparable |

How they meet: the terminal interface and the import call the store; the store takes the
lock inside every append (and so re-enters it below a caller that holds it already); the
store and the views call the Sheets client, which retries. The kernels are pure and are
called on whatever a load returned.

The hard behaviours: two processes between two workbook calls; an append whose answer is
lost; a crash inside the critical section; a lock that expires under a slow holder; a
cache that is believed although the workbook has moved on; a reversal that changes what
every later event is folded over; rounding that must neither make nor lose a cent; tax
records whose sale was taken back; an import resumed after its source was mended.
`PROJECT.json` lists these at their lines, with the properties that cover it.

## 2. Modules

| Module | Models | State and actions |
|---|---|---|
| `MoneyArithmetic` | rounding, `scale`, `within_cap`, `consume_basis`, the floor and remainder of the proceeds | pure operators |
| `LedgerCore` | `ledger_core::replay` and `validate` | `log`; `Submit` folds the log, then `Accept` or `Reject` of a candidate from an enumerated set of payloads. The fold is a recursive function over the surviving events, and its result is a record of lots, gains, depended-on openings and dropped events |
| `AdvisoryLock` | `try_acquire` and `Drop` | the lockfile, the clock, and per process the place in the call, the time it read, the attempts made and its handles. One action per file-system call |
| `AppendOnlyLog` | what the store promises | `Land(e)`, `Confirm(e)` |
| `EventStore` | `append_ledger` / `append_tax` under a submit or an import commit, with the client's retry loop | the rows, what was confirmed, the lock, and per writer its place, its job, the log it validated against, its cache fingerprint, the `Seq` in hand and the attempts. One action per workbook call |
| `Calendar` | civil days, holding term, quarters | pure operators |
| `TaxKernel` | `tax`: brackets, increments, accruals, lifecycle, validator, orphans, reserves, reports, estimate | pure operators over gains, tax events and a context |
| `ConfigStore` | `config` and its adapter | `cell`, the Config cell; a `Put` validates and writes the whole cell |
| `TaxBook` | the two logs and the configuration together | `log`, `events`, `cell`; `LedgerStep`, `TaxStep` (skip a retry, accept, refuse), `ConfigStep` |
| `Valuation` | snapshot, marks, composition of the report, series points, largest remainder | pure operators |
| `SummaryReport` | the delta, its baseline, rows and tax line of `summary` | pure operators |
| `MarksCycle` | the cycles of several processes over one workbook: publish, poll, reprice, show or capture | the quotes, the view tabs, the History tab, the lock, and per process its place and what it holds. One action per lock or workbook call |
| `Terminal` | the keymap, the entry form, submit, hold, retry and refresh | the Model of `tui`, what the view shows, the log, lock and network. One action per routed key, and the tick of the loop |
| `Import` | the parse, the mappings, `reconstruct`, `dry_run`, `commit` | the legacy workbook with the owner's inputs, the report, what the commit has still to append. `Edit`, `Begin`, `AppendNext`, `Interrupt`, `Finish`, `Elsewhere` |
| `LedgerCoreProofs`, `LedgerFoldProofs` | | induction and finite sums, rounding, lots and one event of the fold; the whole fold and the log |
| `TaxBookProofs`, `MarksCycleProofs`, `AdvisoryLockProofs`, `EventStoreProofs`, `TerminalProofs`, `ImportProofs` | | theorems about the module each is named after |
| `MC...` | | instances for TLC |

`TaxBook` extends `LedgerCore`, `TaxKernel` and `ConfigStore`: accruals are stored nowhere,
every use derives them from the three. `MarksCycle` extends `TaxBook` and the valuation,
so that cycles run while the book changes; `Import` extends `TaxBook` too, so that what it
commits lies in the same logs as what is entered elsewhere. `EventStore` instantiates
`AppendOnlyLog` as its abstraction: the abstract log is the event of each row. It takes the
lock to exclude; `AdvisoryLock` says when the lock does that. The kernel inside
`EventStore` is reduced to which events exclude which (`Conflicts`), and the append inside
`Terminal` and `Import` to one step: `EventStore` has its parts.

What is abstracted:

* **LedgerCore.** An event's position is its `Seq` and its id. Payload fields the kernel
  copies without looking at them are left out. Integers are unbounded: the code computes
  in `i128`, and `MoneyCap` is its range check.
* **AdvisoryLock.** A restarted process has a new pid and so another identity; it is
  another member of `Procs`. File content is what `decode_lockfile` makes of it: a record,
  an empty file, or bytes that cannot be read (only at the start, when `Corrupt`). Writing
  the record is one step.
* **EventStore.** An event is its content, and so its `EventId`. The fingerprint is the
  number of rows, which is what distinguishes two states of a tab that only grows; edits
  made in the workbook by hand are not modelled. A load reads both tabs in one step, and
  the probe in the next one (`rebuild_cache` reads it last). A tab that does not exist is
  an empty one. A failing append is one of: not landed, landed and answered, landed and
  unheard.
* **TaxKernel, ConfigStore.** Rates count parts of `PpmFull`. Account labels, reasons,
  payment dates and periods are recorded and never read by the kernel. An Option is a set
  of at most one value. A year that has no bracket row degrades as in the code, by two
  paths: per jurisdiction in `resolve_brackets`, by whole row in `context_from_config`.
* **MarksCycle.** A point and a report stand for what they are computed from; `ValuedPoint`
  and `LinesOf` compute their numbers. Lots and positions are listed by `InOrder` and
  records joined by `With`, definitions of the project rather than `SelectSeq` and `@@`,
  because the provers have no definition of those two. `Pass` reads the Price column in one step. A crash
  gives the lock back (`AdvisoryLock` has the reclaim). The STALE banner is left out.
* **Terminal.** Two fields stand for those of a form, a symbol and a number, each with a
  handful of texts; what a kernel refuses is a number that is no amount. The history fields
  of a log entry (`draft`, `known`, `confirmed`) say which draft it came of.
* **Import.** A cell is an Option, empty when it cannot be parsed; the other casing of a
  symbol is its negative. Row corrections are left out because `assemble_workbook` never
  passes one (IMPORT-CORP-004 describes them). A Split's id contains its index, although
  the comment at `import/lib.rs:893` says it does not.

## 3. Runs

`tlc -workers 2 -config <cfg> <module>`; each ends within about two minutes.

| Run | Shows |
|---|---|
| `LedgerCore` | for all logs of up to 5 events from 22 payloads (two lots whose recording order is not their age order, sales by FIFO and by reference, a gain, a loss, fees, splits up and down, reversals of every position, and candidates with each kind of defect): basis conserved, no negative lot, sales realized to the cent, FIFO by age; an event dated earlier never rewrites a realized gain, reversing an opening moves none, and no trade is lost by a re-fold unless a Split is |
| `LockRecovery` | two processes, nested acquisitions, a crash, a failed call, an unreadable lockfile at the start: until somebody reclaims a lock, one process is in a section and the outer record stays; under fairness abandoned lockfiles go and acquisitions end |
| `EventStore` | an import of three events beside two submits by two writers, two attempts per request, a crash: dense `Seq`s, the import as reconciled, refinement of `AppendOnlyLog` |
| `EventStoreResend` | the same with one request repeated after it landed: only copies of a row are added |
| `TaxBook` | two lots of either term and a sale on record, further sales with gains and losses dated before and after it and in another state, a reversal, an override, a seed, two accruals that are allocated, moved and paid, alone or by one payment, and the first of them once more in a second month, its sale reversed at any point, bracket tables and timelines good and refused: quarterly cells partition the annual row; increments telescope to the tax on everything; every payment is preceded by its own move; a reserve is flagged exactly when an orphan warning names it; a later sale never reprices an earlier gain; a state the owner lived in is never degraded without a signal; the estimate of open lots is the tax of selling them |
| `Cycle` | two cycles of a terminal and two summaries, two symbols on two platforms, a quote that does not load at first and a new trading day, a sale, one failed request or crash: tabs of one log, one History row a day, captured points stay, the estimated tax is borne by lots and platforms to the cent, values agree but for the roundings of half shares, shares of the whole add up to it, the reported change is the sum of its symbols', every cycle ends |
| `Terminal` | three forms or edits, every key in every mode, a held lock, a network that fails, an unheard write, a crash and restart, events of another process: one event per draft, an entry is on the screen or in the log, an idle terminal catches up |
| `Import` | four honest ways to keep one history (post-split units, split rows, sales at no price, a Total Cost that the price cell does not show, casing, an exercise, exclusions, an adjudication), a forgotten purchase, fourteen mistakes; interruptions anywhere, an edit between two tries, three events entered elsewhere: exactly the honest books pass and replay to the history, a finished commit leaves the reconciled events first, closed years stay settled |

Bounds. Seven-digit state counts stay within the bound of a run. `MaxCrashes = 1`,
`MaxFaults = 1` and `MaxResends = 1` are enough because a second fault only repeats what
the first made possible; the proofs need no bound. Two processes suffice for the lock
(`OneAtATime` proves any number). Logs of five events suffice in `LedgerCore` for an
opening, a split, a sale, a reversal and what then follows. `TaxBook` bounds its steps by
`WithinBounds` (its behaviours are behaviours of `BookSpec`): whatever the ledger and the
configuration do meets up to three tax events (`BriefLog`), among them a first payment;
over the opening configuration, with one further sale and the reversal of the first,
lifecycles of six events reach a second payment of an accrual (allocated, moved and paid
twice) and, after five, one payment that covers two, and the reversal orphans payments as
well as moves. The two extra configurations below start from other payloads. Two
polls give a quote one chance to load, two runs one capture on top of another. Scales are
small (a share is one or two units, rates count tenths) so that rounding and ties occur on
small numbers. `TaxBook` alone has whole shares: `EstimateIsTaxOfSelling` compares an
estimate, which rounds the value of each lot, with sales, which share out rounded proceeds.

### Where the code departs from what it says

Each of these runs checks one sentence of the documentation and TLC finds a behaviour of
the code that breaks it; `PROJECT.json` quotes the sentence.

| Run | Behaviour |
|---|---|
| `LedgerSplitReversal` | buy, split 2:1, sell the doubled shares, reverse the split: accepted, and replay silently drops the sale |
| `LockInitRace` | a file that vanished between read and stat is taken for old garbage |
| `EventStoreStaleCheck` | an event is validated before the lock is taken and appended to another log |
| `HistoryOrder` | the newest-quoted symbol is gone in a later cycle, whose row of an earlier trading day is appended; no reader accepts the tab again (REPORT-HIST-003) |

These configurations find further behaviours in the same way and are kept for running by
hand (`tlc -config <cfg> <module>`); the sentence each contradicts is in brackets.

| Configuration (module) | Behaviour |
|---|---|
| `LockReclaimRace` (`MCAdvisoryLock`) | the second of two reclaimers removes the lock of the first (RUNTIME-LOCK-007) |
| `LockReentrantExpiry` (`MCAdvisoryLock`) | a holder past the TTL reclaims its own lock in a nested call and releases it there (RUNTIME-LOCK-005) |
| `EventStoreDoubled` (`MCEventStore`) | a repeated append request doubles a row, and the log cannot be loaded any more (STORE-SCHEMA-002) |
| `EventStoreCurrency` (`MCEventStore`) | the fingerprint is read after the rows and vouches for rows that were not read (STORE-CACHE-002) |
| `TaxDoublePay` (`MCTaxBook`) | Allocate is accepted after Pay, so that an accrual can be moved and paid again (TAX-VERIF-004 "no double-pay") |
| `TaxCarry` (`MCTaxBook`) | gains of earlier years stay in the running totals of `computed_accruals`, so that they push a later year's gain into higher brackets (`tax-design.md`, "year-to-date") |
| `PlatformNet` (`MCMarksCycle`) | half a share on one platform and a whole one on the other: the symbol's value is rounded once, its lots' values each, and the platforms' net is not the symbol's (the comment at `reports/lib.rs:336`: "the platform sum equals it"; REPORT-COMP-005, on the tax alone, holds) |
| `ViewTail` (`MCMarksCycle`) | a tab that becomes shorter keeps the old rows below (SHEET-PUB-002; the test double truncates, `sheets.rs:513` does not) |
| `SummaryDelta` (`MCMarksCycle`) | an uncaptured run computes a change from a point that lacks a symbol (SUMMARY-DELTA-003) |
| `TerminalNewSymbol` (`MCTerminal`) | enter on the new-symbol prompt sends the frozen candidate without a confirmation (TUI-ENTRY-ACT-006) |
| `ImportYearTwice` (`MCImport`) | a closed year that the inputs list twice is seeded, moved and paid twice and is not settled (IMPORT-TAX-002: "a single combined migration accrual per `(jurisdiction, tax_year)`", "outstanding = 0") |
| `ImportOrder` (`MCImport`) | a commit is interrupted after a Split, the owner adds a forgotten earlier purchase, the new run passes its gate and appends the purchase behind the Split, which never rescales it (IMPORT-RUN-001: "the committed log folds as the dry-run reconciled") |

Others were met while modelling. They need no search, one step shows them:

* `ledger-core/lib.rs:865`, `1149`: a split that rounds a lot to no shares leaves it open
  with its basis, and the snapshot skips it. Basis is conserved over lots and gains
  (`BasisConserved`), not over positions and gains as LEDGER-VERIF-001 says.
* `ledger-core/lib.rs:865`: lots are rescaled and rounded one by one, so two lots of one
  unit under 1:2 become nothing, where LEDGER-VERIF-002 has `round(sum * ratio)`.
* `ledger-core/lib.rs:799`: a Buy with negative fees is accepted and may open a lot with
  negative basis, against LEDGER-VERIF-003.
* `lock.rs:340`: a lockfile whose bytes are no UTF-8 counts as vanished, so that every
  acquisition spends its attempts and reports Held until somebody removes the file;
  RUNTIME-LOCK-008 has it reclaimed. `LockRecovery` starts from such a file, too:
  acquisitions still end.
* `validate` (`ledger-core/lib.rs:1350`) accepts a Reversal of a Reversal, which
  `check_ledger_integrity` refuses when the log is loaded; `reversible_targets` marks such
  a target as not to be chosen, and no flow of the program submits one.
* `wiring.rs:542`: two purchases or payments that are equal in content are one event.
* `wiring.rs:297` gives up the whole year when it has no bracket row, where
  `config-design.md` falls back per jurisdiction; `config/lib.rs:521` checks the ceiling of
  the top rows only. Overrides of a lot that a sale no longer picks stay in the log, and a
  change of residency re-keys the accruals of sales that carry no stamp.
* `wiring.rs:145` passes an empty marks cache to every cycle, so that carried marks
  (SHEET-MARK-003) never occur; the verdict of the republish is discarded; `tui_app.rs:108`
  reports a lock in other hands as a failed append; a failed capture may have landed all
  the same.
* `shell.rs:214`: `r` on a form that offers a retry is routed as text and drops the frozen
  candidate; a Sell's form has no key that types; `tui_app.rs:357` does not refresh after a
  confirmed new symbol; esc discards a form without asking. A Split edited after an unheard
  write that landed is recorded twice, once in either form.
* `import`: a wrong vest price shifts the new figures and the predicted difference alike
  and passes the gate; with a mark only the sum of realized and unrealized is compared; a
  tranche listed twice as post-split-framed is rescaled twice.

The passing properties are stated so that they say what does hold beside these:
`ExclusionUntilReclaim` and `OuterHoldUntilReclaim` have the proviso that nobody has
reclaimed a lock, `ReplayLosesNoTrade` that no Split was lost, `DoubledRowsAreCopies` is
what remains of `SeqIsDense` when requests are repeated, `MovedBeforeEachPay` what remains
of "no double-pay", `ValuationBalances` what remains of platforms that add up to the
symbols (the tax does to the cent, the values within half a cent per lot and per symbol),
`PublishIsUndivided` speaks of the rows a publish was given, and
`CommittedIsReconciled` of the order only while nothing was edited. The books of the
`Import` run list each closed year once, as `EachYearOnce` has it in the proofs.

### Fairness

* `LockRecovery`: time passes (`WF(Tick)`); a live process finishes the call it is in
  (`WF(Step)`), leaves its section (`WF(Release)`: the sections are straight-line code with
  bounded retries), and comes back from outside (`WF` of `TryAcquire` when idle: cron runs
  and the owner's retries).
* `Cycle`: a running process is not suspended for ever (`WF(Advance(p))`). Cycles are
  started by nobody in particular, and nothing is assumed of the quotes.
* `Terminal`: the event loop polls with a timeout and so goes on without keys
  (`WF(NoKey)`, `WF(Tick)`), and hours pass (`WF(HourPasses)`). No key is fair, and neither
  is the return of the network: `IdleViewCatchesUp` presumes that it stays up in the end.

Crashes, failing calls and other writers are never fair, and nothing is assumed of who
wins a race.

## 4. Proofs

`tlapm <module>.tla` checks each of the modules named `...Proofs`. The
theorems hold for any number of processes and writers, for logs of any length and for any
bounds. The assumptions are those of the modules: bounds and dates are numbers, `None` is
no process, `Free` and `Orphaned` are no writers; the payloads, the opening logs, the Config
cell to start from, the batch, the tabs and a form's initial texts have their types; the
window of years is one of numbers; there is at least one board of quotes, quotes and the opening marks are numbers of numbered days, and who runs a summary is a process; the rows of a
legacy tab are numbered and its cells dated, and no id assigned at entry has the prefix of
an imported one (`derive_event_id`).

**Induction.** The library's induction theorems have an operator as parameter and cannot be
used. `LedgerCoreProofs` states two that take a set in its place, `NumberInduction` (a set that
has 0 and with every number the next has them all) and `SetDescent` (the same by removing
elements of a finite set), and proves them from the least number of a set. What a fold or a
sum has is then shown of the set of the numbers, or subsets, for which it holds. The sums
of the models are the community modules' folds; `SumsExist` shows that their recursive
definition has a value, and the lemmas after it split, add, compare and reindex sums.

**LedgerCore.** `TypeCorrect` says of a log of any length over any payloads what a
Reversal may name; it is inductive as it stands and follows from the validator alone,
whatever the fold returned. The arithmetic is proved for all integers: `RoundsToNearest`
and `TiesGoToEven` of the rounding rule, `ConsumeConservesBasis` for a basis of either
sign (the code accepts a negative one), `ConsumeKeepsBasisNonNegative` for the others, and
`ProceedsAddUp` for the floors and residues of a sale.
The properties of the fold are proved by an induction over the steps of the replay of one
log, not over the behaviour. `FoldOK` is its invariant: the lots are in the order of their
openings, none is negative, a closed one is empty, and everything names events folded so
far. The loops inside one event, over the lots of a split or the plan of a sale, are given
in closed form (`SplitState`, `SoldState`: which lots change, to what, and which gains are
added), so that the proofs above them need no induction of their own. `LotsStaySound` and
`OldestLotsFirst` follow from one step; `SalesAreRealized` needs that a gain once realized
stays (`EarlierSaleStays`); `BasisIsConserved` carries the equation of `EveryStepConserves`
through the fold, where an event without effect must not be lost from the sum;
`BackdatingIsHarmless` compares the folds of two logs that agree up to the new event
(`StepsAgree`) and uses that the gains of the older one are a prefix (`GainsGrow`).

That a Reversal makes the replay lose no other trade compares two folds that differ from
some event on, and the two kinds of event it may take back need different relations. Without
a sale the state is `Richer` ever after: it has the same lots in the same order, each with
at least the shares. A sale that the poorer state covers is covered by the richer one
(`RicherCovers`), and taking it keeps the relation, although FIFO reaches other lots
(`SaleKeepsRicher`); a split keeps it because rounding is monotone; so `SaleTakenBack` finds everything applied that was applied before. Without an
opening that nothing depends on, the state is `Beside` the other: a correspondence of the
lots, which skips the one at p, keeps order, shares and basis (`Without`). FIFO and
specific sales then make the same plan of it, share the money alike and realize the same
gains (`SaleSame`, `SaleBeside`), since whatever consumed the lot would have been a
dependent of it. Both need that an opening of the log is really there: by
`OpeningsStand` every Buy or Vest that no Reversal names is a lot of the replay under its own
id and seq. It holds because the verdict on an opening needs of the lots only that none has
its id, and the ids of the openings that stand differ (`OpensOK`). `NoTradeIsLost` and
`OpeningReversalIsHarmless` follow. The first cannot do without its proviso on reversed
Splits, as `LedgerSplitReversal` shows, and both have one on refused Splits, since more
shares are the worse state for a Split: it may take them beyond the cap.

**TaxBook.** `BookTypeCorrect` is the inductive invariant under all seven theorems: both
logs have their payloads, and the cell holds rules and a timeline that passed their
validation, whatever is put. From it and the fold's facts come `GainsTyped` (dates,
amounts and terms of the gains) and `ContextTyped` (what a resolved configuration is),
under which the rest is arithmetic for any book.
`FundedBeforePaid` has an invariant of its own (`PaysStaySound`): with the property that
every payment covers accruals of its own jurisdiction and year, which is why a payment ends
the state "Moved" of exactly those; it depends on the validator and not on what is derived.
`BacklessIsSignalled` needs the same fact. `LaterSalesAreHarmless`
unfolds the order in which gains are stacked. `IncrementsAreMarginal` is `Telescope` over
that order: the increment of a gain is what the tax on everything up to it has more than
the tax on everything before it, and the order is strict and total whatever the recording
order (`StackingIsOrder`). `QuartersMakeTheYear` is `SumPartition` of an annual cell over
the four periods. `DegradedIsSignalled` takes a residence of a day in the window to the
entry of the timeline that is active on it, which the validation keeps in order.

**MarksCycle.** A step of a cycle is first classified (`StepOf`): it leaves the other
processes alone, takes or gives back the lock together with its own place, and changes the
History tab only to record a point. `CycleInv` follows: the process in one of the phases
`Locked` is the one that holds the lock, nobody else does, a trading day is in the tab
once, and whoever is about to write has the rows the tab shows. `CycleTypeCorrect` and
`CapturedPointsStay` are consequences. For `PublishesAreUndivided` the invariant `TabsInv`
says of a publish under way that every tab it has come to starts with the rows it loaded,
unless one of its writes failed. It rests on `BookTypeOK`, since the loaded log must render
to finite tabs (`LoadedIsRendered`), and on the lock, since no other process writes a tab
meanwhile (`OtherStep`), while the book may change as it likes.
`ValuationsBalance` has the invariant `PricedInv`: a run that has loaded a log holds what that
log replays to, a context that a stored configuration resolves to, and numbers for quotes;
it is that of a past log and configuration, since both may change under the run. All else is
arithmetic of one moment. `LargestRemainderAddsUp` says of the shares by largest remainder
that they add up to the amount: remainders below the total leave fewer units than there are
parts (`SharesAddUp`), and as many parts are raised as there are units left, since the order
is strict and total (`RaisedFirst`). `EstimateIsBounded` has the estimate of a symbol at no
more than its gain and none on a loss: one amount, clamped, or none when a table is missing.
`LotsRound` bounds what the lots of a symbol, valued one by one, differ
from the symbol by; the sums by symbol and by platform (`SymbolsAddUp`, `PlatformsAddUp`)
count every priced lot once.
`ReportedChangesAddUp` goes over to the points of other runs. By `PointsInv` every point in
the History tab, in what a summary read of it and in a report is of some fold and of marks
that are finitely many numbers, and its trading day is in one row; that holds of the row that
is written since a run that comes to its capture has marks (`PointsRun`). So the day before
has one point at most (`BaselineIsOne`), a plain change is between two complete points
(`PlainChange`), and since what is held does not depend on marks (`HeldIgnoresMarks`) both
have the symbols that the report lists.

**AdvisoryLock.** `TypeCorrect`, `OneAtATime` and `OuterHoldStays`. Exclusion is not
inductive: the invariant must say why a process is alone. `IInv` is `TypeOK` and, unless a
lock was reclaimed, `OwnFile(p)` for each process: whoever has handles is named by the
written record, its outermost handle carries the record's time and is the only one that
owns the file (`IsNested`); whoever is about to write its record holds the empty file and
no handle; an unlink is only under way for the owning handle, so that it ends the section;
and a live process that a record names holds handles, which is what makes a re-entrant
acquisition nested rather than a second lock.

**EventStore.** `TypeCorrect` contains the lock discipline: a writer is in the critical
section exactly while it holds the lock. `ResendsOnlyCopy` proves `DoubledRowsAreCopies`
for any number of resends with `IInv`: `TypeOK`, the property itself and `PendingRow`,
what a writer inside knows of the row in hand (from `lookup` on the event is in no row,
its `Seq` is the next one, or the row is there already from an earlier attempt). No other
writer appends meanwhile, because none holds the lock. With `MaxResends = 0` the stronger
`OnceInv` gives `DenseWithoutResends` and `ImplementsAppendOnlyLog`: a step of the store is
a landing, a confirmation or a stutter of the abstract log. The condition is necessary:
`EventStoreDoubled` is the counterexample without it.
`CommitsAreInOrder` proves `ImportIsAsReconciled` under the same condition, over any number
of runs that fail, crash and start again. `ImportInv` says that there is a k such that the
first k events of the import are in front of their tabs, in order, and the rest in none
(`LandedTo(k)`), and that every commit under way has a tail of the batch in hand that begins
at or before k (`Commits`): a run that came after a failed one finds what landed and skips it,
and nothing lets a run get past an event without its row. What is entered interactively comes
behind, since the target check sees tabs that hold nothing but the import, and a run past it
keeps the lock. The hypothesis `BatchIsApart` is that the import lists no event twice and none
that is entered interactively: the ids of imported events are derived from their places in the
workbook and carry a prefix that no entry's id has. A repeated request breaks the property as
it breaks density: the second copy of a row comes between two events of the import.

**Terminal.** `TerminalTypeCorrect`, `DraftsRecordedOnce` and `EntryKeptOrDurable`, for any
texts, clock, number of failures and log to start from. None of them is inductive: that a
retry records nothing twice, and nothing else than what is on the screen, needs to be known
of the form and the log together. `TerminalInv` says that whatever a form would send again
is what it shows, that the log's entry of its draft, if there is one, is that event, too
(`FormOK`), and that drafts are numbered as they come, so that an edit starts one the log
does not have (`LogOK`). The second is why a submit from scratch after an unheard write
that landed, as after `[c]onfirm`, is a duplicate that is skipped: the event is in the log
by its content.

**Import.** `ImportTypeCorrect`, `CommitsAreReconciled` and `ClosedYearsStaySettled`. What is imported is known by
its content: the reconstruction gives every row an event with an id of its own, whatever the
workbook says (`StreamIsImported`, from the order in which the items are listed), and the
lifecycles of the closed years are apart when no year is listed twice (`MigrationFacts`).
`CommitInv` is inductive: no imported event is in a log twice; a running commit has the
first k steps of its work done, and nothing else than its own events in the target, as the
check under the lock found; until an edit what landed is a first part of the stream, in its
order, before everything that was entered elsewhere; and behind a finished commit events are
only appended. So a step finds its event in the target exactly when an earlier try landed
it, and a commit that ends has its stream at the front. Closed years
follow from it: the tax log holds events of one list of years only (`HoldsOneList`, from
the check of the target under the lock), so a year that landed whole has the seed,
the move and the payment of its lifecycle and no others (`BucketEvents`); the seed
supersedes whatever the gains of that year derive, and nothing else in its bucket is owed
(`ClosedAccruals`). That holds of any gains, so of any ledger, as long as they are finitely
many, which the shape of the fold gives for every log whose sales name their lots in
sequences (`GainsAreSequence`). The hypothesis `EachYearOnce` of both is the one that
`ImportYearTwice` breaks: equal tax events of a year listed twice land once.

**Model-checked only.** The liveness properties, which are beyond the prover.
`EstimateIsTaxOfSelling` filters a sequence with `SelectSeq`, which the provers cannot
expand. `HonestBooksReconcile` is a statement about the books of its run and no
theorem: what an honest book is, is given by example.

## 5. Not modelled, and what is left

Not modelled: cell formatting and parsing (`serde_rows`, the cell syntax of
`import/parse`), rendering (`views`, `theme`, the text of `summary` and of the import's
report), URL building: conversions without state, covered by the repository's round-trip
tests. Authentication is I/O with one expiry check. `detect_and_rebuild`,
`verify_integrity` and `refresh` look for edits made by hand in the workbook, which no
model here has; nothing outside the tests calls the first. Of the terminal, the tax flows,
the lot picker, filters and sorting are left out, and the drill-down, which no key reaches.

Left: a `StoreCache` module with edits made in the workbook.
