------------------------------ MODULE Terminal ------------------------------
(***************************************************************************)
(* One terminal (pt tui) over a workbook that others write too: the keymap *)
(* of the shell, the entry form, the submit with its holds and retries,    *)
(* and the refreshes of the view, hourly ones among them.                  *)
(*                                                                         *)
(* Two fields stand for those of a form, the symbol and a number.  What a  *)
(* submit does to the log in detail is the subject of EventStore, and what *)
(* a refresh does of MarksCycle; here each is one step.  Screens, filters  *)
(* and the drill-down, which no key reaches, are left out.                 *)
(***************************************************************************)
EXTENDS Integers, Sequences, FiniteSets, TLC

CONSTANTS
    Flows,          \* the flows the owner opens
    Opening,        \* the log before the terminal starts
    Others,         \* the events another process may append
    SymbolTexts,    \* what a symbol field may hold
    NumberTexts,    \* what a number field may hold
    Amounts,        \* of them, those the kernel accepts
    Garbled,        \* and those that do not parse
    Aliases,        \* the symbols the alias table maps to another
    MaxDrafts,      \* bound on forms opened and fields edited
    MaxSeconds,     \* bound on the clock the local ids are taken from
    MaxFaults       \* bound on failures of the network and crashes

LedgerFlows == {"Buy", "Vest", "Sell", "Split"}
Events == [flow : LedgerFlows, id : 0..MaxSeconds, symbol : SymbolTexts, number : NumberTexts]

ASSUME BoundsAssumption ==
    /\ MaxDrafts \in Nat /\ MaxSeconds \in Nat \ {0} /\ MaxFaults \in Nat

\* A form starts with no symbol, and with zero or, a ratio, with one.
ASSUME TextsAssumption ==
    /\ "" \in SymbolTexts /\ {"zero", "one"} \subseteq NumberTexts
    /\ Amounts \cup Garbled \subseteq NumberTexts
    /\ Amounts \cap Garbled = {}

ASSUME EventsAssumption ==
    /\ Flows \subseteq LedgerFlows
    /\ Opening \in Seq(Events) /\ Others \subseteq Events

VARIABLES
    open,           \* whether the terminal runs
    stage,          \* of the event loop: the key or the tick after it
    mode, help, form,   \* the Model, its entry stack an Option
    shown, connection,  \* the view: how much of the log it is of
    due,            \* an hour has passed since the last successful refresh
    drafts,         \* forms opened and fields edited so far
    log, held, up,  \* the workbook, its lock in other hands, the network
    now, faults

owner == <<open, mode, help, form, drafts>>
view == <<shown, connection, due>>
workbook == <<log, held, up>>
world == <<now, faults>>
vars == <<owner, stage, view, workbook, world>>

Keys == {"Enter", "Esc", "Tab", "Backspace", "?", "r", "q", "c", "a", "b", "v", "s", "x"}
Chars == Keys \ {"Enter", "Esc", "Tab", "Backspace"}
FlowKeys == ("b" :> "Buy") @@ ("v" :> "Vest") @@ ("s" :> "Sell") @@ ("x" :> "Split")

-----------------------------------------------------------------------------
(***************************************************************************)
(* The form and the event it composes                                      *)
(***************************************************************************)
TheForm == CHOOSE f \in form : TRUE

\* The id is the prefix of the flow and the second the form was opened in; a
\* Split carries none.
NextLocalId(flow) == IF flow = "Split" THEN 0 ELSE now

\* A new form: the owner is at its first field.
Composing(flow) ==
    [flow |-> flow, id |-> NextLocalId(flow), symbol |-> "",
     number |-> IF flow = "Split" THEN "one" ELSE "zero",
     focus |-> 1, typing |-> FALSE, dirty |-> FALSE, phase |-> "Editing",
     confirmed |-> FALSE, frozen |-> {}, draft |-> drafts']

Compose(f) == [flow |-> f.flow, id |-> f.id, symbol |-> f.symbol, number |-> f.number]

OpensLot(e) == e.flow \in {"Buy", "Vest"}

\* Known to the view the terminal shows, or as an alias.
SymbolIsKnown(symbol) ==
    \/ symbol \in Aliases
    \/ \E i \in 1..shown : OpensLot(log[i].event) /\ log[i].event.symbol = symbol

NewSymbolGuard(f) == OpensLot(Compose(f)) /\ ~f.confirmed /\ ~SymbolIsKnown(f.symbol)

-----------------------------------------------------------------------------
(***************************************************************************)
(* The keymap                                                              *)
(***************************************************************************)
\* A Sell's form has the lot picker, whose keymap has no key that types.
EntryRoute(f, k) ==
    IF k = "Esc" THEN "EntryEscape"
    ELSE IF k = "Enter" THEN "EntryEnter"
    ELSE IF f.typing THEN
        IF k = "Backspace" THEN "EntryBackspace"
        ELSE IF k \in Chars THEN "EntryType" ELSE "Noop"
    ELSE IF k = "?" THEN "ToggleHelp"
    ELSE IF k = "c" /\ f.phase = "ConfirmNewSymbol" THEN "EntryConfirmNewSymbol"
    ELSE IF k = "Tab" THEN "EntryFocusNext"
    ELSE IF k \in Chars /\ f.flow # "Sell" THEN "EntryStartTyping" ELSE "Noop"

GlobalRoute(k) ==
    IF k = "Tab" THEN "ToggleMode"
    ELSE IF k = "r" THEN "Refresh"
    ELSE IF k = "?" THEN "ToggleHelp"
    ELSE IF mode = "Entry" THEN
        IF k = "Esc" THEN "ToggleMode"
        ELSE IF k \in DOMAIN FlowKeys THEN "OpenFlow" ELSE "Noop"
    ELSE IF k = "Esc" \/ (k = "q" /\ form = {}) THEN "Quit" ELSE "Noop"

\* Mutant of Route: tab leaves the Entry mode with a form open, too.
Route_GlobalTab(k) ==
    IF help THEN IF k \in {"Esc", "?"} THEN "ToggleHelp" ELSE "Noop"
    ELSE IF mode = "Entry" /\ form # {} /\ k # "Tab" THEN EntryRoute(TheForm, k)
    ELSE GlobalRoute(k)

\* The help overlay takes every key, then the form, then the screen.
Route(k) ==
    IF help THEN IF k \in {"Esc", "?"} THEN "ToggleHelp" ELSE "Noop"
    ELSE IF mode = "Entry" /\ form # {} THEN EntryRoute(TheForm, k)
    ELSE GlobalRoute(k)

\* Some key of the owner is routed to r, and the loop goes on to its tick.
Pressed(r) ==
    /\ open /\ stage = "key"
    /\ \E k \in Keys : Route(k) = r
    /\ stage' = "tick"

-----------------------------------------------------------------------------
(***************************************************************************)
(* Refreshing and submitting                                               *)
(***************************************************************************)
\* Only a refresh that succeeds starts a new hour.
RunRefresh ==
    IF up
    THEN shown' = Len(log') /\ connection' = "Live" /\ due' = FALSE
    ELSE connection' = "Offline" /\ UNCHANGED <<shown, due>>

Recorded(e) == \E i \in DOMAIN log : log[i].event = e

Revalidates(e) ==
    /\ e.flow # "Sell"
    /\ e.number \in Amounts
    /\ OpensLot(e) =>
         \A i \in DOMAIN log : ~(log[i].event.flow = e.flow /\ log[i].event.id = e.id)

\* What is in the log by its content is the same event, and skipped.
LandsAs(e, entry) == IF Recorded(e) THEN log ELSE Append(log, entry)

\* The submit of e, which the history variables of entry describe.
SubmitLedger(e, entry, outcome) ==
    \/ /\ outcome = "Unreachable" /\ ~up
       /\ UNCHANGED <<log, faults>>
    \/ /\ outcome = "Rejected" /\ up /\ ~Recorded(e) /\ ~Revalidates(e)
       /\ UNCHANGED <<log, faults>>
    \/ /\ up /\ (Recorded(e) \/ Revalidates(e))
       /\ \/ /\ outcome = "LockHeld" /\ held
             /\ UNCHANGED <<log, faults>>
          \/ /\ outcome = "Confirmed" /\ ~held
             /\ log' = LandsAs(e, entry)
             /\ UNCHANGED faults
          \/ /\ outcome = "Unverified" /\ ~held /\ faults < MaxFaults
             /\ log' \in {log, LandsAs(e, entry)}
             /\ faults' = faults + 1

\* What a submit makes of an event is remembered with it: the draft it was of,
\* and whether its symbol was known or confirmed.
Entry(f, e) ==
    [event |-> e, draft |-> f.draft, confirmed |-> f.confirmed, known |-> SymbolIsKnown(e.symbol)]

Outcomes == {"Confirmed", "Rejected", "LockHeld", "Unverified", "Unreachable"}

\* Mutant of Clears: a write that could not be verified is taken for done.
Clears_Sent(outcome) == outcome \in {"Confirmed", "Unverified"}

\* The entry is cleared only by durability.
Clears(outcome) == outcome = "Confirmed"

\* Confirmed, the form is left; otherwise it stays, e frozen for a retry.
Send(f, e, frozenIfRejected) ==
    \E outcome \in Outcomes :
        /\ SubmitLedger(e, Entry(f, e), outcome)
        /\ IF Clears(outcome)
           THEN form' = {} /\ mode' = "Views"
           ELSE /\ form' = {[f EXCEPT
                        !.phase = IF outcome = "Rejected" THEN "Rejected" ELSE "Retry",
                        !.frozen = IF outcome = "Rejected" THEN frozenIfRejected ELSE {e}]}
                /\ UNCHANGED mode

\* Control comes back before anything was sent.
Hold(f, phase, frozen) ==
    /\ form' = {[f EXCEPT !.phase = phase, !.frozen = frozen]}
    /\ UNCHANGED <<mode, log, faults>>

\* Mutant of Frozen: a retry composes the event anew, under a new id.
Frozen_Recomposed(f) == {[e EXCEPT !.id = NextLocalId(f.flow)] : e \in f.frozen}

\* The candidate of the last submit is sent as it was.
Frozen(f) == f.frozen

\* Each form of a submit has one of these reasons to go one way.
EntrySubmit(f) ==
    \/ \E e \in Frozen(f) : Send(f, e, f.frozen)
    \/ f.frozen = {} /\ f.number \in Garbled /\ Hold(f, "Rejected", {})
    \/ /\ f.frozen = {} /\ f.number \notin Garbled /\ NewSymbolGuard(f)
       /\ Hold(f, "ConfirmNewSymbol", {Compose(f)})
    \/ /\ f.frozen = {} /\ f.number \notin Garbled /\ ~NewSymbolGuard(f)
       /\ Send(f, Compose(f), {})

-----------------------------------------------------------------------------
(***************************************************************************)
(* Keys                                                                    *)
(***************************************************************************)
Init ==
    /\ open = FALSE /\ stage = "key"
    /\ mode = "Views" /\ help = FALSE /\ form = {} /\ drafts = 0
    /\ shown = 0 /\ connection = "Offline" /\ due = FALSE
    /\ log = [i \in DOMAIN Opening |->
                [event |-> Opening[i], draft |-> 0, confirmed |-> TRUE, known |-> TRUE]]
    /\ held = FALSE /\ up = TRUE
    /\ now = 1 /\ faults = 0

\* The cycle of the connect: without it, the view is blocked.
Connect ==
    /\ ~open
    /\ open' = TRUE /\ stage' = "key"
    /\ mode' = "Views" /\ help' = FALSE /\ form' = {}
    /\ shown' = (IF up THEN Len(log) ELSE 0)
    /\ connection' = (IF up THEN "Live" ELSE "Offline")
    /\ due' = FALSE
    /\ UNCHANGED <<drafts, workbook, world>>

Quit ==
    /\ Pressed("Quit")
    /\ open' = FALSE
    /\ UNCHANGED <<mode, help, form, drafts, view, workbook, world>>

ToggleMode ==
    /\ Pressed("ToggleMode")
    /\ mode' = IF mode = "Views" THEN "Entry" ELSE "Views"
    /\ UNCHANGED <<open, help, form, drafts, view, workbook, world>>

ToggleHelp ==
    /\ Pressed("ToggleHelp")
    /\ help' = ~help
    /\ UNCHANGED <<open, mode, form, drafts, view, workbook, world>>

Refresh ==
    /\ Pressed("Refresh")
    /\ UNCHANGED <<owner, workbook, world>>
    /\ RunRefresh

OpenFlow(flow) ==
    /\ stage = "key" /\ open /\ drafts < MaxDrafts
    /\ \E k \in DOMAIN FlowKeys : FlowKeys[k] = flow /\ Route(k) = "OpenFlow"
    /\ drafts' = drafts + 1
    /\ form' = {Composing(flow)}
    /\ mode' = "Entry" /\ stage' = "tick"
    /\ UNCHANGED <<open, help, view, workbook, world>>

\* A form has two fields: the next one is the previous one.
EntryFocusNext ==
    /\ Pressed("EntryFocusNext")
    /\ form' = {[TheForm EXCEPT !.focus = 3 - TheForm.focus]}
    /\ UNCHANGED <<open, mode, help, drafts, view, workbook, world>>

\* The texts the focused field may hold after a key more or less.
Edits(f) ==
    {[f EXCEPT !.symbol = t] : t \in IF f.focus = 1 THEN SymbolTexts \ {f.symbol} ELSE {}}
    \cup {[f EXCEPT !.number = t] : t \in IF f.focus = 2 THEN NumberTexts \ {f.number} ELSE {}}

\* An edit drops the frozen candidate; the phase stays as it is.
Edit(route) ==
    /\ Pressed(route)
    /\ drafts < MaxDrafts
    /\ drafts' = drafts + 1
    /\ \E g \in Edits(TheForm) :
          form' = {[g EXCEPT !.typing = TRUE, !.dirty = TRUE, !.frozen = {}, !.draft = drafts']}
    /\ UNCHANGED <<open, mode, help, view, workbook, world>>

EntryStartTyping == Edit("EntryStartTyping")
EntryType == Edit("EntryType")
EntryBackspace == Edit("EntryBackspace")

EntryEnter ==
    /\ Pressed("EntryEnter")
    /\ UNCHANGED <<open, help, drafts, held, up, now>>
    /\ IF TheForm.focus = 2
       THEN /\ EntrySubmit([TheForm EXCEPT !.typing = FALSE])
            /\ IF form' = {} THEN RunRefresh ELSE UNCHANGED view
       ELSE /\ form' = {[TheForm EXCEPT !.typing = FALSE, !.focus = 2]}
            /\ UNCHANGED <<mode, log, faults, view>>

\* Whether a field was edited or not, the shell drops the form.
EntryEscape ==
    /\ Pressed("EntryEscape")
    /\ IF TheForm.typing
       THEN form' = {[TheForm EXCEPT !.typing = FALSE]} /\ UNCHANGED mode
       ELSE form' = {} /\ mode' = "Views"
    /\ UNCHANGED <<open, help, drafts, view, workbook, world>>

\* The view is not refreshed after this submit.
EntryConfirmNewSymbol ==
    /\ Pressed("EntryConfirmNewSymbol")
    /\ EntrySubmit([TheForm EXCEPT !.confirmed = TRUE, !.frozen = {}])
    /\ UNCHANGED <<open, help, drafts, view, held, up, now>>

NoKey ==
    /\ open /\ stage = "key"
    /\ stage' = "tick"
    /\ UNCHANGED <<owner, view, workbook, world>>

\* Mutant of ShouldAutorefresh: an open help overlay holds the refresh back.
ShouldAutorefresh_NotUnderHelp == due /\ form = {} /\ ~help

ShouldAutorefresh == due /\ form = {}

Tick ==
    /\ open /\ stage = "tick"
    /\ stage' = "key"
    /\ UNCHANGED <<owner, workbook, world>>
    /\ IF ShouldAutorefresh THEN RunRefresh ELSE UNCHANGED view

-----------------------------------------------------------------------------
(***************************************************************************)
(* The world                                                               *)
(***************************************************************************)
\* The terminal is killed, and with it what was not submitted.
Crash ==
    /\ open /\ faults < MaxFaults
    /\ open' = FALSE /\ faults' = faults + 1
    /\ UNCHANGED <<mode, help, form, drafts, stage, view, workbook, now>>

HourPasses ==
    /\ open /\ ~due
    /\ due' = TRUE
    /\ UNCHANGED <<owner, stage, shown, connection, workbook, world>>

SecondPasses ==
    /\ now < MaxSeconds
    /\ now' = now + 1
    /\ UNCHANGED <<owner, stage, view, workbook, faults>>

NetworkFails ==
    /\ up /\ faults < MaxFaults
    /\ up' = FALSE /\ faults' = faults + 1
    /\ UNCHANGED <<owner, stage, view, log, held, now>>

NetworkRecovers ==
    /\ ~up
    /\ up' = TRUE
    /\ UNCHANGED <<owner, stage, view, log, held, world>>

\* Another process takes the lock, appends what it has, and gives it back.
OtherLocks ==
    /\ ~held
    /\ \E e \in Others : ~Recorded(e)
    /\ held' = TRUE
    /\ UNCHANGED <<owner, stage, view, log, up, world>>

OtherAppends ==
    /\ held
    /\ \E e \in {x \in Others : ~Recorded(x)} :
          log' = Append(log, [event |-> e, draft |-> 0, confirmed |-> TRUE, known |-> TRUE])
    /\ held' = FALSE
    /\ UNCHANGED <<owner, stage, view, up, world>>

OtherGivesUp ==
    /\ held
    /\ held' = FALSE
    /\ UNCHANGED <<owner, stage, view, log, up, world>>

Key ==
    \/ Quit \/ ToggleMode \/ ToggleHelp \/ Refresh
    \/ \E flow \in Flows : OpenFlow(flow)
    \/ EntryFocusNext \/ EntryStartTyping \/ EntryType \/ EntryBackspace
    \/ EntryEnter \/ EntryEscape \/ EntryConfirmNewSymbol

Loop == NoKey \/ Tick

World ==
    \/ Connect \/ Crash \/ HourPasses \/ SecondPasses
    \/ NetworkFails \/ NetworkRecovers
    \/ OtherLocks \/ OtherAppends \/ OtherGivesUp

Next == Key \/ Loop \/ World

\* The event loop polls without end, and hours pass.
TerminalSpec == Init /\ [][Next]_vars /\ WF_vars(NoKey) /\ WF_vars(Tick) /\ WF_vars(HourPasses)

-----------------------------------------------------------------------------
(***************************************************************************)
(* Properties                                                              *)
(***************************************************************************)
Phases == {"Editing", "Rejected", "Retry", "ConfirmNewSymbol"}
Forms ==
    [flow : Flows, id : 0..MaxSeconds, symbol : SymbolTexts, number : NumberTexts,
     focus : {1, 2}, typing : BOOLEAN, dirty : BOOLEAN, phase : Phases,
     confirmed : BOOLEAN, frozen : SUBSET Events, draft : 1..MaxDrafts]

\* Types of the terminal's state.  At most one form is open, in the Entry mode
\* (Model.entry and Model.mode of tui/src/lib.rs), and a form that asks for a
\* retry has what it would send.
TerminalTypeOK ==
    /\ open \in BOOLEAN /\ stage \in {"key", "tick"}
    /\ mode \in {"Views", "Entry"} /\ help \in BOOLEAN
    /\ Cardinality(form) <= 1
    /\ \A f \in form : /\ f \in Forms
                       /\ Cardinality(f.frozen) <= 1
                       /\ mode = "Entry"
    /\ drafts \in 0..MaxDrafts
    /\ shown \in 0..Len(log) /\ connection \in {"Live", "Offline"} /\ due \in BOOLEAN
    /\ held \in BOOLEAN /\ up \in BOOLEAN
    /\ now \in 1..MaxSeconds /\ faults \in 0..MaxFaults

\* However often a draft is sent, by a retry after a write that landed unheard
\* or with the lock in other hands, it is one event of the log
\* (entry_submit's frozen candidate, ledger_id_for_existing_content).
OneEventPerDraft ==
    \A i, j \in DOMAIN log : log[i].draft = log[j].draft /\ log[i].draft # 0 => i = j

\* What the form shows leaves it by an edit, by esc, with the terminal, or as
\* that very event into the log: no refresh, help overlay, hold or failure of a
\* submit takes it, and no retry records what is no longer on the screen
\* (tui-design.md: "either confirmed durable or still editable in front of the
\* owner").
KeepsOrRecords ==
    \A f \in form :
        \/ \E g \in form' : Compose(g) = Compose(f)
        \/ \E i \in DOMAIN log' : log'[i].event = Compose(f)
        \/ drafts' # drafts \/ open' # open \/ EntryEscape

EntryIsKeptOrDurable == [][KeepsOrRecords]_vars

\* A terminal left to itself comes to show the log as others left it, be the
\* help overlay open or not: an hour after the last refresh that succeeded it
\* refreshes, and goes on until that succeeds (should_autorefresh, run_refresh).
IdleViewCatchesUp == <>[](open /\ up /\ form = {}) => []<>(shown = Len(log))

\* A symbol that was neither held nor an alias is recorded only after the owner
\* confirmed it ("held (nothing written) ... until [c]onfirm",
\* tui/src/entry.rs).  Fails: enter on the prompt sends the frozen candidate.
NewSymbolIsConfirmed ==
    \A i \in DOMAIN log :
        OpensLot(log[i].event) => log[i].known \/ log[i].confirmed
=============================================================================
