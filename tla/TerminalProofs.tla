--------------------------- MODULE TerminalProofs ---------------------------
(***************************************************************************)
(* For any texts, log, clock and bounds: type correctness, that a draft is *)
(* recorded once, and that what the owner composed is kept or durable.     *)
(***************************************************************************)
EXTENDS Terminal, SequenceTheorems, FiniteSetTheorems, TLAPS

Entries == [event : Events, draft : 0..MaxDrafts, confirmed : BOOLEAN, known : BOOLEAN]

\* The control of the terminal and of its world.
ControlOK ==
    /\ open \in BOOLEAN /\ stage \in {"key", "tick"}
    /\ mode \in {"Views", "Entry"} /\ help \in BOOLEAN
    /\ drafts \in 0..MaxDrafts
    /\ shown \in 0..Len(log) /\ connection \in {"Live", "Offline"} /\ due \in BOOLEAN
    /\ held \in BOOLEAN /\ up \in BOOLEAN
    /\ now \in 1..MaxSeconds /\ faults \in 0..MaxFaults

\* Drafts are numbered as they come, and one of them is in the log once.
LogOK ==
    /\ log \in Seq(Entries)
    /\ \A i \in DOMAIN log : log[i].draft <= drafts
    /\ OneEventPerDraft

\* What f would send, and what the log has of its draft, is what f shows.
FormOK(f) ==
    /\ f \in Forms
    /\ f.draft <= drafts
    /\ f.frozen \subseteq {Compose(f)}
    /\ \A i \in DOMAIN log : log[i].draft = f.draft => log[i].event = Compose(f)

FormsOK ==
    /\ form # {} => mode = "Entry"
    /\ \A f, g \in form : f = g
    /\ \A f \in form : FormOK(f)

\* Inductive.
TerminalInv == ControlOK /\ LogOK /\ FormsOK

-----------------------------------------------------------------------------
(***************************************************************************)
(* Keys and forms                                                          *)
(***************************************************************************)
EntryRoutes ==
    {"EntryEnter", "EntryEscape", "EntryBackspace", "EntryType",
     "EntryStartTyping", "EntryFocusNext", "EntryConfirmNewSymbol"}

\* The keymap of the form has the routes of a form, help and no-ops.
LEMMA EntryRouteRange ==
    ASSUME NEW f, NEW k
    PROVE  EntryRoute(f, k) \in EntryRoutes \cup {"ToggleHelp", "Noop"}
  BY DEF EntryRoute, EntryRoutes

\* The keymap of the screen has none of the routes of a form.
LEMMA GlobalRouteRange ==
    ASSUME NEW k
    PROVE  GlobalRoute(k) \in {"ToggleMode", "Refresh", "ToggleHelp", "OpenFlow", "Quit", "Noop"}
  BY DEF GlobalRoute

\* A form's routes are of a form that is open.
LEMMA EntryRouteHasForm ==
    ASSUME NEW r \in EntryRoutes, Pressed(r)
    PROVE  mode = "Entry" /\ form # {} /\ open /\ stage' = "tick"
<1>1. PICK k \in Keys : Route(k) = r
  BY DEF Pressed
<1>2. mode = "Entry" /\ form # {}
  BY <1>1, GlobalRouteRange DEF Route, EntryRoutes
<1> QED BY <1>2 DEF Pressed

\* The screen's routes are of a screen without a form.
LEMMA GlobalRouteHasNoForm ==
    ASSUME NEW r \in {"ToggleMode", "Refresh", "OpenFlow", "Quit"},
           NEW k, Route(k) = r
    PROVE  ~(mode = "Entry" /\ form # {})
<1>1. r \notin EntryRoutes \cup {"ToggleHelp", "Noop"}
  BY DEF EntryRoutes
<1> QED BY <1>1, EntryRouteRange DEF Route

\* The form that is open is the one the keys are for.
LEMMA TheFormIsOpen ==
    ASSUME FormsOK, form # {}
    PROVE  form = {TheForm} /\ FormOK(TheForm) /\ mode = "Entry"
<1>1. TheForm \in form
  BY DEF TheForm
<1> QED BY <1>1 DEF FormsOK

\* Moving the focus, leaving a field and holding a form keep what it shows.
LEMMA SameDraft ==
    ASSUME NEW f, FormOK(f), NEW g \in Forms, UNCHANGED <<log, drafts>>,
           Compose(g) = Compose(f), g.draft = f.draft, g.frozen \subseteq {Compose(f)}
    PROVE  FormOK(g)'
  BY DEF FormOK, Forms

\* The event a form shows is one.
LEMMA ComposeType ==
    ASSUME NEW f \in Forms
    PROVE  Compose(f) \in Events
  BY EventsAssumption, BoundsAssumption DEF Compose, Forms, Events

-----------------------------------------------------------------------------
(***************************************************************************)
(* The submit                                                              *)
(***************************************************************************)
\* What a submit appends is an entry of the log.
LEMMA SubmittedEntry ==
    ASSUME NEW f \in Forms, NEW e \in Events
    PROVE  Entry(f, e) \in Entries /\ Entry(f, e).event = e /\ Entry(f, e).draft = f.draft
<1>1. SymbolIsKnown(e.symbol) \in BOOLEAN
  BY DEF SymbolIsKnown
<1>2. f.confirmed \in BOOLEAN /\ f.draft \in 0..MaxDrafts
  BY BoundsAssumption DEF Forms
<1> DEFINE known == SymbolIsKnown(e.symbol)
<1>3. Entry(f, e) = [event |-> e, draft |-> f.draft, confirmed |-> f.confirmed, known |-> known]
  BY Zenon DEF Entry
<1>4. known \in BOOLEAN
  BY <1>1
<1> HIDE DEF known
<1> QED BY <1>2, <1>3, <1>4 DEF Entries

\* An appended entry leaves those before it where they were.
LEMMA AppendedLog ==
    ASSUME log \in Seq(Entries), NEW x \in Entries, log' = Append(log, x)
    PROVE  /\ log' \in Seq(Entries) /\ Len(log') = Len(log) + 1
           /\ DOMAIN log' = DOMAIN log \cup {Len(log) + 1}
           /\ \A i \in DOMAIN log : log'[i] = log[i]
           /\ log'[Len(log) + 1] = x /\ Len(log) + 1 \notin DOMAIN log
  BY AppendProperties

\* What a form shows lands in the log once: a second time it is recorded already.
LEMMA LandsOnce ==
    ASSUME LogOK, NEW f, FormOK(f), drafts \in 0..MaxDrafts, UNCHANGED drafts,
           log' = LandsAs(Compose(f), Entry(f, Compose(f)))
    PROVE  /\ LogOK'
           /\ \A i \in DOMAIN log' : log'[i].draft = f.draft => log'[i].event = Compose(f)
           /\ \E i \in DOMAIN log' : log'[i].event = Compose(f)
           /\ Len(log') >= Len(log)
<1> DEFINE e == Compose(f)
<1>1. CASE Recorded(e)
  <2>1. log' = log
    BY <1>1 DEF LandsAs
  <2> QED BY <1>1, <2>1 DEF LogOK, OneEventPerDraft, FormOK, Recorded
<1>2. CASE ~Recorded(e)
  <2>1. e \in Events /\ f \in Forms /\ f.draft <= drafts /\ f.draft \in 1..MaxDrafts
    BY ComposeType DEF FormOK, Forms
  <2>2. Entry(f, e) \in Entries /\ Entry(f, e).event = e /\ Entry(f, e).draft = f.draft
    BY <2>1, SubmittedEntry
  <2>3. log' = Append(log, Entry(f, e))
    BY <1>2 DEF LandsAs
  <2>4. /\ log' \in Seq(Entries) /\ Len(log') = Len(log) + 1
        /\ DOMAIN log' = DOMAIN log \cup {Len(log) + 1}
        /\ \A i \in DOMAIN log : log'[i] = log[i]
        /\ log'[Len(log) + 1] = Entry(f, e) /\ Len(log) + 1 \notin DOMAIN log
    BY <2>2, <2>3, AppendedLog DEF LogOK
  <2>5. \A i \in DOMAIN log : log[i].draft # f.draft
    BY <1>2 DEF FormOK, Recorded
  <2>6. \A i \in DOMAIN log' : log'[i].draft <= drafts'
    BY <2>1, <2>2, <2>4 DEF LogOK
  <2>7. OneEventPerDraft'
    BY <2>2, <2>4, <2>5 DEF LogOK, OneEventPerDraft
  <2>8. Len(log') >= Len(log)
    BY <2>4 DEF LogOK
  <2> HIDE DEF e
  <2> QED BY <2>2, <2>4, <2>5, <2>6, <2>7, <2>8 DEF LogOK, e
<1> QED BY <1>1, <1>2

\* Sent, a form leaves the log either as it was or with what it shows, and goes
\* only with what it shows in the log.
LEMMA SendKeeps ==
    ASSUME LogOK, NEW f, FormOK(f), drafts \in 0..MaxDrafts, UNCHANGED drafts,
           faults \in 0..MaxFaults, mode = "Entry",
           NEW frozen, frozen \subseteq {Compose(f)}, Send(f, Compose(f), frozen)
    PROVE  /\ LogOK' /\ FormsOK' /\ Len(log') >= Len(log)
           /\ faults' \in 0..MaxFaults /\ mode' \in {"Views", "Entry"}
           /\ \/ \E g \in form' : Compose(g) = Compose(f)
              \/ \E i \in DOMAIN log' : log'[i].event = Compose(f)
<1> DEFINE e == Compose(f)
<1>1. PICK outcome \in Outcomes :
        /\ SubmitLedger(e, Entry(f, e), outcome)
        /\ IF Clears(outcome)
           THEN form' = {} /\ mode' = "Views"
           ELSE /\ form' = {[f EXCEPT
                        !.phase = IF outcome = "Rejected" THEN "Rejected" ELSE "Retry",
                        !.frozen = IF outcome = "Rejected" THEN frozen ELSE {e}]}
                /\ UNCHANGED mode
  BY Zenon DEF Send
<1>2. log' \in {log, LandsAs(e, Entry(f, e))} /\ faults' \in 0..MaxFaults
  BY <1>1, BoundsAssumption DEF SubmitLedger
<1>3. /\ LogOK' /\ Len(log') >= Len(log)
      /\ \A i \in DOMAIN log' : log'[i].draft = f.draft => log'[i].event = e
  <2>1. CASE log' = log
    BY <2>1 DEF LogOK, OneEventPerDraft, FormOK
  <2>2. CASE log' = LandsAs(e, Entry(f, e))
    BY <2>2, LandsOnce
  <2> QED BY <1>2, <2>1, <2>2
<1>4. CASE Clears(outcome)
  <2>1. form' = {} /\ mode' = "Views" /\ log' = LandsAs(e, Entry(f, e))
    BY <1>1, <1>4 DEF Clears, SubmitLedger
  <2>2. \E i \in DOMAIN log' : log'[i].event = e
    BY <2>1, LandsOnce
  <2> QED BY <1>2, <1>3, <2>1, <2>2 DEF FormsOK
<1>5. CASE ~Clears(outcome)
  <2> DEFINE g == [f EXCEPT !.phase = IF outcome = "Rejected" THEN "Rejected" ELSE "Retry",
                            !.frozen = IF outcome = "Rejected" THEN frozen ELSE {e}]
  <2>1. form' = {g} /\ mode' = "Entry"
    BY <1>1, <1>5
  <2>2. f \in Forms /\ e \in Events
    BY ComposeType DEF FormOK
  <2>3. g \in Forms /\ Compose(g) = e /\ g.draft = f.draft /\ g.frozen \subseteq {e}
    BY <2>2 DEF Forms, Compose, Phases
  <2>4. FormOK(g)'
    BY <1>3, <2>3 DEF FormOK
  <2> HIDE DEF g
  <2> QED BY <1>2, <1>3, <2>1, <2>3, <2>4 DEF FormsOK
<1> QED BY <1>4, <1>5

\* A submit in any of its forms: what is sent is what the form shows.
LEMMA SubmitKeeps ==
    ASSUME LogOK, NEW f, FormOK(f), drafts \in 0..MaxDrafts, UNCHANGED drafts,
           faults \in 0..MaxFaults, mode = "Entry", EntrySubmit(f)
    PROVE  /\ LogOK' /\ FormsOK' /\ Len(log') >= Len(log)
           /\ faults' \in 0..MaxFaults /\ mode' \in {"Views", "Entry"}
           /\ \/ \E g \in form' : Compose(g) = Compose(f)
              \/ \E i \in DOMAIN log' : log'[i].event = Compose(f)
<1>1. ASSUME NEW e \in Frozen(f), Send(f, e, f.frozen)
      PROVE  Send(f, Compose(f), f.frozen) /\ f.frozen \subseteq {Compose(f)}
  BY <1>1 DEF Frozen, FormOK
<1>2. ASSUME NEW phase \in Phases, NEW frozen, frozen \subseteq {Compose(f)}, Hold(f, phase, frozen)
      PROVE  /\ LogOK' /\ FormsOK' /\ Len(log') >= Len(log)
             /\ faults' \in 0..MaxFaults /\ mode' \in {"Views", "Entry"}
             /\ \E g \in form' : Compose(g) = Compose(f)
  <2> DEFINE g == [f EXCEPT !.phase = phase, !.frozen = frozen]
  <2>1. form' = {g} /\ UNCHANGED <<mode, log, faults>>
    BY <1>2 DEF Hold
  <2>2. f \in Forms /\ Compose(f) \in Events
    BY ComposeType DEF FormOK
  <2>3. g \in Forms /\ Compose(g) = Compose(f) /\ g.draft = f.draft /\ g.frozen \subseteq {Compose(f)}
    BY <1>2, <2>2 DEF Forms, Compose
  <2>4. FormOK(g)'
    BY <2>1, <2>3, SameDraft
  <2>5. LogOK' /\ Len(log') >= Len(log)
    BY <2>1 DEF LogOK, OneEventPerDraft
  <2> HIDE DEF g
  <2> QED BY <2>1, <2>3, <2>4, <2>5 DEF FormsOK
<1>3. CASE \E e \in Frozen(f) : Send(f, e, f.frozen)
  BY <1>1, <1>3, SendKeeps
<1>4. CASE Hold(f, "Rejected", {})
  BY <1>2, <1>4 DEF Phases
<1>5. CASE Hold(f, "ConfirmNewSymbol", {Compose(f)})
  BY <1>2, <1>5 DEF Phases
<1>6. CASE Send(f, Compose(f), {})
  BY <1>6, SendKeeps
<1> QED BY <1>3, <1>4, <1>5, <1>6 DEF EntrySubmit

-----------------------------------------------------------------------------
(***************************************************************************)
(* The steps                                                               *)
(***************************************************************************)
\* A refresh shows a prefix of the log.
LEMMA RefreshTypes ==
    ASSUME ControlOK, Len(log') \in Nat, Len(log') >= Len(log), RunRefresh, LogOK
    PROVE  /\ shown' \in 0..Len(log') /\ connection' \in {"Live", "Offline"} /\ due' \in BOOLEAN
<1>1. Len(log) \in Nat /\ shown \in 0..Len(log)
  BY LenProperties DEF ControlOK, LogOK
<1>2. CASE up
  <2>1. shown' = Len(log') /\ connection' = "Live" /\ due' = FALSE
    BY <1>2 DEF RunRefresh
  <2>2. shown' \in 0..Len(log')
    BY <2>1
  <2>3. due' \in BOOLEAN
    BY <2>1
  <2> QED BY <2>1, <2>2, <2>3
<1>3. CASE ~up
  <2>1. connection' = "Offline" /\ shown' = shown /\ due' = due /\ due \in BOOLEAN
    BY <1>3 DEF RunRefresh, ControlOK
  <2>2. shown' \in 0..Len(log')
    BY <1>1, <2>1
  <2> QED BY <2>1, <2>2
<1> QED BY <1>2, <1>3

\* Steps that leave the log and the drafts alone keep what holds of the log.
LEMMA SameLog ==
    ASSUME LogOK, UNCHANGED <<log, drafts>>
    PROVE  LogOK' /\ Len(log') = Len(log) /\ Len(log) \in Nat
  BY LenProperties DEF LogOK, OneEventPerDraft

\* Steps that leave the form alone, too, keep what holds of it.
LEMMA SameForms ==
    ASSUME FormsOK, UNCHANGED <<form, mode, log, drafts>>
    PROVE  FormsOK' /\ KeepsOrRecords
<1>1. \A f : FormOK(f)' <=> FormOK(f)
  BY DEF FormOK
<1> QED BY <1>1 DEF FormsOK, KeepsOrRecords

\* A form whose place another takes, with the same draft, stays.
LEMMA OneForm ==
    ASSUME FormsOK, NEW f, form = {f}, NEW g, form' = {g}, FormOK(g)', mode' = "Entry"
    PROVE  FormsOK' /\ (Compose(g) = Compose(f) => KeepsOrRecords)
  BY DEF FormsOK, KeepsOrRecords

\* Another process's entry is of no draft of this terminal.
LEMMA OtherAppendKeeps ==
    ASSUME TerminalInv, OtherAppends
    PROVE  LogOK' /\ FormsOK' /\ KeepsOrRecords /\ Len(log') = Len(log) + 1 /\ Len(log) \in Nat
<1>1. PICK e \in Others :
        log' = Append(log, [event |-> e, draft |-> 0, confirmed |-> TRUE, known |-> TRUE])
  BY DEF OtherAppends
<1> DEFINE x == [event |-> e, draft |-> 0, confirmed |-> TRUE, known |-> TRUE]
<1>2. x \in Entries /\ x.draft = 0
  BY EventsAssumption, BoundsAssumption DEF Entries
<1>3. UNCHANGED <<form, mode, drafts>> /\ drafts \in Nat
  BY DEF OtherAppends, owner, TerminalInv, ControlOK
<1> HIDE DEF x
<1>4. /\ log' \in Seq(Entries) /\ Len(log') = Len(log) + 1
      /\ DOMAIN log' = DOMAIN log \cup {Len(log) + 1}
      /\ \A i \in DOMAIN log : log'[i] = log[i]
      /\ log'[Len(log) + 1] = x /\ Len(log) + 1 \notin DOMAIN log
  BY <1>1, <1>2, AppendedLog DEF TerminalInv, LogOK, x
<1>5. OneEventPerDraft'
  BY <1>2, <1>4 DEF TerminalInv, LogOK, OneEventPerDraft
<1>6. LogOK' /\ Len(log) \in Nat
  BY <1>2, <1>3, <1>4, <1>5, LenProperties DEF TerminalInv, LogOK
<1>7. ASSUME NEW f, FormOK(f) PROVE FormOK(f)'
  <2>1. f.draft >= 1
    BY <1>7 DEF FormOK, Forms
  <2> QED BY <1>2, <1>3, <1>4, <1>7, <2>1 DEF FormOK
<1>8. FormsOK'
  BY <1>3, <1>7 DEF TerminalInv, FormsOK
<1>9. KeepsOrRecords
  BY <1>3 DEF KeepsOrRecords
<1> QED BY <1>4, <1>6, <1>8, <1>9

\* A new form is of a draft that is not in the log.
LEMMA OpenFlowKeeps ==
    ASSUME TerminalInv, NEW flow \in Flows, OpenFlow(flow)
    PROVE  FormsOK' /\ LogOK' /\ ControlOK'
<1>0. PICK g : g = Composing(flow)
  OBVIOUS
<1>1. /\ drafts' = drafts + 1 /\ drafts < MaxDrafts /\ drafts \in Nat
      /\ form' = {g} /\ mode' = "Entry" /\ stage' = "tick"
      /\ UNCHANGED <<open, help, shown, connection, due, log, held, up, now, faults>>
  BY <1>0, BoundsAssumption DEF TerminalInv, ControlOK, OpenFlow, view, workbook, world
<1>2. now \in 0..MaxSeconds /\ 0 \in 0..MaxSeconds
  BY BoundsAssumption DEF TerminalInv, ControlOK
<1>3. g \in Forms /\ g.draft = drafts' /\ g.frozen = {}
  <2>1. PICK id \in 0..MaxSeconds : id = NextLocalId(flow)
    BY <1>2 DEF NextLocalId
  <2>2. PICK n \in NumberTexts : n = IF flow = "Split" THEN "one" ELSE "zero"
    BY TextsAssumption
  <2>3. PICK d \in 1..MaxDrafts : d = drafts'
    BY <1>1, BoundsAssumption
  <2>4. g = [flow |-> flow, id |-> id, symbol |-> "", number |-> n,
             focus |-> 1, typing |-> FALSE, dirty |-> FALSE, phase |-> "Editing",
             confirmed |-> FALSE, frozen |-> {}, draft |-> d]
    BY <1>0, <2>1, <2>2, <2>3 DEF Composing
  <2>5. "Editing" \in Phases /\ "" \in SymbolTexts /\ {} \in SUBSET Events
    BY TextsAssumption DEF Phases
  <2> QED BY <2>3, <2>4, <2>5 DEF Forms
<1>4. \A i \in DOMAIN log : log[i].draft < drafts'
  <2>1. \A i \in DOMAIN log : log[i] \in Entries
    BY ElementOfSeq DEF TerminalInv, LogOK
  <2> QED BY <1>1, <2>1 DEF TerminalInv, LogOK, Entries
<1>5. FormOK(g)'
  BY <1>1, <1>3, <1>4 DEF FormOK
<1>6. FormsOK'
  BY <1>1, <1>5 DEF FormsOK
<1>7. LogOK'
  <2>1. \A i \in DOMAIN log : log'[i].draft <= drafts'
    <3>1. \A i \in DOMAIN log : log[i] \in Entries
      BY ElementOfSeq DEF TerminalInv, LogOK
    <3> QED BY <1>1, <1>4, <3>1 DEF Entries
  <2> QED BY <1>1, <2>1 DEF TerminalInv, LogOK, OneEventPerDraft
<1>8. ControlOK'
  BY <1>1, BoundsAssumption DEF TerminalInv, ControlOK
<1> QED BY <1>6, <1>7, <1>8

\* So is a form one of whose fields was edited.
LEMMA EditKeeps ==
    ASSUME TerminalInv, NEW r \in EntryRoutes, Edit(r)
    PROVE  FormsOK' /\ LogOK' /\ ControlOK' /\ KeepsOrRecords
<1>1. mode = "Entry" /\ form # {} /\ open /\ stage' = "tick"
  BY EntryRouteHasForm DEF Edit
<1>2. FormOK(TheForm)
  BY <1>1, TheFormIsOpen DEF TerminalInv
<1>3. PICK g \in Edits(TheForm) :
        form' = {[g EXCEPT !.typing = TRUE, !.dirty = TRUE, !.frozen = {}, !.draft = drafts']}
  BY DEF Edit
<1>4. g \in Forms
  BY <1>2, <1>3 DEF FormOK, Edits, Forms
<1>0. PICK h : h = [g EXCEPT !.typing = TRUE, !.dirty = TRUE, !.frozen = {}, !.draft = drafts']
  OBVIOUS
<1>5. /\ drafts' = drafts + 1 /\ drafts < MaxDrafts /\ drafts \in Nat
      /\ UNCHANGED <<open, mode, help, shown, connection, due, log, held, up, now, faults>>
  BY BoundsAssumption DEF TerminalInv, ControlOK, Edit, view, workbook, world
<1>6. h \in Forms /\ h.draft = drafts' /\ h.frozen = {}
  <2>1. PICK d \in 1..MaxDrafts : d = drafts'
    BY <1>5, BoundsAssumption
  <2>2. h = [g EXCEPT !.typing = TRUE, !.dirty = TRUE, !.frozen = {}, !.draft = d]
    BY <1>0, <2>1
  <2> QED BY <1>4, <2>1, <2>2 DEF Forms
<1>7. form' = {h}
  BY <1>0, <1>3
<1>8. \A i \in DOMAIN log : log[i].draft < drafts'
  <2>1. \A i \in DOMAIN log : log[i] \in Entries
    BY ElementOfSeq DEF TerminalInv, LogOK
  <2> QED BY <1>5, <2>1 DEF TerminalInv, LogOK, Entries
<1>9. FormOK(h)'
  BY <1>5, <1>6, <1>8 DEF FormOK
<1>10. FormsOK'
  BY <1>1, <1>5, <1>7, <1>9 DEF FormsOK
<1>11. LogOK'
  <2>1. \A i \in DOMAIN log : log'[i].draft <= drafts'
    <3>1. \A i \in DOMAIN log : log[i] \in Entries
      BY ElementOfSeq DEF TerminalInv, LogOK
    <3> QED BY <1>5, <1>8, <3>1 DEF Entries
  <2> QED BY <1>5, <2>1 DEF TerminalInv, LogOK, OneEventPerDraft
<1>12. ControlOK'
  BY <1>1, <1>5, BoundsAssumption DEF TerminalInv, ControlOK
<1>13. KeepsOrRecords
  BY <1>5 DEF KeepsOrRecords
<1> QED BY <1>10, <1>11, <1>12, <1>13

\* A key that moves within the form, or leaves a field.
LEMMA FieldKeeps ==
    ASSUME TerminalInv, form # {}, NEW f, f = TheForm, NEW focus \in {1, 2}, NEW typing \in BOOLEAN,
           form' = {[f EXCEPT !.focus = focus, !.typing = typing]}, UNCHANGED <<mode, log, drafts>>
    PROVE  FormsOK' /\ KeepsOrRecords
<1> DEFINE g == [f EXCEPT !.focus = focus, !.typing = typing]
<1>1. form = {f} /\ FormOK(f) /\ mode = "Entry"
  BY TheFormIsOpen DEF TerminalInv
<1>2. g \in Forms /\ Compose(g) = Compose(f) /\ g.draft = f.draft /\ g.frozen \subseteq {Compose(f)}
  BY <1>1 DEF FormOK, Forms, Compose
<1>3. FormOK(g)'
  BY <1>1, <1>2, SameDraft
<1>4. form' = {g}
  OBVIOUS
<1> HIDE DEF g
<1> QED BY <1>1, <1>2, <1>3, <1>4, OneForm DEF TerminalInv

\* Tab moves within the form.
LEMMA FocusNextKeeps ==
    ASSUME TerminalInv, EntryFocusNext
    PROVE  TerminalInv' /\ KeepsOrRecords
<1>1. mode = "Entry" /\ form # {} /\ open /\ stage' = "tick"
  BY EntryRouteHasForm DEF EntryFocusNext, EntryRoutes
<1>2. PICK f : f = TheForm
  OBVIOUS
<1>3. FormOK(f)
  BY <1>1, <1>2, TheFormIsOpen DEF TerminalInv
<1>4. 3 - f.focus \in {1, 2} /\ f.typing \in BOOLEAN
  BY <1>3 DEF FormOK, Forms
<1>5. form' = {[f EXCEPT !.focus = 3 - f.focus, !.typing = f.typing]}
  BY <1>2, <1>3 DEF EntryFocusNext, FormOK, Forms
<1>6. UNCHANGED <<open, mode, help, shown, connection, due, drafts, log, held, up, now, faults>>
  BY DEF EntryFocusNext, view, workbook, world
<1>7. FormsOK' /\ KeepsOrRecords
  BY <1>1, <1>2, <1>4, <1>5, <1>6, FieldKeeps
<1>8. LogOK'
  BY <1>6, SameLog DEF TerminalInv
<1>9. ControlOK'
  BY <1>1, <1>6 DEF TerminalInv, ControlOK
<1> QED BY <1>7, <1>8, <1>9 DEF TerminalInv

\* Esc leaves the field, or the form without a submit.
LEMMA EscapeKeeps ==
    ASSUME TerminalInv, EntryEscape
    PROVE  TerminalInv' /\ KeepsOrRecords
<1>1. mode = "Entry" /\ form # {} /\ open /\ stage' = "tick"
  BY EntryRouteHasForm DEF EntryEscape, EntryRoutes
<1>2. PICK f : f = TheForm
  OBVIOUS
<1>3. FormOK(f)
  BY <1>1, <1>2, TheFormIsOpen DEF TerminalInv
<1>4. UNCHANGED <<open, help, shown, connection, due, drafts, log, held, up, now, faults>>
  BY DEF EntryEscape, view, workbook, world
<1>5. FormsOK' /\ mode' \in {"Views", "Entry"}
  <2>1. CASE f.typing
    <3>1. form' = {[f EXCEPT !.focus = f.focus, !.typing = FALSE]} /\ UNCHANGED mode
      BY <1>2, <1>3, <2>1 DEF EntryEscape, FormOK, Forms
    <3>2. f.focus \in {1, 2} /\ FALSE \in BOOLEAN
      BY <1>3 DEF FormOK, Forms
    <3> QED BY <1>1, <1>2, <1>4, <3>1, <3>2, FieldKeeps
  <2>2. CASE ~f.typing
    <3>1. form' = {} /\ mode' = "Views"
      BY <1>2, <2>2 DEF EntryEscape
    <3> QED BY <3>1 DEF FormsOK
  <2> QED BY <2>1, <2>2
<1>6. LogOK'
  BY <1>4, SameLog DEF TerminalInv
<1>7. ControlOK'
  BY <1>1, <1>4, <1>5 DEF TerminalInv, ControlOK
<1> QED BY <1>5, <1>6, <1>7 DEF TerminalInv, KeepsOrRecords

\* A submit of the form that is open, with no field being edited.
LEMMA SubmitStep ==
    ASSUME TerminalInv, form # {}, NEW f, f \in Forms, Compose(f) = Compose(TheForm),
           f.draft = TheForm.draft, f.frozen \subseteq TheForm.frozen,
           EntrySubmit(f), UNCHANGED drafts
    PROVE  /\ LogOK' /\ FormsOK' /\ KeepsOrRecords
           /\ faults' \in 0..MaxFaults /\ mode' \in {"Views", "Entry"}
           /\ Len(log') \in Nat /\ Len(log') >= Len(log) /\ Len(log) \in Nat
<1>1. form = {TheForm} /\ FormOK(TheForm) /\ mode = "Entry"
  BY TheFormIsOpen DEF TerminalInv
<1>2. FormOK(f)
  BY <1>1 DEF FormOK
<1>3. /\ LogOK' /\ FormsOK' /\ Len(log') >= Len(log)
      /\ faults' \in 0..MaxFaults /\ mode' \in {"Views", "Entry"}
      /\ \/ \E g \in form' : Compose(g) = Compose(f)
         \/ \E i \in DOMAIN log' : log'[i].event = Compose(f)
  BY <1>1, <1>2, SubmitKeeps DEF TerminalInv, ControlOK
<1>4. Len(log') \in Nat /\ Len(log) \in Nat
  BY <1>3, LenProperties DEF TerminalInv, LogOK
<1>5. KeepsOrRecords
  BY <1>1, <1>3 DEF KeepsOrRecords
<1> QED BY <1>3, <1>4, <1>5

\* Enter goes to the next field or, on the last, submits what the form shows.
LEMMA EnterKeeps ==
    ASSUME TerminalInv, EntryEnter
    PROVE  TerminalInv' /\ KeepsOrRecords
<1>1. mode = "Entry" /\ form # {} /\ open /\ stage' = "tick"
  BY EntryRouteHasForm DEF EntryEnter, EntryRoutes
<1>2. FormOK(TheForm)
  BY <1>1, TheFormIsOpen DEF TerminalInv
<1>3. UNCHANGED <<open, help, drafts, held, up, now>>
  BY DEF EntryEnter
<1>4. CASE TheForm.focus = 2
  <2>1. PICK f : f = [TheForm EXCEPT !.typing = FALSE]
    OBVIOUS
  <2>2. /\ f \in Forms /\ Compose(f) = Compose(TheForm)
        /\ f.draft = TheForm.draft /\ f.frozen \subseteq TheForm.frozen
    BY <1>2, <2>1 DEF FormOK, Forms, Compose
  <2>3. EntrySubmit(f) /\ IF form' = {} THEN RunRefresh ELSE UNCHANGED view
    BY <1>4, <2>1 DEF EntryEnter
  <2>4. /\ LogOK' /\ FormsOK' /\ KeepsOrRecords
        /\ faults' \in 0..MaxFaults /\ mode' \in {"Views", "Entry"}
        /\ Len(log') \in Nat /\ Len(log') >= Len(log) /\ Len(log) \in Nat
    BY <1>1, <1>3, <2>2, <2>3, SubmitStep
  <2>5. shown' \in 0..Len(log') /\ connection' \in {"Live", "Offline"} /\ due' \in BOOLEAN
    <3>1. CASE RunRefresh
      BY <2>4, <3>1, RefreshTypes DEF TerminalInv
    <3>2. CASE UNCHANGED view
      <4>1. UNCHANGED <<shown, connection, due>>
        BY <3>2 DEF view
      <4>2. shown' \in 0..Len(log')
        BY <2>4, <4>1 DEF TerminalInv, ControlOK
      <4> QED BY <4>1, <4>2 DEF TerminalInv, ControlOK
    <3> QED BY <2>3, <3>1, <3>2
  <2>6. ControlOK'
    BY <1>1, <1>3, <2>4, <2>5 DEF TerminalInv, ControlOK
  <2> QED BY <2>4, <2>6 DEF TerminalInv
<1>5. CASE TheForm.focus # 2
  <2>1. PICK f : f = TheForm
    OBVIOUS
  <2>2. form' = {[f EXCEPT !.focus = 2, !.typing = FALSE]}
    BY <1>2, <1>5, <2>1 DEF EntryEnter, FormOK, Forms
  <2>3. UNCHANGED <<mode, log, faults, shown, connection, due>>
    BY <1>5 DEF EntryEnter, view
  <2>4. FormsOK' /\ KeepsOrRecords
    BY <1>1, <1>3, <2>1, <2>2, <2>3, FieldKeeps
  <2>5. LogOK'
    BY <1>3, <2>3, SameLog DEF TerminalInv
  <2>6. ControlOK'
    BY <1>1, <1>3, <2>3 DEF TerminalInv, ControlOK
  <2> QED BY <2>4, <2>5, <2>6 DEF TerminalInv
<1> QED BY <1>4, <1>5

\* A confirmation submits what the form shows.
LEMMA ConfirmNewSymbolKeeps ==
    ASSUME TerminalInv, EntryConfirmNewSymbol
    PROVE  TerminalInv' /\ KeepsOrRecords
<1>1. mode = "Entry" /\ form # {} /\ open /\ stage' = "tick"
  BY EntryRouteHasForm DEF EntryConfirmNewSymbol, EntryRoutes
<1>2. FormOK(TheForm)
  BY <1>1, TheFormIsOpen DEF TerminalInv
<1>3. UNCHANGED <<open, help, drafts, shown, connection, due, held, up, now>>
  BY DEF EntryConfirmNewSymbol, view
<1>4. PICK f : f = [TheForm EXCEPT !.confirmed = TRUE, !.frozen = {}]
  OBVIOUS
<1>5. /\ f \in Forms /\ Compose(f) = Compose(TheForm)
      /\ f.draft = TheForm.draft /\ f.frozen \subseteq TheForm.frozen
  BY <1>2, <1>4 DEF FormOK, Forms, Compose
<1>6. EntrySubmit(f)
  BY <1>4 DEF EntryConfirmNewSymbol
<1>7. /\ LogOK' /\ FormsOK' /\ KeepsOrRecords
      /\ faults' \in 0..MaxFaults /\ mode' \in {"Views", "Entry"}
      /\ Len(log') \in Nat /\ Len(log') >= Len(log) /\ Len(log) \in Nat
  BY <1>1, <1>3, <1>5, <1>6, SubmitStep
<1>8. shown' \in 0..Len(log')
  BY <1>3, <1>7 DEF TerminalInv, ControlOK
<1>9. ControlOK'
  BY <1>1, <1>3, <1>7, <1>8 DEF TerminalInv, ControlOK
<1> QED BY <1>7, <1>9 DEF TerminalInv

\* Keys and ticks that concern the screen: at most the mode, with no form open,
\* and the view change.
LEMMA ScreenKeeps ==
    ASSUME TerminalInv, UNCHANGED <<form, drafts, log, faults>>,
           mode' = mode \/ form = {}, mode' \in {"Views", "Entry"},
           open' \in BOOLEAN, stage' \in {"key", "tick"}, help' \in BOOLEAN,
           shown' \in 0..Len(log), connection' \in {"Live", "Offline"}, due' \in BOOLEAN,
           held' \in BOOLEAN, up' \in BOOLEAN, now' \in 1..MaxSeconds
    PROVE  TerminalInv' /\ KeepsOrRecords
<1>1. LogOK' /\ Len(log') = Len(log)
  BY SameLog DEF TerminalInv
<1>2. FormsOK' /\ KeepsOrRecords
  <2>1. CASE mode' = mode
    BY <2>1, SameForms DEF TerminalInv
  <2>2. CASE form = {}
    BY <2>2 DEF FormsOK, KeepsOrRecords
  <2> QED BY <2>1, <2>2
<1>3. ControlOK'
  BY <1>1 DEF TerminalInv, ControlOK
<1> QED BY <1>1, <1>2, <1>3 DEF TerminalInv

\* A refresh with no other change of the terminal.
LEMMA RefreshKeeps ==
    ASSUME TerminalInv, RunRefresh, UNCHANGED <<owner, workbook, world>>, stage' \in {"key", "tick"}
    PROVE  TerminalInv' /\ KeepsOrRecords
<1>1. UNCHANGED <<open, mode, help, form, drafts, log, held, up, now, faults>>
  BY DEF owner, workbook, world
<1>2. Len(log) \in Nat
  BY LenProperties DEF TerminalInv, LogOK
<1>3. shown' \in 0..Len(log) /\ connection' \in {"Live", "Offline"} /\ due' \in BOOLEAN
  BY <1>1, <1>2, RefreshTypes DEF TerminalInv
<1> QED BY <1>1, <1>3, ScreenKeeps DEF TerminalInv, ControlOK

\* No key breaks the invariant.
LEMMA KeyKeeps ==
    ASSUME TerminalInv, Key
    PROVE  TerminalInv' /\ KeepsOrRecords
<1>1. CASE Quit
  <2>1. ~(mode = "Entry" /\ form # {}) /\ stage' = "tick"
    BY <1>1, GlobalRouteHasNoForm DEF Quit, Pressed
  <2>2. open' = FALSE /\ UNCHANGED <<mode, help, form, drafts, shown, connection, due, log, held, up, now, faults>>
    BY <1>1 DEF Quit, view, workbook, world
  <2>3. open' \in BOOLEAN
    BY <2>2
  <2> QED BY <2>1, <2>2, <2>3, ScreenKeeps DEF TerminalInv, ControlOK
<1>2. CASE ToggleMode
  <2>1. ~(mode = "Entry" /\ form # {}) /\ stage' = "tick"
    BY <1>2, GlobalRouteHasNoForm DEF ToggleMode, Pressed
  <2>2. form = {}
    BY <2>1 DEF TerminalInv, FormsOK
  <2>3. /\ mode' \in {"Views", "Entry"}
        /\ UNCHANGED <<open, help, form, drafts, shown, connection, due, log, held, up, now, faults>>
    BY <1>2 DEF ToggleMode, view, workbook, world
  <2> QED BY <2>1, <2>2, <2>3, ScreenKeeps DEF TerminalInv, ControlOK
<1>3. CASE ToggleHelp
  <2>1. /\ stage' = "tick" /\ help' \in BOOLEAN
        /\ UNCHANGED <<open, mode, form, drafts, shown, connection, due, log, held, up, now, faults>>
    BY <1>3 DEF ToggleHelp, Pressed, view, workbook, world
  <2> QED BY <2>1, ScreenKeeps DEF TerminalInv, ControlOK
<1>4. CASE Refresh
  <2>1. stage' = "tick"
    BY <1>4 DEF Refresh, Pressed
  <2> QED BY <1>4, <2>1, RefreshKeeps DEF Refresh
<1>5. ASSUME NEW flow \in Flows, OpenFlow(flow)
      PROVE  TerminalInv' /\ KeepsOrRecords
  <2>1. TerminalInv'
    BY <1>5, OpenFlowKeeps DEF TerminalInv
  <2>2. drafts' # drafts
    BY <1>5, BoundsAssumption DEF OpenFlow, TerminalInv, ControlOK
  <2> QED BY <2>1, <2>2 DEF KeepsOrRecords
<1>6. CASE EntryFocusNext
  BY <1>6, FocusNextKeeps
<1>7. ASSUME NEW r \in EntryRoutes, Edit(r)
      PROVE  TerminalInv' /\ KeepsOrRecords
  BY <1>7, EditKeeps DEF TerminalInv
<1>8. CASE EntryEnter
  BY <1>8, EnterKeeps
<1>9. CASE EntryEscape
  BY <1>9, EscapeKeeps
<1>10. CASE EntryConfirmNewSymbol
  BY <1>10, ConfirmNewSymbolKeeps
<1>11. CASE EntryStartTyping
  BY <1>7, <1>11 DEF EntryStartTyping, EntryRoutes
<1>12. CASE EntryType
  BY <1>7, <1>12 DEF EntryType, EntryRoutes
<1>13. CASE EntryBackspace
  BY <1>7, <1>13 DEF EntryBackspace, EntryRoutes
<1> QED
  BY <1>1, <1>2, <1>3, <1>4, <1>5, <1>6, <1>8, <1>9, <1>10, <1>11, <1>12, <1>13 DEF Key

\* Nor does the event loop, which may refresh the view.
LEMMA LoopKeeps ==
    ASSUME TerminalInv, Loop
    PROVE  TerminalInv' /\ KeepsOrRecords
<1>1. CASE NoKey
  <2>1. /\ stage' = "tick"
        /\ UNCHANGED <<open, mode, help, form, drafts, shown, connection, due, log, held, up, now, faults>>
    BY <1>1 DEF NoKey, owner, view, workbook, world
  <2> QED BY <2>1, ScreenKeeps DEF TerminalInv, ControlOK
<1>2. CASE Tick
  <2>1. stage' = "key" /\ UNCHANGED <<owner, workbook, world>> /\ (RunRefresh \/ UNCHANGED view)
    BY <1>2 DEF Tick
  <2>2. CASE RunRefresh
    BY <2>1, <2>2, RefreshKeeps
  <2>3. CASE UNCHANGED view
    <3>1. UNCHANGED <<open, mode, help, form, drafts, shown, connection, due, log, held, up, now, faults>>
      BY <2>1, <2>3 DEF owner, view, workbook, world
    <3> QED BY <2>1, <3>1, ScreenKeeps DEF TerminalInv, ControlOK
  <2> QED BY <2>1, <2>2, <2>3
<1> QED BY <1>1, <1>2 DEF Loop

\* Nor do crashes, restarts, clocks, the network and other writers.
LEMMA WorldKeeps ==
    ASSUME TerminalInv, World
    PROVE  TerminalInv' /\ KeepsOrRecords
<1>1. CASE Connect
  <2>1. /\ open' = TRUE /\ ~open /\ stage' = "key" /\ mode' = "Views" /\ help' = FALSE /\ form' = {}
        /\ shown' = (IF up THEN Len(log) ELSE 0)
        /\ connection' = (IF up THEN "Live" ELSE "Offline") /\ due' = FALSE
        /\ UNCHANGED <<drafts, log, held, up, now, faults>>
    BY <1>1 DEF Connect, workbook, world
  <2>2. LogOK' /\ Len(log') = Len(log) /\ Len(log) \in Nat
    BY <2>1, SameLog DEF TerminalInv
  <2>3. shown' \in 0..Len(log') /\ connection' \in {"Live", "Offline"}
    BY <2>1, <2>2
  <2>4. open' \in BOOLEAN /\ help' \in BOOLEAN /\ due' \in BOOLEAN
    BY <2>1
  <2>5. ControlOK'
    BY <2>1, <2>3, <2>4 DEF TerminalInv, ControlOK
  <2>6. open' # open
    BY <2>1
  <2> QED BY <2>1, <2>2, <2>5, <2>6 DEF TerminalInv, FormsOK, KeepsOrRecords
<1>2. CASE Crash
  <2>1. /\ open' = FALSE /\ open /\ faults' = faults + 1 /\ faults < MaxFaults
        /\ UNCHANGED <<mode, help, form, drafts, stage, shown, connection, due, log, held, up, now>>
    BY <1>2 DEF Crash, view, workbook
  <2>2. LogOK' /\ FormsOK'
    BY <2>1, SameLog, SameForms DEF TerminalInv
  <2>3. faults' \in 0..MaxFaults /\ open' \in BOOLEAN
    <3>1. faults' \in 0..MaxFaults
      BY <2>1, BoundsAssumption DEF TerminalInv, ControlOK
    <3>2. open' \in BOOLEAN
      BY <2>1
    <3> QED BY <3>1, <3>2
  <2>4. ControlOK'
    BY <2>1, <2>3 DEF TerminalInv, ControlOK
  <2>5. open' # open
    BY <2>1
  <2> QED BY <2>2, <2>4, <2>5 DEF TerminalInv, KeepsOrRecords
<1>3. CASE HourPasses
  <2>1. /\ due' = TRUE
        /\ UNCHANGED <<open, stage, mode, help, form, drafts, shown, connection, log, held, up, now, faults>>
    BY <1>3 DEF HourPasses, owner, workbook, world
  <2>2. due' \in BOOLEAN
    BY <2>1
  <2> QED BY <2>1, <2>2, ScreenKeeps DEF TerminalInv, ControlOK
<1>4. CASE SecondPasses
  <2>1. /\ now' = now + 1 /\ now < MaxSeconds
        /\ UNCHANGED <<open, stage, mode, help, form, drafts, shown, connection, due, log, held, up, faults>>
    BY <1>4 DEF SecondPasses, owner, view, workbook
  <2>2. now' \in 1..MaxSeconds
    BY <2>1, BoundsAssumption DEF TerminalInv, ControlOK
  <2> QED BY <2>1, <2>2, ScreenKeeps DEF TerminalInv, ControlOK
<1>5. CASE NetworkFails
  <2>1. /\ up' = FALSE /\ faults' = faults + 1 /\ faults < MaxFaults
        /\ UNCHANGED <<open, stage, mode, help, form, drafts, shown, connection, due, log, held, now>>
    BY <1>5 DEF NetworkFails, owner, view
  <2>2. LogOK' /\ FormsOK' /\ KeepsOrRecords
    BY <2>1, SameLog, SameForms DEF TerminalInv
  <2>3. faults' \in 0..MaxFaults /\ up' \in BOOLEAN
    <3>1. faults' \in 0..MaxFaults
      BY <2>1, BoundsAssumption DEF TerminalInv, ControlOK
    <3>2. up' \in BOOLEAN
      BY <2>1
    <3> QED BY <3>1, <3>2
  <2>4. ControlOK'
    BY <2>1, <2>3 DEF TerminalInv, ControlOK
  <2> QED BY <2>2, <2>4 DEF TerminalInv
<1>6. CASE NetworkRecovers
  <2>1. /\ up' = TRUE
        /\ UNCHANGED <<open, stage, mode, help, form, drafts, shown, connection, due, log, held, now, faults>>
    BY <1>6 DEF NetworkRecovers, owner, view, world
  <2>2. up' \in BOOLEAN
    BY <2>1
  <2> QED BY <2>1, <2>2, ScreenKeeps DEF TerminalInv, ControlOK
<1>7. CASE OtherLocks \/ OtherGivesUp
  <2>1. /\ held' \in BOOLEAN
        /\ UNCHANGED <<open, stage, mode, help, form, drafts, shown, connection, due, log, up, now, faults>>
    BY <1>7 DEF OtherLocks, OtherGivesUp, owner, view, world
  <2> QED BY <2>1, ScreenKeeps DEF TerminalInv, ControlOK
<1>8. CASE OtherAppends
  <2>1. LogOK' /\ FormsOK' /\ KeepsOrRecords /\ Len(log') = Len(log) + 1 /\ Len(log) \in Nat
    BY <1>8, OtherAppendKeeps
  <2>2. /\ held' = FALSE
        /\ UNCHANGED <<open, stage, mode, help, form, drafts, shown, connection, due, up, now, faults>>
    BY <1>8 DEF OtherAppends, owner, view, world
  <2>3. shown' \in 0..Len(log') /\ held' \in BOOLEAN
    <3>1. shown' \in 0..Len(log')
      BY <2>1, <2>2 DEF TerminalInv, ControlOK
    <3>2. held' \in BOOLEAN
      BY <2>2
    <3> QED BY <3>1, <3>2
  <2>4. ControlOK'
    BY <2>2, <2>3 DEF TerminalInv, ControlOK
  <2> QED BY <2>1, <2>4 DEF TerminalInv
<1> QED BY <1>1, <1>2, <1>3, <1>4, <1>5, <1>6, <1>7, <1>8 DEF World

\* A step of something else keeps the invariant.
LEMMA StutterKeeps ==
    ASSUME TerminalInv, UNCHANGED vars
    PROVE  TerminalInv'
<1>1. UNCHANGED <<open, stage, mode, help, form, drafts, shown, connection, due, log, held, up, now, faults>>
  BY DEF vars, owner, view, workbook, world
<1> QED BY <1>1, ScreenKeeps DEF TerminalInv, ControlOK

-----------------------------------------------------------------------------
(***************************************************************************)
(* The theorems                                                            *)
(***************************************************************************)
\* The terminal starts with no form and a log of others' events.
LEMMA InitTerminal == Init => TerminalInv
<1> SUFFICES ASSUME Init PROVE TerminalInv
  OBVIOUS
<1>1. /\ open = FALSE /\ stage = "key" /\ mode = "Views" /\ help = FALSE /\ form = {} /\ drafts = 0
      /\ shown = 0 /\ connection = "Offline" /\ due = FALSE
      /\ held = FALSE /\ up = TRUE /\ now = 1 /\ faults = 0
      /\ log = [i \in DOMAIN Opening |->
                  [event |-> Opening[i], draft |-> 0, confirmed |-> TRUE, known |-> TRUE]]
  BY DEF Init
<1>2. Opening \in Seq(Events) /\ 0 \in 0..MaxDrafts
  BY EventsAssumption, BoundsAssumption
<1>3. DOMAIN Opening = 1..Len(Opening) /\ Len(Opening) \in Nat
      /\ \A i \in DOMAIN Opening : Opening[i] \in Events
  BY <1>2, LenProperties, ElementOfSeq
<1>4. \A i \in DOMAIN log : log[i] \in Entries /\ log[i].draft = 0
  BY <1>1, <1>2, <1>3 DEF Entries
<1>5. log \in Seq(Entries) /\ Len(log) \in Nat
  <2>1. log \in [1..Len(Opening) -> Entries]
    BY <1>1, <1>3, <1>4
  <2>2. log \in Seq(Entries)
    BY <1>3, <2>1, IsASeq
  <2> QED BY <2>2, LenProperties
<1>6. LogOK
  BY <1>1, <1>4, <1>5 DEF LogOK, OneEventPerDraft
<1>7. open \in BOOLEAN /\ help \in BOOLEAN /\ due \in BOOLEAN /\ held \in BOOLEAN /\ up \in BOOLEAN
  BY <1>1
<1>8. ControlOK
  BY <1>1, <1>5, <1>7, BoundsAssumption DEF ControlOK
<1>9. FormsOK
  BY <1>1 DEF FormsOK
<1> QED BY <1>6, <1>8, <1>9 DEF TerminalInv

\* One form at most, with at most one candidate.
LEMMA TerminalTypes == TerminalInv => TerminalTypeOK
<1> SUFFICES ASSUME TerminalInv PROVE TerminalTypeOK
  OBVIOUS
<1>1. Cardinality(form) <= 1
  <2>1. CASE form = {}
    BY <2>1, FS_EmptySet
  <2>2. CASE form # {}
    <3>1. PICK f : form = {f}
      BY <2>2, TheFormIsOpen DEF TerminalInv
    <3> QED BY <3>1, FS_Singleton
  <2> QED BY <2>1, <2>2
<1>2. ASSUME NEW f \in form
      PROVE  f \in Forms /\ Cardinality(f.frozen) <= 1 /\ mode = "Entry"
  <2>1. f \in Forms /\ f.frozen \subseteq {Compose(f)} /\ mode = "Entry"
    BY <1>2 DEF TerminalInv, FormsOK, FormOK
  <2>2. f.frozen = {} \/ f.frozen = {Compose(f)}
    BY <2>1
  <2>3. Cardinality(f.frozen) <= 1
    BY <2>2, FS_EmptySet, FS_Singleton
  <2> QED BY <2>1, <2>3
<1> QED BY <1>1, <1>2 DEF TerminalInv, ControlOK, TerminalTypeOK

\* The invariant holds in every run.
LEMMA TerminalInductive == TerminalSpec => []TerminalInv
<1>1. ASSUME TerminalInv, [Next]_vars PROVE TerminalInv'
  BY <1>1, KeyKeeps, LoopKeeps, WorldKeeps, StutterKeeps DEF Next
<1> QED BY <1>1, InitTerminal, PTL DEF TerminalSpec

\* The terminal's state has its types: one form at most is open, in the Entry
\* mode, and it has at most one candidate to send again (Model of tui/src/lib.rs).
THEOREM TerminalTypeCorrect == TerminalSpec => []TerminalTypeOK
  BY TerminalInductive, TerminalTypes, PTL

\* A draft is recorded once, for any texts, clock and number of failures: what
\* is sent is what the form shows, and what the log has of its draft is the same
\* (entry_submit, ledger_id_for_existing_content).
THEOREM DraftsRecordedOnce == TerminalSpec => []OneEventPerDraft
<1>1. TerminalInv => OneEventPerDraft
  BY DEF TerminalInv, LogOK
<1> QED BY <1>1, TerminalInductive, PTL

\* What the owner composed is kept or durable, whatever key, failure or other
\* writer comes between (event_loop, entry_submit).
THEOREM EntryKeptOrDurable == TerminalSpec => EntryIsKeptOrDurable
<1>1. ASSUME TerminalInv, [Next]_vars PROVE [KeepsOrRecords]_vars
  BY <1>1, KeyKeeps, LoopKeeps, WorldKeeps DEF Next
<1> QED BY <1>1, TerminalInductive, PTL DEF TerminalSpec, EntryIsKeptOrDurable
=============================================================================
