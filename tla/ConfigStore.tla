---------------------------- MODULE ConfigStore ----------------------------
(***************************************************************************)
(* config: the tax rules of each year, the residency timeline and the      *)
(* de-minimis threshold, held in one cell of the workbook's Config tab     *)
(* (runtime's ConfigSheetsAdapter), with the validation every put passes   *)
(* and the resolution helpers.                                             *)
(*                                                                         *)
(* A bracket set is [rows, verified]; TaxRules are [year, ordinary,        *)
(* longTerm, niit, states, income], states a set of [code, set].  A put    *)
(* holds the write-lock around its read and its write, so it is one step.  *)
(* The platform list, the aliases and the display names are stored and     *)
(* never validated: labels stands for the three.                           *)
(***************************************************************************)
EXTENDS TaxKernel, SequencesExt

CONSTANTS
    RuleSets,       \* the TaxRules an owner may enter
    Timelines,      \* the residency timelines an owner may enter
    Thresholds,     \* the de-minimis amounts an owner may enter
    LabelSets,      \* the label lists an owner may enter
    LookbackYears,  \* years before the current one whose residence counts
    StaleMonths,    \* months after which a verified set is stale
    OpeningCell     \* the cell's content to start from

VARIABLE cell       \* the data in the Config tab's cell, an Option: the tab
                    \* may be missing, or the cell blank

EmptyConfig == [rules |-> {}, deMinimis |-> 0, residency |-> <<>>, labels |-> {}]

(***************************************************************************)
(* Validation                                                              *)
(***************************************************************************)
BracketSetVerdict(set) ==
    IF set.rows = <<>> THEN "EmptyBracketSet"
    ELSE IF set.rows[1].lower # 0 THEN "FirstRowNotZero"
    ELSE IF \E i \in 1..(Len(set.rows) - 1) : set.rows[i + 1].lower <= set.rows[i].lower
         THEN "ThresholdsNotStrictlyAscending"
    ELSE IF \E i \in DOMAIN set.rows : set.rows[i].rate < 0 THEN "NegativeRate"
    ELSE "Ok"

TopRate(set) == IF set.rows = <<>> THEN 0 ELSE Last(set.rows).rate

FederalTopRate(rules) ==
    Greater(TopRate(rules.ordinary), TopRate(rules.longTerm)) + rules.niit.rate

CeilingBreached(rules) ==
    \/ FederalTopRate(rules) >= PpmFull
    \/ \E s \in rules.states : FederalTopRate(rules) + TopRate(s.set) >= PpmFull

TaxRulesVerdict(rules) ==
    LET sets == {rules.ordinary, rules.longTerm} \cup {s.set : s \in rules.states}
    IN  IF \E s \in sets : BracketSetVerdict(s) # "Ok" THEN "InvalidBracketSet"
        ELSE IF rules.niit.rate < 0 \/ rules.niit.threshold < 0 \/ rules.income < 0
             THEN "NegativeAmount"
        ELSE IF CeilingBreached(rules) THEN "StackedRateExceedsCeiling"
        ELSE "Ok"

TimelineVerdict(entries) ==
    IF \E i \in 1..(Len(entries) - 1) : entries[i + 1].date <= entries[i].date
    THEN "ResidencyUnsortedOrDuplicate"
    ELSE IF \E i \in 1..(Len(entries) - 1) : entries[i + 1].state = entries[i].state
         THEN "ResidencyConsecutiveSameState"
    ELSE "Ok"

\* The fields of TaxRules and of a timeline have their types; a state has one set.
RulesTyped(rules) ==
    /\ rules.year \in Int /\ rules.income \in Int /\ rules.niit \in [rate : Int, threshold : Int]
    /\ \A set \in {rules.ordinary, rules.longTerm} \cup {s.set : s \in rules.states} :
          set.rows \in Seq([lower : Int, rate : Int]) /\ set.verified \in Int
    /\ \A s, t \in rules.states : s.code # "Federal" /\ (s.code = t.code => s = t)

TimelineTyped(entries) == entries \in Seq([date : Int, state : STRING])

\* What the puts make of a configuration: every row passed their validation.
SoundConfig(data) ==
    /\ data = [rules |-> data.rules, deMinimis |-> data.deMinimis,
               residency |-> data.residency, labels |-> data.labels]
    /\ \A r \in data.rules : RulesTyped(r) /\ TaxRulesVerdict(r) = "Ok"
    /\ \A r, s \in data.rules : r.year = s.year => r = s
    /\ TimelineTyped(data.residency) /\ TimelineVerdict(data.residency) = "Ok"
    /\ data.deMinimis \in Nat

ASSUME EntriesAssumption ==
    /\ \A rules \in RuleSets : RulesTyped(rules)
    /\ \A entries \in Timelines : TimelineTyped(entries)
    /\ Thresholds \subseteq Int

ASSUME WindowAssumption == LookbackYears \in Nat /\ StaleMonths \in Nat

ASSUME OpeningCellAssumption == \A data \in OpeningCell : OpeningCell = {data} /\ SoundConfig(data)

(***************************************************************************)
(* Resolution                                                              *)
(***************************************************************************)
\* The state lived in on a date: the last entry not after it.
ResidencyOn(entries, date) ==
    LET past == {i \in DOMAIN entries : entries[i].date <= date}
    IN  IF past = {} THEN "" ELSE entries[Max(past)].state

BracketSetsFor(rules, jur) ==
    IF jur = "Federal" THEN {rules.ordinary} ELSE {s.set : s \in {t \in rules.states : t.code = jur}}

\* A jurisdiction's own newest year, up to the one asked for.
ResolveBrackets(data, jur, year) ==
    LET known == {r \in data.rules : r.year <= year /\ BracketSetsFor(r, jur) # {}}
        newest == CHOOSE r \in known : \A s \in known : s.year <= r.year
    IN  IF known = {} THEN [set |-> {}, state |-> "NoBracketsAvailable"]
        ELSE [set |-> BracketSetsFor(newest, jur),
              state |-> IF newest.year = year THEN "Verified" ELSE "Stale"]

\* Mutant of Intersects: the last residence has no coverage.
Intersects_ClosedOnly(entries, i, first, last) ==
    /\ entries[i].date <= last
    /\ i < Len(entries)
    /\ entries[i + 1].date > first

\* The coverage of entry i, up to the next entry, meets first..last.
Intersects(entries, i, first, last) ==
    /\ entries[i].date <= last
    /\ i < Len(entries) => entries[i + 1].date > first

ActiveJurisdictions(entries, year, lookback) ==
    {"Federal"} \cup
    {entries[i].state : i \in {k \in DOMAIN entries :
        Intersects(entries, k, DaysFromCivil(year - lookback, 1, 1),
                   DaysFromCivil(year, 12, 31))}}

IsStale(data, jur, year, asOf, months) ==
    LET stale(resolved) ==
            \/ resolved.state # "Verified"
            \/ \E s \in resolved.set : s.verified < SubtractMonths(asOf, months)
    IN  stale(ResolveBrackets(data, jur, year))

StalenessSignals(data, year, asOf) ==
    {jur \in ActiveJurisdictions(data.residency, year, LookbackYears) :
        IsStale(data, jur, year, asOf, StaleMonths)}

\* wiring's context for a year: the whole rules row of the year, else that of
\* the newest year before it, else none.
ContextFromConfig(data, year, today) ==
    LET known  == {r \in data.rules : r.year <= year}
        newest == CHOOSE r \in known : \A s \in known : s.year <= r.year
        state  == IF newest.year = year THEN "Verified" ELSE "Stale"
    IN  IF known = {}
        THEN [MigrationContext(year) EXCEPT !.deMinimis = data.deMinimis,
                                            !.residency = ResidencyOn(data.residency, today)]
        ELSE [year |-> year,
              federal |-> [jur |-> "Federal", ordinary |-> newest.ordinary.rows,
                           longTerm |-> newest.longTerm.rows, niit |-> newest.niit,
                           income |-> newest.income, state |-> state],
              states |-> {[jur |-> s.code, ordinary |-> s.set.rows, longTerm |-> <<>>,
                           niit |-> [rate |-> 0, threshold |-> 0],
                           income |-> newest.income, state |-> state]
                             : s \in newest.states},
              deMinimis |-> data.deMinimis,
              residency |-> ResidencyOn(data.residency, today)]

(***************************************************************************)
(* The stored cell                                                         *)
(***************************************************************************)
\* What the cell decodes to: a timeline out of order makes it unreadable.
ReadConfig(c) ==
    IF c = {} THEN {EmptyConfig}
    ELSE {data \in c : TimelineVerdict(data.residency) = "Ok"}

-----------------------------------------------------------------------------
ConfigInit == cell = OpeningCell

\* A put that passed validation; the write may fail before or after it landed.
Written(data) == cell' \in {cell, {data}}

PutTaxRules(data) ==
    \E r \in RuleSets :
        /\ TaxRulesVerdict(r) = "Ok"
        /\ Written([data EXCEPT !.rules = {s \in @ : s.year # r.year} \cup {r}])

\* Mutant of PutResidency: the timeline is stored as it was entered.
PutResidency_Unchecked(data) == \E t \in Timelines : Written([data EXCEPT !.residency = t])

PutResidency(data) ==
    \E t \in Timelines :
        TimelineVerdict(t) = "Ok" /\ Written([data EXCEPT !.residency = t])

PutDeMinimis(data) ==
    \E d \in Thresholds : d >= 0 /\ Written([data EXCEPT !.deMinimis = d])

PutLabels(data) == \E l \in LabelSets : Written([data EXCEPT !.labels = l])

ConfigPut ==
    \E data \in ReadConfig(cell) :
        PutTaxRules(data) \/ PutResidency(data) \/ PutDeMinimis(data) \/ PutLabels(data)
=============================================================================
