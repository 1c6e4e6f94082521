--------------------------- MODULE SummaryReport ---------------------------
(***************************************************************************)
(* summary: the report of one run, over the point of this run, what became *)
(* of its capture, and the points that were on record before it.  The text *)
(* and the JSON rendering lay the same report out and are left out.        *)
(***************************************************************************)
EXTENDS Valuation

\* The most recent stored point of a trading day before key.
Baseline(stored, key) ==
    LET past == {i \in DOMAIN stored : stored[i].key < key}
    IN  {stored[i] : i \in {k \in past : \A h \in past : stored[h].key <= stored[k].key}}

LatestPoint(stored) ==
    {stored[i] : i \in {k \in DOMAIN stored : \A h \in DOMAIN stored : stored[h].key <= stored[k].key}}

\* Mutant of Comparable: only the new point is asked whether it is complete.
Comparable_NewOnly(b, point) == ~point.incomplete

Comparable(b, point) == ~point.incomplete /\ ~b.incomplete

\* A captured point is compared with an earlier day's; when either is
\* incomplete the change is suppressed.
CapturedDelta(point, stored, days) ==
    LET against(base) ==
            IF base = {} THEN [kind |-> "FirstEver", from |-> {}, change |-> {}, gap |-> FALSE]
            ELSE LET b == CHOOSE q \in base : TRUE
                 IN  IF ~Comparable(b, point)
                     THEN [kind |-> "Suppressed", from |-> base, change |-> {}, gap |-> FALSE]
                     ELSE [kind |-> "PointToPoint", from |-> base,
                           change |-> {point.total - b.total},
                           gap |-> \E d \in days : b.key < d /\ d < point.key]
    IN  against(Baseline(stored, point.key))

\* A value that was not captured is compared with the last point on record.
UncapturedDelta(point, stored) ==
    [kind |-> "Uncaptured", from |-> LatestPoint(stored),
     change |-> {point.total - b.total : b \in LatestPoint(stored)}, gap |-> FALSE]

Delta(outcome, point, stored, days) ==
    IF outcome = "Appended" THEN CapturedDelta(point, stored, days)
    ELSE UncapturedDelta(point, stored)

\* The change of each held symbol that both points price, when the total's
\* change is plain.
SymbolDeltas(snap, point, delta) ==
    [s \in Held(snap) |->
        IF delta.kind # "PointToPoint" \/ s \notin DOMAIN point.values THEN {}
        ELSE UNION {SymbolChange(b, point, s).cents : b \in delta.from}]

\* The year's reserve, summed over the jurisdictions' annual rows.
TaxLine(rows, year, brackets, today) ==
    LET of == {r \in rows : r.year = year}
    IN  IF brackets = "NoBracketsAvailable" THEN {}
        ELSE {[accrued |-> MapThenSumSet(LAMBDA r : r.accrued, of),
               moved |-> MapThenSumSet(LAMBDA r : r.moved, of),
               outstanding |-> MapThenSumSet(LAMBDA r : r.outstanding, of),
               period |-> QuarterOf(today)]}

StaleReason(outcome) ==
    CASE outcome = "Appended" -> {}
      [] outcome = "SkippedLockHeld" -> {"LockHeld"}
      [] outcome = "AppendFailed" -> {"OfflineOrAppendFailed"}

Report(snap, point, outcome, delta, rows, year, brackets, today) ==
    [kind |-> "Produced", total |-> point.total, partial |-> point.incomplete,
     net |-> IF brackets = "NoBracketsAvailable" THEN {}
             ELSE {point.total - (point.pretax - point.net)},
     delta |-> delta, symbols |-> SymbolDeltas(snap, point, delta),
     unpriced |-> Held(snap) \ DOMAIN point.values,
     tax |-> TaxLine(rows, year, brackets, today), stale |-> StaleReason(outcome)]

\* When nothing is priced there is no point to capture; the report is made
\* from an empty one.
NoPoint ==
    [key |-> 0, at |-> 0, values |-> <<>>, total |-> 0, pretax |-> 0, net |-> 0,
     basis |-> 0, shares |-> <<>>, incomplete |-> TRUE]
=============================================================================
