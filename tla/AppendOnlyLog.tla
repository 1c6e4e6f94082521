--------------------------- MODULE AppendOnlyLog ---------------------------
(***************************************************************************)
(* What the store promises its callers: per tab, a log that only grows, in *)
(* which an event lands at most once, and where an event whose append was  *)
(* confirmed is there for good.                                            *)
(***************************************************************************)
EXTENDS Sequences

CONSTANTS Tabs, Events, TabOf

VARIABLES log, confirmed

Landed(e) == \E i \in DOMAIN log[TabOf[e]] : log[TabOf[e]][i] = e

Init ==
    /\ log = [t \in Tabs |-> <<>>]
    /\ confirmed = {}

\* The event becomes the last of its tab.
Land(e) ==
    /\ ~Landed(e)
    /\ log' = [log EXCEPT ![TabOf[e]] = Append(@, e)]
    /\ UNCHANGED confirmed

\* A caller is told that the event is in the log.
Confirm(e) ==
    /\ Landed(e)
    /\ confirmed' = confirmed \cup {e}
    /\ UNCHANGED log

Next == \E e \in Events : Land(e) \/ Confirm(e)

Spec == Init /\ [][Next]_<<log, confirmed>>
=============================================================================
