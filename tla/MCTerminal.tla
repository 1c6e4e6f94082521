----------------------------- MODULE MCTerminal -----------------------------
(***************************************************************************)
(* A small instance of Terminal: one symbol is held, another is new.       *)
(***************************************************************************)
EXTENDS Terminal

Trade(flow, id, symbol) == [flow |-> flow, id |-> id, symbol |-> symbol, number |-> "one"]
MCOpening == <<Trade("Buy", 0, "held")>>
MCOthers == {Trade("Vest", 0, "held")}
=============================================================================
