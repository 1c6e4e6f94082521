---------------------------- MODULE MCLedgerCore ----------------------------
(***************************************************************************)
(* Small instances of LedgerCore.  A share is two units, so that a single  *)
(* unit exercises every rounding; amounts above 60 are out of range.       *)
(***************************************************************************)
EXTENDS LedgerCore

Buy(lot, qty, price, fees, date) ==
    [kind |-> "Buy", lot |-> lot, symbol |-> "AAA", platform |-> "X",
     qty |-> qty, price |-> price, fees |-> fees, date |-> date]
Vest(lot, platform, qty, price, date) ==
    [kind |-> "Vest", lot |-> lot, symbol |-> "AAA", platform |-> platform,
     qty |-> qty, price |-> price, date |-> date]
Sell(qty, price, fees, refs) ==
    [kind |-> "Sell", symbol |-> "AAA", platform |-> "X", qty |-> qty,
     price |-> price, fees |-> fees, refs |-> refs, date |-> 3]
Ref(lot, qty) == [lot |-> lot, qty |-> qty]
Split(num, den) ==
    [kind |-> "Split", symbol |-> "AAA", num |-> num, den |-> den, date |-> 3]
Reversal(target) == [kind |-> "Reversal", target |-> target]

\* An older lot may be recorded after a younger one; the two lots of a sale
\* have unequal remainders; a split to a quarter rounds a lot to nothing.
Trading == {
    Buy("L1", 3, 5, 1, 2),
    Buy("L2", 2, 3, 0, 1),
    Buy("L2", 1, 4, 0, 1),
    Sell(2, 7, 1, <<>>),
    Sell(4, 5, 2, <<>>),
    Sell(3, 7, 0, <<Ref("L1", 2), Ref("L2", 1)>>),
    Sell(1, 9, 0, <<Ref("L1", 1)>>),
    Sell(2, 9, 0, <<Ref("L2", 2)>>),
    Split(3, 1),
    Split(1, 2) }

\* Candidates the validator refuses in some or in all states.
Defective == {
    Vest("L3", "Y", 0, 1, 1),
    Sell(2, 5, 0, <<Ref("L1", 1), Ref("L1", 1)>>),
    Sell(1, 5, 0, <<Ref("L1", 2)>>),
    Sell(3, 50, 0, <<>>),
    Split(0, 1),
    Split(30, 1) }

Reversals == {Reversal(t) : t \in 1..MaxEvents}

MCPayloads == Trading \cup Defective \cup Reversals \cup {Vest("L3", "Y", 3, 4, 1)}

\* Two lots, a sale of what only the split provides, and any reversal.
SmallPayloads ==
    {Buy("L1", 1, 4, 0, 1), Buy("L2", 1, 4, 0, 1), Sell(2, 7, 0, <<>>),
     Split(2, 1)} \cup Reversals
=============================================================================
