-------------------------- MODULE MoneyArithmetic --------------------------
(***************************************************************************)
(* The integer money arithmetic every crate shares: pt-core's single       *)
(* rounding rule and the arithmetic kernel of ledger-core.  Quantities are *)
(* integers in units of 1/ShareScale of a share, money is in cents.  The   *)
(* code computes products in i128, wide enough for every operand it can    *)
(* hold, so integers are unbounded here; MoneyCap is the range check the   *)
(* code applies to each scaled result.                                     *)
(***************************************************************************)
EXTENDS Integers

CONSTANTS
    ShareScale,     \* units per whole share (1_000_000 in pt-core)
    MoneyCap        \* largest magnitude of a scaled amount (2^40 in pt-core)

ASSUME ShareScaleAssumption == ShareScale \in Nat \ {0}
ASSUME MoneyCapAssumption == MoneyCap \in Nat

\* Banker's rounding of num/den for den > 0: to the nearest integer, a tie
\* to the even one.
RoundHalfEven(num, den) ==
    LET q   == num \div den
        rem == num % den
    IN  IF 2 * rem < den \/ (2 * rem = den /\ q % 2 = 0) THEN q ELSE q + 1

\* The one place where a quantity-times-price product becomes cents.
Scale(micro) == RoundHalfEven(micro, ShareScale)

WithinCap(v) == -MoneyCap <= v /\ v <= MoneyCap

\* Mutant of ConsumeBasis: both parts rounded on their own.
ConsumeBasis_RoundsTwice(basis, qty, c) ==
    [taken |-> RoundHalfEven(basis * c, qty),
     left  |-> RoundHalfEven(basis * (qty - c), qty)]

\* Taking c of the qty units of a lot: the basis taken and the basis left.
\* The lot's last units take the whole residue.
ConsumeBasis(basis, qty, c) ==
    LET taken == IF c = qty THEN basis ELSE RoundHalfEven(basis * c, qty)
    IN  [taken |-> taken, left |-> basis - taken]

\* Floor share and remainder of net * c / total, for a net of either sign.
AllocFloor(net, c, total) == (net * c) \div total
AllocRemainder(net, c, total) == (net * c) % total
=============================================================================
