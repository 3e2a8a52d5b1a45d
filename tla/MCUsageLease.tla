----------------------------- MODULE MCUsageLease -----------------------------
(* Small instances of UsageLease for TLC: one operation on one budget, in  *)
(* both modes.  An admission of one unit leaves room for one increment, so *)
(* that the next one is denied; an admission of two leaves none.           *)
EXTENDS UsageLease, TLC

CONSTANT b1

OnB1(u) == [keys |-> {b1}, units |-> b1 :> u]
OneCharge == {OnB1(1)}
FullCharge == {OnB1(2)}
TwoCharges == {OnB1(1), OnB1(2)}
OneIncrease == {OnB1(1)}
OneActual == {b1 :> 1}
OneLimit == {b1 :> 2}
None == {}
CallSymmetry == Permutations(Calls) \cup Permutations(Handles)
=============================================================================
