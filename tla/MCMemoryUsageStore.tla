------------------------ MODULE MCMemoryUsageStore ------------------------
(* A small instance of MemoryUsageStore for TLC: three operations, of      *)
(* which two are retained, on three budgets, of which two are, and two     *)
(* limits that callers quote by turns.                                     *)
EXTENDS MemoryUsageStore, TLC

CONSTANTS o1, o2, o3, b1, b2, b3, i1, i2

On(k, u) == [keys |-> k, units |-> u]
Units(u1, u2, u3) == (b1 :> u1) @@ (b2 :> u2) @@ (b3 :> u3)

(* A charge on one budget, and a vector charge on three that takes units   *)
(* of one only: growth may later put units on either of two keys that have *)
(* no counter yet, of which the caps leave room for one.                   *)
SmallCharges == {On({b1}, Units(1, 0, 0)), On({b1, b2, b3}, Units(1, 0, 0))}
SmallGrowths ==
  {On({b1}, Units(1, 0, 0)),
   On({b1, b2, b3}, Units(0, 1, 0)), On({b1, b2, b3}, Units(0, 0, 1))}
SmallActuals == {Units(1, 0, 0)}
SmallLimits == {Units(2, 1, 1), Units(1, 1, 1)}

Symmetry ==
  Permutations({o1, o2, o3}) \cup Permutations({i1, i2}) \cup Permutations({b2, b3})
=============================================================================
