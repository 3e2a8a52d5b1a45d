------------------------ MODULE MCFirestoreUsageStore ------------------------
(* A small instance of FirestoreUsageStore for TLC: two operations, two    *)
(* hosts whose clocks differ by at most one, one cleanup in progress; the  *)
(* two charges are on different budgets, so that a re-admission may leave  *)
(* a budget of the lease it takes over.                                    *)
EXTENDS FirestoreUsageStore, TLC

CONSTANTS b1, b2

SmallCharges ==
  {[mode |-> "scalar", keys |-> {b1}, units |-> (b1 :> 1) @@ (b2 :> 0)],
   [mode |-> "vector", keys |-> {b2}, units |-> (b1 :> 0) @@ (b2 :> 1)]}
SmallGrowths == {[mode |-> "vector", keys |-> {b2}, units |-> (b1 :> 0) @@ (b2 :> 1)]}
SmallActuals == {(b1 :> 0) @@ (b2 :> 0), (b1 :> 0) @@ (b2 :> 1)}
SmallLimits == {(b1 :> 1) @@ (b2 :> 2)}

Symmetry == Permutations(Operations) \cup Permutations(Hosts)
=============================================================================
