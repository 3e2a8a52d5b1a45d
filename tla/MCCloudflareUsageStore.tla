----------------------- MODULE MCCloudflareUsageStore -----------------------
(* A small instance of VersionedUsageControl for TLC: two operations, a    *)
(* batch of one, so that an admission may find rows it did not clean up; a *)
(* scalar charge on both budgets and a vector charge that differs in them. *)
EXTENDS VersionedUsageControl, TLC

CONSTANTS b1, b2

SmallCharges ==
  {[mode |-> "scalar", keys |-> {b1, b2}, units |-> (b1 :> 1) @@ (b2 :> 1)],
   [mode |-> "vector", keys |-> {b1, b2}, units |-> (b1 :> 1) @@ (b2 :> 0)]}
SmallGrowths ==
  {[mode |-> "scalar", keys |-> {b1, b2}, units |-> (b1 :> 1) @@ (b2 :> 1)],
   [mode |-> "vector", keys |-> {b1, b2}, units |-> (b1 :> 0) @@ (b2 :> 1)]}
SmallActuals == {(b1 :> 0) @@ (b2 :> 0), (b1 :> 1) @@ (b2 :> 1)}
SmallLimits == {(b1 :> 2) @@ (b2 :> 2)}

Symmetry == Permutations(Operations)
=============================================================================
