-------------------------- MODULE MCRedisUsageStore --------------------------
(* A small instance of RedisUsageStore for TLC: two operations and a       *)
(* cleanup batch of one, so that a backlog forms; a scalar charge on one   *)
(* budget, and a vector charge on two with a dimension at zero that grows. *)
EXTENDS RedisUsageStore, TLC

CONSTANTS b1, b2

SmallCharges ==
  {[mode |-> "scalar", keys |-> {b1}, units |-> (b1 :> 1) @@ (b2 :> 0)],
   [mode |-> "vector", keys |-> {b1, b2}, units |-> (b1 :> 0) @@ (b2 :> 1)]}
SmallGrowths == {[mode |-> "vector", keys |-> {b1, b2}, units |-> (b1 :> 1) @@ (b2 :> 0)]}
SmallActuals == {(b1 :> 0) @@ (b2 :> 0), (b1 :> 0) @@ (b2 :> 1)}
SmallLimits == {(b1 :> 1) @@ (b2 :> 1)}
=============================================================================
