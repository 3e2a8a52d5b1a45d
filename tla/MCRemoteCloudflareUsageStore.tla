--------------------- MODULE MCRemoteCloudflareUsageStore ---------------------
(* A small instance of RemoteCloudflareUsageStore for TLC: one host with   *)
(* an operation of its own, another operation whose admissions clean up,   *)
(* one request under way that nobody awaits, and one crash.                *)
EXTENDS RemoteCloudflareUsageStore, TLC

CONSTANTS b1, o1, h1

SmallCharges ==
  {[mode |-> "scalar", keys |-> {b1}, units |-> (b1 :> 1)],
   [mode |-> "vector", keys |-> {b1}, units |-> (b1 :> 1)]}
SmallGrowths == {c \in SmallCharges : c.mode = "scalar"}
SmallActuals == {(b1 :> 0), (b1 :> 1)}
SmallLimits == {(b1 :> 2)}
SmallOtherLimits == {(b1 :> 0)}
SmallPrunes == {[candidates |-> {b1}, protected |-> {}]}
SmallOpOf == h1 :> o1
SmallTtlOf == h1 :> 1
=============================================================================
