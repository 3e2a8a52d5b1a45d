-------------------------- MODULE MCRecoveryObserver --------------------------
(* Small instances of RecoveryObserver for TLC, on one budget: three       *)
(* operations and a passive observer, with deadlines that overflow, and    *)
(* two operations with an observer that may call stats once.               *)
EXTENDS RecoveryObserver, TLC

CONSTANT b1

OneCharge == {[keys |-> {b1}, units |-> b1 :> 1]}
OneLimit == {b1 :> 2}
None == {}
=============================================================================
