---------------------------- MODULE RedisFlowStore ----------------------------
(***************************************************************************)
(* Suspended flows in Redis (packages/redis/src/mcp-flow.ts): two keys per *)
(* flow, the encoded record and the digest of its binding, in one slot, so *)
(* that a script changes both at once.  Both expire by the clock of the    *)
(* server, in the same millisecond.  Only the time left to a deadline is   *)
(* kept; a key with no time left is gone.                                  *)
(***************************************************************************)
EXTENDS Naturals

CONSTANTS FlowIds, Bindings, NoBinding

VARIABLES
  records,   \* <prefix>:{mcp-flow:<flowId>}:record: whether it still holds
             \* the private payload, and its time to live
  bindings   \* ...:binding

redisVars == <<records, bindings>>

NoRecord == [payload |-> FALSE, left |-> 0]
NoDigest == [binding |-> NoBinding, left |-> 0]

TypeOK ==
  /\ records \in [FlowIds -> [payload : BOOLEAN, left : Nat]]
  /\ bindings \in [FlowIds -> [binding : Bindings \cup {NoBinding}, left : Nat]]

Init ==
  /\ records = [f \in FlowIds |-> NoRecord]
  /\ bindings = [f \in FlowIds |-> NoDigest]

(* SUSPEND_FLOW_SCRIPT, of a flow that expires in left.  It fails on an id *)
(* in use, and on one key without the other.                               *)
Suspend(f, binding, left) ==
  /\ left > 0
  /\ records[f].left = 0 /\ bindings[f].left = 0
  /\ records' = [records EXCEPT ![f] = [payload |-> TRUE, left |-> left]]
  /\ bindings' = [bindings EXCEPT ![f] = [binding |-> binding, left |-> left]]

(* CONSUME_FLOW_SCRIPT, when it returns the flow: an empty payload marks   *)
(* the id as consumed, for the rest of its time (KEEPTTL).                 *)
Consume(f, binding) ==
  /\ records[f].left > 0 /\ bindings[f].left > 0
  /\ records[f].payload
  /\ bindings[f].binding = binding
  /\ records' = [records EXCEPT ![f].payload = FALSE]
  /\ UNCHANGED bindings

(* PXAT.                                                                   *)
Tick ==
  /\ records' = [f \in FlowIds |->
       IF records[f].left <= 1 THEN NoRecord ELSE [records[f] EXCEPT !.left = @ - 1]]
  /\ bindings' = [f \in FlowIds |->
       IF bindings[f].left <= 1 THEN NoDigest ELSE [bindings[f] EXCEPT !.left = @ - 1]]

Forgotten(f) == records[f].left = 0 /\ bindings[f].left = 0
=============================================================================
