----------------------------- MODULE McpFlowStore -----------------------------
(***************************************************************************)
(* Server-side storage of suspended MCP flows (packages/mcp/src/index.ts,  *)
(* McpUsageFlowStore and MemoryMcpUsageFlowStore).                         *)
(*                                                                         *)
(* A flow is kept under an id that travels through the client as a signed  *)
(* token.  It is consumed once, by a call with the binding (principal,     *)
(* tool and arguments) it was stored with.  A consumed id stays reserved   *)
(* until its flow would have expired.  Only the time left to a deadline    *)
(* matters, so that is what is kept: expiresAt - now, or zero.             *)
(***************************************************************************)
EXTENDS Naturals

CONSTANTS
  FlowIds,      \* flow ids
  Bindings      \* McpUsageFlowBinding: principal, tenant, tool, hash of args

VARIABLES
  flows,        \* flows: flow id -> [binding, round, left]
  consumed      \* consumed: flow id -> time left to its original expiry

flowVars == <<flows, consumed>>

FlowInit == flows = <<>> /\ consumed = <<>>

FlowRecord == [binding : Bindings, round : Nat, left : Nat]

FlowTypeOK ==
  /\ DOMAIN flows \subseteq FlowIds /\ flows \in [DOMAIN flows -> FlowRecord]
  /\ DOMAIN consumed \subseteq FlowIds /\ consumed \in [DOMAIN consumed -> Nat]

(* pruneExpired, the first step of both operations.                        *)
LiveFlows == [f \in {g \in DOMAIN flows : flows[g].left > 0} |-> flows[f]]
HeldIds == [f \in {g \in DOMAIN consumed : consumed[g] > 0} |-> consumed[f]]

(* validateFlowRecord, and an id that is neither in use nor consumed.      *)
CanSuspend(f, record) ==
  /\ record.left > 0 /\ record.round > 0
  /\ f \notin DOMAIN LiveFlows \cup DOMAIN HeldIds

StoreFlow(f, record) ==
  /\ flows' = [g \in DOMAIN LiveFlows \cup {f} |-> IF g = f THEN record ELSE LiveFlows[g]]
  /\ consumed' = HeldIds

(* suspend throws.                                                         *)
PruneOnly == flows' = LiveFlows /\ consumed' = HeldIds

Matches(f, binding) == f \in DOMAIN LiveFlows /\ LiveFlows[f].binding = binding

(* Mutant: a consumed flow is marked, but not removed.                     *)
TakeFlowLeavingIt(f) ==
  /\ flows' = LiveFlows
  /\ consumed' = [g \in DOMAIN HeldIds \cup {f} |->
                    IF g = f THEN LiveFlows[f].left ELSE HeldIds[g]]

(* consume, of a live flow with this binding.                              *)
TakeFlow(f) ==
  /\ flows' = [g \in DOMAIN LiveFlows \ {f} |-> LiveFlows[g]]
  /\ consumed' = [g \in DOMAIN HeldIds \cup {f} |->
                    IF g = f THEN LiveFlows[f].left ELSE HeldIds[g]]

Less(left) == IF left = 0 THEN 0 ELSE left - 1

FlowTick ==
  /\ flows' = [f \in DOMAIN flows |-> [flows[f] EXCEPT !.left = Less(@)]]
  /\ consumed' = [f \in DOMAIN consumed |-> Less(consumed[f])]
=============================================================================
