--------------------------- MODULE McpFlowContract ---------------------------
(***************************************************************************)
(* What every store of suspended MCP flows promises the wrappers           *)
(* (packages/mcp/src/index.ts, McpUsageFlowStore, and                      *)
(* flow-store-conformance.ts): an id that was handed out for a flow stands *)
(* for that flow alone until it expires, and one call at most gets the     *)
(* flow for it, before it expires and with the binding it was stored with. *)
(***************************************************************************)
EXTENDS Naturals

CONSTANTS
  FlowIds,    \* flow ids, which the client holds in a signed token
  Bindings,   \* principal, tenant, tool and hash of the arguments
  NoBinding,  \* the binding of an id that was never handed out
  Lifetimes   \* how long flows may last

VARIABLE tokens  \* flow id -> [binding, left, wins]: what it was handed out
                 \* for, the time left to its expiry, and the calls that
                 \* were given the flow

ContractInit == tokens = [f \in FlowIds |-> [binding |-> NoBinding, left |-> 0, wins |-> 0]]

HandOut(f, binding, left) ==
  /\ tokens[f].left = 0
  /\ left > 0
  /\ tokens' = [tokens EXCEPT ![f] = [binding |-> binding, left |-> left, wins |-> 0]]

Claim(f, binding) ==
  /\ tokens[f].left > 0
  /\ tokens[f].binding = binding
  /\ tokens[f].wins = 0
  /\ tokens' = [tokens EXCEPT ![f].wins = 1]

TimePasses ==
  tokens' = [f \in FlowIds |-> [tokens[f] EXCEPT !.left = IF @ = 0 THEN 0 ELSE @ - 1]]

ContractNext ==
  \/ \E f \in FlowIds, binding \in Bindings :
       \/ \E left \in Lifetimes : HandOut(f, binding, left)
       \/ Claim(f, binding)
  \/ TimePasses

ContractSpec == ContractInit /\ [][ContractNext]_tokens
=============================================================================
