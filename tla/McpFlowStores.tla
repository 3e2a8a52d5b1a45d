---------------------------- MODULE McpFlowStores ----------------------------
(***************************************************************************)
(* The flow stores behind protectMultiRoundTool, one of which a deployment *)
(* chooses, and the tokens that were handed out for the flows they keep.   *)
(* Calls come from any number of processes; a call whose answer is lost    *)
(* counts like one that arrived, and a call that a store refuses changes   *)
(* nothing in the durable stores.                                          *)
(***************************************************************************)
EXTENDS Naturals

CONSTANTS
  FlowIds, Bindings, NoBinding,
  Lifetimes,      \* how long suspended leases last (suspendTtlMs)
  SafetyMargin, Retention, MaxLatency

(* The margin is chosen to cover the time a Firestore transaction takes.   *)
ASSUME FlowConstants ==
  /\ NoBinding \notin Bindings
  /\ Lifetimes \subseteq Nat \ {0}
  /\ SafetyMargin \in Nat /\ Retention \in Nat /\ MaxLatency \in Nat
  /\ MaxLatency <= SafetyMargin

VARIABLES
  provider,            \* the store of this deployment
  tokens,              \* history: see McpFlowContract
  flows, consumed,     \* in-process store
  records, bindings,   \* Redis
  documents,           \* Firestore
  rows, alarms         \* Cloudflare

memoryVars == <<flows, consumed>>
redisVars == <<records, bindings>>
cloudflareVars == <<rows, alarms>>
vars == <<provider, tokens, memoryVars, redisVars, documents, cloudflareVars>>

Contract == INSTANCE McpFlowContract

Memory == INSTANCE McpFlowStore
Redis == INSTANCE RedisFlowStore
Firestore == INSTANCE FirestoreFlowStore
Cloudflare == INSTANCE CloudflareFlowStore

Providers == {"memory", "redis", "firestore", "cloudflare"}

Init ==
  /\ provider \in Providers
  /\ tokens = [f \in FlowIds |-> [binding |-> NoBinding, left |-> 0, wins |-> 0]]
  /\ Memory!FlowInit /\ Redis!Init /\ Firestore!Init /\ Cloudflare!Init

FlowStoresTypeOK ==
  /\ provider \in Providers
  /\ tokens \in [FlowIds -> [binding : Bindings \cup {NoBinding}, left : Nat, wins : Nat]]
  /\ Memory!FlowTypeOK /\ Redis!TypeOK /\ Firestore!TypeOK /\ Cloudflare!TypeOK

(* A step of the store named leaves the others alone.                      *)
Uses(name) ==
  /\ provider = name
  /\ UNCHANGED provider
  /\ name = "memory" \/ UNCHANGED memoryVars
  /\ name = "redis" \/ UNCHANGED redisVars
  /\ name = "firestore" \/ UNCHANGED documents
  /\ name = "cloudflare" \/ UNCHANGED cloudflareVars

(* suspend, when it stores the flow.  The flow may have expired by now.    *)
Suspend(f, binding, left) ==
  /\ tokens' = [tokens EXCEPT ![f] = [binding |-> binding, left |-> left, wins |-> 0]]
  /\ \/ /\ Uses("memory")
        /\ LET record == [binding |-> binding, round |-> 1, left |-> left]
           IN  Memory!CanSuspend(f, record) /\ Memory!StoreFlow(f, record)
     \/ Uses("redis") /\ Redis!Suspend(f, binding, left)
     \/ Uses("firestore") /\ \E age \in 0..MaxLatency : Firestore!Suspend(f, binding, left, age)
     \/ Uses("cloudflare") /\ Cloudflare!Suspend(f, binding, left)

(* consume, when it returns the flow.                                      *)
Consume(f, binding) ==
  /\ tokens' = [tokens EXCEPT ![f].wins = @ + 1]
  /\ \/ Uses("memory") /\ Memory!Matches(f, binding) /\ Memory!TakeFlow(f)
     \/ Uses("redis") /\ Redis!Consume(f, binding)
     \/ Uses("firestore") /\ \E age \in 0..MaxLatency : Firestore!Consume(f, binding, age)
     \/ Uses("cloudflare") /\ Cloudflare!Consume(f, binding)

(* A refused call of the in-process store prunes all the same.             *)
Prune == Uses("memory") /\ Memory!PruneOnly /\ UNCHANGED tokens

CleanUp(f) ==
  /\ UNCHANGED tokens
  /\ \/ Uses("firestore") /\ Firestore!Delete(f)
     \/ Uses("cloudflare") /\ Cloudflare!Alarm(f)

Tick ==
  /\ Contract!TimePasses
  /\ \/ Uses("memory") /\ Memory!FlowTick
     \/ Uses("redis") /\ Redis!Tick
     \/ Uses("firestore") /\ Firestore!Tick
     \/ Uses("cloudflare") /\ Cloudflare!Tick

Next ==
  \/ \E f \in FlowIds, binding \in Bindings :
       \/ \E left \in Lifetimes \cup {0} : Suspend(f, binding, left)
       \/ Consume(f, binding)
  \/ Prune
  \/ \E f \in FlowIds : CleanUp(f)
  \/ Tick

(* Time passes, and the TTL policy and the alarms that were set are kept.  *)
Fairness == WF_vars(Tick) /\ \A f \in FlowIds : WF_vars(CleanUp(f))

Spec == Init /\ [][Next]_vars /\ Fairness
-----------------------------------------------------------------------------
(* Properties.                                                             *)

(* Each store keeps the contract: a token wins once at most, only before   *)
(* its expiry and with its binding, and its id is not handed out again     *)
(* before that, whatever the store keeps, erases or forgets, and although  *)
(* Firestore commits later than it reads the time.                         *)
ImplementsContract == Contract!ContractSpec

(* The durable stores forget every flow in the end, claimed or not, so     *)
(* that neither private state nor markers pile up: Redis by key expiry,    *)
(* Firestore by its TTL policy, and Cloudflare by its alarm, for a flow    *)
(* whose alarm could be set.                                               *)
FlowsForgotten ==
  \A f \in FlowIds :
    /\ []<>Redis!Forgotten(f)
    /\ []<>Firestore!Forgotten(f)
    /\ alarms[f] ~> Cloudflare!Forgotten(f)
=============================================================================
