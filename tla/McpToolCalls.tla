----------------------------- MODULE McpToolCalls -----------------------------
(***************************************************************************)
(* Tool calls wrapped by protectTool and protectMultiRoundTool             *)
(* (packages/mcp/src/index.ts), from admission or resumption to settlement *)
(* or suspension, with the lease heartbeat beside the handler.             *)
(*                                                                         *)
(* Calls run concurrently in processes that may crash.  Each await is a    *)
(* step: a request reaches the usage store or the flow store and its reply *)
(* is on its way back until the call's next step.  A request may fail with *)
(* or without having taken effect; one to the usage store that failed at   *)
(* the caller, by its timeout, may also take effect at any later time.     *)
(*                                                                         *)
(* The usage store is reduced to what the wrapper sees of one reservation  *)
(* per operation: a lease that expires, in a later call of any client, by  *)
(* release if it is pending and by full charge if it is liable.  A settled *)
(* operation stays on record (its tombstone outlasts the calls).  Both     *)
(* stores measure time by one clock, and only the time left to a deadline  *)
(* is kept.                                                                *)
(***************************************************************************)
EXTENDS McpFlowStore, FiniteSets, Functions

CONSTANTS
  Calls,        \* wrapped calls that run at the same time
  Operations,   \* operations, each named by the binding of the calls for it
  MultiRound,   \* whether a call is wrapped by protectMultiRoundTool
  Ttl,          \* lease lifetime that the policy asks for
  SuspendTtl,   \* suspendTtlMs
  MaxRounds,    \* maxRounds
  LateKinds,    \* bound: kinds of the requests under way that nobody waits for
  MaxLate       \* bound: how many such requests there are at a time

ASSUME McpConstants ==
  /\ Operations \subseteq Bindings
  /\ MultiRound \subseteq BOOLEAN
  /\ Ttl \in Nat \ {0} /\ SuspendTtl \in Nat \ {0} /\ MaxRounds \in Nat \ {0}
  /\ MaxLate \in Nat

VARIABLES
  reservations, \* usage store: operation -> [state, left]
  late,         \* requests that failed at their caller and have yet to reach the
                \* usage store: request -> how many of them
  calls,        \* call -> its local state
  tokens,       \* requestState values that clients hold and that still
                \* verify: flow id -> time left
  entries,      \* history: handler entries under each flow id since it was minted
  overtaken,    \* history: operations admitted again while an earlier admission
                \* of theirs was still under way, its lease having expired
  shortened     \* history: operations whose lease a late renewal has shortened
                \* since it was last renewed for a suspension

storeVars == <<reservations, late>>
historyVars == <<entries, overtaken, shortened>>
vars == <<flowVars, storeVars, calls, tokens, historyVars>>

(* Requests to the usage store.                                            *)
Requests ==
  [kind : {"reserve", "markLiable", "settle"}, operation : Operations]
    \cup [kind : {"renew"}, operation : Operations, ttl : {Ttl, SuspendTtl}]

Request(kind, op) == [kind |-> kind, operation |-> op]
RenewRequest(op, ttl) == [kind |-> "renew", operation |-> op, ttl |-> ttl]

Absent == [state |-> "absent", left |-> 0]
Settled == [state |-> "settled", left |-> 0]

Idle == [pc |-> "idle", operation |-> "", multi |-> FALSE, round |-> 0, flow |-> {},
         heartbeat |-> "off", stopped |-> FALSE, left |-> 0]

Steps ==
  {"idle", "reserved", "resuming", "entering", "handling", "stopping", "continuing",
   "minting", "renewing", "suspending", "settling"}

McpTypeOK ==
  /\ FlowTypeOK
  /\ reservations \in [Operations ->
       [state : {"absent", "pending", "liable", "settled"}, left : Nat]]
  /\ calls \in [Calls ->
       [pc : Steps, operation : Operations \cup {""}, multi : BOOLEAN, round : 0..MaxRounds,
        flow : {{}} \cup {{f} : f \in FlowIds}, heartbeat : {"off", "waiting", "sent", "answered"},
        stopped : BOOLEAN, left : Nat]]
  /\ DOMAIN tokens \subseteq FlowIds /\ tokens \in [DOMAIN tokens -> Nat]
  /\ entries \in [FlowIds -> Nat]
  /\ overtaken \subseteq Operations /\ shortened \subseteq Operations
  /\ late \in [Requests -> Nat]

Init ==
  /\ FlowInit
  /\ reservations = [op \in Operations |-> Absent]
  /\ calls = [c \in Calls |-> Idle]
  /\ tokens = <<>>
  /\ entries = [f \in FlowIds |-> 0]
  /\ overtaken = {} /\ shortened = {}
  /\ late = [q \in Requests |-> 0]

At(c, pc) == calls[c].pc = pc
Goto(c, pc) == calls' = [calls EXCEPT ![c].pc = pc]

(* The call returns or throws.  A heartbeat that was not stopped goes on.  *)
Leave(c) ==
  calls' = [calls EXCEPT ![c] = IF @.heartbeat = "off" THEN Idle ELSE [@ EXCEPT !.pc = "idle"]]
-----------------------------------------------------------------------------
(* The usage store.                                                        *)

(* A reservation as any access finds it.                                   *)
Found(op) ==
  LET r == reservations[op]
  IN  IF r.left > 0 \/ r.state \notin {"pending", "liable"} THEN r
      ELSE IF r.state = "pending" THEN Absent
      ELSE Settled

Open(r) == r.state \in {"pending", "liable"}

Store(op, r) == reservations' = [reservations EXCEPT ![op] = r]

(* A request takes effect on an open reservation, an admission on none.    *)
Accepted(q) ==
  LET r == Found(q.operation)
  IN  IF q.kind = "reserve" THEN r = Absent ELSE Open(r)

Outcome(q) ==
  LET r == Found(q.operation)
  IN  CASE q.kind = "reserve" -> [state |-> "pending", left |-> Ttl]
        [] q.kind = "markLiable" -> [r EXCEPT !.state = "liable"]
        [] q.kind = "renew" -> [r EXCEPT !.left = q.ttl]
        [] q.kind = "settle" -> Settled

Executed(q) == Store(q.operation, IF Accepted(q) THEN Outcome(q) ELSE Found(q.operation))

(* The caller hears of the effect.                                         *)
Succeeds(q) == Accepted(q) /\ Executed(q) /\ UNCHANGED late

(* The caller gets an error: the request was refused, its answer was lost, *)
(* it was lost itself, or it is still on its way when the caller gives up. *)
Fails(q) ==
  \/ Executed(q) /\ UNCHANGED late
  \/ UNCHANGED storeVars
  \/ /\ q.kind \in LateKinds
     /\ FoldFunction(LAMBDA m, n : m + n, 0, late) < MaxLate
     /\ late' = [late EXCEPT ![q] = @ + 1]
     /\ UNCHANGED reservations

(* A request that nobody waits for reaches the store after all.            *)
ReachesLate(q) ==
  /\ late[q] > 0
  /\ late' = [late EXCEPT ![q] = @ - 1]
  /\ Executed(q)
  /\ shortened' = IF q.kind = "renew" /\ q.ttl < Found(q.operation).left
                  THEN shortened \cup {q.operation} ELSE shortened
  /\ UNCHANGED <<flowVars, calls, tokens, entries, overtaken>>

(* Recovery in a call of some other client.                                *)
Recover(op) ==
  /\ Found(op) # reservations[op]
  /\ Store(op, Found(op))
  /\ UNCHANGED <<flowVars, late, calls, tokens, historyVars>>
-----------------------------------------------------------------------------
(* Up to the handler.                                                      *)

(* The first round: control.reserve, which is denied while the operation   *)
(* is on record.                                                           *)
FirstRound(c, op, multi) ==
  /\ calls[c] = Idle
  /\ \/ /\ Succeeds(Request("reserve", op))
        /\ calls' = [calls EXCEPT ![c] =
             [Idle EXCEPT !.pc = "reserved", !.operation = op, !.multi = multi]]
        /\ overtaken' = IF \E d \in Calls \ {c} : calls[d].operation = op
                        THEN overtaken \cup {op} ELSE overtaken
     \/ Fails(Request("reserve", op)) /\ UNCHANGED <<calls, overtaken>>
  /\ UNCHANGED <<flowVars, tokens, entries, shortened>>

(* Mutant: markLiable is not awaited, or its error is swallowed.           *)
MarkLiableUnchecked(c) ==
  /\ At(c, "reserved")
  /\ LET q == Request("markLiable", calls[c].operation) IN Succeeds(q) \/ Fails(q)
  /\ Goto(c, "entering")
  /\ UNCHANGED <<flowVars, tokens, historyVars>>

LeaseMarkLiable(c) ==
  /\ At(c, "reserved")
  /\ LET q == Request("markLiable", calls[c].operation)
     IN  \/ Succeeds(q) /\ Goto(c, "entering")
         \/ Fails(q) /\ Leave(c)
  /\ UNCHANGED <<flowVars, tokens, historyVars>>

(* A later round: the token is consumed if it matches the call.            *)
Resume(c, f, binding) ==
  /\ calls[c] = Idle
  /\ f \in DOMAIN tokens
  /\ \/ /\ Matches(f, binding)
        /\ TakeFlow(f)
        /\ \/ calls' = [calls EXCEPT ![c] =
                [Idle EXCEPT !.pc = "resuming", !.operation = LiveFlows[f].binding,
                             !.multi = TRUE, !.round = LiveFlows[f].round, !.flow = {f}]]
           \/ UNCHANGED calls
     \/ /\ ~Matches(f, binding)
        /\ PruneOnly
        /\ UNCHANGED calls
  /\ UNCHANGED <<storeVars, tokens, historyVars>>

RenewResumed(c) ==
  /\ At(c, "resuming")
  /\ LET q == RenewRequest(calls[c].operation, SuspendTtl)
     IN  \/ Succeeds(q) /\ Goto(c, "entering")
         \/ Fails(q) /\ Leave(c)
  /\ UNCHANGED <<flowVars, tokens, historyVars>>

EnterHandler(c) ==
  /\ At(c, "entering")
  /\ calls' = [calls EXCEPT ![c].pc = "handling", ![c].heartbeat = "waiting"]
  /\ entries' = [f \in FlowIds |-> IF f \in calls[c].flow THEN entries[f] + 1 ELSE entries[f]]
  /\ UNCHANGED <<flowVars, storeVars, tokens, overtaken, shortened>>
-----------------------------------------------------------------------------
(* startLeaseHeartbeat.                                                    *)

HeartbeatFires(c) ==
  /\ calls[c].heartbeat = "waiting"
  /\ calls' = [calls EXCEPT ![c].heartbeat = "sent"]
  /\ UNCHANGED <<flowVars, storeVars, tokens, historyVars>>

HeartbeatRenews(c) ==
  /\ calls[c].heartbeat = "sent"
  /\ LET q == RenewRequest(calls[c].operation, Ttl) IN Succeeds(q) \/ Fails(q)
  /\ calls' = [calls EXCEPT ![c].heartbeat = "answered"]
  /\ UNCHANGED <<flowVars, tokens, historyVars>>

(* Success or error: the next renewal is scheduled unless stopped.         *)
HeartbeatReturns(c) ==
  /\ calls[c].heartbeat = "answered"
  /\ calls' = [calls EXCEPT ![c].heartbeat = IF calls[c].stopped THEN "off" ELSE "waiting"]
  /\ UNCHANGED <<flowVars, storeVars, tokens, historyVars>>

(* Mutants: the heartbeat goes on; a renewal under way is not awaited.     *)
HandlerReturnsBeating(c) ==
  /\ At(c, "handling")
  /\ Goto(c, "stopping")
  /\ UNCHANGED <<flowVars, storeVars, tokens, historyVars>>

(* The handler returns or throws, and heartbeat.stop() is called.          *)
HandlerReturns(c) ==
  /\ At(c, "handling")
  /\ calls' = [calls EXCEPT ![c].pc = "stopping", ![c].stopped = TRUE,
                            ![c].heartbeat = IF @ = "waiting" THEN "off" ELSE @]
  /\ UNCHANGED <<flowVars, storeVars, tokens, historyVars>>

StoppedWithoutWaiting(c) ==
  /\ At(c, "stopping")
  /\ Goto(c, "continuing")
  /\ UNCHANGED <<flowVars, storeVars, tokens, historyVars>>

(* stop() waits for a renewal that is under way.                           *)
Stopped(c) ==
  /\ At(c, "stopping")
  /\ calls[c].heartbeat \in {"off", "waiting"}
  /\ Goto(c, "continuing")
  /\ UNCHANGED <<flowVars, storeVars, tokens, historyVars>>
-----------------------------------------------------------------------------
(* After the handler.                                                      *)

(* An exception, a tool error or a result: the lease is settled, at the    *)
(* units its resolver names or, if there is none or it fails, at all.      *)
Classify(c) ==
  /\ At(c, "continuing")
  /\ Goto(c, "settling")
  /\ UNCHANGED <<flowVars, storeVars, tokens, historyVars>>

(* Mutant: rounds are not counted against the limit.                       *)
InputRequiredUnbounded(c) ==
  /\ At(c, "continuing")
  /\ IF calls[c].multi THEN Goto(c, "minting") ELSE Goto(c, "settling")
  /\ UNCHANGED <<flowVars, storeVars, tokens, historyVars>>

(* An input_required result: unsupported by protectTool, over the limit,   *)
(* with an invalid inner state, or suspended.                              *)
InputRequired(c) ==
  /\ At(c, "continuing")
  /\ \/ calls[c].multi /\ calls[c].round + 1 <= MaxRounds /\ Goto(c, "minting")
     \/ Goto(c, "settling")
  /\ UNCHANGED <<flowVars, storeVars, tokens, historyVars>>

(* Ids are random: none that is still known anywhere is drawn again.       *)
Fresh(f) ==
  /\ f \notin DOMAIN flows \cup DOMAIN consumed \cup DOMAIN tokens
  /\ \A c \in Calls : f \notin calls[c].flow

(* createFlowId and requestState.mint, either of which may throw.          *)
Mint(c) ==
  /\ At(c, "minting")
  /\ \/ Goto(c, "settling") /\ UNCHANGED entries
     \/ \E f \in FlowIds :
          /\ Fresh(f)
          /\ calls' = [calls EXCEPT ![c].pc = "renewing", ![c].flow = {f}]
          /\ entries' = [entries EXCEPT ![f] = 0]
  /\ UNCHANGED <<flowVars, storeVars, tokens, overtaken, shortened>>

RenewSuspended(c) ==
  /\ At(c, "renewing")
  /\ LET op == calls[c].operation
         q == RenewRequest(op, SuspendTtl)
     IN  \/ /\ Succeeds(q)
            /\ calls' = [calls EXCEPT ![c].pc = "suspending", ![c].left = SuspendTtl]
            /\ shortened' = shortened \ {op}
         \/ Fails(q) /\ Goto(c, "settling") /\ UNCHANGED shortened
  /\ UNCHANGED <<flowVars, tokens, entries, overtaken>>

(* flowStore.suspend, after which the client gets the token.  An error is  *)
(* taken for a failure even if the flow was stored.                        *)
SuspendFlow(c) ==
  /\ At(c, "suspending")
  /\ \E f \in calls[c].flow :
       LET record == [binding |-> calls[c].operation, round |-> calls[c].round + 1,
                      left |-> calls[c].left]
       IN  \/ /\ CanSuspend(f, record)
              /\ StoreFlow(f, record)
              /\ \/ /\ tokens' = [g \in DOMAIN tokens \cup {f} |->
                                   IF g = f THEN record.left ELSE tokens[g]]
                    /\ Leave(c)
                 \/ Goto(c, "settling") /\ UNCHANGED tokens
           \/ /\ PruneOnly \/ UNCHANGED flowVars
              /\ Goto(c, "settling")
              /\ UNCHANGED tokens
  /\ UNCHANGED <<storeVars, historyVars>>

(* settleOnce: an error is surfaced, not retried.                          *)
Settle(c) ==
  /\ At(c, "settling")
  /\ LET q == Request("settle", calls[c].operation)
     IN  Succeeds(q) \/ Fails(q)
  /\ Leave(c)
  /\ UNCHANGED <<flowVars, tokens, historyVars>>

(* The process of the call dies.                                           *)
Crash(c) ==
  /\ calls[c] # Idle
  /\ calls' = [calls EXCEPT ![c] = Idle]
  /\ UNCHANGED <<flowVars, storeVars, tokens, historyVars>>

(* A token verifies for as long as its flow lasts.                         *)
Tick ==
  /\ FlowTick
  /\ reservations' = [op \in Operations |-> [reservations[op] EXCEPT !.left = Less(@)]]
  /\ calls' = [c \in Calls |-> [calls[c] EXCEPT !.left = Less(@)]]
  /\ tokens' = [f \in {g \in DOMAIN tokens : tokens[g] > 1} |-> tokens[f] - 1]
  /\ UNCHANGED <<late, historyVars>>
-----------------------------------------------------------------------------
Heartbeat(c) == HeartbeatRenews(c) \/ HeartbeatReturns(c)

Progress(c) ==
  \/ LeaseMarkLiable(c) \/ RenewResumed(c) \/ EnterHandler(c)
  \/ HandlerReturns(c) \/ Stopped(c) \/ Classify(c) \/ InputRequired(c)
  \/ Mint(c) \/ RenewSuspended(c) \/ SuspendFlow(c) \/ Settle(c)

Next ==
  \/ \E c \in Calls :
       \/ \E op \in Operations, multi \in MultiRound : FirstRound(c, op, multi)
       \/ \E f \in FlowIds, binding \in Bindings : Resume(c, f, binding)
       \/ Progress(c) \/ HeartbeatFires(c) \/ Heartbeat(c) \/ Crash(c)
  \/ \E op \in Operations : Recover(op)
  \/ \E q \in Requests : ReachesLate(q)
  \/ Tick

(* Promises resolve, handlers and store requests end, the last renewal of  *)
(* a heartbeat too once stop() waits for it, time passes, and somebody     *)
(* uses the store.  Nobody has to call, resume or crash, and a request     *)
(* that nobody waits for need not arrive.                                  *)
Fairness ==
  /\ \A c \in Calls : WF_vars(Progress(c) \/ (calls[c].stopped /\ Heartbeat(c)))
  /\ \A op \in Operations : WF_vars(Recover(op))
  /\ WF_vars(Tick)

Spec == Init /\ [][Next]_vars /\ Fairness
-----------------------------------------------------------------------------
(* Properties.                                                             *)

(* Whatever expires, crashes or fails around it, a handler that has been   *)
(* entered is paid for: its operation is liable or settled, never pending  *)
(* or forgotten.                                                           *)
HandlerNeverFree ==
  \A c \in Calls : calls[c].pc \in Steps \ {"idle", "reserved", "resuming"} =>
    reservations[calls[c].operation].state \in {"liable", "settled"}

(* Concurrent or replayed resume attempts of one token enter the handler   *)
(* at most once.                                                           *)
OneReentryPerToken == \A f \in FlowIds : entries[f] <= 1

(* Two handlers never work on one operation at the same time, first rounds *)
(* and resumed ones alike, as long as no admission was overtaken.          *)
OneHandlerPerOperation ==
  \A c, d \in Calls :
    c # d /\ calls[c].pc \notin {"idle", "reserved"} /\ calls[d].pc = "handling"
      /\ calls[c].operation = calls[d].operation
    => calls[d].operation \in overtaken

(* The lease of a suspended flow lasts as long as the flow, so that it can *)
(* be resumed until then: no renewal that the wrapper waits for, and       *)
(* heartbeat.stop() waits for the last one of the heartbeat, shortens it.  *)
(* What does is a renewal of the heartbeat that had timed out and reaches  *)
(* the store after the renewal for the suspension.                         *)
SuspendedLeaseLasts ==
  \A f \in DOMAIN flows :
    LET r == reservations[flows[f].binding]
    IN  r.state = "liable" /\ flows[f].binding \notin overtaken \cup shortened
          => r.left >= flows[f].left

(* Work that was made liable is settled in the end: neither a heartbeat    *)
(* nor an endless chain of rounds keeps its lease alive forever.           *)
LiableSettles ==
  \A op \in Operations : reservations[op].state = "liable" ~> reservations[op].state = "settled"
=============================================================================
