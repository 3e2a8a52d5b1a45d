------------------------- MODULE McpToolCalls_proofs -------------------------
(***************************************************************************)
(* What holds of wrapped tool calls for any number of calls, operations,   *)
(* flow ids and rounds, and for all lease lifetimes.                       *)
(*                                                                         *)
(* None of the properties is inductive by itself.  CallInv adds what each  *)
(* rests on: who may hold a flow (Exclusive) and an operation (OneHolder), *)
(* which flows no handler was entered for yet (Unentered), and that what   *)
(* has entered a handler is paid for (AllPaid).  Every action is a step of *)
(* one of nine kinds (EveryStep), which say what the step does to flows,   *)
(* reservations and calls; each part of CallInv is kept by each kind.      *)
(***************************************************************************)
EXTENDS McpToolCalls, TLAPS

Reservation == [state : {"absent", "pending", "liable", "settled"}, left : Nat]

CallState ==
  [pc : Steps, operation : Operations \cup {""}, multi : BOOLEAN, round : 0..MaxRounds,
   flow : {{}} \cup {{f} : f \in FlowIds}, heartbeat : {"off", "waiting", "sent", "answered"},
   stopped : BOOLEAN, left : Nat]

Paid(op) == reservations[op].state \in {"liable", "settled"}

(* What a call knows of itself.  A heartbeat runs beside the handler only, *)
(* and is over before anything else happens.                               *)
LocalOK(r) ==
  /\ r.pc = "idle" => r = Idle
  /\ r.pc # "idle" => r.operation \in Operations
  /\ r.pc = "reserved" => r.flow = {}
  /\ r.pc \in {"minting", "renewing", "suspending"} => r.round + 1 <= MaxRounds
  /\ r.pc \notin {"handling", "stopping"} => r.heartbeat = "off"
  /\ r.pc = "stopping" => r.stopped /\ r.heartbeat # "waiting"

Typed ==
  /\ McpTypeOK
  /\ \A c \in Calls : LocalOK(calls[c])
  /\ \A f \in DOMAIN flows : flows[f].binding \in Operations /\ flows[f].round <= MaxRounds

(* What has entered its handler or was suspended from it is paid for.      *)
AllPaid ==
  /\ \A c \in Calls : calls[c].pc \notin {"idle", "reserved"} => Paid(calls[c].operation)
  /\ \A f \in DOMAIN flows : Paid(flows[f].binding)

(* No handler has been entered for a flow that is stored or in the hands   *)
(* of a call that has yet to enter its handler or to suspend.              *)
Unentered ==
  /\ \A f \in FlowIds : entries[f] <= 1
  /\ \A f \in DOMAIN flows : entries[f] = 0
  /\ \A c \in Calls : \A f \in calls[c].flow :
       calls[c].pc \in {"resuming", "entering", "renewing", "suspending"} =>
         entries[f] = 0 /\ f \notin DOMAIN flows

(* Such a call is the only one to have the flow.                           *)
Exclusive ==
  \A c \in Calls : \A f \in calls[c].flow :
    /\ calls[c].pc \in {"renewing", "suspending"} =>
         f \notin DOMAIN tokens /\ \A d \in Calls \ {c} : f \notin calls[d].flow
    /\ calls[c].pc \in {"resuming", "entering"} =>
         \A d \in Calls \ {c} : calls[d].pc \in {"resuming", "entering"} => f \notin calls[d].flow

(* Unless an admission was overtaken, an operation is in the hands of one  *)
(* call or one stored flow.  Only a call that settles can have left behind *)
(* a flow, one for which nobody has a token.                               *)
OneHolder ==
  /\ \A c, d \in Calls :
       c # d /\ calls[c].pc # "idle" /\ calls[d].pc # "idle"
         /\ calls[c].operation = calls[d].operation
       => calls[c].operation \in overtaken
  /\ \A f \in DOMAIN flows, c \in Calls :
       calls[c].pc # "idle" /\ calls[c].operation = flows[f].binding
       => \/ calls[c].operation \in overtaken
          \/ calls[c].pc = "settling" /\ f \notin DOMAIN tokens
  /\ \A f, g \in DOMAIN flows :
       f # g /\ flows[f].binding = flows[g].binding => flows[f].binding \in overtaken

(* The lease lasts as long as the flow that is suspended or about to be,   *)
(* unless a renewal that came late has shortened it.                       *)
LeaseLasts ==
  /\ SuspendedLeaseLasts
  /\ \A c \in Calls : calls[c].pc = "suspending" =>
       LET r == reservations[calls[c].operation]
       IN  r.state = "liable" /\ calls[c].operation \notin overtaken \cup shortened
             => r.left >= calls[c].left

CallInv == Typed /\ AllPaid /\ Unentered /\ Exclusive /\ OneHolder /\ LeaseLasts
-----------------------------------------------------------------------------
(* Operators.                                                              *)

(* What the assumptions on the constants give.                             *)
LEMMA ConstantTypes ==
  /\ Ttl \in Nat /\ SuspendTtl \in Nat /\ MaxRounds \in Nat /\ MaxRounds > 0
BY McpConstants

LEMMA IdleType == Idle \in CallState /\ Idle.pc = "idle" /\ LocalOK(Idle) /\ Idle.flow = {}
<1>1. 0 \in 0..MaxRounds
  BY ConstantTypes
<1> QED
  BY <1>1 DEF Idle, CallState, Steps, LocalOK

LEMMA CallFields ==
  ASSUME NEW r \in CallState
  PROVE  /\ r.pc \in Steps /\ r.operation \in Operations \cup {""} /\ r.multi \in BOOLEAN
         /\ r.round \in 0..MaxRounds /\ r.flow \in {{}} \cup {{f} : f \in FlowIds}
         /\ r.heartbeat \in {"off", "waiting", "sent", "answered"}
         /\ r.stopped \in BOOLEAN /\ r.left \in Nat
         /\ \A f \in r.flow : f \in FlowIds /\ r.flow = {f}
BY DEF CallState

(* The types, one variable at a time.                                      *)
LEMMA TypedIs ==
  ASSUME Typed
  PROVE  /\ reservations \in [Operations -> Reservation]
         /\ calls \in [Calls -> CallState]
         /\ DOMAIN tokens \subseteq FlowIds /\ tokens \in [DOMAIN tokens -> Nat]
         /\ entries \in [FlowIds -> Nat] /\ overtaken \subseteq Operations
         /\ shortened \subseteq Operations /\ late \in [Requests -> Nat]
         /\ DOMAIN flows \subseteq FlowIds /\ flows \in [DOMAIN flows -> FlowRecord]
         /\ DOMAIN consumed \subseteq FlowIds /\ consumed \in [DOMAIN consumed -> Nat]
         /\ \A c \in Calls : LocalOK(calls[c])
         /\ \A f \in DOMAIN flows : /\ flows[f] \in FlowRecord
                                    /\ flows[f].binding \in Operations /\ flows[f].round <= MaxRounds
BY DEF Typed, McpTypeOK, FlowTypeOK, Reservation, CallState

(* An access finds the reservation, or what recovery has made of it: an    *)
(* open one is found as it was left, and what is paid for is found paid    *)
(* for.                                                                    *)
LEMMA FoundIs ==
  ASSUME NEW op, reservations[op] \in Reservation
  PROVE  /\ Found(op) \in Reservation
         /\ (\/ Found(op) = reservations[op]
             \/ Found(op) = Absent
             \/ Found(op).state = "settled" /\ reservations[op].state = "liable")
         /\ Open(Found(op)) => Found(op) = reservations[op] /\ reservations[op].left > 0
         /\ Paid(op) => Found(op).state \in {"liable", "settled"} /\ Found(op) # Absent
         /\ Absent \in Reservation /\ Absent.state = "absent"
         /\ Settled \in Reservation /\ Settled.state = "settled"
BY DEF Found, Reservation, Absent, Settled, Open, Paid

(* The flows that pruning, consuming and storing leave.                    *)
LEMMA LiveFlowsAre ==
  ASSUME FlowTypeOK
  PROVE  /\ DOMAIN LiveFlows \subseteq DOMAIN flows
         /\ \A f \in DOMAIN LiveFlows : LiveFlows[f] = flows[f] /\ LiveFlows[f] \in FlowRecord
         /\ DOMAIN HeldIds \subseteq DOMAIN consumed
         /\ \A f \in DOMAIN HeldIds : HeldIds[f] \in Nat
         /\ \A f \in DOMAIN flows : flows[f].left > 0 => f \in DOMAIN LiveFlows
BY DEF FlowTypeOK, LiveFlows, HeldIds

Shrunk ==
  /\ DOMAIN flows' \subseteq DOMAIN flows
  /\ \A f \in DOMAIN flows' : flows'[f] = flows[f]

LEMMA PruneOnlyIs ==
  ASSUME FlowTypeOK, PruneOnly
  PROVE  FlowTypeOK' /\ Shrunk
<1>1. /\ LiveFlows = [f \in DOMAIN LiveFlows |-> LiveFlows[f]]
      /\ HeldIds = [f \in DOMAIN HeldIds |-> HeldIds[f]]
  BY DEF LiveFlows, HeldIds
<1> QED
  BY <1>1, LiveFlowsAre DEF FlowTypeOK, PruneOnly, Shrunk

LEMMA TakeFlowIs ==
  ASSUME FlowTypeOK, NEW f \in DOMAIN LiveFlows, TakeFlow(f)
  PROVE  FlowTypeOK' /\ Shrunk /\ f \notin DOMAIN flows'
<1>1. f \in FlowIds /\ LiveFlows[f].left \in Nat
  BY LiveFlowsAre DEF FlowTypeOK, FlowRecord
<1>2. /\ DOMAIN flows' = DOMAIN LiveFlows \ {f}
      /\ flows' = [g \in DOMAIN LiveFlows \ {f} |-> LiveFlows[g]]
  BY DEF TakeFlow
<1>3. /\ DOMAIN consumed' = DOMAIN HeldIds \cup {f}
      /\ \A g \in DOMAIN HeldIds \cup {f} : consumed'[g] = IF g = f THEN LiveFlows[f].left ELSE HeldIds[g]
      /\ consumed' = [g \in DOMAIN consumed' |-> consumed'[g]]
  BY DEF TakeFlow
<1>4. consumed' \in [DOMAIN consumed' -> Nat] /\ DOMAIN consumed' \subseteq FlowIds
  BY <1>1, <1>3, LiveFlowsAre DEF FlowTypeOK
<1>5. flows' \in [DOMAIN flows' -> FlowRecord] /\ Shrunk /\ DOMAIN flows' \subseteq FlowIds
  BY <1>2, LiveFlowsAre DEF Shrunk, FlowTypeOK
<1> QED
  BY <1>2, <1>4, <1>5 DEF FlowTypeOK

LEMMA StoreFlowIs ==
  ASSUME FlowTypeOK, NEW f \in FlowIds, NEW record \in FlowRecord, StoreFlow(f, record)
  PROVE  /\ FlowTypeOK' /\ DOMAIN flows' \subseteq DOMAIN flows \cup {f}
         /\ f \in DOMAIN flows' /\ flows'[f] = record
         /\ \A g \in DOMAIN flows' : g # f => flows'[g] = flows[g]
<1>1. /\ DOMAIN flows' = DOMAIN LiveFlows \cup {f}
      /\ \A g \in DOMAIN LiveFlows \cup {f} : flows'[g] = IF g = f THEN record ELSE LiveFlows[g]
      /\ flows' = [g \in DOMAIN flows' |-> flows'[g]]
      /\ consumed' = HeldIds /\ HeldIds = [g \in DOMAIN HeldIds |-> HeldIds[g]]
  BY DEF StoreFlow, HeldIds
<1>2. flows' \in [DOMAIN flows' -> FlowRecord]
  BY <1>1, LiveFlowsAre
<1>3. consumed' \in [DOMAIN consumed' -> Nat]
  BY <1>1, LiveFlowsAre
<1> QED
  BY <1>1, <1>2, <1>3, LiveFlowsAre DEF FlowTypeOK

LEMMA FlowTickIs ==
  ASSUME FlowTypeOK, FlowTick
  PROVE  /\ FlowTypeOK' /\ DOMAIN flows' = DOMAIN flows
         /\ \A f \in DOMAIN flows : /\ flows'[f].binding = flows[f].binding
                                    /\ flows'[f].round = flows[f].round
                                    /\ flows'[f].left = Less(flows[f].left)
<1>1. \A n \in Nat : Less(n) \in Nat
  BY DEF Less
<1>2. ASSUME NEW f \in DOMAIN flows
      PROVE  /\ flows'[f] \in FlowRecord /\ flows'[f].binding = flows[f].binding
             /\ flows'[f].round = flows[f].round /\ flows'[f].left = Less(flows[f].left)
  <2>1. flows[f] \in FlowRecord
    BY DEF FlowTypeOK
  <2>2. flows'[f] = [flows[f] EXCEPT !.left = Less(flows[f].left)]
    BY DEF FlowTick
  <2>3. Less(flows[f].left) \in Nat
    BY <1>1, <2>1 DEF FlowRecord
  <2> QED BY <2>1, <2>2, <2>3 DEF FlowRecord
<1>3. DOMAIN flows' = DOMAIN flows /\ flows' = [f \in DOMAIN flows |-> flows'[f]]
  BY DEF FlowTick
<1>4. /\ DOMAIN consumed' = DOMAIN consumed /\ consumed' = [f \in DOMAIN consumed |-> consumed'[f]]
      /\ \A f \in DOMAIN consumed : consumed'[f] = Less(consumed[f])
  BY DEF FlowTick
<1>5. flows' \in [DOMAIN flows' -> FlowRecord]
  BY <1>2, <1>3
<1>6. consumed' \in [DOMAIN consumed' -> Nat]
  BY <1>1, <1>4 DEF FlowTypeOK
<1> QED
  BY <1>2, <1>3, <1>4, <1>5, <1>6 DEF FlowTypeOK
-----------------------------------------------------------------------------
(* The shapes of local steps and of requests to the usage store.           *)

(* What a step does to the local state of the call that takes it.          *)
Moves(c) ==
  /\ calls' \in [Calls -> CallState]
  /\ \A d \in Calls \ {c} : calls'[d] = calls[d]

LEMMA MovesTo ==
  ASSUME calls \in [Calls -> CallState], NEW c \in Calls, NEW r \in CallState,
         calls' = [calls EXCEPT ![c] = r]
  PROVE  Moves(c) /\ calls'[c] = r
BY DEF Moves

(* The fields that a call keeps while it works on an operation.            *)
Same(q, r) == r.operation = q.operation /\ r.multi = q.multi /\ r.round = q.round

LEMMA GotoIs ==
  ASSUME calls \in [Calls -> CallState], NEW c \in Calls, NEW pc \in Steps, Goto(c, pc)
  PROVE  /\ Moves(c) /\ calls'[c].pc = pc /\ Same(calls[c], calls'[c])
         /\ calls'[c].flow = calls[c].flow /\ calls'[c].left = calls[c].left
         /\ calls'[c].heartbeat = calls[c].heartbeat /\ calls'[c].stopped = calls[c].stopped
<1> DEFINE r == [calls[c] EXCEPT !.pc = pc]
<1>1. calls' = [calls EXCEPT ![c] = r]
  BY DEF Goto
<1>2. r \in CallState
  BY DEF CallState
<1>3. /\ r.pc = pc /\ Same(calls[c], r) /\ r.flow = calls[c].flow /\ r.left = calls[c].left
      /\ r.heartbeat = calls[c].heartbeat /\ r.stopped = calls[c].stopped
  BY DEF Same, CallState
<1> HIDE DEF r
<1> QED BY <1>1, <1>2, <1>3, MovesTo

LEMMA LeaveIs ==
  ASSUME calls \in [Calls -> CallState], NEW c \in Calls, calls[c].heartbeat = "off", Leave(c)
  PROVE  Moves(c) /\ calls'[c] = Idle
BY MovesTo, IdleType DEF Leave

(* What a request changes: nothing, a recovery, or an open reservation.    *)
ResStep(op) ==
  /\ reservations' \in [Operations -> Reservation]
  /\ \A o \in Operations \ {op} : reservations'[o] = reservations[o]
  /\ \/ reservations'[op] = reservations[op]
     \/ reservations'[op] = Found(op)
     \/ /\ Open(Found(op))
        /\ reservations'[op].state \in {Found(op).state, "liable", "settled"}

LEMMA RequestTypes ==
  ASSUME NEW op \in Operations
  PROVE  /\ \A kind \in {"reserve", "markLiable", "settle"} :
              Request(kind, op) \in Requests /\ Request(kind, op).kind = kind
                /\ Request(kind, op).operation = op
         /\ \A ttl \in {Ttl, SuspendTtl} :
              /\ RenewRequest(op, ttl) \in Requests /\ RenewRequest(op, ttl).kind = "renew"
              /\ RenewRequest(op, ttl).operation = op /\ RenewRequest(op, ttl).ttl = ttl
BY DEF Requests, Request, RenewRequest

LEMMA RequestFields ==
  ASSUME NEW q \in Requests
  PROVE  /\ q.operation \in Operations
         /\ q.kind \in {"reserve", "markLiable", "renew", "settle"}
         /\ q.kind = "renew" => q.ttl \in {Ttl, SuspendTtl}
BY DEF Requests

(* What a request makes of the reservation it finds.                       *)
LEMMA OutcomeIs ==
  ASSUME NEW q \in Requests, reservations \in [Operations -> Reservation]
  PROVE  /\ Outcome(q) \in Reservation
         /\ q.kind = "reserve" => Outcome(q).state = "pending"
         /\ q.kind = "markLiable" =>
              Outcome(q).state = "liable" /\ Outcome(q).left = Found(q.operation).left
         /\ q.kind = "renew" =>
              Outcome(q).state = Found(q.operation).state /\ Outcome(q).left = q.ttl
         /\ q.kind = "settle" => Outcome(q) = Settled
<1>1. Found(q.operation) \in Reservation /\ Settled \in Reservation
  BY RequestFields, FoundIs
<1>2. CASE q.kind = "reserve"
  BY <1>2, ConstantTypes DEF Outcome, Reservation
<1>3. CASE q.kind = "markLiable"
  BY <1>1, <1>3 DEF Outcome, Reservation
<1>4. CASE q.kind = "renew"
  BY <1>1, <1>4, RequestFields, ConstantTypes DEF Outcome, Reservation
<1>5. CASE q.kind = "settle"
  BY <1>1, <1>5 DEF Outcome
<1> QED BY <1>2, <1>3, <1>4, <1>5, RequestFields

(* What an executed request changes.                                       *)
LEMMA ExecutedIs ==
  ASSUME NEW q \in Requests, reservations \in [Operations -> Reservation], Executed(q)
  PROVE  LET op == q.operation
         IN  /\ reservations' \in [Operations -> Reservation]
             /\ \A o \in Operations \ {op} : reservations'[o] = reservations[o]
             /\ \/ reservations'[op] = Found(op)
                \/ Accepted(q) /\ reservations'[op] = Outcome(q)
             /\ Accepted(q) => reservations'[op] = Outcome(q)
<1>1. q.operation \in Operations /\ Found(q.operation) \in Reservation /\ Outcome(q) \in Reservation
  BY RequestFields, FoundIs, OutcomeIs
<1> QED BY <1>1 DEF Executed, Store

(* A request of a call that has a reservation.                             *)
LEMMA RequestIs ==
  ASSUME NEW q \in Requests, reservations \in [Operations -> Reservation],
         q.kind # "reserve", Succeeds(q) \/ Fails(q)
  PROVE  /\ ResStep(q.operation)
         /\ Succeeds(q) => Open(Found(q.operation)) /\ reservations'[q.operation] = Outcome(q)
         /\ \/ reservations'[q.operation] \in {reservations[q.operation], Found(q.operation)}
            \/ Open(Found(q.operation)) /\ reservations'[q.operation] = Outcome(q)
<1>1. q.operation \in Operations /\ Accepted(q) = Open(Found(q.operation))
  BY RequestFields DEF Accepted
<1>2. Executed(q) \/ UNCHANGED reservations
  BY DEF Succeeds, Fails, storeVars
<1>3. Outcome(q).state \in {Found(q.operation).state, "liable", "settled"}
  BY OutcomeIs, RequestFields, FoundIs
<1>4. Succeeds(q) => Accepted(q) /\ Executed(q)
  BY DEF Succeeds
<1> QED BY <1>1, <1>2, <1>3, <1>4, ExecutedIs DEF ResStep

(* What is paid for stays so, whatever a request or a recovery does.       *)
LEMMA PaidStays ==
  ASSUME reservations \in [Operations -> Reservation], NEW op \in Operations, ResStep(op),
         NEW o \in Operations, Paid(o)
  PROVE  Paid(o)'
<1>1. CASE o # op
  BY <1>1 DEF ResStep, Paid
<1>2. CASE o = op
  <2>1. Found(op).state \in {"liable", "settled"}
    BY <1>2, FoundIs
  <2> QED BY <1>2, <2>1 DEF ResStep, Paid
<1> QED BY <1>1, <1>2
-----------------------------------------------------------------------------
(* The kinds of steps.                                                     *)

Untouched == FlowTypeOK' /\ flows' = flows

(* An open reservation is changed by a request that nobody waits for; if   *)
(* its lease gets shorter, this is noted.                                  *)
ChangedLate(op) ==
  /\ Open(Found(op))
  /\ reservations'[op].state \in {Found(op).state, "liable", "settled"}
  /\ \/ reservations'[op].state = "settled"
     \/ reservations'[op].left >= reservations[op].left
     \/ op \in shortened'

(* No call moves: a denied, failed or refused request, a recovery, or a    *)
(* request that nobody waits for.                                          *)
Aside ==
  /\ UNCHANGED <<calls, tokens, entries, overtaken>> /\ shortened \subseteq shortened'
  /\ FlowTypeOK' /\ Shrunk
  /\ reservations' \in [Operations -> Reservation]
  /\ \A op \in Operations :
       Found(op) # Absent =>
         reservations'[op] \in {reservations[op], Found(op)} \/ ChangedLate(op)

Admits(c, op) ==
  /\ Untouched /\ UNCHANGED <<tokens, entries, shortened>>
  /\ calls[c] = Idle /\ Found(op) = Absent
  /\ reservations' \in [Operations -> Reservation]
  /\ \A o \in Operations \ {op} : reservations'[o] = reservations[o]
  /\ Moves(c) /\ LocalOK(calls'[c])
  /\ calls'[c].pc = "reserved" /\ calls'[c].operation = op /\ calls'[c].flow = {}
  /\ overtaken' \subseteq Operations /\ overtaken \subseteq overtaken'
  /\ \A d \in Calls \ {c} : calls[d].operation = op => op \in overtaken'

(* A call that has begun takes a step that touches no flow: it goes on, or *)
(* it ends.                                                                *)
GoesOn(c) ==
  LET q == calls[c]
      r == calls'[c]
      op == q.operation
  IN  /\ Untouched /\ UNCHANGED <<tokens, entries, overtaken>>
      /\ q.pc # "renewing" => UNCHANGED shortened
      /\ shortened \ {op} \subseteq shortened'
      /\ q.pc # "idle" /\ Moves(c) /\ LocalOK(r)
      /\ \/ r = Idle
         \/ /\ r.operation = op /\ r.flow = q.flow
            /\ r.pc \notin {"idle", "reserved", "resuming", "renewing"}
            /\ q.pc # "settling"
            /\ r.pc = "entering" => q.pc \in {"reserved", "resuming"}
            /\ r.pc = "suspending" => q.pc = "renewing" /\ reservations'[op].left = r.left
            /\ q.pc = "reserved" => reservations'[op].state = "liable"
      /\ ResStep(op)
      /\ q.pc = "settling" =>
           \/ reservations'[op] \in {reservations[op], Found(op)}
           \/ reservations'[op].state = "settled"

Takes(c, f) ==
  /\ UNCHANGED <<reservations, tokens, entries, overtaken, shortened>>
  /\ FlowTypeOK' /\ Shrunk
  /\ f \in DOMAIN flows /\ f \in DOMAIN tokens /\ f \notin DOMAIN flows'
  /\ calls[c] = Idle /\ Moves(c) /\ LocalOK(calls'[c])
  /\ calls'[c].pc = "resuming" /\ calls'[c].operation = flows[f].binding
  /\ calls'[c].flow = {f}

Enters(c) ==
  /\ Untouched /\ UNCHANGED <<reservations, tokens, overtaken, shortened>>
  /\ calls[c].pc = "entering" /\ Moves(c) /\ LocalOK(calls'[c])
  /\ calls'[c].pc = "handling" /\ calls'[c].operation = calls[c].operation
  /\ calls'[c].flow = calls[c].flow
  /\ entries' \in [FlowIds -> Nat]
  /\ \A f \in FlowIds : entries'[f] = IF f \in calls[c].flow THEN entries[f] + 1 ELSE entries[f]

Mints(c, f) ==
  /\ Untouched /\ UNCHANGED <<reservations, tokens, overtaken, shortened>>
  /\ calls[c].pc = "minting" /\ Fresh(f) /\ Moves(c) /\ LocalOK(calls'[c])
  /\ calls'[c].pc = "renewing" /\ calls'[c].operation = calls[c].operation
  /\ calls'[c].flow = {f}
  /\ entries' \in [FlowIds -> Nat] /\ entries'[f] = 0
  /\ \A g \in FlowIds \ {f} : entries'[g] = entries[g]

(* The flow is stored, and the client has its token unless the call errs.  *)
Suspends(c, f) ==
  /\ UNCHANGED <<reservations, entries, overtaken, shortened>>
  /\ calls[c].pc = "suspending" /\ f \in calls[c].flow
  /\ FlowTypeOK' /\ f \in DOMAIN flows' /\ DOMAIN flows' \subseteq DOMAIN flows \cup {f}
  /\ \A g \in DOMAIN flows' : g # f => flows'[g] = flows[g]
  /\ flows'[f].binding = calls[c].operation /\ flows'[f].round <= MaxRounds
  /\ flows'[f].left = calls[c].left
  /\ Moves(c) /\ LocalOK(calls'[c])
  /\ \/ /\ calls'[c] = Idle
        /\ DOMAIN tokens' = DOMAIN tokens \cup {f} /\ tokens' \in [DOMAIN tokens' -> Nat]
     \/ /\ calls'[c].pc = "settling" /\ calls'[c].operation = calls[c].operation
        /\ calls'[c].flow = calls[c].flow /\ tokens' = tokens

(* Suspending fails: the call settles.                                     *)
Recants(c) ==
  /\ UNCHANGED <<reservations, tokens, entries, overtaken, shortened>>
  /\ calls[c].pc = "suspending" /\ FlowTypeOK' /\ Shrunk
  /\ Moves(c) /\ LocalOK(calls'[c])
  /\ calls'[c].pc = "settling" /\ calls'[c].operation = calls[c].operation
  /\ calls'[c].flow = calls[c].flow

Ages ==
  /\ UNCHANGED <<entries, overtaken, shortened>>
  /\ FlowTypeOK' /\ DOMAIN flows' = DOMAIN flows
  /\ \A f \in DOMAIN flows : /\ flows'[f].binding = flows[f].binding
                             /\ flows'[f].round = flows[f].round
                             /\ flows'[f].left = Less(flows[f].left)
  /\ reservations' \in [Operations -> Reservation]
  /\ \A op \in Operations : /\ reservations'[op].state = reservations[op].state
                            /\ reservations'[op].left = Less(reservations[op].left)
  /\ calls' \in [Calls -> CallState]
  /\ \A c \in Calls : /\ LocalOK(calls'[c])
                      /\ calls'[c].pc = calls[c].pc /\ calls'[c].operation = calls[c].operation
                      /\ calls'[c].flow = calls[c].flow /\ calls'[c].left = Less(calls[c].left)
  /\ DOMAIN tokens' \subseteq DOMAIN tokens /\ tokens' \in [DOMAIN tokens' -> Nat]

StepKind ==
  \/ Aside \/ Ages
  \/ \E c \in Calls :
       \/ \E op \in Operations : Admits(c, op)
       \/ GoesOn(c) \/ Enters(c) \/ Recants(c)
       \/ \E f \in FlowIds : Takes(c, f) \/ Mints(c, f) \/ Suspends(c, f)
-----------------------------------------------------------------------------
(* Every action is a step of one of these kinds.                           *)

LEMMA LiveCallIs ==
  ASSUME Typed, NEW c \in Calls, calls[c].pc # "idle"
  PROVE  /\ calls[c].operation \in Operations /\ LocalOK(calls[c]) /\ calls[c] \in CallState
         /\ (calls[c].pc \notin {"handling", "stopping"} => calls[c].heartbeat = "off")
BY TypedIs DEF LocalOK

LEMMA UntouchedIs ==
  ASSUME Typed, UNCHANGED flowVars
  PROVE  Untouched
<1>1. FlowTypeOK /\ flows' = flows /\ consumed' = consumed
  BY DEF Typed, McpTypeOK, flowVars
<1> QED BY <1>1 DEF Untouched, FlowTypeOK

LEMMA FirstRoundKind ==
  ASSUME Typed, NEW c \in Calls, NEW op \in Operations, NEW multi \in MultiRound,
         FirstRound(c, op, multi)
  PROVE  Aside \/ Admits(c, op)
<1> DEFINE q == Request("reserve", op)
           r == [Idle EXCEPT !.pc = "reserved", !.operation = op, !.multi = multi]
<1>1. q \in Requests /\ q.kind = "reserve" /\ q.operation = op
  BY RequestTypes
<1>2. reservations \in [Operations -> Reservation] /\ Accepted(q) = (Found(op) = Absent)
  BY <1>1, TypedIs DEF Accepted
<1>3. Untouched /\ calls[c] = Idle /\ UNCHANGED <<tokens, entries, shortened>>
  BY UntouchedIs DEF FirstRound
<1>4. CASE /\ Succeeds(q)
           /\ calls' = [calls EXCEPT ![c] = r]
           /\ overtaken' = IF \E d \in Calls \ {c} : calls[d].operation = op
                           THEN overtaken \cup {op} ELSE overtaken
  <2>1. /\ r \in CallState /\ LocalOK(r) /\ r.pc = "reserved" /\ r.operation = op /\ r.flow = {}
    BY IdleType, McpConstants DEF Idle, CallState, Steps, LocalOK
  <2> HIDE DEF r, q
  <2>2. Moves(c) /\ calls'[c] = r
    BY <1>4, <2>1, MovesTo, TypedIs
  <2>3. /\ reservations' \in [Operations -> Reservation] /\ Found(op) = Absent
        /\ \A o \in Operations \ {op} : reservations'[o] = reservations[o]
    BY <1>1, <1>2, <1>4, ExecutedIs DEF Succeeds
  <2>4. /\ overtaken' \subseteq Operations /\ overtaken \subseteq overtaken'
        /\ \A d \in Calls \ {c} : calls[d].operation = op => op \in overtaken'
    BY <1>4, TypedIs
  <2> QED BY <1>3, <1>4, <2>1, <2>2, <2>3, <2>4 DEF Admits
<1>5. CASE Fails(q) /\ UNCHANGED <<calls, overtaken>>
  <2> HIDE DEF q
  <2>1. Executed(q) \/ UNCHANGED reservations
    BY <1>5 DEF Fails, storeVars
  <2>2. /\ reservations' \in [Operations -> Reservation]
        /\ \A o \in Operations : Found(o) # Absent => reservations'[o] \in {reservations[o], Found(o)}
    BY <1>1, <1>2, <2>1, ExecutedIs
  <2> QED BY <1>3, <1>5, <2>2 DEF Aside, Untouched, Shrunk
<1> QED BY <1>4, <1>5 DEF FirstRound

LEMMA LeaseMarkLiableKind ==
  ASSUME Typed, NEW c \in Calls, LeaseMarkLiable(c)
  PROVE  GoesOn(c)
<1> DEFINE op == calls[c].operation
           q == Request("markLiable", op)
<1>1. /\ calls[c].pc = "reserved" /\ Untouched /\ UNCHANGED <<tokens, entries, overtaken, shortened>>
      /\ \/ Succeeds(q) /\ Goto(c, "entering")
         \/ Fails(q) /\ Leave(c)
  BY UntouchedIs DEF LeaseMarkLiable, At, historyVars
<1>2. op \in Operations /\ calls[c].heartbeat = "off" /\ calls[c].flow = {}
  BY <1>1, LiveCallIs DEF LocalOK
<1>3. q \in Requests /\ q.kind = "markLiable" /\ q.operation = op
  BY <1>2, RequestTypes
<1> HIDE DEF q, op
<1>4. ResStep(op) /\ (Succeeds(q) => reservations'[op].state = "liable")
  BY <1>1, <1>2, <1>3, RequestIs, OutcomeIs, TypedIs
<1>5. CASE Succeeds(q) /\ Goto(c, "entering")
  <2>1. /\ Moves(c) /\ calls'[c].pc = "entering" /\ Same(calls[c], calls'[c])
        /\ calls'[c].flow = calls[c].flow /\ calls'[c].heartbeat = "off"
    BY <1>2, <1>5, GotoIs, TypedIs DEF Steps
  <2>2. LocalOK(calls'[c])
    BY <1>2, <2>1 DEF LocalOK, Same, op
  <2> QED BY <1>1, <1>4, <1>5, <2>1, <2>2 DEF GoesOn, Same, op
<1>6. CASE Leave(c)
  <2>1. Moves(c) /\ calls'[c] = Idle
    BY <1>2, <1>6, LeaveIs, TypedIs
  <2> QED BY <1>1, <1>4, <2>1, IdleType DEF GoesOn, op
<1> QED BY <1>1, <1>5, <1>6

LEMMA ResumeKind ==
  ASSUME Typed, NEW c \in Calls, NEW f \in FlowIds, NEW binding \in Bindings,
         Resume(c, f, binding)
  PROVE  Aside \/ Takes(c, f)
<1> DEFINE r == [Idle EXCEPT !.pc = "resuming", !.operation = LiveFlows[f].binding,
                             !.multi = TRUE, !.round = LiveFlows[f].round, !.flow = {f}]
<1>1. /\ calls[c] = Idle /\ f \in DOMAIN tokens
      /\ UNCHANGED <<reservations, tokens, entries, overtaken, shortened>>
      /\ reservations' \in [Operations -> Reservation] /\ FlowTypeOK
  BY TypedIs DEF Resume, Typed, McpTypeOK, storeVars, historyVars
<1>2. ASSUME FlowTypeOK', Shrunk, UNCHANGED calls
      PROVE  Aside
  BY <1>1, <1>2 DEF Aside
<1>3. CASE PruneOnly /\ UNCHANGED calls
  BY <1>1, <1>2, <1>3, PruneOnlyIs
<1>4. CASE /\ Matches(f, binding) /\ TakeFlow(f)
           /\ calls' = [calls EXCEPT ![c] = r] \/ UNCHANGED calls
  <2>1. f \in DOMAIN LiveFlows /\ f \in DOMAIN flows /\ LiveFlows[f] = flows[f]
    BY <1>1, <1>4, LiveFlowsAre DEF Matches
  <2>2. FlowTypeOK' /\ Shrunk /\ f \notin DOMAIN flows'
    BY <1>1, <1>4, <2>1, TakeFlowIs
  <2>3. /\ flows[f].binding \in Operations /\ flows[f].round \in 0..MaxRounds
    BY <2>1, TypedIs, ConstantTypes DEF FlowRecord
  <2>4. /\ r \in CallState /\ LocalOK(r) /\ r.pc = "resuming"
        /\ r.operation = flows[f].binding /\ r.flow = {f}
    BY <2>1, <2>3, IdleType DEF Idle, CallState, Steps, LocalOK
  <2> HIDE DEF r
  <2>5. CASE calls' = [calls EXCEPT ![c] = r]
    <3>1. Moves(c) /\ calls'[c] = r
      BY <2>4, <2>5, MovesTo, TypedIs
    <3> QED BY <1>1, <2>1, <2>2, <2>4, <3>1 DEF Takes
  <2> QED BY <1>2, <1>4, <2>2, <2>5
<1> QED BY <1>3, <1>4 DEF Resume

LEMMA RenewResumedKind ==
  ASSUME Typed, NEW c \in Calls, RenewResumed(c)
  PROVE  GoesOn(c)
<1> DEFINE op == calls[c].operation
           q == RenewRequest(op, SuspendTtl)
<1>1. /\ calls[c].pc = "resuming" /\ Untouched /\ UNCHANGED <<tokens, entries, overtaken, shortened>>
      /\ \/ Succeeds(q) /\ Goto(c, "entering")
         \/ Fails(q) /\ Leave(c)
  BY UntouchedIs DEF RenewResumed, At, historyVars
<1>2. op \in Operations /\ calls[c].heartbeat = "off"
  BY <1>1, LiveCallIs
<1>3. q \in Requests /\ q.kind = "renew" /\ q.operation = op
  BY <1>2, RequestTypes
<1> HIDE DEF q, op
<1>4. ResStep(op)
  BY <1>1, <1>2, <1>3, RequestIs, TypedIs
<1>5. CASE Goto(c, "entering")
  <2>1. /\ Moves(c) /\ calls'[c].pc = "entering" /\ Same(calls[c], calls'[c])
        /\ calls'[c].flow = calls[c].flow /\ calls'[c].heartbeat = "off"
    BY <1>2, <1>5, GotoIs, TypedIs DEF Steps
  <2>2. LocalOK(calls'[c])
    BY <1>2, <2>1 DEF LocalOK, Same, op
  <2> QED BY <1>1, <1>4, <2>1, <2>2 DEF GoesOn, Same, op
<1>6. CASE Leave(c)
  <2>1. Moves(c) /\ calls'[c] = Idle
    BY <1>2, <1>6, LeaveIs, TypedIs
  <2> QED BY <1>1, <1>4, <2>1, IdleType DEF GoesOn, op
<1> QED BY <1>1, <1>5, <1>6

LEMMA EnterHandlerKind ==
  ASSUME Typed, NEW c \in Calls, EnterHandler(c)
  PROVE  Enters(c)
<1> DEFINE r == [calls[c] EXCEPT !.pc = "handling", !.heartbeat = "waiting"]
<1>1. /\ calls[c].pc = "entering" /\ Untouched
      /\ UNCHANGED <<reservations, tokens, overtaken, shortened>>
      /\ calls' = [calls EXCEPT ![c] = r]
      /\ entries' = [f \in FlowIds |-> IF f \in calls[c].flow THEN entries[f] + 1 ELSE entries[f]]
  BY UntouchedIs DEF EnterHandler, At, storeVars
<1>2. calls[c].operation \in Operations /\ calls[c] \in CallState
  BY <1>1, LiveCallIs
<1>3. /\ r \in CallState /\ LocalOK(r) /\ r.pc = "handling"
      /\ r.operation = calls[c].operation /\ r.flow = calls[c].flow
  BY <1>2 DEF CallState, Steps, LocalOK
<1> HIDE DEF r
<1>4. Moves(c) /\ calls'[c] = r
  BY <1>1, <1>3, MovesTo, TypedIs
<1>5. entries' \in [FlowIds -> Nat]
  BY <1>1, TypedIs
<1> QED BY <1>1, <1>3, <1>4, <1>5 DEF Enters

(* A call whose heartbeat is on is in its handler or waits for it to stop. *)
LEMMA BeatingIs ==
  ASSUME Typed, NEW c \in Calls, calls[c].heartbeat # "off"
  PROVE  /\ calls[c].pc \in {"handling", "stopping"} /\ calls[c].operation \in Operations
         /\ calls[c].pc = "stopping" => calls[c].stopped /\ calls[c].heartbeat # "waiting"
BY TypedIs DEF LocalOK

LEMMA HeartbeatMoves ==
  ASSUME Typed, NEW c \in Calls, calls[c].pc \in {"handling", "stopping"},
         NEW beat \in {"off", "waiting", "sent", "answered"},
         calls[c].pc = "stopping" => beat # "waiting",
         calls' = [calls EXCEPT ![c].heartbeat = beat]
  PROVE  /\ Moves(c) /\ LocalOK(calls'[c]) /\ calls'[c].pc = calls[c].pc
         /\ calls'[c].operation = calls[c].operation /\ calls'[c].flow = calls[c].flow
<1> DEFINE r == [calls[c] EXCEPT !.heartbeat = beat]
<1>1. calls' = [calls EXCEPT ![c] = r]
  OBVIOUS
<1>2. calls[c].operation \in Operations /\ calls[c] \in CallState /\ LocalOK(calls[c])
  BY LiveCallIs
<1>3. /\ r \in CallState /\ r.pc = calls[c].pc /\ r.operation = calls[c].operation
      /\ r.flow = calls[c].flow /\ r.heartbeat = beat /\ r.stopped = calls[c].stopped
  BY <1>2 DEF CallState
<1>4. LocalOK(r)
  BY <1>2, <1>3 DEF LocalOK
<1> HIDE DEF r
<1> QED BY <1>1, <1>3, <1>4, MovesTo, TypedIs

LEMMA HeartbeatKind ==
  ASSUME Typed, NEW c \in Calls, HeartbeatFires(c) \/ Heartbeat(c)
  PROVE  GoesOn(c)
<1> DEFINE op == calls[c].operation
           q == RenewRequest(op, Ttl)
<1>1. /\ calls[c].heartbeat # "off" /\ Untouched
      /\ UNCHANGED <<tokens, entries, overtaken, shortened>>
  BY UntouchedIs DEF HeartbeatFires, Heartbeat, HeartbeatRenews, HeartbeatReturns, historyVars
<1>2. /\ calls[c].pc \in {"handling", "stopping"} /\ op \in Operations
      /\ calls[c].pc = "stopping" => calls[c].stopped /\ calls[c].heartbeat # "waiting"
  BY <1>1, BeatingIs
<1>3. /\ Moves(c) /\ LocalOK(calls'[c]) /\ calls'[c].pc = calls[c].pc
      /\ calls'[c].operation = op /\ calls'[c].flow = calls[c].flow
  <2>1. CASE HeartbeatFires(c)
    BY <1>2, <2>1, HeartbeatMoves DEF HeartbeatFires
  <2>2. CASE HeartbeatRenews(c)
    BY <1>2, <2>2, HeartbeatMoves DEF HeartbeatRenews
  <2>3. CASE HeartbeatReturns(c)
    BY <1>2, <2>3, HeartbeatMoves DEF HeartbeatReturns
  <2> QED BY <2>1, <2>2, <2>3 DEF Heartbeat
<1>4. ResStep(op)
  <2>1. CASE UNCHANGED reservations
    BY <1>2, <2>1, TypedIs DEF ResStep
  <2>2. CASE Succeeds(q) \/ Fails(q)
    <3>1. q \in Requests /\ q.kind = "renew" /\ q.operation = op
      BY <1>2, RequestTypes
    <3> HIDE DEF q, op
    <3> QED BY <1>2, <2>2, <3>1, RequestIs, TypedIs
  <2> QED BY <2>1, <2>2 DEF HeartbeatFires, Heartbeat, HeartbeatRenews, HeartbeatReturns, storeVars
<1> QED BY <1>1, <1>2, <1>3, <1>4 DEF GoesOn

LEMMA HandlerReturnsKind ==
  ASSUME Typed, NEW c \in Calls, HandlerReturns(c)
  PROVE  GoesOn(c)
<1> DEFINE beat == IF calls[c].heartbeat = "waiting" THEN "off" ELSE calls[c].heartbeat
           r == [calls[c] EXCEPT !.pc = "stopping", !.stopped = TRUE, !.heartbeat = beat]
<1>1. /\ calls[c].pc = "handling" /\ Untouched
      /\ UNCHANGED <<reservations, tokens, entries, overtaken, shortened>>
      /\ calls' = [calls EXCEPT ![c] = r]
  BY UntouchedIs DEF HandlerReturns, At, storeVars, historyVars
<1>2. calls[c].operation \in Operations /\ calls[c] \in CallState
  BY <1>1, LiveCallIs
<1>3. beat \in {"off", "sent", "answered"}
  BY <1>2 DEF CallState
<1> HIDE DEF beat
<1>4. /\ r \in CallState /\ LocalOK(r) /\ r.pc = "stopping"
      /\ r.operation = calls[c].operation /\ r.flow = calls[c].flow
  BY <1>2, <1>3 DEF CallState, Steps, LocalOK
<1> HIDE DEF r
<1>5. Moves(c) /\ calls'[c] = r
  BY <1>1, <1>4, MovesTo, TypedIs
<1>6. ResStep(calls[c].operation)
  BY <1>1, TypedIs DEF ResStep
<1> QED BY <1>1, <1>4, <1>5, <1>6 DEF GoesOn

LEMMA StoppedKind ==
  ASSUME Typed, NEW c \in Calls, Stopped(c)
  PROVE  GoesOn(c)
<1>1. /\ calls[c].pc = "stopping" /\ Untouched
      /\ UNCHANGED <<reservations, tokens, entries, overtaken, shortened>>
      /\ calls[c].heartbeat \in {"off", "waiting"} /\ Goto(c, "continuing")
  BY UntouchedIs DEF Stopped, At, storeVars, historyVars
<1>2. calls[c].operation \in Operations /\ calls[c].heartbeat = "off"
  BY <1>1, LiveCallIs DEF LocalOK
<1>3. /\ Moves(c) /\ calls'[c].pc = "continuing" /\ Same(calls[c], calls'[c])
      /\ calls'[c].flow = calls[c].flow /\ calls'[c].heartbeat = "off"
  BY <1>1, <1>2, GotoIs, TypedIs DEF Steps
<1>4. LocalOK(calls'[c])
  BY <1>2, <1>3 DEF LocalOK, Same
<1>5. ResStep(calls[c].operation)
  BY <1>1, TypedIs DEF ResStep
<1> QED BY <1>1, <1>3, <1>4, <1>5 DEF GoesOn, Same

(* Turning to settle, from anywhere after the handler.                     *)
LEMMA TurnsToSettle ==
  ASSUME Typed, NEW c \in Calls, Goto(c, "settling"),
         calls[c].pc \in {"continuing", "minting", "renewing", "suspending"}
  PROVE  /\ Moves(c) /\ LocalOK(calls'[c]) /\ calls'[c].pc = "settling"
         /\ calls'[c].operation = calls[c].operation /\ calls'[c].flow = calls[c].flow
<1>1. calls[c].operation \in Operations /\ calls[c].heartbeat = "off"
  BY LiveCallIs
<1>2. /\ Moves(c) /\ calls'[c].pc = "settling" /\ Same(calls[c], calls'[c])
      /\ calls'[c].flow = calls[c].flow /\ calls'[c].heartbeat = "off"
  BY <1>1, GotoIs, TypedIs DEF Steps
<1> QED BY <1>1, <1>2 DEF LocalOK, Same

LEMMA SettlesOn ==
  ASSUME Typed, NEW c \in Calls, Goto(c, "settling"),
         calls[c].pc \in {"continuing", "minting", "renewing"}, Untouched,
         UNCHANGED <<tokens, entries, overtaken, shortened>>, ResStep(calls[c].operation)
  PROVE  GoesOn(c)
BY TurnsToSettle DEF GoesOn

LEMMA ClassifyKind ==
  ASSUME Typed, NEW c \in Calls, Classify(c)
  PROVE  GoesOn(c)
<1>1. /\ calls[c].pc = "continuing" /\ Untouched
      /\ UNCHANGED <<reservations, tokens, entries, overtaken, shortened>>
      /\ Goto(c, "settling")
  BY UntouchedIs DEF Classify, At, storeVars, historyVars
<1>2. ResStep(calls[c].operation)
  BY <1>1, TypedIs DEF ResStep
<1> QED BY <1>1, <1>2, SettlesOn

LEMMA InputRequiredKind ==
  ASSUME Typed, NEW c \in Calls, InputRequired(c)
  PROVE  GoesOn(c)
<1>1. /\ calls[c].pc = "continuing" /\ Untouched
      /\ UNCHANGED <<reservations, tokens, entries, overtaken, shortened>>
      /\ \/ calls[c].round + 1 <= MaxRounds /\ Goto(c, "minting")
         \/ Goto(c, "settling")
  BY UntouchedIs DEF InputRequired, At, storeVars, historyVars
<1>2. ResStep(calls[c].operation)
  BY <1>1, TypedIs DEF ResStep
<1>3. CASE calls[c].round + 1 <= MaxRounds /\ Goto(c, "minting")
  <2>1. calls[c].operation \in Operations /\ calls[c].heartbeat = "off"
    BY <1>1, LiveCallIs
  <2>2. /\ Moves(c) /\ calls'[c].pc = "minting" /\ Same(calls[c], calls'[c])
        /\ calls'[c].flow = calls[c].flow /\ calls'[c].heartbeat = "off"
    BY <1>3, <2>1, GotoIs, TypedIs DEF Steps
  <2>3. LocalOK(calls'[c])
    BY <1>3, <2>1, <2>2 DEF LocalOK, Same
  <2> QED BY <1>1, <1>2, <2>2, <2>3 DEF GoesOn, Same
<1> QED BY <1>1, <1>2, <1>3, SettlesOn

LEMMA MintKind ==
  ASSUME Typed, NEW c \in Calls, Mint(c)
  PROVE  GoesOn(c) \/ \E f \in FlowIds : Mints(c, f)
<1>1. /\ calls[c].pc = "minting" /\ Untouched
      /\ UNCHANGED <<reservations, tokens, overtaken, shortened>>
      /\ calls[c].operation \in Operations
  BY UntouchedIs, LiveCallIs DEF Mint, At, storeVars
<1>2. CASE Goto(c, "settling") /\ UNCHANGED entries
  <2>1. ResStep(calls[c].operation)
    BY <1>1, TypedIs DEF ResStep
  <2> QED BY <1>1, <1>2, <2>1, SettlesOn
<1>3. ASSUME NEW f \in FlowIds, Fresh(f),
             calls' = [calls EXCEPT ![c].pc = "renewing", ![c].flow = {f}],
             entries' = [entries EXCEPT ![f] = 0]
      PROVE  Mints(c, f)
  <2> DEFINE r == [calls[c] EXCEPT !.pc = "renewing", !.flow = {f}]
  <2>1. calls' = [calls EXCEPT ![c] = r]
    BY <1>3
  <2>2. LocalOK(calls[c]) /\ calls[c] \in CallState
    BY <1>1, LiveCallIs
  <2>3. /\ r \in CallState /\ LocalOK(r) /\ r.pc = "renewing"
        /\ r.operation = calls[c].operation /\ r.flow = {f}
    BY <1>1, <2>2 DEF CallState, Steps, LocalOK
  <2> HIDE DEF r
  <2>4. Moves(c) /\ calls'[c] = r
    BY <2>1, <2>3, MovesTo, TypedIs
  <2>5. /\ entries' \in [FlowIds -> Nat] /\ entries'[f] = 0
        /\ \A g \in FlowIds \ {f} : entries'[g] = entries[g]
    BY <1>3, TypedIs
  <2> QED BY <1>1, <1>3, <2>3, <2>4, <2>5 DEF Mints
<1> QED BY <1>2, <1>3 DEF Mint

LEMMA RenewSuspendedKind ==
  ASSUME Typed, NEW c \in Calls, RenewSuspended(c)
  PROVE  GoesOn(c)
<1> DEFINE op == calls[c].operation
           q == RenewRequest(op, SuspendTtl)
<1>1. /\ calls[c].pc = "renewing" /\ Untouched /\ UNCHANGED <<tokens, entries, overtaken>>
      /\ \/ /\ Succeeds(q) /\ shortened' = shortened \ {op}
            /\ calls' = [calls EXCEPT ![c].pc = "suspending", ![c].left = SuspendTtl]
         \/ Fails(q) /\ Goto(c, "settling") /\ UNCHANGED shortened
  BY UntouchedIs DEF RenewSuspended, At
<1>2. op \in Operations /\ LocalOK(calls[c]) /\ calls[c] \in CallState
  BY <1>1, LiveCallIs
<1>3. q \in Requests /\ q.kind = "renew" /\ q.operation = op /\ q.ttl = SuspendTtl
  BY <1>2, RequestTypes
<1> HIDE DEF q
<1>4. ResStep(op) /\ (Succeeds(q) => reservations'[op].left = SuspendTtl)
  <2> HIDE DEF op
  <2> QED BY <1>1, <1>2, <1>3, RequestIs, OutcomeIs, TypedIs
<1>5. CASE /\ Succeeds(q) /\ shortened' = shortened \ {op}
           /\ calls' = [calls EXCEPT ![c].pc = "suspending", ![c].left = SuspendTtl]
  <2> DEFINE r == [calls[c] EXCEPT !.pc = "suspending", !.left = SuspendTtl]
  <2>1. calls' = [calls EXCEPT ![c] = r]
    BY <1>5
  <2>2. /\ r \in CallState /\ LocalOK(r) /\ r.pc = "suspending" /\ r.left = SuspendTtl
        /\ r.operation = op /\ r.flow = calls[c].flow
    BY <1>1, <1>2, ConstantTypes DEF CallState, Steps, LocalOK
  <2> HIDE DEF r
  <2>3. Moves(c) /\ calls'[c] = r
    BY <2>1, <2>2, MovesTo, TypedIs
  <2> QED BY <1>1, <1>3, <1>4, <1>5, <2>2, <2>3 DEF GoesOn
<1> QED BY <1>1, <1>4, <1>5, SettlesOn

LEMMA SuspendFlowKind ==
  ASSUME Typed, NEW c \in Calls, SuspendFlow(c)
  PROVE  Recants(c) \/ \E f \in FlowIds : Suspends(c, f)
<1>1. /\ calls[c].pc = "suspending" /\ UNCHANGED <<reservations, entries, overtaken, shortened>>
      /\ FlowTypeOK /\ LocalOK(calls[c]) /\ calls[c] \in CallState
      /\ calls[c].heartbeat = "off" /\ calls[c].operation \in Operations
  BY LiveCallIs, TypedIs DEF SuspendFlow, At, Typed, McpTypeOK, storeVars, historyVars
<1>2. PICK f \in calls[c].flow :
        LET record == [binding |-> calls[c].operation, round |-> calls[c].round + 1,
                       left |-> calls[c].left]
        IN  \/ /\ CanSuspend(f, record)
               /\ StoreFlow(f, record)
               /\ \/ /\ tokens' = [g \in DOMAIN tokens \cup {f} |->
                                    IF g = f THEN record.left ELSE tokens[g]]
                     /\ Leave(c)
                  \/ Goto(c, "settling") /\ UNCHANGED tokens
            \/ /\ PruneOnly \/ UNCHANGED flowVars
               /\ Goto(c, "settling")
               /\ UNCHANGED tokens
  BY DEF SuspendFlow
<1> DEFINE record == [binding |-> calls[c].operation, round |-> calls[c].round + 1,
                      left |-> calls[c].left]
<1>3. f \in FlowIds /\ calls[c].round \in Nat /\ calls[c].left \in Nat
  <2>1. /\ f \in FlowIds /\ calls[c].round \in 0..MaxRounds /\ calls[c].left \in Nat
    BY <1>1, CallFields
  <2> QED BY <2>1, ConstantTypes
<1>4. calls[c].round + 1 <= MaxRounds
  BY <1>1 DEF LocalOK
<1>5. /\ record \in FlowRecord /\ record.binding = calls[c].operation
      /\ record.round <= MaxRounds /\ record.left = calls[c].left
  BY <1>1, <1>3, <1>4, McpConstants DEF FlowRecord
<1> HIDE DEF record
<1>6. CASE /\ StoreFlow(f, record)
           /\ \/ /\ tokens' = [g \in DOMAIN tokens \cup {f} |->
                                IF g = f THEN record.left ELSE tokens[g]]
                 /\ Leave(c)
              \/ Goto(c, "settling") /\ UNCHANGED tokens
  <2>1. /\ FlowTypeOK' /\ DOMAIN flows' \subseteq DOMAIN flows \cup {f}
        /\ f \in DOMAIN flows' /\ flows'[f] = record
        /\ \A g \in DOMAIN flows' : g # f => flows'[g] = flows[g]
    BY <1>1, <1>3, <1>5, <1>6, StoreFlowIs
  <2>2. CASE /\ tokens' = [g \in DOMAIN tokens \cup {f} |->
                            IF g = f THEN record.left ELSE tokens[g]]
             /\ Leave(c)
    <3>1. Moves(c) /\ calls'[c] = Idle
      BY <1>1, <2>2, LeaveIs, TypedIs
    <3>2. DOMAIN tokens' = DOMAIN tokens \cup {f} /\ tokens' \in [DOMAIN tokens' -> Nat]
      BY <1>3, <1>5, <2>2, TypedIs
    <3> QED BY <1>1, <1>3, <1>5, <2>1, <3>1, <3>2, IdleType DEF Suspends
  <2>3. CASE Goto(c, "settling") /\ UNCHANGED tokens
    BY <1>1, <1>2, <1>3, <1>5, <2>1, <2>3, TurnsToSettle DEF Suspends
  <2> QED BY <1>6, <2>2, <2>3
<1>7. CASE /\ PruneOnly \/ UNCHANGED flowVars
           /\ Goto(c, "settling") /\ UNCHANGED tokens
  <2>1. FlowTypeOK' /\ Shrunk
    BY <1>1, <1>7, PruneOnlyIs, UntouchedIs DEF Untouched, Shrunk
  <2> QED BY <1>1, <1>7, <2>1, TurnsToSettle DEF Recants
<1> QED BY <1>2, <1>3, <1>6, <1>7 DEF record

LEMMA SettleKind ==
  ASSUME Typed, NEW c \in Calls, Settle(c)
  PROVE  GoesOn(c)
<1> DEFINE op == calls[c].operation
           q == Request("settle", op)
<1>1. /\ calls[c].pc = "settling" /\ Untouched /\ UNCHANGED <<tokens, entries, overtaken, shortened>>
      /\ Succeeds(q) \/ Fails(q)
      /\ Leave(c)
  BY UntouchedIs DEF Settle, At, historyVars
<1>2. op \in Operations /\ calls[c].heartbeat = "off"
  BY <1>1, LiveCallIs
<1>3. q \in Requests /\ q.kind = "settle" /\ q.operation = op
  BY <1>2, RequestTypes
<1>4. Moves(c) /\ calls'[c] = Idle
  BY <1>1, <1>2, LeaveIs, TypedIs
<1> HIDE DEF q
<1>5. /\ ResStep(op)
      /\ reservations'[op] \in {reservations[op], Found(op)} \/ reservations'[op].state = "settled"
  <2> HIDE DEF op
  <2>1. Outcome(q) = Settled /\ Settled.state = "settled"
    BY <1>3, OutcomeIs, TypedIs DEF Settled
  <2> QED BY <1>1, <1>2, <1>3, <2>1, RequestIs, TypedIs
<1> QED BY <1>1, <1>4, <1>5, IdleType DEF GoesOn

LEMMA CrashKind ==
  ASSUME Typed, NEW c \in Calls, Crash(c)
  PROVE  GoesOn(c)
<1>1. /\ calls[c] # Idle /\ Untouched
      /\ UNCHANGED <<reservations, tokens, entries, overtaken, shortened>>
      /\ calls' = [calls EXCEPT ![c] = Idle]
  BY UntouchedIs DEF Crash, storeVars, historyVars
<1>2. calls[c].pc # "idle"
  BY <1>1, TypedIs DEF LocalOK
<1>3. Moves(c) /\ calls'[c] = Idle
  BY <1>1, IdleType, MovesTo, TypedIs
<1>4. ResStep(calls[c].operation)
  BY <1>1, <1>2, TypedIs, LiveCallIs DEF ResStep
<1> QED BY <1>1, <1>2, <1>3, <1>4, IdleType DEF GoesOn

LEMMA RecoverKind ==
  ASSUME Typed, NEW op \in Operations, Recover(op)
  PROVE  Aside
<1>1. /\ Untouched /\ UNCHANGED <<calls, tokens, entries, overtaken, shortened>>
      /\ Store(op, Found(op))
  BY UntouchedIs DEF Recover, historyVars
<1>2. Found(op) \in Reservation /\ reservations \in [Operations -> Reservation]
  BY TypedIs, FoundIs
<1>3. reservations' \in [Operations -> Reservation]
  BY <1>1, <1>2 DEF Store
<1>4. \A o \in Operations : reservations'[o] \in {reservations[o], Found(o)}
  BY <1>1, <1>2 DEF Store
<1> QED BY <1>1, <1>3, <1>4 DEF Aside, Untouched, Shrunk

LEMMA ReachesLateKind ==
  ASSUME Typed, NEW q \in Requests, ReachesLate(q)
  PROVE  Aside
<1> DEFINE op == q.operation
<1>1. /\ Untouched /\ UNCHANGED <<calls, tokens, entries, overtaken>>
      /\ Executed(q) /\ reservations \in [Operations -> Reservation]
      /\ shortened' = IF q.kind = "renew" /\ q.ttl < Found(op).left
                      THEN shortened \cup {op} ELSE shortened
  BY UntouchedIs, TypedIs DEF ReachesLate
<1>2. /\ op \in Operations /\ reservations[op] \in Reservation /\ Found(op) \in Reservation
      /\ q.kind \in {"reserve", "markLiable", "renew", "settle"}
      /\ q.kind = "renew" => q.ttl \in Nat
      /\ Open(Found(op)) => Found(op) = reservations[op]
      /\ Settled.state = "settled"
  BY <1>1, RequestFields, FoundIs, ConstantTypes
<1>3. /\ reservations' \in [Operations -> Reservation]
      /\ \A o \in Operations \ {op} : reservations'[o] = reservations[o]
      /\ \/ reservations'[op] = Found(op)
         \/ Accepted(q) /\ reservations'[op] = Outcome(q)
  BY <1>1, ExecutedIs
<1>4. ASSUME Found(op) # Absent, Accepted(q), reservations'[op] = Outcome(q)
      PROVE  ChangedLate(op)
  <2>1. q.kind # "reserve" /\ Open(Found(op))
    BY <1>4 DEF Accepted
  <2>2. CASE q.kind = "markLiable"
    <3>1. Outcome(q).state = "liable" /\ Outcome(q).left = reservations[op].left
      BY <1>1, <1>2, <2>1, <2>2, OutcomeIs
    <3>2. reservations[op].left \in Nat
      BY <1>2 DEF Reservation
    <3> QED BY <1>4, <2>1, <3>1, <3>2 DEF ChangedLate
  <2>3. CASE q.kind = "renew"
    <3>1. Outcome(q).state = Found(op).state /\ Outcome(q).left = q.ttl
      BY <1>1, <2>3, OutcomeIs
    <3>2. reservations[op].left \in Nat /\ q.ttl \in Nat /\ Found(op) = reservations[op]
      BY <1>2, <2>1, <2>3 DEF Reservation
    <3>3. q.ttl >= reservations[op].left \/ op \in shortened'
      BY <1>1, <2>3, <3>2
    <3> QED BY <1>4, <2>1, <3>1, <3>3 DEF ChangedLate
  <2>4. CASE q.kind = "settle"
    <3>1. Outcome(q).state = "settled"
      BY <1>1, <1>2, <2>4, OutcomeIs
    <3> QED BY <1>4, <2>1, <3>1 DEF ChangedLate
  <2> QED BY <1>2, <2>1, <2>2, <2>3, <2>4
<1>5. shortened \subseteq shortened'
  BY <1>1
<1>6. \A o \in Operations : Found(o) # Absent =>
        reservations'[o] \in {reservations[o], Found(o)} \/ ChangedLate(o)
  BY <1>3, <1>4
<1> QED BY <1>1, <1>3, <1>5, <1>6 DEF Aside, Untouched, Shrunk

LEMMA TickKind ==
  ASSUME Typed, Tick
  PROVE  Ages
<1>1. FlowTypeOK /\ UNCHANGED <<entries, overtaken, shortened>>
  BY DEF Typed, McpTypeOK, Tick, historyVars
<1>2. /\ FlowTypeOK' /\ DOMAIN flows' = DOMAIN flows
      /\ \A f \in DOMAIN flows : /\ flows'[f].binding = flows[f].binding
                                 /\ flows'[f].round = flows[f].round
                                 /\ flows'[f].left = Less(flows[f].left)
  BY <1>1, FlowTickIs DEF Tick
<1>3. \A n \in Nat : Less(n) \in Nat
  BY DEF Less
<1>4. ASSUME NEW op \in Operations
      PROVE  /\ reservations'[op] \in Reservation
             /\ reservations'[op].state = reservations[op].state
             /\ reservations'[op].left = Less(reservations[op].left)
  <2>1. reservations'[op] = [reservations[op] EXCEPT !.left = Less(reservations[op].left)]
    BY DEF Tick
  <2>2. reservations[op] \in Reservation
    BY TypedIs
  <2>3. Less(reservations[op].left) \in Nat
    BY <1>3, <2>2 DEF Reservation
  <2> QED BY <2>1, <2>2, <2>3 DEF Reservation
<1>5. reservations' \in [Operations -> Reservation]
  BY <1>4 DEF Tick
<1>6. ASSUME NEW c \in Calls
      PROVE  /\ calls'[c] \in CallState /\ LocalOK(calls'[c])
             /\ calls'[c].pc = calls[c].pc /\ calls'[c].operation = calls[c].operation
             /\ calls'[c].flow = calls[c].flow /\ calls'[c].left = Less(calls[c].left)
  <2> DEFINE r == [calls[c] EXCEPT !.left = Less(calls[c].left)]
  <2>1. calls'[c] = r
    BY DEF Tick
  <2>2. calls[c] \in CallState /\ LocalOK(calls[c])
    BY TypedIs
  <2>3. Less(calls[c].left) \in Nat
    BY <1>3, <2>2, CallFields
  <2>4. r \in CallState
    BY <2>2, <2>3 DEF CallState
  <2>5. CASE calls[c].pc = "idle"
    <3>1. calls[c] = Idle /\ r = [Idle EXCEPT !.left = Less(Idle.left)]
      BY <2>2, <2>5 DEF LocalOK
    <3>2. Less(Idle.left) = Idle.left
      BY DEF Idle, Less
    <3>3. \A q \in CallState : [q EXCEPT !.left = q.left] = q
      BY DEF CallState
    <3>4. r = Idle
      BY <3>1, <3>2, <3>3, IdleType
    <3>5. Idle.left = 0
      BY DEF Idle
    <3> QED BY <2>1, <3>1, <3>2, <3>4, <3>5, IdleType
  <2>6. CASE calls[c].pc # "idle"
    <3>1. /\ r.pc = calls[c].pc /\ r.operation = calls[c].operation /\ r.flow = calls[c].flow
          /\ r.left = Less(calls[c].left) /\ r.round = calls[c].round
          /\ r.heartbeat = calls[c].heartbeat /\ r.stopped = calls[c].stopped
      BY <2>2 DEF CallState
    <3>2. LocalOK(r)
      <4> HIDE DEF r
      <4> QED BY <2>2, <2>6, <3>1 DEF LocalOK
    <3> QED BY <2>1, <2>4, <3>1, <3>2
  <2> QED BY <2>5, <2>6
<1>7. calls' \in [Calls -> CallState]
  BY <1>6 DEF Tick
<1>8. DOMAIN tokens' \subseteq DOMAIN tokens /\ tokens' \in [DOMAIN tokens' -> Nat]
  <2>1. tokens \in [DOMAIN tokens -> Nat]
    BY TypedIs
  <2>2. \A f \in DOMAIN tokens : tokens[f] > 1 => tokens[f] - 1 \in Nat
    BY <2>1
  <2>3. DOMAIN tokens' = {f \in DOMAIN tokens : tokens[f] > 1}
    BY DEF Tick
  <2>4. tokens' = [f \in DOMAIN tokens' |-> tokens[f] - 1]
    BY DEF Tick
  <2> QED BY <2>2, <2>3, <2>4
<1> QED BY <1>1, <1>2, <1>4, <1>5, <1>6, <1>7, <1>8 DEF Ages

LEMMA StutterKind ==
  ASSUME Typed, UNCHANGED vars
  PROVE  Aside
<1>1. Untouched /\ UNCHANGED <<reservations, calls, tokens, entries, overtaken, shortened>>
  BY UntouchedIs DEF vars, storeVars, historyVars
<1> QED BY <1>1, TypedIs DEF Aside, Untouched, Shrunk

LEMMA EveryStep ==
  ASSUME Typed, [Next]_vars
  PROVE  StepKind
<1>1. CASE UNCHANGED vars
  BY <1>1, StutterKind DEF StepKind
<1>2. ASSUME NEW c \in Calls, NEW op \in Operations, NEW multi \in MultiRound, FirstRound(c, op, multi)
      PROVE  StepKind
  BY <1>2, FirstRoundKind DEF StepKind
<1>3. ASSUME NEW c \in Calls, NEW f \in FlowIds, NEW binding \in Bindings, Resume(c, f, binding)
      PROVE  StepKind
  BY <1>3, ResumeKind DEF StepKind
<1>4. ASSUME NEW c \in Calls, Progress(c)
      PROVE  StepKind
  BY <1>4, LeaseMarkLiableKind, RenewResumedKind, EnterHandlerKind, HandlerReturnsKind,
     StoppedKind, ClassifyKind, InputRequiredKind, MintKind, RenewSuspendedKind,
     SuspendFlowKind, SettleKind DEF StepKind, Progress
<1>5. ASSUME NEW c \in Calls, HeartbeatFires(c) \/ Heartbeat(c) \/ Crash(c)
      PROVE  StepKind
  BY <1>5, HeartbeatKind, CrashKind DEF StepKind
<1>6. ASSUME NEW op \in Operations, Recover(op)
      PROVE  StepKind
  BY <1>6, RecoverKind DEF StepKind
<1>7. CASE Tick
  BY <1>7, TickKind DEF StepKind
<1>8. ASSUME NEW q \in Requests, ReachesLate(q)
      PROVE  StepKind
  BY <1>8, ReachesLateKind DEF StepKind
<1> QED BY <1>1, <1>2, <1>3, <1>4, <1>5, <1>6, <1>7, <1>8 DEF Next

(* What is on its way, and what has been shortened by it.                  *)
LEMMA LateTyped ==
  ASSUME Typed, [Next]_vars
  PROVE  late' \in [Requests -> Nat] /\ shortened' \subseteq Operations
<1> DEFINE Kept == late' \in [Requests -> Nat] /\ shortened' \subseteq Operations
<1>0. late \in [Requests -> Nat] /\ shortened \subseteq Operations
  BY TypedIs
<1>1. ASSUME UNCHANGED late, UNCHANGED shortened
      PROVE  Kept
  BY <1>0, <1>1
<1>2. ASSUME NEW q \in Requests, Succeeds(q) \/ Fails(q)
      PROVE  late' \in [Requests -> Nat]
  <2>1. CASE UNCHANGED late
    BY <1>0, <2>1
  <2>2. CASE late' = [late EXCEPT ![q] = @ + 1]
    BY <1>0, <2>2
  <2> QED BY <1>2, <2>1, <2>2 DEF Succeeds, Fails, storeVars
<1>3. CASE UNCHANGED vars
  BY <1>1, <1>3 DEF vars, storeVars, historyVars
<1>4. ASSUME NEW c \in Calls, NEW op \in Operations, NEW multi \in MultiRound, FirstRound(c, op, multi)
      PROVE  Kept
  <2>1. Request("reserve", op) \in Requests
    BY RequestTypes
  <2> QED BY <1>0, <1>2, <1>4, <2>1 DEF FirstRound
<1>5. ASSUME NEW c \in Calls, NEW f \in FlowIds, NEW binding \in Bindings, Resume(c, f, binding)
      PROVE  Kept
  BY <1>1, <1>5 DEF Resume, storeVars, historyVars
<1>6. ASSUME NEW c \in Calls, Progress(c) \/ Heartbeat(c)
      PROVE  Kept
  <2> DEFINE op == calls[c].operation
  <2>1. CASE calls[c].pc = "idle"
    <3>1. calls[c].heartbeat = "off"
      BY <2>1, TypedIs DEF LocalOK, Idle
    <3> QED BY <1>6, <2>1, <3>1 DEF Progress, Heartbeat, HeartbeatRenews, HeartbeatReturns, At,
         LeaseMarkLiable, RenewResumed, EnterHandler, HandlerReturns, Stopped, Classify,
         InputRequired, Mint, RenewSuspended, SuspendFlow, Settle
  <2>2. CASE calls[c].pc # "idle"
    <3>1. /\ \A kind \in {"markLiable", "settle"} : Request(kind, op) \in Requests
          /\ \A ttl \in {Ttl, SuspendTtl} : RenewRequest(op, ttl) \in Requests
      BY <2>2, LiveCallIs, RequestTypes
    <3> HIDE DEF op
    <3>2. CASE LeaseMarkLiable(c)
      BY <1>0, <1>2, <3>1, <3>2 DEF LeaseMarkLiable, historyVars, op
    <3>3. CASE RenewResumed(c)
      BY <1>0, <1>2, <3>1, <3>3 DEF RenewResumed, historyVars, op
    <3>4. CASE HeartbeatRenews(c)
      BY <1>0, <1>2, <3>1, <3>4 DEF HeartbeatRenews, historyVars, op
    <3>5. CASE RenewSuspended(c)
      BY <1>0, <1>2, <3>1, <3>5 DEF RenewSuspended, op
    <3>6. CASE Settle(c)
      BY <1>0, <1>2, <3>1, <3>6 DEF Settle, historyVars, op
    <3>7. CASE EnterHandler(c) \/ Mint(c)
      BY <1>1, <3>7 DEF EnterHandler, Mint, storeVars
    <3>8. CASE \/ HandlerReturns(c) \/ Stopped(c) \/ Classify(c) \/ InputRequired(c)
               \/ SuspendFlow(c) \/ HeartbeatReturns(c)
      BY <1>1, <3>8 DEF HandlerReturns, Stopped, Classify, InputRequired, SuspendFlow,
         HeartbeatReturns, storeVars, historyVars
    <3> QED BY <1>6, <3>2, <3>3, <3>4, <3>5, <3>6, <3>7, <3>8 DEF Progress, Heartbeat
  <2> QED BY <2>1, <2>2
<1>7. ASSUME NEW c \in Calls, HeartbeatFires(c) \/ Crash(c)
      PROVE  Kept
  BY <1>1, <1>7 DEF HeartbeatFires, Crash, storeVars, historyVars
<1>8. ASSUME NEW op \in Operations, Recover(op)
      PROVE  Kept
  BY <1>1, <1>8 DEF Recover, historyVars
<1>9. ASSUME NEW q \in Requests, ReachesLate(q)
      PROVE  Kept
  <2>1. late' = [late EXCEPT ![q] = late[q] - 1] /\ late[q] - 1 \in Nat
    BY <1>0, <1>9 DEF ReachesLate
  <2>2. shortened' \subseteq shortened \cup {q.operation} /\ q.operation \in Operations
    BY <1>9, RequestFields DEF ReachesLate
  <2> QED BY <1>0, <2>1, <2>2
<1>10. CASE Tick
  BY <1>1, <1>10 DEF Tick, historyVars
<1> QED BY <1>3, <1>4, <1>5, <1>6, <1>7, <1>8, <1>9, <1>10 DEF Next
-----------------------------------------------------------------------------
(* Each kind keeps each part of the invariant.                             *)

LEMMA PaidKept ==
  ASSUME Typed, StepKind, NEW op \in Operations, Paid(op)
  PROVE  Paid(op)'
<1>1. /\ reservations \in [Operations -> Reservation]
      /\ Found(op).state \in {"liable", "settled"} /\ Found(op) # Absent
  BY TypedIs, FoundIs
<1>2. CASE Aside
  BY <1>1, <1>2 DEF Aside, ChangedLate, Paid
<1>3. CASE Ages
  BY <1>3 DEF Ages, Paid
<1>4. ASSUME NEW c \in Calls, NEW o \in Operations, Admits(c, o)
      PROVE  Paid(op)'
  BY <1>1, <1>4 DEF Admits, Paid
<1>5. ASSUME NEW c \in Calls, GoesOn(c)
      PROVE  Paid(op)'
  <2>1. ResStep(calls[c].operation) /\ calls[c].operation \in Operations
    BY <1>5, LiveCallIs DEF GoesOn
  <2> QED BY <1>1, <2>1, PaidStays
<1>6. ASSUME UNCHANGED reservations
      PROVE  Paid(op)'
  BY <1>6 DEF Paid
<1> QED BY <1>2, <1>3, <1>4, <1>5, <1>6 DEF StepKind, Enters, Recants, Takes, Mints, Suspends

(* The types and what each call knows of itself.                           *)
LEMMA TypedKept ==
  ASSUME Typed, StepKind, late' \in [Requests -> Nat], shortened' \subseteq Operations
  PROVE  Typed'
<1> DEFINE Data == /\ reservations' \in [Operations -> Reservation]
                   /\ DOMAIN tokens' \subseteq FlowIds /\ tokens' \in [DOMAIN tokens' -> Nat]
                   /\ entries' \in [FlowIds -> Nat] /\ overtaken' \subseteq Operations
           Local == calls' \in [Calls -> CallState] /\ \A c \in Calls : LocalOK(calls'[c])
<1>1. Data
  <2>1. CASE Aside
    BY <2>1, TypedIs DEF Aside
  <2>2. CASE Ages
    BY <2>2, TypedIs DEF Ages
  <2>3. ASSUME NEW c \in Calls, NEW op \in Operations, Admits(c, op)
        PROVE  Data
    BY <2>3, TypedIs DEF Admits
  <2>4. ASSUME NEW c \in Calls, GoesOn(c) \/ Enters(c) \/ Recants(c)
        PROVE  Data
    BY <2>4, TypedIs DEF GoesOn, Enters, Recants, ResStep
  <2>5. ASSUME NEW c \in Calls, NEW f \in FlowIds, Takes(c, f) \/ Mints(c, f) \/ Suspends(c, f)
        PROVE  Data
    BY <2>5, TypedIs DEF Takes, Mints, Suspends
  <2> QED BY <2>1, <2>2, <2>3, <2>4, <2>5 DEF StepKind
<1>2. Local
  <2>1. CASE Aside
    BY <2>1, TypedIs DEF Aside
  <2>2. CASE Ages
    BY <2>2 DEF Ages
  <2>3. ASSUME NEW c \in Calls, Moves(c), LocalOK(calls'[c])
        PROVE  Local
    BY <2>3, TypedIs DEF Moves
  <2> QED BY <2>1, <2>2, <2>3 DEF StepKind, Admits, GoesOn, Enters, Recants, Takes, Mints, Suspends
<1>3. FlowTypeOK'
  BY DEF StepKind, Aside, Ages, Admits, GoesOn, Enters, Recants, Takes, Mints, Suspends, Untouched
<1>4. ASSUME NEW f \in DOMAIN flows'
      PROVE  flows'[f].binding \in Operations /\ flows'[f].round <= MaxRounds
  <2>1. CASE Shrunk
    BY <2>1, <1>4, TypedIs DEF Shrunk
  <2>2. CASE Ages
    BY <2>2, <1>4, TypedIs DEF Ages
  <2>3. CASE Untouched
    BY <2>3, <1>4, TypedIs DEF Untouched
  <2>4. ASSUME NEW c \in Calls, NEW g \in FlowIds, Suspends(c, g)
        PROVE  flows'[f].binding \in Operations /\ flows'[f].round <= MaxRounds
    <3>1. calls[c].operation \in Operations
      BY <2>4, LiveCallIs DEF Suspends
    <3> QED BY <2>4, <3>1, <1>4, TypedIs DEF Suspends
  <2> QED BY <2>1, <2>2, <2>3, <2>4 DEF StepKind, Aside, Admits, GoesOn, Enters, Recants, Takes, Mints
<1> QED BY <1>1, <1>2, <1>3, <1>4 DEF Typed, McpTypeOK, Reservation, CallState
(* Operations stay paid for, and nothing enters a handler or is suspended  *)
(* that is not.                                                            *)
LEMMA AllPaidKept ==
  ASSUME Typed, AllPaid, StepKind
  PROVE  AllPaid'
<1>1. ASSUME NEW op \in Operations, Paid(op)
      PROVE  reservations'[op].state \in {"liable", "settled"}
  BY <1>1, PaidKept DEF Paid
<1>2. ASSUME NEW c \in Calls, calls[c].pc \notin {"idle", "reserved"}
      PROVE  reservations'[calls[c].operation].state \in {"liable", "settled"}
  BY <1>1, <1>2, LiveCallIs DEF AllPaid
<1>3. ASSUME NEW f \in DOMAIN flows
      PROVE  reservations'[flows[f].binding].state \in {"liable", "settled"}
  BY <1>1, <1>3, TypedIs DEF AllPaid
<1>4. ASSUME NEW c \in Calls, calls'[c].pc \notin {"idle", "reserved"}
      PROVE  reservations'[calls'[c].operation].state \in {"liable", "settled"}
  <2>1. CASE calls'[c].pc = calls[c].pc /\ calls'[c].operation = calls[c].operation
    BY <1>2, <1>4, <2>1
  <2>2. ASSUME NEW d \in Calls, NEW op \in Operations, Admits(d, op)
        PROVE  reservations'[calls'[c].operation].state \in {"liable", "settled"}
    BY <2>1, <2>2, <1>4 DEF Admits, Moves
  <2>3. ASSUME NEW d \in Calls, GoesOn(d)
        PROVE  reservations'[calls'[c].operation].state \in {"liable", "settled"}
    <3>1. CASE c = d
      <4>1. calls'[c] # Idle
        BY <1>4, IdleType
      <4> QED BY <1>2, <2>3, <3>1, <4>1 DEF GoesOn
    <3> QED BY <2>1, <2>3, <3>1 DEF GoesOn, Moves
  <2>4. ASSUME NEW d \in Calls, Enters(d) \/ Recants(d)
        PROVE  reservations'[calls'[c].operation].state \in {"liable", "settled"}
    BY <1>2, <2>1, <2>4 DEF Enters, Recants, Moves
  <2>5. ASSUME NEW d \in Calls, NEW f \in FlowIds, Takes(d, f)
        PROVE  reservations'[calls'[c].operation].state \in {"liable", "settled"}
    BY <1>3, <2>1, <2>5 DEF Takes, Moves
  <2>6. ASSUME NEW d \in Calls, NEW f \in FlowIds, Mints(d, f) \/ Suspends(d, f)
        PROVE  reservations'[calls'[c].operation].state \in {"liable", "settled"}
    BY <1>2, <1>4, <2>1, <2>6, IdleType DEF Mints, Suspends, Moves
  <2> QED BY <2>1, <2>2, <2>3, <2>4, <2>5, <2>6 DEF StepKind, Aside, Ages
<1>5. ASSUME NEW f \in DOMAIN flows'
      PROVE  reservations'[flows'[f].binding].state \in {"liable", "settled"}
  <2>1. CASE f \in DOMAIN flows /\ flows'[f].binding = flows[f].binding
    BY <1>3, <2>1
  <2>2. ASSUME NEW d \in Calls, NEW g \in FlowIds, Suspends(d, g)
        PROVE  reservations'[flows'[f].binding].state \in {"liable", "settled"}
    <3>1. CASE f = g
      BY <1>2, <2>2, <3>1 DEF Suspends
    <3> QED BY <1>5, <2>1, <2>2, <3>1 DEF Suspends
  <2> QED BY <1>5, <2>1, <2>2 DEF StepKind, Aside, Ages, Admits, GoesOn, Enters, Recants, Takes,
       Mints, Shrunk, Untouched
<1> QED BY <1>4, <1>5 DEF AllPaid, Paid

(* Minting draws an id that nobody knows, and entering uses up the id:     *)
(* whoever else could enter under it would hold it too.                    *)
LEMMA UnenteredKept ==
  ASSUME Typed, Unentered, Exclusive, StepKind
  PROVE  Unentered'
<1>0. /\ entries \in [FlowIds -> Nat] /\ DOMAIN flows \subseteq FlowIds
      /\ \A c \in Calls : \A f \in calls[c].flow : f \in FlowIds
  BY TypedIs, CallFields
<1>1. ASSUME NEW f \in FlowIds
      PROVE  entries'[f] <= 1
  <2>1. CASE entries'[f] = entries[f] \/ entries'[f] = 0
    BY <2>1, <1>0 DEF Unentered
  <2>2. ASSUME NEW d \in Calls, Enters(d)
        PROVE  entries'[f] <= 1
    BY <1>0, <2>2 DEF Enters, Unentered
  <2>3. ASSUME NEW d \in Calls, NEW g \in FlowIds, Mints(d, g)
        PROVE  entries'[f] <= 1
    BY <2>1, <2>3 DEF Mints
  <2> QED BY <2>1, <2>2, <2>3 DEF StepKind, Aside, Ages, Admits, GoesOn, Recants, Takes, Suspends
<1>2. ASSUME NEW f \in DOMAIN flows'
      PROVE  entries'[f] = 0
  <2>1. CASE f \in DOMAIN flows /\ entries' = entries
    BY <2>1 DEF Unentered
  <2>2. ASSUME NEW d \in Calls, Enters(d)
        PROVE  entries'[f] = 0
    BY <1>0, <1>2, <2>2 DEF Enters, Unentered, Untouched
  <2>3. ASSUME NEW d \in Calls, NEW g \in FlowIds, Mints(d, g)
        PROVE  entries'[f] = 0
    BY <1>0, <1>2, <2>3 DEF Mints, Unentered, Untouched
  <2>4. ASSUME NEW d \in Calls, NEW g \in FlowIds, Suspends(d, g)
        PROVE  entries'[f] = 0
    BY <1>2, <2>1, <2>4 DEF Suspends, Unentered
  <2> QED BY <1>2, <2>1, <2>2, <2>3, <2>4
       DEF StepKind, Aside, Ages, Admits, GoesOn, Recants, Takes, Shrunk, Untouched
<1>3. ASSUME NEW c \in Calls, NEW f \in calls'[c].flow,
             calls'[c].pc \in {"resuming", "entering", "renewing", "suspending"}
      PROVE  entries'[f] = 0 /\ f \notin DOMAIN flows'
  <2>1. CASE /\ calls'[c] = calls[c] \/ (calls'[c].pc = calls[c].pc /\ calls'[c].flow = calls[c].flow)
             /\ entries' = entries /\ DOMAIN flows' \subseteq DOMAIN flows
    BY <1>3, <2>1 DEF Unentered
  <2>2. ASSUME NEW d \in Calls, NEW op \in Operations, Admits(d, op)
        PROVE  entries'[f] = 0 /\ f \notin DOMAIN flows'
    BY <1>3, <2>1, <2>2 DEF Admits, Moves, Untouched
  <2>3. ASSUME NEW d \in Calls, GoesOn(d)
        PROVE  entries'[f] = 0 /\ f \notin DOMAIN flows'
    <3>1. CASE c = d
      <4>1. calls'[c] # Idle
        BY <1>3, IdleType
      <4>2. CASE calls[c].pc = "reserved"
        <5>1. calls[c].flow = {}
          BY <4>2, TypedIs DEF LocalOK
        <5> QED BY <1>3, <2>3, <3>1, <4>1, <5>1 DEF GoesOn
      <4>3. CASE calls[c].pc # "reserved"
        <5>1. calls[c].pc \in {"resuming", "entering", "renewing", "suspending"}
              /\ f \in calls[c].flow
          BY <1>3, <2>3, <3>1, <4>1, <4>3 DEF GoesOn
        <5> QED BY <2>3, <5>1 DEF GoesOn, Untouched, Unentered
      <4> QED BY <4>2, <4>3
    <3> QED BY <2>1, <2>3, <3>1 DEF GoesOn, Moves, Untouched
  <2>4. ASSUME NEW d \in Calls, Enters(d)
        PROVE  entries'[f] = 0 /\ f \notin DOMAIN flows'
    <3>1. c # d
      BY <1>3, <2>4 DEF Enters
    <3>2. calls'[c] = calls[c] /\ f \in FlowIds
      BY <1>0, <1>3, <2>4, <3>1 DEF Enters, Moves
    <3>3. f \notin calls[d].flow
      BY <1>3, <2>4, <3>1, <3>2 DEF Enters, Exclusive
    <3> QED BY <1>3, <2>4, <3>2, <3>3 DEF Enters, Unentered, Untouched
  <2>5. ASSUME NEW d \in Calls, Recants(d)
        PROVE  entries'[f] = 0 /\ f \notin DOMAIN flows'
    BY <1>3, <2>1, <2>5 DEF Recants, Moves, Shrunk
  <2>6. ASSUME NEW d \in Calls, NEW g \in FlowIds, Takes(d, g)
        PROVE  entries'[f] = 0 /\ f \notin DOMAIN flows'
    BY <1>3, <2>1, <2>6 DEF Takes, Moves, Shrunk, Unentered
  <2>7. ASSUME NEW d \in Calls, NEW g \in FlowIds, Mints(d, g)
        PROVE  entries'[f] = 0 /\ f \notin DOMAIN flows'
    <3>1. CASE c = d
      BY <1>3, <2>7, <3>1 DEF Mints, Fresh, Untouched
    <3>2. CASE c # d
      <4>1. calls'[c] = calls[c] /\ f \in FlowIds /\ f # g
        BY <1>0, <1>3, <2>7, <3>2 DEF Mints, Moves, Fresh
      <4> QED BY <1>3, <2>7, <4>1 DEF Mints, Unentered, Untouched
    <3> QED BY <3>1, <3>2
  <2>8. ASSUME NEW d \in Calls, NEW g \in FlowIds, Suspends(d, g)
        PROVE  entries'[f] = 0 /\ f \notin DOMAIN flows'
    <3>1. c # d
      BY <1>3, <2>8, IdleType DEF Suspends
    <3>2. calls'[c] = calls[c]
      BY <2>8, <3>1 DEF Suspends, Moves
    <3>3. f # g
      BY <1>3, <2>8, <3>1, <3>2 DEF Suspends, Exclusive
    <3> QED BY <1>3, <2>8, <3>2, <3>3 DEF Suspends, Unentered
  <2> QED BY <2>1, <2>2, <2>3, <2>4, <2>5, <2>6, <2>7, <2>8 DEF StepKind, Aside, Ages, Shrunk
<1> QED BY <1>1, <1>2, <1>3 DEF Unentered

(* A flow id goes from the call that drew it to the store, and from there  *)
(* to the one call that takes it.                                          *)
LEMMA ExclusiveKept ==
  ASSUME Typed, Unentered, Exclusive, StepKind
  PROVE  Exclusive'
<1> SUFFICES ASSUME NEW c \in Calls, NEW f \in calls'[c].flow
             PROVE  /\ calls'[c].pc \in {"renewing", "suspending"} =>
                         f \notin DOMAIN tokens' /\ \A d \in Calls \ {c} : f \notin calls'[d].flow
                    /\ calls'[c].pc \in {"resuming", "entering"} =>
                         \A d \in Calls \ {c} :
                           calls'[d].pc \in {"resuming", "entering"} => f \notin calls'[d].flow
  BY DEF Exclusive
<1>1. ASSUME calls'[c].pc \in {"renewing", "suspending"}
      PROVE  f \notin DOMAIN tokens' /\ \A d \in Calls \ {c} : f \notin calls'[d].flow
  <2>1. CASE /\ calls[c].pc \in {"renewing", "suspending"} /\ calls'[c].flow = calls[c].flow
             /\ DOMAIN tokens' \subseteq DOMAIN tokens
             /\ \A d \in Calls : calls'[d].flow \subseteq calls[d].flow
    BY <1>1, <2>1 DEF Exclusive
  <2>2. CASE \E d \in Calls : (\E op \in Operations : Admits(d, op)) \/ Enters(d) \/ Recants(d)
    BY <1>1, <2>1, <2>2 DEF Admits, Enters, Recants, Moves
  <2>3. ASSUME NEW d \in Calls, GoesOn(d)
        PROVE  f \notin DOMAIN tokens' /\ \A e \in Calls \ {c} : f \notin calls'[e].flow
    <3>1. \A e \in Calls : calls'[e].flow \subseteq calls[e].flow
      BY <2>3, IdleType DEF GoesOn, Moves
    <3>2. calls[c].pc \in {"renewing", "suspending"} /\ calls'[c].flow = calls[c].flow
      BY <1>1, <2>3, IdleType DEF GoesOn, Moves
    <3> QED BY <2>1, <2>3, <3>1, <3>2 DEF GoesOn
  <2>4. ASSUME NEW d \in Calls, NEW g \in FlowIds, Takes(d, g)
        PROVE  f \notin DOMAIN tokens' /\ \A e \in Calls \ {c} : f \notin calls'[e].flow
    <3>1. c # d /\ calls'[c] = calls[c]
      BY <1>1, <2>4 DEF Takes, Moves
    <3>2. f \notin DOMAIN tokens /\ \A e \in Calls \ {c} : f \notin calls[e].flow
      BY <1>1, <3>1 DEF Exclusive
    <3> QED BY <2>4, <3>1, <3>2 DEF Takes, Moves
  <2>5. ASSUME NEW d \in Calls, NEW g \in FlowIds, Mints(d, g)
        PROVE  f \notin DOMAIN tokens' /\ \A e \in Calls \ {c} : f \notin calls'[e].flow
    <3>1. CASE c = d
      BY <1>1, <2>5, <3>1 DEF Mints, Fresh, Moves
    <3>2. CASE c # d
      <4>1. calls'[c] = calls[c] /\ f # g
        BY <2>5, <3>2 DEF Mints, Moves, Fresh
      <4>2. f \notin DOMAIN tokens /\ \A e \in Calls \ {c} : f \notin calls[e].flow
        BY <1>1, <4>1 DEF Exclusive
      <4> QED BY <2>5, <3>2, <4>1, <4>2 DEF Mints, Moves
    <3> QED BY <3>1, <3>2
  <2>6. ASSUME NEW d \in Calls, NEW g \in FlowIds, Suspends(d, g)
        PROVE  f \notin DOMAIN tokens' /\ \A e \in Calls \ {c} : f \notin calls'[e].flow
    <3>1. c # d /\ calls'[c] = calls[c]
      BY <1>1, <2>6, IdleType DEF Suspends, Moves
    <3>2. f \notin DOMAIN tokens /\ \A e \in Calls \ {c} : f \notin calls[e].flow
      BY <1>1, <3>1 DEF Exclusive
    <3>3. f # g
      BY <2>6, <3>1, <3>2 DEF Suspends
    <3> QED BY <2>6, <3>1, <3>2, <3>3, IdleType DEF Suspends, Moves
  <2> QED BY <1>1, <2>1, <2>2, <2>3, <2>4, <2>5, <2>6 DEF StepKind, Aside, Ages
<1>2. ASSUME calls'[c].pc \in {"resuming", "entering"}, NEW d \in Calls \ {c},
             calls'[d].pc \in {"resuming", "entering"}
      PROVE  f \notin calls'[d].flow
  <2>1. CASE /\ calls[c].pc \in {"resuming", "entering"} /\ calls'[c].flow = calls[c].flow
             /\ calls[d].pc \in {"resuming", "entering"} /\ calls'[d].flow = calls[d].flow
    BY <2>1 DEF Exclusive
  <2>2. CASE \E e \in Calls : \/ \E op \in Operations : Admits(e, op)
                              \/ Enters(e) \/ Recants(e)
                              \/ \E g \in FlowIds : Mints(e, g) \/ Suspends(e, g)
    BY <1>2, <2>1, <2>2, IdleType DEF Admits, Enters, Recants, Mints, Suspends, Moves
  <2>3. ASSUME NEW e \in Calls, GoesOn(e)
        PROVE  f \notin calls'[d].flow
    <3>1. CASE e \notin {c, d}
      BY <1>2, <2>1, <2>3, <3>1 DEF GoesOn, Moves
    <3>2. CASE calls[e].pc = "reserved" /\ e \in {c, d}
      <4>1. calls[e].flow = {}
        BY <3>2, TypedIs DEF LocalOK
      <4>2. calls'[e].flow = {}
        BY <1>2, <2>3, <3>2, <4>1, IdleType DEF GoesOn
      <4> QED BY <3>2, <4>2
    <3>3. CASE calls[e].pc # "reserved" /\ e \in {c, d}
      <4>1. calls[e].pc \in {"resuming", "entering"} /\ calls'[e].flow = calls[e].flow
        BY <1>2, <2>3, <3>3, IdleType DEF GoesOn
      <4> QED BY <1>2, <2>1, <2>3, <3>3, <4>1 DEF GoesOn, Moves
    <3> QED BY <3>1, <3>2, <3>3
  <2>4. ASSUME NEW e \in Calls, NEW g \in FlowIds, Takes(e, g)
        PROVE  f \notin calls'[d].flow
    <3>1. \A h \in Calls : calls[h].pc \in {"resuming", "entering"} => g \notin calls[h].flow
      BY <2>4 DEF Takes, Unentered
    <3> QED BY <1>2, <2>1, <2>4, <3>1 DEF Takes, Moves
  <2> QED BY <1>2, <2>1, <2>2, <2>3, <2>4 DEF StepKind, Aside, Ages
<1> QED BY <1>1, <1>2

LEMMA OvertakenKept ==
  ASSUME StepKind
  PROVE  overtaken \subseteq overtaken'
BY DEF StepKind, Aside, Ages, Admits, GoesOn, Enters, Recants, Takes, Mints, Suspends

(* What is paid for is on record: its operation is not admitted again.     *)
LEMMA PaidOnRecord ==
  ASSUME Typed, NEW op \in Operations, Paid(op)
  PROVE  Found(op) # Absent
BY TypedIs, FoundIs

(* A suspension hands the operation from the call to the flow, a           *)
(* resumption from the flow to the call; only an admission makes another   *)
(* holder, and it says so.                                                 *)
LEMMA OneHolderKept ==
  ASSUME Typed, AllPaid, Exclusive, OneHolder, StepKind
  PROVE  OneHolder'
<1>0. overtaken \subseteq overtaken'
  BY OvertakenKept
<1>1. ASSUME NEW c \in Calls, NEW d \in Calls, c # d,
             calls'[c].pc # "idle", calls'[d].pc # "idle",
             calls'[c].operation = calls'[d].operation
      PROVE  calls'[c].operation \in overtaken'
  <2>1. CASE /\ calls[c].pc # "idle" /\ calls'[c].operation = calls[c].operation
             /\ calls[d].pc # "idle" /\ calls'[d].operation = calls[d].operation
    BY <1>0, <1>1, <2>1 DEF OneHolder
  <2>2. ASSUME NEW e \in Calls, NEW op \in Operations, Admits(e, op)
        PROVE  calls'[c].operation \in overtaken'
    BY <1>1, <2>1, <2>2 DEF Admits, Moves
  <2>3. ASSUME NEW e \in Calls, GoesOn(e)
        PROVE  calls'[c].operation \in overtaken'
    BY <1>1, <2>1, <2>3, IdleType DEF GoesOn, Moves
  <2>4. CASE \E e \in Calls : Enters(e) \/ Recants(e) \/ \E g \in FlowIds : Mints(e, g) \/ Suspends(e, g)
    BY <1>1, <2>1, <2>4, IdleType DEF Enters, Recants, Mints, Suspends, Moves
  <2>5. ASSUME NEW e \in Calls, NEW g \in FlowIds, Takes(e, g)
        PROVE  calls'[c].operation \in overtaken'
    <3>1. \A h \in Calls : calls[h].pc # "idle" /\ calls[h].operation = flows[g].binding
                             => flows[g].binding \in overtaken
      BY <2>5 DEF Takes, OneHolder
    <3> QED BY <1>0, <1>1, <2>1, <2>5, <3>1 DEF Takes, Moves
  <2> QED BY <1>1, <2>1, <2>2, <2>3, <2>4, <2>5 DEF StepKind, Aside, Ages
<1>2. ASSUME NEW f \in DOMAIN flows', NEW c \in Calls,
             calls'[c].pc # "idle", calls'[c].operation = flows'[f].binding
      PROVE  \/ calls'[c].operation \in overtaken'
             \/ calls'[c].pc = "settling" /\ f \notin DOMAIN tokens'
  <2> DEFINE Goal == \/ calls'[c].operation \in overtaken'
                     \/ calls'[c].pc = "settling" /\ f \notin DOMAIN tokens'
  <2>1. CASE /\ f \in DOMAIN flows /\ flows'[f].binding = flows[f].binding
             /\ calls'[c].operation = calls[c].operation
             /\ calls[c].pc \notin {"idle", "settling"}
    BY <1>0, <1>2, <2>1 DEF OneHolder
  <2>2. CASE /\ f \in DOMAIN flows /\ flows'[f].binding = flows[f].binding
             /\ calls'[c].operation = calls[c].operation /\ calls'[c].pc = calls[c].pc
             /\ f \in DOMAIN tokens' => f \in DOMAIN tokens
    BY <1>0, <1>2, <2>2 DEF OneHolder
  <2>3. ASSUME NEW e \in Calls, NEW op \in Operations, Admits(e, op)
        PROVE  Goal
    <3>1. f \in DOMAIN flows /\ flows'[f] = flows[f] /\ tokens' = tokens
      BY <1>2, <2>3 DEF Admits, Untouched
    <3>2. flows[f].binding # op
      BY <2>3, <3>1, TypedIs, PaidOnRecord DEF AllPaid, Admits
    <3>3. c # e
      BY <1>2, <2>3, <3>1, <3>2 DEF Admits
    <3> QED BY <2>2, <2>3, <3>1, <3>3 DEF Admits, Moves
  <2>4. ASSUME NEW e \in Calls, GoesOn(e)
        PROVE  Goal
    <3>1. f \in DOMAIN flows /\ flows'[f] = flows[f] /\ tokens' = tokens
      BY <1>2, <2>4 DEF GoesOn, Untouched
    <3>2. CASE c = e
      BY <1>2, <2>1, <2>4, <3>1, <3>2, IdleType DEF GoesOn
    <3> QED BY <2>2, <2>4, <3>1, <3>2 DEF GoesOn, Moves
  <2>5. ASSUME NEW e \in Calls, Enters(e) \/ Recants(e) \/ \E g \in FlowIds : Mints(e, g)
        PROVE  Goal
    <3>1. f \in DOMAIN flows /\ flows'[f] = flows[f] /\ tokens' = tokens
      BY <1>2, <2>5 DEF Enters, Recants, Mints, Untouched, Shrunk
    <3>2. CASE c = e
      BY <2>1, <2>5, <3>1, <3>2 DEF Enters, Recants, Mints
    <3> QED BY <2>2, <2>5, <3>1, <3>2 DEF Enters, Recants, Mints, Moves
  <2>6. ASSUME NEW e \in Calls, NEW g \in FlowIds, Takes(e, g)
        PROVE  Goal
    <3>1. f \in DOMAIN flows /\ flows'[f] = flows[f] /\ tokens' = tokens /\ f # g
      BY <1>2, <2>6 DEF Takes, Shrunk
    <3>2. CASE c = e
      <4>1. flows[f].binding = flows[g].binding
        BY <1>2, <2>6, <3>1, <3>2 DEF Takes
      <4> QED BY <1>0, <1>2, <2>6, <3>1, <4>1 DEF Takes, OneHolder
    <3> QED BY <2>2, <2>6, <3>1, <3>2 DEF Takes, Moves
  <2>7. ASSUME NEW e \in Calls, NEW g \in FlowIds, Suspends(e, g)
        PROVE  Goal
    <3>1. g \notin DOMAIN tokens
      BY <2>7 DEF Suspends, Exclusive
    <3>2. CASE f = g /\ c = e
      BY <1>2, <2>7, <3>1, <3>2, IdleType DEF Suspends
    <3>3. CASE f = g /\ c # e
      <4>1. calls'[c] = calls[c] /\ calls[e].pc # "idle" /\ calls[c].operation = calls[e].operation
        BY <1>2, <2>7, <3>3 DEF Suspends, Moves
      <4> QED BY <1>0, <1>2, <3>3, <4>1 DEF OneHolder
    <3>4. CASE f # g /\ c = e
      BY <1>2, <2>1, <2>7, <3>4, IdleType DEF Suspends
    <3>5. CASE f # g /\ c # e
      BY <1>2, <2>2, <2>7, <3>5 DEF Suspends, Moves
    <3> QED BY <3>2, <3>3, <3>4, <3>5
  <2>8. CASE Aside \/ Ages
    BY <1>2, <2>2, <2>8 DEF Aside, Ages, Shrunk
  <2> QED BY <2>3, <2>4, <2>5, <2>6, <2>7, <2>8 DEF StepKind
<1>3. ASSUME NEW f \in DOMAIN flows', NEW g \in DOMAIN flows', f # g,
             flows'[f].binding = flows'[g].binding
      PROVE  flows'[f].binding \in overtaken'
  <2>1. CASE /\ f \in DOMAIN flows /\ flows'[f].binding = flows[f].binding
             /\ g \in DOMAIN flows /\ flows'[g].binding = flows[g].binding
    BY <1>0, <1>3, <2>1 DEF OneHolder
  <2>2. ASSUME NEW e \in Calls, NEW h \in FlowIds, Suspends(e, h)
        PROVE  flows'[f].binding \in overtaken'
    <3>1. \A k \in DOMAIN flows : flows[k].binding = calls[e].operation => flows[k].binding \in overtaken
      BY <2>2 DEF Suspends, OneHolder
    <3> QED BY <1>0, <1>3, <2>1, <2>2, <3>1 DEF Suspends
  <2> QED BY <1>3, <2>1, <2>2 DEF StepKind, Aside, Ages, Admits, GoesOn, Enters, Recants, Takes,
       Mints, Shrunk, Untouched
<1> QED BY <1>1, <1>2, <1>3 DEF OneHolder
-----------------------------------------------------------------------------
LEMMA LessMonotone ==
  ASSUME NEW m \in Nat, NEW n \in Nat, m >= n
  PROVE  Less(m) >= Less(n)
BY DEF Less

(* The reservation of an operation that is paid for changes with time and  *)
(* by a request of a call that works on it or did so, and stays liable     *)
(* only then.                                                              *)
LEMMA LeaseChanges ==
  ASSUME Typed, StepKind, NEW op \in Operations, Paid(op), reservations'[op].state = "liable"
  PROVE  \/ reservations'[op] = reservations[op]
         \/ Ages
         \/ \E c \in Calls : GoesOn(c) /\ calls[c].operation = op /\ calls[c].pc # "settling"
         \/ /\ reservations[op].state = "liable"
            /\ reservations'[op].left >= reservations[op].left \/ op \in shortened'
<1>1. /\ Found(op) # Absent /\ reservations[op] \in Reservation
      /\ Found(op).state = "liable" => Found(op) = reservations[op]
  BY PaidOnRecord, TypedIs, FoundIs
<1>2. CASE Aside
  <2>1. CASE ChangedLate(op)
    <3>1. reservations[op].state = "liable"
      BY <2>1, FoundIs, TypedIs DEF ChangedLate, Paid, Open
    <3> QED BY <2>1, <3>1 DEF ChangedLate
  <2> QED BY <1>1, <1>2, <2>1 DEF Aside
<1>3. ASSUME NEW c \in Calls, NEW o \in Operations, Admits(c, o)
      PROVE  reservations'[op] = reservations[op]
  BY <1>1, <1>3 DEF Admits
<1>4. ASSUME NEW c \in Calls, GoesOn(c)
      PROVE  \/ reservations'[op] = reservations[op]
             \/ calls[c].operation = op /\ calls[c].pc # "settling"
  <2>1. CASE calls[c].operation # op
    BY <1>4, <2>1 DEF GoesOn, ResStep
  <2>2. CASE calls[c].operation = op /\ calls[c].pc = "settling"
    BY <1>1, <1>4, <2>2 DEF GoesOn
  <2> QED BY <2>1, <2>2
<1> QED BY <1>2, <1>3, <1>4 DEF StepKind, Enters, Recants, Takes, Mints, Suspends

(* A stored flow is left alone, has aged or has just been suspended.       *)
LEMMA FlowChanges ==
  ASSUME StepKind, NEW f \in DOMAIN flows'
  PROVE  \/ f \in DOMAIN flows /\ (Ages \/ flows'[f] = flows[f])
         \/ \E c \in Calls : Suspends(c, f)
<1>1. CASE Shrunk \/ Untouched
  BY <1>1 DEF Shrunk, Untouched
<1>2. ASSUME NEW c \in Calls, NEW g \in FlowIds, Suspends(c, g)
      PROVE  (f \in DOMAIN flows /\ flows'[f] = flows[f]) \/ Suspends(c, f)
  <2>1. CASE f = g
    BY <1>2, <2>1
  <2>2. CASE f # g
    BY <1>2, <2>2 DEF Suspends
  <2> QED BY <2>1, <2>2
<1>3. CASE Ages
  BY <1>3 DEF Ages
<1> QED BY <1>1, <1>2, <1>3 DEF StepKind, Aside, Admits, GoesOn, Enters, Recants, Takes, Mints

(* Only the renewal for a suspension forgets that a lease was shortened.   *)
LEMMA ShortenedKept ==
  ASSUME StepKind, NEW op \in shortened, op \notin shortened'
  PROVE  \E c \in Calls : GoesOn(c) /\ calls[c].operation = op /\ calls[c].pc = "renewing"
BY DEF StepKind, Aside, Ages, Admits, GoesOn, Enters, Recants, Takes, Mints, Suspends

(* A request that a call waits for may set the lease of a suspended flow   *)
(* to end earlier only if the call overtook another: the heartbeat has     *)
(* ended before the lease is renewed for the suspension.                   *)
LEMMA LeaseLastsKept ==
  ASSUME Typed, AllPaid, OneHolder, LeaseLasts, StepKind, Typed'
  PROVE  LeaseLasts'
<1>0. overtaken \subseteq overtaken'
  BY OvertakenKept
(* A lease that covers a time to come still does after the step, whoever   *)
(* else holds its operation.                                               *)
<1>1. ASSUME NEW op \in Operations, Paid(op), op \notin overtaken' \cup shortened',
             reservations'[op].state = "liable", NEW left \in Nat, ~Ages,
             reservations[op].state = "liable" => reservations[op].left >= left,
             \A c \in Calls : GoesOn(c) /\ calls[c].operation = op => calls[c].pc = "settling"
      PROVE  reservations'[op].left >= left
  <2>1. reservations[op].left \in Nat
    BY <1>1, TypedIs DEF Reservation
  <2>2. reservations'[op].left \in Nat
    BY <1>1 DEF Typed, McpTypeOK
  <2> QED BY <1>1, <2>1, <2>2, LeaseChanges
<1>2. ASSUME NEW op \in Operations, reservations'[op].state = "liable", NEW left \in Nat, Ages,
             reservations[op].state = "liable" => reservations[op].left >= left
      PROVE  reservations'[op].left >= Less(left)
  <2>1. /\ reservations[op].left >= left
        /\ reservations'[op].left = Less(reservations[op].left)
    BY <1>2 DEF Ages
  <2>2. reservations[op].left \in Nat
    BY TypedIs DEF Reservation
  <2> QED BY <2>1, <2>2, LessMonotone
<1>3. ASSUME NEW f \in DOMAIN flows', reservations'[flows'[f].binding].state = "liable",
             flows'[f].binding \notin overtaken' \cup shortened'
      PROVE  reservations'[flows'[f].binding].left >= flows'[f].left
  <2>1. CASE f \in DOMAIN flows
    <3>1. /\ flows[f].binding \in Operations /\ flows[f].left \in Nat /\ Paid(flows[f].binding)
      BY <2>1, TypedIs DEF AllPaid, FlowRecord
    <3>2. CASE Ages
      <4>1. flows'[f].binding = flows[f].binding /\ flows'[f].left = Less(flows[f].left)
            /\ flows[f].binding \notin overtaken \cup shortened
        BY <1>0, <1>3, <2>1, <3>2 DEF Ages
      <4>2. reservations[flows[f].binding].state = "liable"
              => reservations[flows[f].binding].left >= flows[f].left
        BY <2>1, <4>1 DEF LeaseLasts, SuspendedLeaseLasts
      <4> QED BY <1>2, <1>3, <3>1, <3>2, <4>1, <4>2
    <3>3. CASE ~Ages /\ flows'[f] = flows[f]
      <4>1. flows[f].binding \notin overtaken
        BY <1>0, <1>3, <3>3
      <4>3. \A c \in Calls : GoesOn(c) /\ calls[c].operation = flows[f].binding
                               => calls[c].pc = "settling"
        BY <2>1, <4>1 DEF GoesOn, OneHolder
      <4>2. reservations[flows[f].binding].state = "liable"
              => reservations[flows[f].binding].left >= flows[f].left
        <5>1. flows[f].binding \notin shortened
          BY <1>3, <3>3, <4>3, ShortenedKept
        <5> QED BY <2>1, <4>1, <5>1 DEF LeaseLasts, SuspendedLeaseLasts
      <4> QED BY <1>1, <1>3, <3>1, <3>3, <4>2, <4>3
    <3>4. CASE \E c \in Calls : Suspends(c, f)
      <4>1. PICK c \in Calls : Suspends(c, f)
        BY <3>4
      <4> QED BY <1>3, <4>1 DEF Suspends, LeaseLasts
    <3> QED BY <2>1, <3>2, <3>3, <3>4, FlowChanges
  <2>2. CASE f \notin DOMAIN flows
    <3>1. PICK c \in Calls : Suspends(c, f)
      BY <2>2, FlowChanges
    <3> QED BY <1>3, <3>1 DEF Suspends, LeaseLasts
  <2> QED BY <2>1, <2>2
<1>4. ASSUME NEW c \in Calls, calls'[c].pc = "suspending",
             reservations'[calls'[c].operation].state = "liable",
             calls'[c].operation \notin overtaken' \cup shortened'
      PROVE  reservations'[calls'[c].operation].left >= calls'[c].left
  <2>1. ASSUME calls[c].pc = "suspending"
        PROVE  /\ calls[c].operation \in Operations /\ calls[c].left \in Nat
               /\ Paid(calls[c].operation)
               /\ \A d \in Calls \ {c} : GoesOn(d) /\ calls[d].operation = calls[c].operation
                                           => calls[c].operation \in overtaken
               /\ calls[c].operation \notin overtaken \cup shortened
                    /\ reservations[calls[c].operation].state = "liable"
                  => reservations[calls[c].operation].left >= calls[c].left
    <3>1. calls[c].operation \in Operations /\ calls[c].left \in Nat
      BY <2>1, LiveCallIs, CallFields
    <3>2. /\ Paid(calls[c].operation)
          /\ \A d \in Calls \ {c} : GoesOn(d) /\ calls[d].operation = calls[c].operation
                                      => calls[c].operation \in overtaken
      BY <2>1 DEF AllPaid, GoesOn, OneHolder
    <3> QED BY <2>1, <3>1, <3>2 DEF LeaseLasts
  <2>2. CASE Ages
    <3>1. /\ calls[c].pc = "suspending" /\ calls'[c].operation = calls[c].operation
          /\ calls'[c].left = Less(calls[c].left)
          /\ calls[c].operation \notin overtaken \cup shortened
      BY <1>0, <1>4, <2>2 DEF Ages
    <3> QED BY <1>2, <1>4, <2>1, <2>2, <3>1
  <2>3. CASE calls'[c] = calls[c] /\ ~Ages /\ ~GoesOn(c)
    <3>1. calls[c].pc = "suspending" /\ calls[c].operation \notin overtaken
      BY <1>0, <1>4, <2>3
    <3>2. \A d \in Calls : ~(GoesOn(d) /\ calls[d].operation = calls[c].operation)
      BY <2>1, <2>3, <3>1
    <3>3. calls[c].operation \notin shortened
      BY <1>4, <2>3, <3>2, ShortenedKept
    <3> QED BY <1>1, <1>4, <2>1, <2>3, <3>1, <3>2, <3>3
  <2>4. CASE GoesOn(c)
    <3>1. reservations'[calls[c].operation].left = calls'[c].left
          /\ calls'[c].operation = calls[c].operation
      BY <1>4, <2>4, IdleType DEF GoesOn
    <3>2. calls'[c].left \in Nat
      <4>1. calls'[c] \in CallState
        BY <2>4 DEF GoesOn, Moves
      <4> QED BY <4>1, CallFields
    <3> QED BY <3>1, <3>2
  <2>5. CASE \E d \in Calls : \/ \E op \in Operations : Admits(d, op)
                              \/ Enters(d) \/ Recants(d)
                              \/ \E g \in FlowIds : Takes(d, g) \/ Mints(d, g) \/ Suspends(d, g)
    BY <1>4, <2>2, <2>3, <2>4, <2>5, IdleType DEF Admits, Enters, Recants, Takes, Mints, Suspends, Moves
  <2>6. ASSUME NEW d \in Calls, GoesOn(d)
        PROVE  reservations'[calls'[c].operation].left >= calls'[c].left
    BY <2>2, <2>3, <2>4, <2>6 DEF GoesOn, Moves
  <2> QED BY <2>2, <2>3, <2>4, <2>5, <2>6 DEF StepKind, Aside
<1> QED BY <1>3, <1>4 DEF LeaseLasts, SuspendedLeaseLasts
-----------------------------------------------------------------------------
(* The theorems.                                                           *)

LEMMA InitHolds ==
  ASSUME Init
  PROVE  CallInv
<1>1. /\ reservations = [op \in Operations |-> Absent] /\ calls = [c \in Calls |-> Idle]
      /\ DOMAIN tokens = {} /\ entries = [f \in FlowIds |-> 0] /\ overtaken = {}
      /\ shortened = {} /\ late = [q \in Requests |-> 0]
      /\ DOMAIN flows = {} /\ DOMAIN consumed = {}
      /\ tokens = <<>> /\ flows = <<>> /\ consumed = <<>>
  BY DEF Init, FlowInit
<1>2. Absent \in Reservation
  BY DEF Absent, Reservation
<1>3. \A c \in Calls : calls[c] = Idle
  BY <1>1
<1>4. reservations \in [Operations -> Reservation] /\ calls \in [Calls -> CallState]
  BY <1>1, <1>2, IdleType
<1>5. FlowTypeOK /\ tokens \in [DOMAIN tokens -> Nat] /\ entries \in [FlowIds -> Nat]
  BY <1>1 DEF FlowTypeOK
<1>6. Typed
  BY <1>1, <1>3, <1>4, <1>5, IdleType DEF Typed, McpTypeOK, Reservation, CallState
<1>7. AllPaid /\ Exclusive /\ OneHolder
  BY <1>1, <1>3, IdleType DEF AllPaid, Exclusive, OneHolder
<1>8. Unentered /\ LeaseLasts
  BY <1>1, <1>3, IdleType DEF Unentered, LeaseLasts, SuspendedLeaseLasts
<1> QED BY <1>6, <1>7, <1>8 DEF CallInv

LEMMA NextHolds ==
  ASSUME CallInv, [Next]_vars
  PROVE  CallInv'
<1>1. StepKind
  BY EveryStep DEF CallInv
<1>2. late' \in [Requests -> Nat] /\ shortened' \subseteq Operations
  BY LateTyped DEF CallInv
<1>3. Typed'
  BY <1>1, <1>2, TypedKept DEF CallInv
<1> QED BY <1>1, <1>2, <1>3, AllPaidKept, UnenteredKept, ExclusiveKept, OneHolderKept,
     LeaseLastsKept DEF CallInv

(* The inductive invariant holds.                                          *)
THEOREM CallsInvariant == Spec => []CallInv
BY InitHolds, NextHolds, PTL DEF Spec

(* Types are kept; in particular no call counts more than maxRounds        *)
(* rounds, although the round travels through the flow store               *)
(* (protectMultiRoundTool).                                                *)
THEOREM CallsAreTyped == Spec => []McpTypeOK
<1>1. CallInv => McpTypeOK
  BY DEF CallInv, Typed
<1> QED BY <1>1, CallsInvariant, PTL

(* HandlerNeverFree: lease.markLiable or the renewal of a resumed lease    *)
(* has been answered before the handler is called, and no expiry, crash,   *)
(* failed request or concurrent call makes the operation unpaid again.     *)
THEOREM HandlersArePaid == Spec => []HandlerNeverFree
<1>1. CallInv => HandlerNeverFree
  BY DEF CallInv, AllPaid, Paid, HandlerNeverFree
<1> QED BY <1>1, CallsInvariant, PTL

(* OneReentryPerToken: however often a token is presented and by however   *)
(* many calls at a time, flowStore.consume lets one of them into the       *)
(* handler.                                                                *)
THEOREM TokensReenterOnce == Spec => []OneReentryPerToken
<1>1. CallInv => OneReentryPerToken
  BY DEF CallInv, Unentered, OneReentryPerToken
<1> QED BY <1>1, CallsInvariant, PTL

(* OneHandlerPerOperation: reserve, consume and suspend hand an operation  *)
(* from one holder to the next, over any number of rounds, crashes and     *)
(* failed requests.                                                        *)
THEOREM OperationsHaveOneHandler == Spec => []OneHandlerPerOperation
<1>1. CallInv => OneHandlerPerOperation
  BY DEF CallInv, OneHolder, OneHandlerPerOperation
<1> QED BY <1>1, CallsInvariant, PTL

(* SuspendedLeaseLasts: heartbeat.stop() waits for the renewal under way,  *)
(* so that no request that a call waits for, or gives up on, shortens the  *)
(* lease renewed for a suspension, but for one of the heartbeat that it    *)
(* had given up on and that reaches the store late.                        *)
THEOREM SuspendedLeasesLast == Spec => []SuspendedLeaseLasts
<1>1. CallInv => SuspendedLeaseLasts
  BY DEF CallInv, LeaseLasts
<1> QED BY <1>1, CallsInvariant, PTL
==============================================================================
