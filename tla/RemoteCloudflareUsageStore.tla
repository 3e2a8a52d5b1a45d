---------------------- MODULE RemoteCloudflareUsageStore ----------------------
(***************************************************************************)
(* The Cloudflare store seen from outside Cloudflare (packages/cloudflare/ *)
(* src/index.ts, exact-retry.ts, reconciliation.ts, maintenance.ts): a     *)
(* caller posts a request to a gateway Worker, which hands it to the       *)
(* Durable Object and returns its envelope.  Each attempt has a timeout.   *)
(* Whatever a failed attempt was doing, its request may have taken effect, *)
(* may take effect later, or never.                                        *)
(*                                                                         *)
(* A host runs one operation: it admits it, marks it liable, does the work *)
(* and settles.  It may crash and be restarted with the input it retained, *)
(* and then, as after an admission that was not acknowledged, looks the    *)
(* operation up once.  The application around the library is what the      *)
(* library's documentation asks of it: one host at a time for an operation,*)
(* and one settlement for it, however often it is sent.                    *)
(***************************************************************************)
EXTENDS CloudflareUsageStore

CONSTANTS
  Hosts,        \* hosts
  OpOf,         \* the operation of each host
  TtlOf,        \* the ttlMs that each host asks for at its admission
  OtherLimits,  \* limits that other clients quote
  Prunes,       \* keys an operator asks to be deleted or protected
  MaxAttempts,  \* maxAttempts of the exact-retry wrapper
  MaxStrays,    \* bound on requests under way that nobody awaits
  MaxRestarts   \* bound on the crashes of a host

ASSUME RemoteConstants ==
  /\ OpOf \in [Hosts -> Operations]
  /\ \A g, h \in Hosts : OpOf[g] = OpOf[h] => g = h
  /\ TtlOf \in [Hosts -> Ttls]
  /\ OtherLimits \subseteq [Budgets -> Nat]
  /\ NoUnits \in Actuals
  /\ Prunes \subseteq [candidates : (SUBSET Budgets) \ {{}}, protected : SUBSET Budgets]
  /\ MaxAttempts \in 1..4
  /\ MaxStrays \in Nat /\ MaxRestarts \in Nat /\ MaxCursor \in Nat \ {0}

VARIABLES
  hosts,   \* what each host has learned of its operation
  calls,   \* the call that each host awaits
  strays   \* requests under way whose attempt was given up

clientVars == <<hosts, calls, strays>>
remoteVars == <<vars, clientVars>>

(* asked: the admission is on its way; unsure: it may or may not stand;    *)
(* recovering: work was started before a crash, and is not repeated.       *)
Steps == {"new", "asked", "unsure", "leased", "working", "recovering", "settled", "stopped"}

(* charge is what the host retains of its input, with the units it learned *)
(* of, and settlement what it decided to settle with.  cursor and pinned   *)
(* (growth whose result is not known) live in the lease object, with       *)
(* expiresAt.  runs and restarts are history.                              *)
NewHost ==
  [step |-> "new", charge |-> {}, expiresAt |-> 0, cursor |-> 0, pinned |-> {},
   settlement |-> {}, runs |-> 0, restarts |-> 0]

NoCall == [phase |-> "idle"]

Methods == {"reserve", "mark_liable", "renew", "grow", "settle", "lookup"}

RequestCharges == [mode : Modes, keys : SUBSET Budgets, units : [Budgets -> Nat]]
GrowthRequests ==
  [method : {"grow"}, op : Operations, increment : Increments, cursor : 0..MaxCursor,
   add : RequestCharges, limits : [Budgets -> Nat]]

RemoteTypeOK ==
  /\ hosts \in [Hosts ->
       [step : Steps, charge : SUBSET RequestCharges, expiresAt : Nat, cursor : 0..MaxCursor,
        pinned : SUBSET GrowthRequests, settlement : SUBSET [actual : [Budgets -> Nat], outcome : Outcomes],
        runs : Nat, restarts : 0..MaxRestarts]]
  /\ \A h \in Hosts :
       /\ calls[h].phase \in {"idle", "sent", "answered", "backoff"}
       /\ calls[h] # NoCall => calls[h].request.method \in Methods /\ calls[h].attempt \in 1..MaxAttempts
  /\ \A q \in strays : q.method \in Methods

RemoteInit ==
  /\ Init
  /\ hosts = [h \in Hosts |-> NewHost]
  /\ calls = [h \in Hosts |-> NoCall]
  /\ strays = {}
-----------------------------------------------------------------------------
(* What the object answers: a result, a UsageStateError, or nothing,       *)
(* because it threw and its transaction was rolled back.                   *)
StateError == [status |-> "state_error"]
Conflict == [status |-> "settlement_conflict"]
Threw == [status |-> "threw"]

(* Mutant: the state is read before recovery.                              *)
OnOpen(op, answer) == IF Open(op) THEN answer ELSE StateError

(* recoverSpecific runs first, and a call that recovered is refused.       *)
OnActive(op, answer) ==
  CASE IsExpired(op) -> IF CanRecover({op}) THEN StateError ELSE Threw
    [] Active(op) -> answer
    [] OTHER -> StateError

Until(deadline) == IF Safe(deadline) THEN [status |-> "ok", expiresAt |-> deadline] ELSE Threw

ReserveAnswer(q, expired, forgotten) ==
  LET tables == Recovered(expired, forgotten)
  IN  IF ~CanRecover(expired) THEN Threw
      ELSE IF Refused(q.op, q.charge, q.limits, tables)
        THEN [status |-> IF Duplicate(q.op, tables) THEN "duplicate_operation" ELSE "quota_exceeded"]
      ELSE IF Insertable(q.op, q.charge, q.ttl, tables) THEN Until(now + q.ttl) ELSE Threw

MarkLiableAnswer(q) ==
  OnActive(q.op, [status |-> "ok", expiresAt |-> reservations[q.op].expiresAt])

RenewAnswer(q) == OnActive(q.op, Until(now + q.ttl))

(* A settlement on record is replayed to who repeats it, unless it is the  *)
(* charge of a lease that expired.                                         *)
RecordedActual(op) == IF IsVector(op) THEN vectorRows[op].actual ELSE reservations[op].actual

SettlementReply(op, actual) == [status |-> "ok", reserved |-> Reserved(op), actual |-> actual]

SettleAnswer(q) ==
  LET row == reservations[q.op]
  IN  IF Exists(q.op) /\ row.state = "settled" /\ IsVector(q.op) = (q.mode = "vector") THEN
        IF row.outcome = LeaseExpiredReason THEN StateError
        ELSE IF RecordedActual(q.op) = q.actual /\ row.outcome = q.outcome
          THEN SettlementReply(q.op, q.actual)
        ELSE Conflict
      ELSE OnActive(q.op,
        IF \/ IsVector(q.op) # (q.mode = "vector")
           \/ \E b \in Budgets : q.actual[b] > Reserved(q.op)[b] THEN StateError
        ELSE IF CanSettle THEN SettlementReply(q.op, q.actual) ELSE Threw)

(* What was recorded of growth answers its repetition.                     *)
GrowthReply(cursor, g) ==
  [status |-> "ok", cursor |-> cursor, accepted |-> g.accepted,
   previous |-> g.previous, reserved |-> g.reserved]

GrowAnswer(q) ==
  LET op == q.op
      accepted == WithinLimits(q.add, q.limits, used)
      grown == IF accepted THEN Plus(Reserved(op), q.add.units) ELSE Reserved(op)
  IN  OnActive(op,
        IF IsVector(op) # (q.add.mode = "vector") THEN StateError
        ELSE IF Recorded(op, q.increment) # {} THEN
          LET g == CHOOSE g \in Recorded(op, q.increment) : TRUE
          IN  IF growthRows[op].cursor = q.cursor + 1 /\ g.fingerprint = <<q.add, q.limits>>
                THEN GrowthReply(growthRows[op].cursor, g) ELSE StateError
        ELSE IF growthRows[op].cursor # q.cursor \/ BudgetIds(op) # q.add.keys THEN StateError
        ELSE IF \E b \in q.add.keys : ~Safe(grown[b]) THEN Threw
        ELSE GrowthReply(q.cursor + 1,
               [accepted |-> accepted, previous |-> Reserved(op), reserved |-> grown]))

(* lookup reads one row and changes nothing.  The row of a vector          *)
(* reservation has no budget ids, for which it throws.                     *)
LookupAnswer(q) ==
  LET row == reservations[q.op]
      found(status, state) ==
        [status |-> status, state |-> state, expiresAt |-> row.expiresAt,
         keys |-> row.budgetIds, units |-> row.reserved]
  IN  IF ~Exists(q.op) THEN [status |-> "absent"]
      ELSE IF row.budgetIds = {} THEN Threw
      ELSE IF Open(q.op) THEN found(IF IsExpired(q.op) THEN "expired" ELSE "active", row.state)
      ELSE IF row.outcome = LeaseExpiredReason THEN found("expired", "liable")
      ELSE found("settled", "settled")

Answer(q, expired, forgotten) ==
  CASE q.method = "reserve" -> ReserveAnswer(q, expired, forgotten)
    [] q.method = "mark_liable" -> MarkLiableAnswer(q)
    [] q.method = "renew" -> RenewAnswer(q)
    [] q.method = "settle" -> SettleAnswer(q)
    [] q.method = "grow" -> GrowAnswer(q)
    [] q.method = "lookup" -> LookupAnswer(q)

(* invokeGateway: the call of the object, if it changes anything.          *)
Effect(q, expired, forgotten) ==
  CASE q.method = "reserve" -> ReserveAfter(q.op, q.charge, q.limits, q.ttl, expired, forgotten)
    [] q.method = "mark_liable" -> MarkLiable(q.op)
    [] q.method = "renew" -> Renew(q.op, q.ttl)
    [] q.method = "settle" -> Settle(q.op, q.actual, q.outcome)
    [] q.method = "grow" -> Grow(q.op, q.increment, q.cursor, q.add, q.limits)

HasEffect(q, answer) ==
  /\ answer # Threw
  /\ \/ q.method = "reserve"
     \/ /\ q.method \in {"mark_liable", "renew", "settle", "grow"}
        /\ \/ IsExpired(q.op)
           \/ Active(q.op) /\ answer.status = "ok" /\ ~(q.method = "grow" /\ Recorded(q.op, q.increment) # {})

Execute(q, expired, forgotten) ==
  IF HasEffect(q, Answer(q, expired, forgotten)) THEN Effect(q, expired, forgotten) ELSE UNCHANGED vars

ExpiredFor(q) == IF q.method = "reserve" THEN ExpiredBatches ELSE {{}}
ForgottenFor(q) == IF q.method = "reserve" THEN TombstoneBatches ELSE {{}}
-----------------------------------------------------------------------------
(* The client.                                                             *)

Idle(h) == calls[h] = NoCall

Sent(q, attempt) == [phase |-> "sent", request |-> q, attempt |-> attempt]

Post(h, q) ==
  /\ Idle(h)
  /\ calls' = [calls EXCEPT ![h] = Sent(q, 1)]
  /\ UNCHANGED <<vars, strays>>

(* isSuccessfulReplyForRequest: results that the client does not accept    *)
(* are reported as failures of the protocol.                               *)
GrowthFits(q, answer) ==
  answer.accepted =>
    /\ answer.reserved = Plus(answer.previous, q.add.units)
    /\ \A b \in q.add.keys : Safe(answer.reserved[b])

SettlementFits(q, answer) ==
  /\ answer.actual = q.actual
  /\ \A b \in Budgets : answer.reserved[b] >= answer.actual[b]

Fits(q, answer) ==
  answer.status = "ok" =>
    CASE q.method = "settle" -> SettlementFits(q, answer)
      [] q.method = "grow" -> GrowthFits(q, answer)
      [] OTHER -> answer.expiresAt > 0

(* Classes of CloudflareUsageTransportError: timeout and network are told  *)
(* apart by nobody; http_5xx stands for 408 and 429 as well; refused is    *)
(* the gateway's 401 and 4xx, before it invokes the object.                *)
Classes == {"timeout", "http_5xx", "refused", "protocol"}
Retryable == {"timeout", "http_5xx"}

(* createExactRetryingRemoteCloudflareUsageStore: scalar calls that follow *)
(* an admission.                                                           *)
Replayable(q) ==
  \/ q.method \in {"mark_liable", "renew"}
  \/ q.method = "settle" /\ q.mode = "scalar"

(* Mutants: the input is read again for a retry; a failed attempt does not *)
(* count.                                                                  *)
InputReread(q) == IF q.method = "settle" THEN [q EXCEPT !.actual = NoUnits] ELSE q
SameAttempt(n) == n

ExactInput(q) == q
NextAttempt(n) == n + 1
-----------------------------------------------------------------------------
(* What a host learns from an answer.                                      *)

(* verifyLookupIdentity: units and budgets are those the host retained.    *)
SameIdentity(host, answer) ==
  \A charge \in host.charge : answer.keys = charge.keys /\ answer.units = charge.units

(* Mutant: what is active is resumed, whatever its state.                  *)
ResumedIfActive(host, answer) ==
  IF answer.status = "active" /\ SameIdentity(host, answer) THEN "leased" ELSE "stopped"

(* Only a reservation that is active and pending, and was not on its way   *)
(* to be settled, lets the work begin.                                     *)
Resumed(host, answer) ==
  CASE answer.status = "active" /\ SameIdentity(host, answer) ->
         IF answer.state = "pending" /\ host.settlement = {} THEN "leased" ELSE "recovering"
    [] OTHER -> "stopped"

Admitted(host, answer) ==
  IF answer.status = "ok" THEN [host EXCEPT !.step = "leased", !.expiresAt = answer.expiresAt, !.cursor = 1]
  ELSE [host EXCEPT !.step = "stopped"]

LookedUp(host, answer) ==
  LET step == Resumed(host, answer)
  IN  [host EXCEPT !.step = step, !.expiresAt = IF step = "stopped" THEN @ ELSE answer.expiresAt]

Grown(host, answer) ==
  IF answer.status = "ok" THEN
    [host EXCEPT !.cursor = answer.cursor, !.pinned = {},
       !.charge = {[kept EXCEPT !.units = IF answer.accepted THEN answer.reserved ELSE @] : kept \in @}]
  ELSE [host EXCEPT !.pinned = {}]

Done(host, q, answer) ==
  CASE q.method = "mark_liable" -> [host EXCEPT !.step = "working", !.expiresAt = answer.expiresAt,
                                                !.runs = @ + 1]
    [] q.method = "renew" -> [host EXCEPT !.expiresAt = answer.expiresAt]
    [] q.method = "settle" -> [host EXCEPT !.step = "settled"]

Learned(host, q, answer) ==
  CASE q.method = "reserve" -> Admitted(host, answer)
    [] q.method = "lookup" -> LookedUp(host, answer)
    [] q.method = "grow" -> Grown(host, answer)
    [] OTHER -> IF answer.status = "ok" THEN Done(host, q, answer) ELSE [host EXCEPT !.step = "stopped"]

(* After a call that may have taken effect: an admission or a liability    *)
(* that was not acknowledged is looked up, growth is pinned and settlement *)
(* is sent again.                                                          *)
Unlearned(host, q, class) ==
  CASE q.method = "lookup" -> [host EXCEPT !.step = "stopped"]
    [] q.method = "reserve" -> [host EXCEPT !.step = IF class = "timeout" THEN "unsure" ELSE "stopped"]
    [] q.method = "mark_liable" /\ class \in Retryable -> [host EXCEPT !.step = "unsure"]
    [] OTHER -> host

(* postAnswer: HTTP 200 with what the object answered.                     *)
Return(h) ==
  /\ calls[h].phase = "answered"
  /\ calls[h].answer # Threw
  /\ LET q == calls[h].request
         answer == calls[h].answer
     IN  hosts' = [hosts EXCEPT ![h] = IF Fits(q, answer) THEN Learned(@, q, answer)
                                       ELSE Unlearned(@, q, "protocol")]
  /\ calls' = [calls EXCEPT ![h] = NoCall]
  /\ UNCHANGED <<vars, strays>>

Strayed(q) == {strays} \cup {s \in {strays \cup {q}} : Cardinality(s) <= MaxStrays}

(* An attempt fails.  A timeout aborts it wherever it is; a response that  *)
(* is lost leaves what the request did.                                    *)
Fail(h, class) ==
  /\ calls[h].phase \in {"sent", "answered"}
  /\ class = "refused" => calls[h].phase = "sent"
  /\ LET q == calls[h].request
         n == calls[h].attempt
         again == Replayable(q) /\ class \in Retryable /\ n < MaxAttempts
     IN  /\ strays' \in IF calls[h].phase = "sent" /\ class # "refused" THEN Strayed(q) ELSE {strays}
         /\ calls' = [calls EXCEPT ![h] =
              IF again THEN [phase |-> "backoff", request |-> q, attempt |-> n] ELSE NoCall]
         /\ hosts' = [hosts EXCEPT ![h] = IF again THEN @ ELSE Unlearned(@, q, class)]
  /\ UNCHANGED vars

(* runExactPostReserveReplay, after its delay.                             *)
Resend(h) ==
  /\ calls[h].phase = "backoff"
  /\ calls' = [calls EXCEPT ![h] = Sent(ExactInput(@.request), NextAttempt(@.attempt))]
  /\ UNCHANGED <<vars, hosts, strays>>

(* The gateway has the object execute a request that somebody awaits, or   *)
(* one that nobody does.                                                   *)
Deliver(h) ==
  /\ calls[h].phase = "sent"
  /\ LET q == calls[h].request
     IN  \E expired \in ExpiredFor(q), forgotten \in ForgottenFor(q) :
           /\ Execute(q, expired, forgotten)
           /\ calls' = [calls EXCEPT ![h] =
                [phase |-> "answered", request |-> q, attempt |-> @.attempt,
                 answer |-> Answer(q, expired, forgotten)]]
  /\ UNCHANGED <<hosts, strays>>

StrayArrives(q) ==
  /\ \E expired \in ExpiredFor(q), forgotten \in ForgottenFor(q) : Execute(q, expired, forgotten)
  /\ strays' = strays \ {q}
  /\ UNCHANGED <<hosts, calls>>
-----------------------------------------------------------------------------
(* What a host does between its calls.                                     *)

HostPosts(h, q, host) ==
  /\ Post(h, q)
  /\ hosts' = [hosts EXCEPT ![h] = host]

(* What a call prepares: identities and keys are sent as their hashes.     *)
AdmissionRequest(h, charge, lim) ==
  [method |-> "reserve", op |-> OpOf[h], charge |-> charge, limits |-> lim, ttl |-> TtlOf[h]]

GrowthRequest(h, inc, add, lim) ==
  [method |-> "grow", op |-> OpOf[h], increment |-> inc, cursor |-> hosts[h].cursor,
   add |-> add, limits |-> lim]

SettlementRequest(h, mode, settlement) ==
  [method |-> "settle", op |-> OpOf[h], mode |-> mode,
   actual |-> settlement.actual, outcome |-> settlement.outcome]

LookupRequest(h) == [method |-> "lookup", op |-> OpOf[h]]

Admit(h) ==
  \E charge \in Charges, lim \in Limits :
    /\ hosts[h].step = "new"
    /\ HostPosts(h, AdmissionRequest(h, charge, lim),
                 [hosts[h] EXCEPT !.step = "asked", !.charge = {charge}])

LookUp(h) ==
  /\ hosts[h].step = "unsure"
  /\ HostPosts(h, LookupRequest(h), hosts[h])

BecomeLiable(h) ==
  /\ hosts[h].step = "leased" /\ hosts[h].settlement = {}
  /\ HostPosts(h, [method |-> "mark_liable", op |-> OpOf[h]], hosts[h])

(* renew(ttlMs): each renewal may ask for another lifetime.                *)
KeepAlive(h) ==
  \E ttl \in Ttls :
    /\ hosts[h].step \in {"leased", "working", "recovering"}
    /\ HostPosts(h, [method |-> "renew", op |-> OpOf[h], ttl |-> ttl], hosts[h])

(* UsageLease.grow: an attempt whose result is not known is repeated as it *)
(* was.  A lease that was resumed without its cursor does not grow.        *)
Extend(h) ==
  /\ hosts[h].step \in {"leased", "working"}
  /\ hosts[h].cursor \in 1..MaxCursor - 1
  /\ \E inc \in Increments, add \in Growths, lim \in Limits, charge \in hosts[h].charge :
       LET q == GrowthRequest(h, inc, add, lim)
       IN  /\ add.mode = charge.mode
           /\ hosts[h].pinned \subseteq {q}
           /\ HostPosts(h, q, [hosts[h] EXCEPT !.pinned = {q}])

(* One result for the operation: nothing if the work was not started.      *)
Finish(h) ==
  /\ hosts[h].step \in {"leased", "working", "recovering"}
  /\ \E actual \in Actuals, outcome \in Outcomes, charge \in hosts[h].charge :
       LET settlement == [actual |-> actual, outcome |-> outcome]
       IN  /\ hosts[h].step = "leased" => actual = NoUnits
           /\ hosts[h].settlement \subseteq {settlement}
           /\ HostPosts(h, SettlementRequest(h, charge.mode, settlement),
                        [hosts[h] EXCEPT !.settlement = {settlement}])

(* A host loses its lease object and whoever awaited its call.             *)
Restart(h) ==
  /\ hosts[h].step \notin {"new", "settled", "stopped"}
  /\ hosts[h].restarts < MaxRestarts
  /\ hosts' = [hosts EXCEPT ![h] = [hosts[h] EXCEPT
                 !.step = "unsure", !.expiresAt = 0, !.cursor = 0, !.pinned = {},
                 !.restarts = hosts[h].restarts + 1]]
  /\ strays' \in IF calls[h].phase = "sent" THEN Strayed(calls[h].request) ELSE {strays}
  /\ calls' = [calls EXCEPT ![h] = NoCall]
  /\ UNCHANGED vars

(* pruneRemoteCloudflareHistoricalBudgets, by an operator whom the answer  *)
(* may not reach: its request may be executed long after it was sent.      *)
Maintain ==
  /\ \E p \in Prunes : PruneBudgets(p.candidates \ p.protected)
  /\ UNCHANGED clientVars

(* Admissions of other clients clean up after everyone, admitted or not.   *)
OtherAdmission ==
  /\ \E op \in Operations \ {OpOf[h] : h \in Hosts}, charge \in Charges, lim \in OtherLimits, ttl \in Ttls :
       Reserve(op, charge, lim, ttl)
  /\ UNCHANGED clientVars

RemoteNext ==
  \/ \E h \in Hosts : Admit(h) \/ LookUp(h) \/ BecomeLiable(h) \/ KeepAlive(h) \/ Extend(h)
                        \/ Finish(h) \/ Restart(h)
  \/ \E h \in Hosts : Deliver(h) \/ Return(h) \/ Resend(h) \/ \E class \in Classes : Fail(h, class)
  \/ \E q \in strays : StrayArrives(q)
  \/ Maintain
  \/ OtherAdmission
  \/ Tick /\ UNCHANGED clientVars

(* Every attempt has a timer, and so has the delay before the next one.    *)
Fairness ==
  \A h \in Hosts : WF_remoteVars(Fail(h, "timeout")) /\ WF_remoteVars(Resend(h))

RemoteSpec == RemoteInit /\ [][RemoteNext]_remoteVars /\ Fairness
-----------------------------------------------------------------------------
(* Properties.                                                             *)

(* A deadline that covers what a host was told, but for what a renewal     *)
(* that was given up and is executed late can take from it: the difference *)
(* between the longest lifetime and the shortest.                          *)
Covers(deadline, told) == \E long, short \in Ttls : deadline + long >= told + short

(* What a host was told still holds, whatever late requests and cleanup    *)
(* did since.  Work goes on only under a liability, which is charged when  *)
(* its lease expires and stays on record for a while.  An acknowledged     *)
(* settlement is the one on record until it is forgotten.  An open lease   *)
(* lasts as long as the host believes, but for a late shorter renewal.     *)
AcknowledgedStands ==
  \A h \in Hosts :
    LET host == hosts[h]
        row == reservations[OpOf[h]]
    IN  /\ host.step = "working" /\ host.settlement = {} =>
             \/ row.state \in {"liable", "settled"}
             \/ row.state = "absent" /\ Covers(now, host.expiresAt + IdempotencyTtl)
        /\ host.step = "settled" =>
             \/ row.state = "absent"
             \/ /\ row.state = "settled"
                /\ \A s \in host.settlement :
                     RecordedActual(OpOf[h]) = s.actual /\ row.outcome = s.outcome
        /\ host.step \in {"leased", "working", "recovering"} /\ Open(OpOf[h]) =>
             Covers(row.expiresAt, host.expiresAt)

(* The work of an operation is done once at most, across crashes, lost     *)
(* answers and attempts that arrive late.                                  *)
ExecutedOnce == \A h \in Hosts : hosts[h].runs <= 1

(* The object answers nothing that the client's checks would report as a   *)
(* failure of the protocol, although it took effect, and no repetition of  *)
(* a settlement is answered by a conflict with itself.                     *)
AnswersUsable ==
  RemoteTypeOK /\ \A h \in Hosts : calls[h].phase = "answered" =>
    /\ calls[h].answer # Conflict
    /\ calls[h].answer # Threw => Fits(calls[h].request, calls[h].answer)

(* Every call returns to its caller, after finitely many attempts.         *)
CallsReturn == \A h \in Hosts : ~Idle(h) ~> Idle(h)
=============================================================================
