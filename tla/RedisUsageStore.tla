--------------------------- MODULE RedisUsageStore ---------------------------
(***************************************************************************)
(* The distributed store (packages/redis/src/scripts.ts): five keys of one *)
(* Redis hash slot, changed only by Lua scripts.  A script runs alone on   *)
(* the server and reads the server's TIME, so each script is one action;   *)
(* what the adapter in index.ts adds is the parsing of its reply.          *)
(*                                                                         *)
(* Nothing runs in the background.  Only the two admission scripts look    *)
(* for expired state, at most cleanupBatchSize leases and as many          *)
(* tombstones a call; every other script expires the one reservation it    *)
(* was called for.  Until one of them gets there, expired state remains.   *)
(*                                                                         *)
(* The environment is the most general set of clients: a call repeated     *)
(* after its acknowledgement was lost is one more call.  Replies that a    *)
(* script gives before its first write change nothing and are not actions. *)
(***************************************************************************)
EXTENDS UsageUnits

CONSTANTS
  Operations,       \* operation keys; a reservation id is "r2." and its key
  Budgets,          \* budget hashes
  Charges,          \* charges requested at admission: [mode, keys, units]
  Growths,          \* charges requested by growth
  Actuals,          \* actual usage reported at settlement
  Limits,           \* limits clients quote: functions Budgets -> Nat
  Ttls,             \* lease lifetimes clients ask for
  Increments,       \* hashes of increment ids
  Outcomes,         \* outcome labels clients settle with
  CleanupBatchSize, \* cleanupBatchSize
  IdempotencyTtl,   \* idempotencyTtlMs
  MaxSafeInteger,   \* MAX_SAFE_INTEGER
  MaxClock,         \* bound on the server's clock
  MaxCursor         \* bound on the growth attempts of one reservation

Modes == {"scalar", "vector"}

(* A scalar request puts the same units on each of its budgets, a vector   *)
(* request any units, and neither puts units on a budget it does not name. *)
OfMode(mode, keys, units) == mode = "scalar" => \A b, d \in keys : units[b] = units[d]

ASSUME RedisConstants ==
  /\ IsFiniteSet(Operations) /\ IsFiniteSet(Budgets)
  /\ \A c \in Charges \cup Growths :
       /\ c \in [mode : Modes, keys : SUBSET Budgets, units : [Budgets -> Nat]]
       /\ OfMode(c.mode, c.keys, c.units)
       /\ \A b \in Budgets \ c.keys : c.units[b] = 0
  /\ \A c \in Growths : c.units # [b \in Budgets |-> 0]
  /\ Actuals \cup Limits \subseteq [Budgets -> Nat]
  /\ Ttls \subseteq Nat \ {0}
  /\ CleanupBatchSize \in Nat \ {0} /\ IdempotencyTtl \in Nat \ {0}
  /\ MaxSafeInteger \in Nat /\ MaxClock \in Nat /\ MaxCursor \in Nat

VARIABLES
  used,          \* HASH budget hash -> used units (0: no field)
  leases,        \* ZSET reservation -> deadline of an active lease
  reservations,  \* HASH reservation -> record
  operations,    \* HASH of operation keys that are claimed
  tombstones,    \* ZSET operation key -> end of replay protection
  clock,         \* TIME, in milliseconds
  spent          \* history: units finally charged to each budget since it
                 \* was last retired

storeVars == <<used, leases, reservations, operations, tombstones>>
vars == <<storeVars, clock, spent>>

NoUnits == [b \in Budgets |-> 0]

LeaseExpired == "lease_expired_after_execution_started"

(* A cursor is a fresh UUID.  Requests carry any cursor at all, so it is   *)
(* enough that the cursors of one record differ: they are counted.  Of     *)
(* lastGrowth only the increment decides what a script writes; the rest    *)
(* shapes the replies to exact and conflicting repetitions.                *)
Record ==
  [mode : Modes, state : {"pending", "liable", "settled"},
   budgetKeys : SUBSET Budgets, reserved : [Budgets -> Nat], expiresAt : Nat,
   growthCursor : Nat, lastGrowth : SUBSET Increments,
   actual : [Budgets -> Nat], outcome : Outcomes \cup {"", LeaseExpired}]

PartialFunction(f, S, T) == DOMAIN f \subseteq S /\ f \in [DOMAIN f -> T]

RedisTypeOK ==
  /\ used \in [Budgets -> Nat]
  /\ PartialFunction(leases, Operations, Nat)
  /\ PartialFunction(reservations, Operations, Record)
  /\ operations \in SUBSET Operations
  /\ PartialFunction(tombstones, Operations, Nat)
  /\ clock \in Nat /\ spent \in [Budgets -> Nat]

Init ==
  /\ used = NoUnits
  /\ leases = <<>> /\ reservations = <<>> /\ tombstones = <<>>
  /\ operations = {}
  /\ clock = 0
  /\ spent = NoUnits
-----------------------------------------------------------------------------
(* COMMON: helpers that every script includes.                             *)

Safe(n) == n <= MaxSafeInteger             \* safeTimeAdd is not nil

(* ZADD or HSET of one member, and ZREM or HDEL of several.                *)
With(f, op, v) == [o \in DOMAIN f \cup {op} |-> IF o = op THEN v ELSE f[o]]
Without(f, ops) == [o \in DOMAIN f \ ops |-> f[o]]

(* HINCRBY of every field, and subtractUsed, which deletes a field that    *)
(* reaches zero.                                                           *)
Plus(u, v) == [b \in Budgets |-> u[b] + v[b]]
Minus(u, v) == [b \in Budgets |-> ClampedSub(u[b], v[b])]

Settled(record, actual, outcome) ==
  [record EXCEPT !.state = "settled", !.actual = actual, !.outcome = outcome]

(* Mutant: what expiry retains is recorded as an ordinary settlement.      *)
RetainLiableAsSettled(record) == Settled(record, record.reserved, "")

RetainLiable(record) == Settled(record, record.reserved, LeaseExpired)

InState(op, states) == op \in DOMAIN reservations /\ reservations[op].state \in states

(* What the reservations in ops hold of each budget.                       *)
Units(ops) ==
  [b \in Budgets |->
    Total([op \in Operations |-> IF op \in ops THEN reservations[op].reserved[b] ELSE 0])]
-----------------------------------------------------------------------------
(* CLEANUP, part of both admission scripts.                                *)

(* ZRANGEBYSCORE key -inf now LIMIT 0 cleanupLimit: the members with the   *)
(* earliest scores; members with equal scores come in an order of hashes.  *)
Batches(zset) ==
  LET due == {op \in DOMAIN zset : zset[op] <= clock}
      size == IF Cardinality(due) < CleanupBatchSize THEN Cardinality(due) ELSE CleanupBatchSize
  IN  {batch \in SUBSET due :
         /\ Cardinality(batch) = size
         /\ \A op \in batch, other \in due \ batch : zset[op] <= zset[other]}

(* Mutant: ZREM of the released leases only.                               *)
CleanedKeepingLiable(expiredReservations, expiredOperations) ==
  LET released == {op \in expiredReservations : InState(op, {"pending"})}
      retained == {op \in expiredReservations : InState(op, {"liable"})}
      records == [op \in DOMAIN reservations \ released |->
                   IF op \in retained THEN RetainLiable(reservations[op]) ELSE reservations[op]]
      forgotten == {op \in expiredOperations \cap (operations \ released) :
                      op \in DOMAIN records /\ records[op].state = "settled"}
      added == [op \in DOMAIN tombstones \cup retained |->
                 IF op \in retained THEN clock + IdempotencyTtl ELSE tombstones[op]]
  IN  [used |-> Minus(used, Units(released)),
       leases |-> Without(leases, released),
       reservations |-> Without(records, forgotten),
       operations |-> operations \ (released \cup expiredOperations),
       tombstones |-> Without(added, expiredOperations),
       spent |-> Plus(spent, Units(retained))]

(* The state that cleaning up these leases and then these tombstones       *)
(* leaves.  Both lists are read before the first write.                    *)
Cleaned(expiredReservations, expiredOperations) ==
  LET released == {op \in expiredReservations : InState(op, {"pending"})}
      retained == {op \in expiredReservations : InState(op, {"liable"})}
      records == [op \in DOMAIN reservations \ released |->
                   IF op \in retained THEN RetainLiable(reservations[op]) ELSE reservations[op]]
      forgotten == {op \in expiredOperations \cap (operations \ released) :
                      op \in DOMAIN records /\ records[op].state = "settled"}
      added == [op \in DOMAIN tombstones \cup retained |->
                 IF op \in retained THEN clock + IdempotencyTtl ELSE tombstones[op]]
  IN  [used |-> Minus(used, Units(released)),
       leases |-> Without(leases, expiredReservations),
       reservations |-> Without(records, forgotten),
       operations |-> operations \ (released \cup expiredOperations),
       tombstones |-> Without(added, expiredOperations),
       spent |-> Plus(spent, Units(retained))]

Become(store) ==
  /\ used' = store.used /\ leases' = store.leases /\ reservations' = store.reservations
  /\ operations' = store.operations /\ tombstones' = store.tombstones
  /\ spent' = store.spent
-----------------------------------------------------------------------------
(* RESERVE_SCRIPT and RESERVE_VECTOR_SCRIPT.                               *)

(* Mutant: the request is compared with the limit, not with what remains.  *)
WithinWholeLimits(charge, lim, u) == \A b \in charge.keys : charge.units[b] <= lim[b]

(* remaining = limit - used, at least zero, covers the request.            *)
WithinLimits(charge, lim, u) ==
  \A b \in charge.keys : charge.units[b] <= ClampedSub(lim[b], u[b])

Pending(charge, expiresAt) ==
  [mode |-> charge.mode, state |-> "pending", budgetKeys |-> charge.keys, reserved |-> charge.units,
   expiresAt |-> expiresAt, growthCursor |-> 1, lastGrowth |-> {},
   actual |-> NoUnits, outcome |-> ""]

Reserve(op, charge, lim, ttl) ==
  /\ Safe(clock + ttl) /\ Safe(clock + IdempotencyTtl)
  /\ \E expiredReservations \in Batches(leases), expiredOperations \in Batches(tombstones) :
       LET store == Cleaned(expiredReservations, expiredOperations)
           record == Pending(charge, clock + ttl)
       IN  \/ /\ op \in store.operations \/ ~WithinLimits(charge, lim, store.used)
              /\ Become(store)
           \/ /\ op \notin store.operations
              /\ WithinLimits(charge, lim, store.used)
              /\ Become([store EXCEPT !.used = Plus(@, charge.units),
                                      !.reservations = With(@, op, record),
                                      !.operations = @ \cup {op},
                                      !.leases = With(@, op, clock + ttl)])
  /\ UNCHANGED clock
-----------------------------------------------------------------------------
(* Every other script touches one reservation, which it expires if its     *)
(* deadline has passed.                                                    *)

Live(op) == InState(op, {"pending", "liable"}) /\ reservations[op].expiresAt > clock

DirectExpiry(op) ==
  /\ Safe(clock + IdempotencyTtl)
  /\ InState(op, {"pending", "liable"})
  /\ reservations[op].expiresAt <= clock
  /\ IF reservations[op].state = "pending"
       THEN /\ used' = Minus(used, reservations[op].reserved)
            /\ operations' = operations \ {op}
            /\ reservations' = Without(reservations, {op})
            /\ UNCHANGED <<tombstones, spent>>
       ELSE /\ reservations' = [reservations EXCEPT ![op] = RetainLiable(@)]
            /\ tombstones' = With(tombstones, op, clock + IdempotencyTtl)
            /\ spent' = Plus(spent, reservations[op].reserved)
            /\ UNCHANGED <<used, operations>>
  /\ leases' = Without(leases, {op})
  /\ UNCHANGED clock

MarkLiable(op) ==
  \/ DirectExpiry(op)
  \/ /\ Safe(clock + IdempotencyTtl)
     /\ Live(op)
     /\ reservations' = [reservations EXCEPT ![op].state = "liable"]
     /\ UNCHANGED <<used, leases, operations, tombstones, clock, spent>>

(* Mutant: the record is renewed, its entry in the lease index is not.     *)
RenewRecord(op, ttl) ==
  /\ Safe(clock + ttl)
  /\ \/ DirectExpiry(op)
     \/ /\ Safe(clock + IdempotencyTtl)
        /\ Live(op)
        /\ reservations' = [reservations EXCEPT ![op].expiresAt = clock + ttl]
        /\ UNCHANGED <<used, leases, operations, tombstones, clock, spent>>

Renew(op, ttl) ==
  /\ Safe(clock + ttl)
  /\ \/ DirectExpiry(op)
     \/ /\ Safe(clock + IdempotencyTtl)
        /\ Live(op)
        /\ reservations' = [reservations EXCEPT ![op].expiresAt = clock + ttl]
        /\ leases' = With(leases, op, clock + ttl)
        /\ UNCHANGED <<used, operations, tombstones, clock, spent>>

(* SETTLE_SCRIPT and SETTLE_VECTOR_SCRIPT, for a record of their mode.     *)
Settle(op, actual, outcome) ==
  /\ op \in DOMAIN reservations
  /\ OfMode(reservations[op].mode, reservations[op].budgetKeys, actual)
  /\ \/ DirectExpiry(op)
     \/ /\ Safe(clock + IdempotencyTtl)
        /\ Live(op)
        /\ \A b \in Budgets : actual[b] <= reservations[op].reserved[b]
        /\ used' = Minus(used, Minus(reservations[op].reserved, actual))
        /\ reservations' = [reservations EXCEPT ![op] = Settled(@, actual, outcome)]
        /\ leases' = Without(leases, {op})
        /\ tombstones' = With(tombstones, op, clock + IdempotencyTtl)
        /\ spent' = Plus(spent, actual)
        /\ UNCHANGED <<operations, clock>>

(* GROW_SCRIPT and GROW_VECTOR_SCRIPT, for an increment that is not the    *)
(* last one recorded: that one is replayed or rejected without a write.    *)
Grow(op, inc, cursor, add, lim) ==
  /\ op \in DOMAIN reservations /\ reservations[op].mode = add.mode
  /\ \/ DirectExpiry(op)
     \/ LET record == reservations[op]
            accepted == WithinLimits(add, lim, used)
        IN  /\ Safe(clock + IdempotencyTtl)
            /\ Live(op)
            /\ inc \notin record.lastGrowth
            /\ record.growthCursor = cursor
            /\ record.budgetKeys = add.keys
            /\ cursor < MaxCursor
            /\ used' = IF accepted THEN Plus(used, add.units) ELSE used
            /\ reservations' =
                 [reservations EXCEPT ![op] =
                   [record EXCEPT !.reserved = IF accepted THEN Plus(@, add.units) ELSE @,
                                  !.growthCursor = @ + 1,
                                  !.lastGrowth = {inc}]]
            /\ UNCHANGED <<leases, operations, tombstones, clock, spent>>
-----------------------------------------------------------------------------
(* RETIRE_HISTORICAL_BUDGETS_SCRIPT: all candidates or none.               *)

Referenced(b) ==
  \E op \in DOMAIN reservations :
    reservations[op].state \in {"pending", "liable"} /\ b \in reservations[op].budgetKeys

RetireHistoricalBudgets(candidates) ==
  /\ \A b \in candidates : ~Referenced(b)
  /\ used' = [b \in Budgets |-> IF b \in candidates THEN 0 ELSE used[b]]
  /\ spent' = [b \in Budgets |-> IF b \in candidates THEN 0 ELSE spent[b]]
  /\ UNCHANGED <<leases, reservations, operations, tombstones, clock>>

(* RECONCILE_OPERATION_SCRIPT and RECONCILE_VECTOR_OPERATION_SCRIPT: what  *)
(* a client that lost the answer to a request learns about its operation.  *)
(* They write nothing and expire nothing.  A client that asks in the other *)
(* mode than the record's is refused.                                      *)
Verdict(op) ==
  IF op \notin DOMAIN reservations THEN <<"absent">> ELSE
  LET record == reservations[op]
  IN  CASE record.state \in {"pending", "liable"} ->
             <<IF record.expiresAt <= clock THEN "expired" ELSE "active", record.state>>
        [] record.state = "settled" /\ op \notin DOMAIN tombstones -> <<"invalid_state">>
        [] record.state = "settled" /\ op \in DOMAIN tombstones ->
             IF tombstones[op] <= clock THEN <<"absent">>
             ELSE IF record.outcome = LeaseExpired THEN <<"expired", "liable">>
             ELSE <<"settled", record.actual>>

(* The server's clock may be set forwards or backwards.                    *)
ClockStep ==
  /\ clock' \in (0..MaxClock) \ {clock}
  /\ UNCHANGED <<storeVars, spent>>

Admission ==
  \E op \in Operations, charge \in Charges, lim \in Limits, ttl \in Ttls :
    Reserve(op, charge, lim, ttl)

Next ==
  \/ Admission
  \/ \E op \in Operations :
       \/ MarkLiable(op)
       \/ \E ttl \in Ttls : Renew(op, ttl)
       \/ \E actual \in Actuals, outcome \in Outcomes : Settle(op, actual, outcome)
       \/ \E inc \in Increments, cursor \in 0..MaxCursor, add \in Growths, lim \in Limits :
            Grow(op, inc, cursor, add, lim)
  \/ \E candidates \in (SUBSET Budgets) \ {{}} : RetireHistoricalBudgets(candidates)
  \/ ClockStep

(* Admissions keep coming; nothing else is promised.                       *)
Spec == Init /\ [][Next]_vars /\ WF_vars(Admission)
-----------------------------------------------------------------------------
(* Properties.                                                             *)

(* The three indexes agree with the records: an operation is claimed while *)
(* it has a record, a lease is indexed at its deadline until it ends, and  *)
(* only settled operations have a tombstone.  Cleanup finds its work       *)
(* through the indexes alone, so an entry missing from one of them would   *)
(* keep capacity or an operation key forever.                              *)
IndexesAgree ==
  /\ RedisTypeOK
  /\ operations = DOMAIN reservations
  /\ DOMAIN leases = {op \in operations : reservations[op].state \in {"pending", "liable"}}
  /\ DOMAIN tombstones = operations \ DOMAIN leases
  /\ \A op \in DOMAIN leases : leases[op] = reservations[op].expiresAt

(* What reconciliation answers stays true until time passes or the client  *)
(* itself goes on: whoever asks next, and whatever other scripts clean up  *)
(* or expire in between, a settled operation stays settled at the same     *)
(* units, one that expired after its execution started stays so, one that  *)
(* expired before is at most forgotten, and one that is active is not      *)
(* reported absent or expired; nobody ever meets an invalid record.        *)
Following(verdict) ==
  {verdict} \cup
  CASE verdict \in {<<"absent">>, <<"expired", "pending">>} ->
         {<<"absent">>, <<"active", "pending">>}
    [] verdict = <<"active", "pending">> ->
         {<<"active", "liable">>} \cup {<<"settled", actual>> : actual \in Actuals}
    [] verdict = <<"active", "liable">> -> {<<"settled", actual>> : actual \in Actuals}
    [] OTHER -> {}

VerdictsStand ==
  [][\A op \in Operations :
       /\ Verdict(op)' # <<"invalid_state">>
       /\ clock' = clock => Verdict(op)' \in Following(Verdict(op))]_vars

(* Bounded lazy cleanup starves nobody: while admissions keep coming, no   *)
(* expired lease and no expired tombstone stays behind the batch forever.  *)
BacklogReclaimed ==
  \A op \in Operations :
    /\ []<>~(op \in DOMAIN leases /\ leases[op] <= clock)
    /\ []<>~(op \in DOMAIN tombstones /\ tombstones[op] <= clock)

(* The scripts implement the ledger that every store promises.             *)
Ledger ==
  INSTANCE UsageLedger WITH
    entries <- [op \in Operations |->
      IF op \in DOMAIN reservations
        THEN [state |-> reservations[op].state, reserved |-> reservations[op].reserved,
              actual |-> reservations[op].actual]
        ELSE [state |-> "absent", reserved |-> NoUnits, actual |-> NoUnits]],
    consumed <- spent

ImplementsLedger == Ledger!LedgerSpec
=============================================================================
