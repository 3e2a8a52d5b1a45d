------------------------- MODULE CloudflareUsageStore -------------------------
(***************************************************************************)
(* The Cloudflare store (packages/cloudflare/src/worker.ts): a Durable     *)
(* Object with four SQLite tables.  Every call reads Date.now() and runs   *)
(* one synchronous transaction, so every call is one action.  An operation *)
(* is spread over three tables: its reservation, its growth cursor, and,   *)
(* for a vector request, its dimensions.  Budgets are rows that an         *)
(* operator may prune (maintenance-protocol.ts), which only admission      *)
(* creates: every other statement on budgets is an UPDATE, and does        *)
(* nothing to a row that is not there.                                     *)
(*                                                                         *)
(* The object keeps nothing in memory between calls, so its eviction and   *)
(* restart change nothing.  A call whose answer is lost and which          *)
(* exact-retry.ts repeats is a call like any other.                        *)
(***************************************************************************)
EXTENDS UsageUnits

CONSTANTS
  Operations,       \* operation keys; a reservation id is "cf1." and its hash
  Budgets,          \* budget ids
  Charges,          \* charges requested at admission: [mode, keys, units]
  Growths,          \* charges requested by growth
  Actuals,          \* actual usage reported at settlement
  Limits,           \* limits clients quote: functions Budgets -> Nat
  Ttls,             \* lease lifetimes clients ask for
  Increments,       \* hashes of increment ids
  Outcomes,         \* hashes of outcomes clients settle with
  CleanupBatchSize, \* cleanupBatchSize
  IdempotencyTtl,   \* idempotencyTtlMs
  MaxSafeInteger,   \* Number.MAX_SAFE_INTEGER
  MaxClock,         \* bound on the clock
  MaxCursor         \* bound on the cursors issued for one reservation

Modes == {"scalar", "vector"}

LeaseExpiredReason == "lease_expired_after_execution_started"

(* A scalar request puts the same units on each of its budgets, a vector   *)
(* request any units, since a budget belongs to one dimension.             *)
OfMode(mode, keys, units) == mode = "scalar" => \A b, d \in keys : units[b] = units[d]

ASSUME CloudflareConstants ==
  /\ IsFiniteSet(Operations) /\ IsFiniteSet(Budgets)
  /\ \A c \in Charges \cup Growths :
       /\ c \in [mode : Modes, keys : SUBSET Budgets, units : [Budgets -> Nat]]
       /\ OfMode(c.mode, c.keys, c.units)
       /\ \A b \in Budgets \ c.keys : c.units[b] = 0
  /\ Actuals \cup Limits \subseteq [Budgets -> Nat]
  /\ Ttls \subseteq Nat \ {0}
  /\ CleanupBatchSize \in Nat \ {0} /\ IdempotencyTtl \in Nat \ {0}
  /\ MaxSafeInteger \in Nat /\ MaxClock \in Nat /\ MaxCursor \in Nat
  /\ LeaseExpiredReason \notin Outcomes

VARIABLES
  budgets,       \* budgets: the ids that have a row
  used,          \* budgets.used (0: no row)
  reservations,  \* reservations
  growthRows,    \* reservation_growth
  vectorRows,    \* reservation_vectors
  now,           \* Date.now() of the object
  spent          \* history: units finally charged to each budget since its
                 \* row was last pruned

vars == <<budgets, used, reservations, growthRows, vectorRows, now, spent>>

NoUnits == [b \in Budgets |-> 0]

(* outcome stands for outcome_hash and terminal_reason, which are NULL     *)
(* until the reservation ends.                                             *)
NoOutcome == ""

ReservationRow ==
  [state : {"absent", "pending", "liable", "settled"}, budgetIds : SUBSET Budgets,
   reserved : [Budgets -> Nat], expiresAt : Nat, actual : [Budgets -> Nat],
   outcome : Outcomes \cup {NoOutcome, LeaseExpiredReason}, tombstoneExpiresAt : Nat]

NoReservation ==
  [state |-> "absent", budgetIds |-> {}, reserved |-> NoUnits, expiresAt |-> 0,
   actual |-> NoUnits, outcome |-> NoOutcome, tombstoneExpiresAt |-> 0]

(* A cursor is a fresh UUID that the client sends along.  Requests carry   *)
(* any cursor, so it is enough to count those of one reservation.  What    *)
(* growth was recorded last answers its repetition; its expected cursor is *)
(* the one before the current.                                             *)
Growth ==
  [increment : Increments, fingerprint : Growths \X Limits, accepted : BOOLEAN,
   previous : [Budgets -> Nat], reserved : [Budgets -> Nat]]
GrowthRow == [cursor : Nat, last : SUBSET Growth]
NoGrowthRow == [cursor |-> 0, last |-> {}]

VectorRow ==
  [exists : BOOLEAN, budgetIds : SUBSET Budgets, reserved : [Budgets -> Nat],
   actual : [Budgets -> Nat], last : SUBSET Growth]
NoVectorRow ==
  [exists |-> FALSE, budgetIds |-> {}, reserved |-> NoUnits, actual |-> NoUnits, last |-> {}]

CloudflareTypeOK ==
  /\ budgets \subseteq Budgets
  /\ used \in [Budgets -> Nat]
  /\ reservations \in [Operations -> ReservationRow]
  /\ growthRows \in [Operations -> GrowthRow]
  /\ vectorRows \in [Operations -> VectorRow]
  /\ now \in Nat
  /\ spent \in [Budgets -> Nat]

(* ensureSchema of a new object.                                           *)
Init ==
  /\ budgets = {} /\ used = NoUnits
  /\ reservations = [op \in Operations |-> NoReservation]
  /\ growthRows = [op \in Operations |-> NoGrowthRow]
  /\ vectorRows = [op \in Operations |-> NoVectorRow]
  /\ now = 0
  /\ spent = NoUnits
-----------------------------------------------------------------------------
Exists(op) == reservations[op].state # "absent"
Open(op) == reservations[op].state \in {"pending", "liable"}
IsVector(op) == vectorRows[op].exists

(* What an operation holds, and of which budgets, wherever it is stored.   *)
Reserved(op) == IF IsVector(op) THEN vectorRows[op].reserved ELSE reservations[op].reserved
BudgetIds(op) == IF IsVector(op) THEN vectorRows[op].budgetIds ELSE reservations[op].budgetIds

IsExpired(op) == Open(op) /\ reservations[op].expiresAt <= now

Safe(n) == n <= MaxSafeInteger

Plus(u, v) == [b \in Budgets |-> u[b] + v[b]]
Minus(u, v) == [b \in Budgets |-> u[b] - v[b]]

(* UPDATE budgets SET used = used + ? and SET used = MAX(0, used - ?).     *)
Added(u, units) == [b \in Budgets |-> IF b \in budgets THEN u[b] + units[b] ELSE u[b]]
Released(u, units) == [b \in Budgets |-> IF b \in budgets THEN ClampedSub(u[b], units[b]) ELSE u[b]]

SettledRow(row, actual, outcome) ==
  [row EXCEPT !.state = "settled", !.actual = actual, !.outcome = outcome,
              !.tombstoneExpiresAt = now + IdempotencyTtl]

(* actual_units of a vector reservation stays NULL.                        *)
SettledInFull(op) ==
  SettledRow(reservations[op], IF IsVector(op) THEN NoUnits ELSE reservations[op].reserved,
             LeaseExpiredReason)

ReservedBy(ops) == [b \in Budgets |-> Total([op \in Operations |-> IF op \in ops THEN Reserved(op)[b] ELSE 0])]

(* Mutants: an expired liable row is released like a pending one; a        *)
(* tombstone leaves its dimensions behind.                                 *)
AllExpired(expired) == expired
WithoutTombstones(pending, forgotten) == pending

PendingOf(expired) == {op \in expired : reservations[op].state = "pending"}
DimensionsDeleted(pending, forgotten) == pending \cup forgotten

(* The tables after recoverRow of each row of expired and the three        *)
(* DELETEs of the tombstones of forgotten.                                 *)
Recovered(expired, forgotten) ==
  LET pending == PendingOf(expired)
      gone == pending \cup forgotten
      charged == expired \ pending
  IN  [reservations |-> [op \in Operations |->
         CASE op \in gone -> NoReservation
           [] op \in charged -> SettledInFull(op)
           [] OTHER -> reservations[op]],
       growthRows |-> [op \in Operations |-> IF op \in gone THEN NoGrowthRow ELSE growthRows[op]],
       vectorRows |-> [op \in Operations |->
         CASE op \in DimensionsDeleted(pending, forgotten) -> NoVectorRow
           [] op \in charged /\ IsVector(op) -> [vectorRows[op] EXCEPT !.actual = vectorRows[op].reserved]
           [] OTHER -> vectorRows[op]],
       used |-> Released(used, ReservedBy(pending)),
       spent |-> Plus(spent, ReservedBy(charged))]

(* The tables at the end of a call that writes no budget row of its own.   *)
Write(tables) ==
  /\ reservations' = tables.reservations
  /\ growthRows' = tables.growthRows
  /\ vectorRows' = tables.vectorRows
  /\ used' = tables.used
  /\ spent' = tables.spent
  /\ UNCHANGED <<budgets, now>>

Current == Recovered({}, {})

(* safeAdd throws, and the transaction is rolled back.                     *)
CanSettle == Safe(now + IdempotencyTtl)
CanRecover(expired) == (\E op \in expired : reservations[op].state = "liable") => CanSettle
-----------------------------------------------------------------------------
(* reserve and reserveVector, after recoverExpiredBatch.                   *)

(* ORDER BY deadline, id LIMIT cleanupBatchSize: the earliest of those due.*)
Batches(due, deadline) ==
  LET size == IF Cardinality(due) < CleanupBatchSize THEN Cardinality(due) ELSE CleanupBatchSize
  IN  {batch \in SUBSET due :
         /\ Cardinality(batch) = size
         /\ \A op \in batch, other \in due \ batch : deadline[op] <= deadline[other]}

ExpiredBatches ==
  Batches({op \in Operations : IsExpired(op)}, [op \in Operations |-> reservations[op].expiresAt])

(* Mutant: a tombstone ends with the lease it records.                     *)
TombstoneBatchesByLease ==
  Batches({op \in Operations : reservations[op].state = "settled" /\ reservations[op].expiresAt <= now},
          [op \in Operations |-> reservations[op].expiresAt])

TombstoneBatches ==
  Batches({op \in Operations : reservations[op].state = "settled" /\ reservations[op].tombstoneExpiresAt <= now},
          [op \in Operations |-> reservations[op].tombstoneExpiresAt])

WithinLimits(charge, lim, u) == \A b \in charge.keys : charge.units[b] <= ClampedSub(lim[b], u[b])

(* What admission inserts: the units are kept in the reservation of a      *)
(* scalar request and in the dimensions of a vector request.               *)
PendingReservation(charge, ttl) ==
  LET scalar == charge.mode = "scalar"
  IN  [NoReservation EXCEPT !.state = "pending", !.expiresAt = now + ttl,
                            !.budgetIds = IF scalar THEN charge.keys ELSE {},
                            !.reserved = IF scalar THEN charge.units ELSE NoUnits]

Dimensions(charge) ==
  [NoVectorRow EXCEPT !.exists = TRUE, !.budgetIds = charge.keys, !.reserved = charge.units]

(* An operation that is still on record, expired or not, is a duplicate.   *)
Duplicate(op, tables) == tables.reservations[op].state # "absent"

Refused(op, charge, lim, tables) == Duplicate(op, tables) \/ ~WithinLimits(charge, lim, tables.used)

(* Rows are inserted under a primary key: a vector admission throws if one *)
(* of its side rows is there already, a scalar one replaces the cursor.    *)
Insertable(op, charge, ttl, tables) ==
  /\ Safe(now + ttl)
  /\ charge.mode = "vector" => tables.growthRows[op] = NoGrowthRow /\ ~tables.vectorRows[op].exists

ReserveAfter(op, charge, lim, ttl, expired, forgotten) ==
  LET tables == Recovered(expired, forgotten)
  IN  /\ CanRecover(expired)
      /\ \/ Refused(op, charge, lim, tables) /\ Write(tables)
         \/ /\ ~Refused(op, charge, lim, tables)
            /\ Insertable(op, charge, ttl, tables)
            /\ budgets' = budgets \cup charge.keys
            /\ used' = Plus(tables.used, charge.units)
            /\ reservations' = [tables.reservations EXCEPT ![op] = PendingReservation(charge, ttl)]
            /\ growthRows' = [tables.growthRows EXCEPT ![op] = [cursor |-> 1, last |-> {}]]
            /\ vectorRows' = [tables.vectorRows EXCEPT ![op] =
                                IF charge.mode = "vector" THEN Dimensions(charge) ELSE @]
            /\ spent' = tables.spent
            /\ UNCHANGED now

Reserve(op, charge, lim, ttl) ==
  \E expired \in ExpiredBatches, forgotten \in TombstoneBatches :
    ReserveAfter(op, charge, lim, ttl, expired, forgotten)
-----------------------------------------------------------------------------
(* Calls that name a reservation recover just that row first, and fail if  *)
(* they did.  A tombstone stays until an admission cleans it up.           *)

RecoverSpecific(op) ==
  /\ IsExpired(op)
  /\ CanRecover({op})
  /\ Write(Recovered({op}, {}))

Active(op) == Open(op) /\ ~IsExpired(op)

MarkLiable(op) ==
  \/ RecoverSpecific(op)
  \/ Active(op) /\ Write([Current EXCEPT !.reservations[op].state = "liable"])

Renew(op, ttl) ==
  \/ RecoverSpecific(op)
  \/ /\ Active(op) /\ Safe(now + ttl)
     /\ Write([Current EXCEPT !.reservations[op].expiresAt = now + ttl])

(* settle and settleVector, for a reservation of their kind.  A tombstone  *)
(* is replayed or in conflict, which changes nothing.                      *)
Settle(op, actual, outcome) ==
  LET mode == IF IsVector(op) THEN "vector" ELSE "scalar"
      stored == IF IsVector(op) THEN NoUnits ELSE actual
  IN  \/ RecoverSpecific(op)
      \/ /\ Active(op)
         /\ OfMode(mode, BudgetIds(op), actual)
         /\ \A b \in Budgets : actual[b] <= Reserved(op)[b]
         /\ CanSettle
         /\ Write([Current EXCEPT !.used = Released(used, Minus(Reserved(op), actual)),
                                  !.reservations[op] = SettledRow(@, stored, outcome),
                                  !.vectorRows[op].actual = IF IsVector(op) THEN actual ELSE @,
                                  !.spent = Plus(spent, actual)])

(* grow and growVector.  The increment recorded last is replayed or in     *)
(* conflict, which changes nothing.  A denial is recorded and takes the    *)
(* cursor.                                                                 *)
LastGrowth(op) == IF IsVector(op) THEN vectorRows[op].last ELSE growthRows[op].last

Recorded(op, inc) == {g \in LastGrowth(op) : g.increment = inc}

Grow(op, inc, cursor, add, lim) ==
  LET vector == add.mode = "vector"
      accepted == WithinLimits(add, lim, used)
  IN  \/ RecoverSpecific(op)
      \/ /\ Active(op)
         /\ IsVector(op) = vector
         /\ growthRows[op].cursor # 0
         /\ Recorded(op, inc) = {}
         /\ growthRows[op].cursor = cursor
         /\ BudgetIds(op) = add.keys
         /\ accepted => \A b \in add.keys : Safe(Reserved(op)[b] + add.units[b])
         /\ cursor < MaxCursor
         /\ LET grown == IF accepted THEN Plus(Reserved(op), add.units) ELSE Reserved(op)
                last == {[increment |-> inc, fingerprint |-> <<add, lim>>, accepted |-> accepted,
                          previous |-> Reserved(op), reserved |-> grown]}
            IN  Write([Current EXCEPT
                  !.used = IF accepted THEN Added(used, add.units) ELSE used,
                  !.growthRows[op] = [cursor |-> cursor + 1, last |-> IF vector THEN @.last ELSE last],
                  !.reservations[op].reserved = IF vector THEN @ ELSE grown,
                  !.vectorRows[op] =
                    IF vector THEN [vectorRows[op] EXCEPT !.reserved = grown, !.last = last] ELSE @])
-----------------------------------------------------------------------------
(* pruneCloudflareBudgets: rows that no pending or liable reservation      *)
(* names, of candidates that are not protected.                            *)

Named == {b \in Budgets : \E op \in Operations : Open(op) /\ b \in BudgetIds(op)}

PruneBudgets(candidates) ==
  LET pruned == (candidates \cap budgets) \ Named
  IN  /\ budgets' = budgets \ pruned
      /\ used' = [b \in Budgets |-> IF b \in pruned THEN 0 ELSE used[b]]
      /\ spent' = [b \in Budgets |-> IF b \in pruned THEN 0 ELSE spent[b]]
      /\ UNCHANGED <<reservations, growthRows, vectorRows, now>>

Tick ==
  /\ now < MaxClock
  /\ now' = now + 1
  /\ UNCHANGED <<budgets, used, reservations, growthRows, vectorRows, spent>>

Call(op) ==
  \/ \E charge \in Charges, lim \in Limits, ttl \in Ttls : Reserve(op, charge, lim, ttl)
  \/ MarkLiable(op)
  \/ \E ttl \in Ttls : Renew(op, ttl)
  \/ \E actual \in Actuals, outcome \in Outcomes : Settle(op, actual, outcome)
  \/ \E inc \in Increments, cursor \in 1..MaxCursor, add \in Growths, lim \in Limits :
       Grow(op, inc, cursor, add, lim)

Next ==
  \/ \E op \in Operations : Call(op)
  \/ \E candidates \in (SUBSET Budgets) \ {{}} : PruneBudgets(candidates)
  \/ Tick

Spec == Init /\ [][Next]_vars
-----------------------------------------------------------------------------
(* Properties.                                                             *)

(* The tables tell one story of every operation: a cursor only for a       *)
(* reservation, dimensions only for a reservation that has a cursor and    *)
(* keeps no units of its own, and a budget row under every budget that an  *)
(* open reservation names, so that no UPDATE of growth, settlement or      *)
(* recovery is lost on a row that was pruned.                              *)
TablesAgree ==
  /\ CloudflareTypeOK
  /\ \A op \in Operations :
       /\ growthRows[op].cursor # 0 => Exists(op)
       /\ IsVector(op) => growthRows[op].cursor # 0 /\ reservations[op].budgetIds = {}
       /\ Open(op) => BudgetIds(op) \subseteq budgets

(* What a repeated settlement relies on: until its tombstone expires, the  *)
(* record of a settled operation, its units included, is not touched by    *)
(* any call, nor by the cleanup that calls of other operations do.         *)
ReplayProtected ==
  [][\A op \in Operations :
       reservations[op].state = "settled" /\ now < reservations[op].tombstoneExpiresAt
         => reservations'[op] = reservations[op] /\ vectorRows'[op] = vectorRows[op]]_vars

(* The tables implement the ledger that every store promises, from what an *)
(* adopted database holds of it: every budget row is what open             *)
(* reservations hold of it, expired or not, plus what was charged to it.   *)
Entries ==
  [op \in Operations |->
     [state |-> reservations[op].state, reserved |-> Reserved(op),
      actual |-> IF IsVector(op) THEN vectorRows[op].actual ELSE reservations[op].actual]]

Ledger == INSTANCE UsageLedger WITH entries <- Entries, consumed <- spent

ImplementsLedger == Ledger!LedgerContinued
=============================================================================
