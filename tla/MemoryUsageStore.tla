-------------------------- MODULE MemoryUsageStore --------------------------
(***************************************************************************)
(* The process-local reference store (packages/core/src/index.ts,          *)
(* MemoryUsageStore): reservations over several budget keys, progressive   *)
(* growth, liability, settlement, lazy expiry recovery behind a deadline   *)
(* gate, bounded retention and read-only reconciliation.                   *)
(*                                                                         *)
(* A JavaScript method without an await runs to completion, so each public *)
(* method is one action.  The environment is the most general caller: it   *)
(* invokes any method with any of the inputs below, and the wall clock     *)
(* (Date.now()) may be stepped forwards or backwards between two calls.    *)
(*                                                                         *)
(* A charge names budget keys and puts units on each of them.  A scalar    *)
(* reservation puts the same units on each of its keys; a vector           *)
(* reservation puts the units of a dimension on the keys of that           *)
(* dimension, which no other dimension may name                            *)
(* (assertUniqueVectorTopology), so any units per key are possible.        *)
(***************************************************************************)
EXTENDS UsageUnits, FiniteSetsExt

CONSTANTS
  Operations,            \* operation keys (tenant, principal, tool, operationId)
  Budgets,               \* budget keys
  Modes,                 \* the kinds of reservation callers make
  Charges,               \* charges requested by reserve and reserveVector
  Growths,               \* charges requested by growth
  Actuals,               \* actual usage reported at settlement
  Limits,                \* limits callers quote: functions Budgets -> Nat
  Ttls,                  \* lease lifetimes callers ask for
  Increments,            \* increment ids of growth requests
  Outcomes,              \* outcome labels callers settle with
  IdempotencyTtl,        \* idempotencyTtlMs
  MaxRetainedOperations, \* maxRetainedOperations
  MaxRetainedBudgetKeys, \* maxRetainedBudgetKeys
  MaxSafeInteger,        \* Number.MAX_SAFE_INTEGER
  MaxClock,              \* bound on the clock
  MaxCursor              \* bound on the cursors issued in all

Charge == [keys : SUBSET Budgets, units : [Budgets -> Nat]]

NamesItsUnits(c) == \A b \in Budgets \ c.keys : c.units[b] = 0

ASSUME ConstantsAssumption ==
  /\ IsFiniteSet(Operations) /\ IsFiniteSet(Budgets)
  /\ Modes \subseteq {"scalar", "vector"}
  /\ \A c \in Charges \cup Growths : c \in Charge /\ NamesItsUnits(c)
  /\ \A units \in Actuals \cup Limits : units \in [Budgets -> Nat]
  /\ \A ttl \in Ttls : ttl \in Nat \ {0}
  /\ IdempotencyTtl \in Nat \ {0}
  /\ MaxRetainedOperations \in Nat \ {0}
  /\ MaxRetainedBudgetKeys \in Nat \ {0}
  /\ MaxSafeInteger \in Nat
  /\ MaxClock \in Nat
  /\ MaxCursor \in Nat
  /\ "" \notin Outcomes

VARIABLES
  used,            \* used: units charged to each budget key (0: no entry)
  reservations,    \* reservations and operations, which share their keys
  nextRecoveryAt,  \* nextRecoveryAt: no deadline is earlier
  issued,          \* growth cursors issued so far for each operation key
  clock,           \* Date.now()
  spent            \* history: units finally charged to each budget key
                   \* since it was last retired

vars == <<used, reservations, nextRecoveryAt, issued, clock, spent>>

Infinity == -1                             \* Number.POSITIVE_INFINITY
LeaseExpired == "lease_expired_after_execution_started"

Growth ==
  [incrementId : Increments, expectedGrowthCursor : Nat,
   additional : Charge, limits : [Budgets -> Nat],
   accepted : BOOLEAN, growthCursor : Nat, reserved : [Budgets -> Nat]]

(* lastGrowth is an optional field: {} or one value.                       *)
Reservation ==
  [mode : Modes \cup {""},
   state : {"absent", "pending", "liable", "settled"},
   budgetKeys : SUBSET Budgets, reserved : [Budgets -> Nat],
   expiresAt : Nat, growthCursor : Nat, lastGrowth : SUBSET Growth,
   actual : [Budgets -> Nat],
   outcome : Outcomes \cup {"", LeaseExpired}, tombstoneExpiresAt : Nat]

NoUnits == [b \in Budgets |-> 0]

NoReservation ==
  [mode |-> "", state |-> "absent", budgetKeys |-> {}, reserved |-> NoUnits,
   expiresAt |-> 0, growthCursor |-> 0, lastGrowth |-> {}, actual |-> NoUnits,
   outcome |-> "", tombstoneExpiresAt |-> 0]

TypeOK ==
  /\ used \in [Budgets -> Nat]
  /\ reservations \in [Operations -> Reservation]
  /\ nextRecoveryAt \in Nat \cup {Infinity}
  /\ issued \in [Operations -> Nat]
  /\ clock \in Nat
  /\ spent \in [Budgets -> Nat]

Init ==
  /\ used = [b \in Budgets |-> 0]
  /\ reservations = [op \in Operations |-> NoReservation]
  /\ nextRecoveryAt = Infinity
  /\ issued = [op \in Operations |-> 0]
  /\ clock = 0
  /\ spent = [b \in Budgets |-> 0]
-----------------------------------------------------------------------------
(* Helpers.                                                                *)

Safe(n) == n <= MaxSafeInteger             \* safeAdd does not throw

Retained(r) == r.state # "absent"
Active(r) == r.state \in {"pending", "liable"}

Deadline(r) == IF r.state = "settled" THEN r.tombstoneExpiresAt ELSE r.expiresAt

Overdue(r) == Retained(r) /\ Deadline(r) <= clock

(* Mutant: a deadline is tracked only when none is.                        *)
TrackFirstDeadline(at, deadline) == IF at = Infinity THEN deadline ELSE at

(* trackRecoveryAt                                                         *)
TrackRecoveryAt(at, deadline) ==
  IF at = Infinity \/ deadline < at THEN deadline ELSE at

EarliestDeadline(rs) ==
  LET deadlines == {Deadline(rs[op]) : op \in {o \in Operations : Retained(rs[o])}}
  IN  IF deadlines = {} THEN Infinity ELSE Min(deadlines)

(* Units of a scalar request are the same on every key it names.           *)
OfMode(mode, keys, units) ==
  mode = "scalar" => \A b, d \in keys : units[b] = units[d]

(* Mutant: the request is compared with the limit, not with what remains.  *)
WithinWholeLimits(charge, lim, u) == \A b \in charge.keys : charge.units[b] <= lim[b]

(* remaining = Math.max(0, limit - used); no budget may be limiting.       *)
WithinLimits(charge, lim, u) ==
  \A b \in charge.keys : charge.units[b] <= ClampedSub(lim[b], u[b])

OperationRoom(rs) ==
  Cardinality({op \in Operations : Retained(rs[op])}) < MaxRetainedOperations
(* Mutant: keys that the charge would create are not counted.              *)
BudgetRoomNow(charge, u) ==
  Cardinality({b \in Budgets : u[b] > 0}) <= MaxRetainedBudgetKeys


BudgetRoom(charge, u) ==
  Cardinality({b \in Budgets : u[b] > 0 \/ charge.units[b] > 0})
    <= MaxRetainedBudgetKeys

(* Units added to, or released from (clamped at zero), every budget.       *)
Plus(u, v) == [b \in Budgets |-> u[b] + v[b]]
Minus(u, v) == [b \in Budgets |-> ClampedSub(u[b], v[b])]
-----------------------------------------------------------------------------
(* recoverExpired(now): every public method except reconciliation begins   *)
(* with it, whatever the method then answers.                              *)

GateOpen == nextRecoveryAt # Infinity /\ nextRecoveryAt <= clock

Expired(op, states) ==
  GateOpen /\ Overdue(reservations[op]) /\ reservations[op].state \in states

(* The preflight: no liable transition may overflow its tombstone.         *)
RecoverySafe ==
  (\E op \in Operations : Expired(op, {"liable"})) => Safe(clock + IdempotencyTtl)

Settlement(r, actual, outcome) ==
  [r EXCEPT !.state = "settled", !.actual = actual, !.outcome = outcome,
            !.tombstoneExpiresAt = clock + IdempotencyTtl]

(* Expiry of a liable lease consumes all that it reserved.                 *)
Retain(r) == Settlement(r, r.reserved, LeaseExpired)
(* Mutant: recovery releases a liable lease like a pending one.            *)
RecoveredForgettingLiable ==
  [op \in Operations |->
    IF Expired(op, {"pending", "liable", "settled"}) THEN NoReservation
    ELSE reservations[op]]


Recovered ==
  [op \in Operations |->
    IF Expired(op, {"pending", "settled"}) THEN NoReservation
    ELSE IF Expired(op, {"liable"}) THEN Retain(reservations[op])
    ELSE reservations[op]]

ExpiredUnits(states, b) ==
  Total([op \in Operations |->
    IF Expired(op, states) THEN reservations[op].reserved[b] ELSE 0])
(* Mutant: pruning a tombstone releases its units again, without the clamp. *)
RecoveredUsedTwice ==
  [b \in Budgets |-> used[b] - ExpiredUnits({"pending", "settled"}, b)]


RecoveredUsed ==
  [b \in Budgets |-> ClampedSub(used[b], ExpiredUnits({"pending"}, b))]

RecoveredNext ==
  IF GateOpen THEN EarliestDeadline(Recovered) ELSE nextRecoveryAt

RecoveredSpent ==
  [b \in Budgets |-> spent[b] + ExpiredUnits({"liable"}, b)]

(* A call that throws, denies or replays after its recovery.               *)
RecoverOnly ==
  /\ reservations' = Recovered
  /\ used' = RecoveredUsed
  /\ nextRecoveryAt' = RecoveredNext
  /\ spent' = RecoveredSpent
  /\ UNCHANGED <<issued, clock>>
-----------------------------------------------------------------------------
(* reserve and reserveVector.                                              *)

Admits(op, charge, lim) ==
  /\ Recovered[op].state = "absent"
  /\ WithinLimits(charge, lim, RecoveredUsed)
  /\ OperationRoom(Recovered)
  /\ BudgetRoom(charge, RecoveredUsed)

Pending(mode, charge, expiresAt, cursor) ==
  [NoReservation EXCEPT !.mode = mode, !.state = "pending", !.budgetKeys = charge.keys,
                        !.reserved = charge.units, !.expiresAt = expiresAt,
                        !.growthCursor = cursor]

Admit(op, mode, charge, lim, ttl) ==
  /\ OfMode(mode, charge.keys, charge.units)
  /\ Total(issued) < MaxCursor
  /\ Safe(clock + ttl)
  /\ RecoverySafe
  /\ \/ /\ Admits(op, charge, lim)
        /\ reservations' =
             [Recovered EXCEPT ![op] = Pending(mode, charge, clock + ttl, issued[op] + 1)]
        /\ used' = Plus(RecoveredUsed, charge.units)
        /\ issued' = [issued EXCEPT ![op] = @ + 1]
        /\ nextRecoveryAt' = TrackRecoveryAt(RecoveredNext, clock + ttl)
        /\ spent' = RecoveredSpent
        /\ UNCHANGED clock
     \/ /\ ~Admits(op, charge, lim)
        /\ RecoverOnly

Reserve(op, charge, lim, ttl) == Admit(op, "scalar", charge, lim, ttl)

ReserveVector(op, charge, lim, ttl) == Admit(op, "vector", charge, lim, ttl)
-----------------------------------------------------------------------------
(* Mutant: the reservation is read before recovery and written after it.   *)
MarkLiableStale(op) ==
  /\ RecoverySafe
  /\ Active(reservations[op])
  /\ reservations' = [Recovered EXCEPT ![op] = [reservations[op] EXCEPT !.state = "liable"]]
  /\ used' = RecoveredUsed
  /\ nextRecoveryAt' = RecoveredNext
  /\ spent' = RecoveredSpent
  /\ UNCHANGED <<issued, clock>>

(* markLiable and renew.                                                   *)

MarkLiable(op) ==
  /\ RecoverySafe
  /\ \/ /\ Active(Recovered[op])
        /\ reservations' = [Recovered EXCEPT ![op] = [@ EXCEPT !.state = "liable"]]
        /\ used' = RecoveredUsed
        /\ nextRecoveryAt' = RecoveredNext
        /\ spent' = RecoveredSpent
        /\ UNCHANGED <<issued, clock>>
     \/ /\ ~Active(Recovered[op])
        /\ RecoverOnly

Renew(op, ttl) ==
  /\ Safe(clock + ttl)
  /\ RecoverySafe
  /\ \/ /\ Active(Recovered[op])
        /\ reservations' = [Recovered EXCEPT ![op] = [@ EXCEPT !.expiresAt = clock + ttl]]
        /\ used' = RecoveredUsed
        /\ nextRecoveryAt' = TrackRecoveryAt(RecoveredNext, clock + ttl)
        /\ spent' = RecoveredSpent
        /\ UNCHANGED <<issued, clock>>
     \/ /\ ~Active(Recovered[op])
        /\ RecoverOnly
-----------------------------------------------------------------------------
(* growReservation and growVectorReservation.                              *)

(* The increment was the last one recorded: an exact repetition replays    *)
(* its result, any other parameters are rejected.  Neither changes state.  *)
SameIncrement(r, inc) == \E g \in r.lastGrowth : g.incrementId = inc

GrowthApplies(op, mode, inc, cursor, add) ==
  /\ Active(Recovered[op])
  /\ Recovered[op].mode = mode
  /\ ~SameIncrement(Recovered[op], inc)
  /\ Recovered[op].growthCursor = cursor
  /\ add.keys = Recovered[op].budgetKeys

GrowthResult(r, op, inc, add, lim, accepted) ==
  [incrementId |-> inc, expectedGrowthCursor |-> r.growthCursor, additional |-> add,
   limits |-> [b \in Budgets |-> IF b \in add.keys THEN lim[b] ELSE 0],
   accepted |-> accepted, growthCursor |-> issued[op] + 1,
   reserved |-> IF accepted THEN Plus(r.reserved, add.units) ELSE r.reserved]

(* Mutants: a denial rotates the cursor without being recorded, and an     *)
(* accepted increment leaves the cursor as it was.                         *)
DecidedUnrecorded(r, op, inc, add, lim, accepted) ==
  LET last == GrowthResult(r, op, inc, add, lim, accepted)
  IN  [r EXCEPT !.reserved = last.reserved, !.growthCursor = last.growthCursor,
                !.lastGrowth = IF accepted THEN {last} ELSE @]

DecidedWithoutRotation(r, op, inc, add, lim, accepted) ==
  LET last == GrowthResult(r, op, inc, add, lim, accepted)
  IN  [r EXCEPT !.reserved = last.reserved, !.lastGrowth = {last}]

(* A decided increment rotates the cursor, whether accepted or denied.     *)
Decided(r, op, inc, add, lim, accepted) ==
  LET last == GrowthResult(r, op, inc, add, lim, accepted)
  IN  [r EXCEPT !.reserved = last.reserved, !.growthCursor = last.growthCursor,
                !.lastGrowth = {last}]

Grow(op, mode, inc, cursor, add, lim) ==
  /\ OfMode(mode, add.keys, add.units)
  /\ add.units # NoUnits
  /\ Total(issued) < MaxCursor
  /\ RecoverySafe
  /\ \/ /\ GrowthApplies(op, mode, inc, cursor, add)
        /\ WithinLimits(add, lim, RecoveredUsed)
        /\ BudgetRoom(add, RecoveredUsed)
        /\ reservations' = [Recovered EXCEPT ![op] = Decided(@, op, inc, add, lim, TRUE)]
        /\ used' = Plus(RecoveredUsed, add.units)
        /\ issued' = [issued EXCEPT ![op] = @ + 1]
        /\ nextRecoveryAt' = RecoveredNext
        /\ spent' = RecoveredSpent
        /\ UNCHANGED clock
     \/ /\ GrowthApplies(op, mode, inc, cursor, add)
        /\ ~WithinLimits(add, lim, RecoveredUsed)
        /\ reservations' = [Recovered EXCEPT ![op] = Decided(@, op, inc, add, lim, FALSE)]
        /\ used' = RecoveredUsed
        /\ issued' = [issued EXCEPT ![op] = @ + 1]
        /\ nextRecoveryAt' = RecoveredNext
        /\ spent' = RecoveredSpent
        /\ UNCHANGED clock
     \/ /\ \/ ~GrowthApplies(op, mode, inc, cursor, add)
           \/ WithinLimits(add, lim, RecoveredUsed) /\ ~BudgetRoom(add, RecoveredUsed)
        /\ RecoverOnly

GrowReservation(op, inc, cursor, add, lim) == Grow(op, "scalar", inc, cursor, add, lim)

GrowVectorReservation(op, inc, cursor, add, lim) == Grow(op, "vector", inc, cursor, add, lim)
-----------------------------------------------------------------------------
(* Mutant: a settled reservation can be settled again.                     *)
SettlesAgain(op, mode, actual) ==
  /\ Retained(Recovered[op])
  /\ Recovered[op].mode = mode
  /\ \A b \in Budgets : actual[b] <= Recovered[op].reserved[b]

(* settle and settleVector.                                                *)

Settles(op, mode, actual) ==
  /\ Active(Recovered[op])
  /\ Recovered[op].mode = mode
  /\ \A b \in Budgets : actual[b] <= Recovered[op].reserved[b]

SettleAs(op, mode, actual, outcome) ==
  /\ OfMode(mode, Recovered[op].budgetKeys, actual)
  /\ Safe(clock + IdempotencyTtl)
  /\ \/ /\ Settles(op, mode, actual)
        /\ reservations' = [Recovered EXCEPT ![op] = Settlement(@, actual, outcome)]
        /\ used' = Minus(RecoveredUsed, Minus(Recovered[op].reserved, actual))
        /\ nextRecoveryAt' = TrackRecoveryAt(RecoveredNext, clock + IdempotencyTtl)
        /\ spent' = Plus(RecoveredSpent, actual)
        /\ UNCHANGED <<issued, clock>>
     \/ /\ ~Settles(op, mode, actual)
        /\ RecoverOnly

Settle(op, actual, outcome) == SettleAs(op, "scalar", actual, outcome)

SettleVector(op, actual, outcome) == SettleAs(op, "vector", actual, outcome)
-----------------------------------------------------------------------------
(* Mutant: only liable reservations keep a budget key from retirement.     *)
ReferencedByLiable(b, rs) ==
  \E op \in Operations : rs[op].state = "liable" /\ b \in rs[op].budgetKeys

(* retireBudgetKey, stats, and the wall clock.                             *)

Referenced(b, rs) == \E op \in Operations : Active(rs[op]) /\ b \in rs[op].budgetKeys

RetireBudgetKey(b) ==
  /\ RecoverySafe
  /\ \/ /\ ~Referenced(b, Recovered)
        /\ reservations' = Recovered
        /\ used' = [RecoveredUsed EXCEPT ![b] = 0]
        /\ nextRecoveryAt' = RecoveredNext
        /\ spent' = [RecoveredSpent EXCEPT ![b] = 0]
        /\ UNCHANGED <<issued, clock>>
     \/ /\ Referenced(b, Recovered)
        /\ RecoverOnly

Stats == RecoverySafe /\ RecoverOnly

ClockStep ==
  /\ clock' \in (0..MaxClock) \ {clock}
  /\ UNCHANGED <<used, reservations, nextRecoveryAt, issued, spent>>

Next ==
  \/ \E op \in Operations, charge \in Charges, lim \in Limits, ttl \in Ttls :
       \/ "scalar" \in Modes /\ Reserve(op, charge, lim, ttl)
       \/ "vector" \in Modes /\ ReserveVector(op, charge, lim, ttl)
  \/ \E op \in Operations, inc \in Increments, cursor \in 1..MaxCursor,
        add \in Growths, lim \in Limits :
       \/ "scalar" \in Modes /\ GrowReservation(op, inc, cursor, add, lim)
       \/ "vector" \in Modes /\ GrowVectorReservation(op, inc, cursor, add, lim)
  \/ \E op \in Operations, actual \in Actuals, outcome \in Outcomes :
       \/ "scalar" \in Modes /\ Settle(op, actual, outcome)
       \/ "vector" \in Modes /\ SettleVector(op, actual, outcome)
  \/ \E op \in Operations : MarkLiable(op)
  \/ \E op \in Operations, ttl \in Ttls : Renew(op, ttl)
  \/ \E b \in Budgets : RetireBudgetKey(b)
  \/ Stats
  \/ ClockStep

Spec == Init /\ [][Next]_vars
-----------------------------------------------------------------------------
(* Mutant: a lease counts as active at the very instant of its deadline.   *)
ReconcileAtDeadline(r) ==
  IF ~Retained(r) THEN "absent"
  ELSE IF Active(r) THEN
    IF Deadline(r) >= clock THEN "active"
    ELSE IF r.state = "pending" THEN "expired_pending" ELSE "expired_liable"
  ELSE IF Overdue(r) THEN "absent"
  ELSE IF r.outcome = LeaseExpired THEN "expired_liable"
  ELSE "settled"

(* reconcileOperation and reconcileVectorOperation read the retained state *)
(* without running recovery.                                               *)

ReconcileOperation(r) ==
  IF ~Retained(r) THEN "absent"
  ELSE IF Active(r) THEN
    IF ~Overdue(r) THEN "active"
    ELSE IF r.state = "pending" THEN "expired_pending" ELSE "expired_liable"
  ELSE IF Overdue(r) THEN "absent"
  ELSE IF r.outcome = LeaseExpired THEN "expired_liable"
  ELSE "settled"
-----------------------------------------------------------------------------
(* Properties.                                                             *)

(* The units that active reservations hold on budget b.                    *)
Held(b) ==
  Total([op \in Operations |->
    IF Active(reservations[op]) THEN reservations[op].reserved[b] ELSE 0])

(* Every budget counter equals what its active reservations hold plus what *)
(* was finally charged to it: no interleaving of admission, growth, expiry *)
(* recovery, settlement, tombstone pruning and retirement leaks a unit or  *)
(* counts one twice.                                                       *)
UsageConserved == \A b \in Budgets : used[b] = Held(b) + spent[b]

(* No budget is charged beyond the largest limit any caller quoted for it. *)
NoOversubscription ==
  \A b \in Budgets : used[b] = 0 \/ \E lim \in Limits : used[b] <= lim[b]

(* The clamp in releaseAcrossBudgets never absorbs an accounting error,    *)
(* and growth after a successful admission test cannot overflow half way   *)
(* through its budgets: each counter covers every active reservation.      *)
CountersCoverReservations ==
  \A op \in Operations : Active(reservations[op]) =>
    \A b \in Budgets : reservations[op].reserved[b] <= used[b]

(* The gate that lets a call skip recovery never hides a deadline, also    *)
(* when a renewal shortens a lease or the clock is stepped back.           *)
RecoveryGateSound ==
  \A op \in Operations : Retained(reservations[op]) =>
    nextRecoveryAt # Infinity /\ nextRecoveryAt <= Deadline(reservations[op])

(* Retention stays within both configured caps, including growth onto      *)
(* budget keys that a zero-unit reservation had not yet claimed.           *)
RetentionBounded ==
  /\ Cardinality({op \in Operations : Retained(reservations[op])}) <= MaxRetainedOperations
  /\ Cardinality({b \in Budgets : used[b] > 0}) <= MaxRetainedBudgetKeys

(* Reading the unrecovered state, reconciliation reports exactly what the  *)
(* next call's recovery would leave, so a caller may act on the verdict.   *)
ReconciliationAgreesWithRecovery ==
  RecoverySafe =>
    \A op \in Operations :
      LET r == reservations[op]
          verdict == ReconcileOperation(r)
          after == Recovered[op]
      IN  /\ verdict \in {"absent", "expired_pending"} <=> ~Retained(after)
          /\ verdict \in {"active", "settled"} => after = r
          /\ verdict = "expired_liable" =>
               after.state = "settled" /\ after.actual = r.reserved

(* The last recorded growth result is the reservation's current capacity   *)
(* and cursor, so an exact retry after a lost reply returns the truth.     *)
GrowthReplayIsCurrent ==
  \A op \in Operations : \A g \in reservations[op].lastGrowth :
    /\ reservations[op].reserved = g.reserved
    /\ reservations[op].growthCursor = g.growthCursor
    /\ g.expectedGrowthCursor < g.growthCursor

(* Work that was marked liable is never released: it stays liable until it *)
(* is settled, and once its lease has expired it is charged in full.       *)
LiableNeverRefunded ==
  [][\A op \in Operations : reservations[op].state = "liable" =>
       /\ reservations'[op].state \in {"liable", "settled"}
       /\ reservations'[op].state = "settled" /\ Overdue(reservations[op]) =>
            reservations'[op].actual = reservations[op].reserved]_vars

(* A terminal result is immutable for as long as its tombstone lasts: a    *)
(* retried reserve, growth, renewal or settlement cannot reopen it.        *)
SettlementFinal ==
  [][\A op \in Operations :
       reservations[op].state = "settled" /\ ~Overdue(reservations[op]) =>
         reservations'[op] = reservations[op]]_vars

(* While its lease lasts an admitted operation is neither admitted again   *)
(* nor shrunk by a later limit, and its capacity changes only by growth    *)
(* that consumes its cursor.                                               *)
ReservationNeverShrinks ==
  [][\A op \in Operations :
       LET r == reservations[op]
           s == reservations'[op]
       IN  Active(r) /\ ~Overdue(r) =>
             /\ s.state \in {r.state, "liable", "settled"}
             /\ s.mode = r.mode /\ s.budgetKeys = r.budgetKeys
             /\ \A b \in Budgets : s.reserved[b] >= r.reserved[b]
             /\ s.reserved # r.reserved => s.growthCursor > r.growthCursor]_vars

(* The store implements the ledger: whatever its gate, cursors, tombstones *)
(* and caps do, every call is one exact ledger step or none.               *)
Ledger ==
  INSTANCE UsageLedger WITH
    entries <- [op \in Operations |->
                 [state |-> reservations[op].state, reserved |-> reservations[op].reserved,
                  actual |-> reservations[op].actual]],
    consumed <- spent

ImplementsLedger == Ledger!LedgerSpec
=============================================================================
