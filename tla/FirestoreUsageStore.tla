------------------------- MODULE FirestoreUsageStore -------------------------
(***************************************************************************)
(* The Firestore store (packages/firestore/src/index.ts): one document for *)
(* every reservation and one for every budget, changed by transactions of  *)
(* many application hosts.  Transactions are serializable, so each is one  *)
(* action.  What is not atomic is the time: a call reads its host's clock  *)
(* once, before its transaction, and every retry of the transaction keeps  *)
(* that instant.  It may commit long after, when other hosts have moved on *)
(* or run ahead, and an expiry grace is all that separates their clocks.   *)
(*                                                                         *)
(* Calls in progress need no state of their own: a transaction may use any *)
(* instant that some clock has shown (Instants).  A commit whose answer is *)
(* lost, an attempt that is aborted and retried, and a call repeated by    *)
(* its client are transactions like any other.                             *)
(***************************************************************************)
EXTENDS UsageUnits

CONSTANTS
  Operations,       \* operation keys; a reservation id is "fs1." and its hash
  Budgets,          \* budget hashes
  Hosts,            \* application hosts, each with a clock
  Cleaners,         \* calls of recoverExpired in progress
  Charges,          \* charges requested at admission: [mode, keys, units]
  Growths,          \* charges requested by growth
  Actuals,          \* actual usage reported at settlement
  Limits,           \* limits clients quote: functions Budgets -> Nat
  Ttls,             \* lease lifetimes clients ask for
  Increments,       \* hashes of increment ids
  Outcomes,         \* hashes of outcomes clients settle with
  CleanupBatchSize, \* limit of the query of recoverExpired
  MaxInspected,     \* maxReservationsToInspect
  IdempotencyTtl,   \* idempotencyTtlMs
  ExpiryGrace,      \* expiryGraceMs
  MaxSkew,          \* by how much one host's clock may lead another's
  MaxSafeInteger,   \* Number.MAX_SAFE_INTEGER
  MaxClock,         \* bound on the hosts' clocks
  MaxCursor         \* bound on the cursors issued for one document

Modes == {"scalar", "vector"}

LeaseExpired == "lease_expired_after_execution_started"

(* A scalar request puts the same units on each of its budgets, a vector   *)
(* request any units, since a budget belongs to one dimension, and neither *)
(* puts units on a budget it does not name.                                *)
OfMode(mode, keys, units) == mode = "scalar" => \A b, d \in keys : units[b] = units[d]

(* The grace covers the skew: docs/firestore-clock-skew.md asks for it.    *)
(* No client reports the outcome that recovery records, so that the two    *)
(* can be told apart.                                                      *)
ASSUME FirestoreConstants ==
  /\ IsFiniteSet(Operations) /\ IsFiniteSet(Budgets)
  /\ \A c \in Charges \cup Growths :
       /\ c \in [mode : Modes, keys : SUBSET Budgets, units : [Budgets -> Nat]]
       /\ OfMode(c.mode, c.keys, c.units)
       /\ \A b \in Budgets \ c.keys : c.units[b] = 0
  /\ Actuals \cup Limits \subseteq [Budgets -> Nat]
  /\ Ttls \subseteq Nat \ {0}
  /\ CleanupBatchSize \in Nat \ {0} /\ MaxInspected \in Nat \ {0}
  /\ IdempotencyTtl \in Nat \ {0}
  /\ ExpiryGrace \in Nat /\ MaxSkew \in Nat /\ MaxSkew <= ExpiryGrace
  /\ MaxSafeInteger \in Nat /\ MaxClock \in Nat /\ MaxCursor \in Nat
  /\ LeaseExpired \notin Outcomes

VARIABLES
  used,          \* budget documents: used units (0: no document)
  reservations,  \* reservation documents
  clocks,        \* host -> Date.now()
  cleanups,      \* cleaner -> [now, found]: what its query returned and it
                 \* has not yet looked at
  spent          \* history: units finally charged to each budget since it
                 \* was last retired

vars == <<used, reservations, clocks, cleanups, spent>>

NoUnits == [b \in Budgets |-> 0]

(* expiresAt is the deadline of an active lease, and the end of replay     *)
(* protection once settled.  A cursor is a fresh UUID; requests carry any  *)
(* cursor, so it is enough to count those of one document.                 *)
Reservation ==
  [mode : Modes \cup {""}, state : {"absent", "pending", "liable", "settled"},
   budgetKeys : SUBSET Budgets, reserved : [Budgets -> Nat], expiresAt : Nat,
   growthCursor : Nat, lastGrowth : SUBSET Increments,
   actual : [Budgets -> Nat], outcome : Outcomes \cup {"", LeaseExpired}]

NoDocument ==
  [mode |-> "", state |-> "absent", budgetKeys |-> {}, reserved |-> NoUnits, expiresAt |-> 0,
   growthCursor |-> 0, lastGrowth |-> {}, actual |-> NoUnits, outcome |-> ""]

NotRunning == [now |-> 0, found |-> {}]

FirestoreTypeOK ==
  /\ used \in [Budgets -> Nat]
  /\ reservations \in [Operations -> Reservation]
  /\ clocks \in [Hosts -> Nat]
  /\ cleanups \in [Cleaners -> [now : Nat, found : SUBSET Operations]]
  /\ spent \in [Budgets -> Nat]

Init ==
  /\ used = NoUnits
  /\ reservations = [op \in Operations |-> NoDocument]
  /\ clocks = [h \in Hosts |-> 0]
  /\ cleanups = [c \in Cleaners |-> NotRunning]
  /\ spent = NoUnits
-----------------------------------------------------------------------------
(* The instants that calls in progress may have read.                      *)
Instants == {now \in 0..MaxClock : \E h \in Hosts : now <= clocks[h]}

Exists(op) == reservations[op].state # "absent"
Open(op) == reservations[op].state \in {"pending", "liable"}

IsExpired(op, now) == reservations[op].expiresAt <= now - ExpiryGrace

Safe(n) == n <= MaxSafeInteger

Plus(u, v) == [b \in Budgets |-> u[b] + v[b]]
Minus(u, v) == [b \in Budgets |-> ClampedSub(u[b], v[b])]

(* What a transaction leaves: the reservation document of one operation,   *)
(* and of the budgets it read those that it writes back.                   *)
Write(op, document, usedById, touched) ==
  /\ reservations' = [reservations EXCEPT ![op] = document]
  /\ used' = [b \in Budgets |-> IF b \in touched THEN usedById[b] ELSE used[b]]
  /\ UNCHANGED clocks

Settled(document, now, actual, outcome) ==
  [document EXCEPT !.state = "settled", !.expiresAt = now + IdempotencyTtl,
                   !.actual = actual, !.outcome = outcome]

(* Mutant: a tombstone returns its units as a pending reservation does.    *)
RecoverReleasingTombstones(op, now) ==
  LET document == reservations[op]
  IN  \/ /\ document.state \in {"pending", "settled"}
         /\ Write(op, NoDocument, [b \in Budgets |-> used[b] - document.reserved[b]], document.budgetKeys)
         /\ UNCHANGED spent
      \/ /\ document.state = "liable" /\ Safe(now + IdempotencyTtl)
         /\ Write(op, Settled(document, now, document.reserved, LeaseExpired), used, {})
         /\ spent' = Plus(spent, document.reserved)

(* What becomes of an expired document.                                    *)
RecoverExpiredReservation(op, now) ==
  LET document == reservations[op]
  IN  \/ /\ document.state = "pending"
         /\ Write(op, NoDocument, Minus(used, document.reserved), document.budgetKeys)
         /\ UNCHANGED spent
      \/ /\ document.state = "liable" /\ Safe(now + IdempotencyTtl)
         /\ Write(op, Settled(document, now, document.reserved, LeaseExpired), used, {})
         /\ spent' = Plus(spent, document.reserved)
      \/ /\ document.state = "settled"
         /\ Write(op, NoDocument, used, {})
         /\ UNCHANGED spent
-----------------------------------------------------------------------------
(* reserve and reserveVector.  The cleanup they may start first is a call  *)
(* of recoverExpired like any other, which they wait for and whose errors  *)
(* they ignore.                                                            *)

WithinLimits(charge, lim, u) ==
  \A b \in charge.keys : charge.units[b] <= ClampedSub(lim[b], u[b])

Pending(charge, expiresAt, cursor) ==
  [mode |-> charge.mode, state |-> "pending", budgetKeys |-> charge.keys, reserved |-> charge.units,
   expiresAt |-> expiresAt, growthCursor |-> cursor, lastGrowth |-> {},
   actual |-> NoUnits, outcome |-> ""]

(* Mutants: a lease that expired while liable makes way for its operation  *)
(* like one that was still pending; only the budgets of the new request    *)
(* are written.                                                            *)
ReserveOverLiable(op, charge, lim, ttl, now) ==
  LET existing == reservations[op]
      released == IF Open(op) THEN Minus(used, existing.reserved) ELSE used
      freed == IF Open(op) THEN existing.budgetKeys ELSE {}
  IN  /\ Exists(op) => IsExpired(op, now)
      /\ existing.growthCursor < MaxCursor /\ Safe(now + ttl)
      /\ WithinLimits(charge, lim, released)
      /\ Write(op, Pending(charge, now + ttl, existing.growthCursor + 1),
               Plus(released, charge.units), charge.keys \cup freed)
      /\ UNCHANGED <<cleanups, spent>>

ReserveKeepingFreed(op, charge, lim, ttl, now) ==
  LET existing == reservations[op]
      released == IF existing.state = "pending" THEN Minus(used, existing.reserved) ELSE used
  IN  /\ Exists(op) => IsExpired(op, now)
      /\ existing.state # "liable"
      /\ existing.growthCursor < MaxCursor /\ Safe(now + ttl)
      /\ WithinLimits(charge, lim, released)
      /\ Write(op, Pending(charge, now + ttl, existing.growthCursor + 1),
               Plus(released, charge.units), charge.keys)
      /\ UNCHANGED <<cleanups, spent>>

(* An operation on record and not expired is a duplicate.  An expired      *)
(* document is recovered in the same transaction: if liable the operation  *)
(* stays a duplicate, else its capacity counts for the new request, which  *)
(* is denied or takes the document over.                                   *)
Reserve(op, charge, lim, ttl, now) ==
  LET existing == reservations[op]
      released == IF existing.state = "pending" THEN Minus(used, existing.reserved) ELSE used
      freed == IF existing.state = "pending" THEN existing.budgetKeys ELSE {}
  IN  /\ Exists(op) => IsExpired(op, now)
      /\ \/ existing.state = "liable" /\ RecoverExpiredReservation(op, now)
         \/ /\ existing.state # "liable"
            /\ ~WithinLimits(charge, lim, released)
            /\ Write(op, NoDocument, released, freed)
            /\ UNCHANGED spent
         \/ /\ existing.state # "liable"
            /\ WithinLimits(charge, lim, released)
            /\ existing.growthCursor < MaxCursor
            /\ Safe(now + ttl)
            /\ \A b \in charge.keys : Safe(released[b] + charge.units[b])
            /\ Write(op, Pending(charge, now + ttl, existing.growthCursor + 1),
                     Plus(released, charge.units), charge.keys \cup freed)
            /\ UNCHANGED spent
      /\ UNCHANGED cleanups
-----------------------------------------------------------------------------
(* Calls that name a reservation.  markLiable and renew leave a settled    *)
(* document alone; growth and settlement delete an expired one.            *)

Active(op, now) == Open(op) /\ ~IsExpired(op, now)

DirectExpiry(op, now) ==
  /\ IsExpired(op, now)
  /\ RecoverExpiredReservation(op, now)
  /\ UNCHANGED cleanups

MarkLiable(op, now) ==
  \/ Open(op) /\ DirectExpiry(op, now)
  \/ /\ Active(op, now)
     /\ Write(op, [reservations[op] EXCEPT !.state = "liable"], used, {})
     /\ UNCHANGED <<cleanups, spent>>

Renew(op, ttl, now) ==
  \/ Open(op) /\ DirectExpiry(op, now)
  \/ /\ Active(op, now)
     /\ Safe(now + ttl)
     /\ Write(op, [reservations[op] EXCEPT !.expiresAt = now + ttl], used, {})
     /\ UNCHANGED <<cleanups, spent>>

(* settle and settleVector, for a document of their mode.                  *)
Settle(op, actual, outcome, now) ==
  LET document == reservations[op]
  IN  \/ DirectExpiry(op, now)
      \/ /\ Active(op, now)
         /\ OfMode(document.mode, document.budgetKeys, actual)
         /\ \A b \in Budgets : actual[b] <= document.reserved[b]
         /\ Safe(now + IdempotencyTtl)
         /\ Write(op, Settled(document, now, actual, outcome),
                  Minus(used, Minus(document.reserved, actual)), document.budgetKeys)
         /\ spent' = Plus(spent, actual)
         /\ UNCHANGED cleanups

(* growReservation and growVectorReservation.  The increment recorded last *)
(* is replayed or is in conflict, which changes nothing.                   *)
Grow(op, inc, cursor, add, lim, now) ==
  LET document == reservations[op]
      accepted == WithinLimits(add, lim, used)
  IN  \/ DirectExpiry(op, now)
      \/ /\ Active(op, now)
         /\ document.mode = add.mode
         /\ inc \notin document.lastGrowth
         /\ document.growthCursor = cursor
         /\ document.budgetKeys = add.keys
         /\ cursor < MaxCursor
         /\ accepted => \A b \in add.keys : Safe(used[b] + add.units[b])
         /\ Write(op,
                  [document EXCEPT !.reserved = IF accepted THEN Plus(@, add.units) ELSE @,
                                   !.growthCursor = @ + 1,
                                   !.lastGrowth = {inc}],
                  Plus(used, add.units), IF accepted THEN add.keys ELSE {})
         /\ UNCHANGED <<cleanups, spent>>
-----------------------------------------------------------------------------
(* recoverExpired: a query outside any transaction, then one transaction   *)
(* for each document found.                                                *)

(* where('expiresAtMs', '<=', cutoff).limit(limit): the earliest expired.  *)
Batches(now) ==
  LET due == {op \in Operations : Exists(op) /\ IsExpired(op, now)}
      size == IF Cardinality(due) < CleanupBatchSize THEN Cardinality(due) ELSE CleanupBatchSize
  IN  {batch \in SUBSET due :
         /\ Cardinality(batch) = size
         /\ \A op \in batch, other \in due \ batch :
              reservations[op].expiresAt <= reservations[other].expiresAt}

QueryExpired(c, now) ==
  /\ cleanups[c].found = {}
  /\ \E batch \in Batches(now) \ {{}} : cleanups' = [cleanups EXCEPT ![c] = [now |-> now, found |-> batch]]
  /\ UNCHANGED <<used, reservations, clocks, spent>>

Looked(c, op) ==
  IF cleanups[c].found = {op} THEN NotRunning ELSE [cleanups[c] EXCEPT !.found = @ \ {op}]

(* Mutant: what the query found is recovered as it is now.                 *)
RecoverFound(c, op) ==
  /\ op \in cleanups[c].found
  /\ cleanups' = [cleanups EXCEPT ![c] = Looked(c, op)]
  /\ \/ Exists(op) /\ RecoverExpiredReservation(op, cleanups[c].now)
     \/ ~Exists(op) /\ UNCHANGED <<used, reservations, clocks, spent>>

RecoverReservation(c, op) ==
  LET now == cleanups[c].now
      expired == Exists(op) /\ IsExpired(op, now)
  IN  /\ op \in cleanups[c].found
      /\ cleanups' = [cleanups EXCEPT ![c] = Looked(c, op)]
      /\ \/ expired /\ RecoverExpiredReservation(op, now)
         \/ ~expired /\ UNCHANGED <<used, reservations, clocks, spent>>

(* A failed transaction ends the call; the rest of the batch is dropped.   *)
CleanupFails(c) ==
  /\ cleanups[c].found # {}
  /\ cleanups' = [cleanups EXCEPT ![c] = NotRunning]
  /\ UNCHANGED <<used, reservations, clocks, spent>>
-----------------------------------------------------------------------------
(* retireHistoricalBudgets: a transaction over a query of all documents.   *)
RetireHistoricalBudgets(candidates) ==
  /\ Cardinality({op \in Operations : Exists(op)}) <= MaxInspected
  /\ \A op \in Operations : Open(op) => reservations[op].budgetKeys \cap candidates = {}
  /\ used' = [b \in Budgets |-> IF b \in candidates THEN 0 ELSE used[b]]
  /\ spent' = [b \in Budgets |-> IF b \in candidates THEN 0 ELSE spent[b]]
  /\ UNCHANGED <<reservations, clocks, cleanups>>

(* Clocks advance, each at its own pace within the skew that is allowed.   *)
Tick(h) ==
  /\ clocks[h] < MaxClock
  /\ \A other \in Hosts : clocks[h] + 1 <= clocks[other] + MaxSkew
  /\ clocks' = [clocks EXCEPT ![h] = @ + 1]
  /\ UNCHANGED <<used, reservations, cleanups, spent>>

Request(op, now) ==
  \/ \E charge \in Charges, lim \in Limits, ttl \in Ttls : Reserve(op, charge, lim, ttl, now)
  \/ MarkLiable(op, now)
  \/ \E ttl \in Ttls : Renew(op, ttl, now)
  \/ \E actual \in Actuals, outcome \in Outcomes : Settle(op, actual, outcome, now)
  \/ \E inc \in Increments, cursor \in 0..MaxCursor, add \in Growths, lim \in Limits :
       Grow(op, inc, cursor, add, lim, now)

Cleanup(c) ==
  \/ \E now \in Instants : QueryExpired(c, now)
  \/ \E op \in Operations : RecoverReservation(c, op)
  \/ CleanupFails(c)

Next ==
  \/ \E op \in Operations, now \in Instants : Request(op, now)
  \/ \E c \in Cleaners : Cleanup(c)
  \/ \E candidates \in (SUBSET Budgets) \ {{}} : RetireHistoricalBudgets(candidates)
  \/ \E h \in Hosts : Tick(h)

Spec == Init /\ [][Next]_vars
-----------------------------------------------------------------------------
(* Properties.                                                             *)

(* A document is ended by expiry when it is deleted, charged in full as    *)
(* expired, or taken over by a new admission, whose cursor is fresh.       *)
EndedByExpiry(document, next) ==
  /\ document.state # "absent"
  /\ \/ next.state = "absent"
     \/ document.state # "settled" /\ next.outcome = LeaseExpired
     \/ next.growthCursor # document.growthCursor /\ next.lastGrowth = {}

(* No host gives up a lease, or forgets a settled operation, that another  *)
(* host may still rely on: when a document is ended by expiry, its         *)
(* deadline has passed on every host's clock, however old the instant that *)
(* the transaction uses and however stale the query that found it.         *)
NoEarlyRecovery ==
  [][\A op \in Operations : EndedByExpiry(reservations[op], reservations'[op]) =>
       \A h \in Hosts : reservations[op].expiresAt <= clocks[h]]_vars

(* Every budget document is what open reservations hold, expired or not,   *)
(* plus what was finally charged: admissions that take over expired        *)
(* documents, recovery by several cleaners and direct expiry refund        *)
(* nothing twice and forget nothing.                                       *)
Held(b) ==
  Total([op \in Operations |-> IF Open(op) THEN reservations[op].reserved[b] ELSE 0])

UsageConserved == \A b \in Budgets : used[b] = Held(b) + spent[b]

(* The transactions implement the ledger that every store promises.        *)
Ledger == INSTANCE UsageLedger WITH entries <- reservations, consumed <- spent

ImplementsLedger == Ledger!LedgerSpec
=============================================================================
