----------------------- MODULE RedisUsageStore_proofs -----------------------
(***************************************************************************)
(* What the scripts of the distributed store keep, for every value of the  *)
(* constants.  The argument goes through the shape of a step: a script     *)
(* cleans up a batch of leases and tombstones that are due, and may then   *)
(* admit one operation (Admits); or it writes one record of a lease that   *)
(* lasts (Changes); or it retires budgets.  Expiring the one reservation   *)
(* that a script was called for is cleaning up a batch of one              *)
(* (DirectExpiryShape).  Consistent, Balanced and Names are the invariants *)
(* of the store as one value; Cleaned and Put preserve them, whatever the  *)
(* rest of the step does.                                                  *)
(***************************************************************************)
EXTENDS RedisUsageStore, UsageUnits_proofs

(* What the assumptions on the constants give.                             *)
LEMMA ConstantTypes ==
  /\ IsFiniteSet(Operations)
  /\ CleanupBatchSize \in Nat /\ IdempotencyTtl \in Nat /\ IdempotencyTtl > 0
  /\ MaxClock \in Nat
  /\ \A ttl \in Ttls : ttl \in Nat /\ ttl > 0
  /\ \A units \in Actuals \cup Limits : units \in [Budgets -> Nat]
BY RedisConstants

LEMMA ChargeTypes ==
  ASSUME NEW c \in Charges \cup Growths
  PROVE  /\ c.mode \in Modes /\ c.keys \in SUBSET Budgets /\ c.units \in [Budgets -> Nat]
         /\ \A b \in Budgets \ c.keys : c.units[b] = 0
<1>1. /\ c \in [mode : Modes, keys : SUBSET Budgets, units : [Budgets -> Nat]]
      /\ \A b \in Budgets \ c.keys : c.units[b] = 0
  BY RedisConstants
<1> QED
  BY <1>1
-----------------------------------------------------------------------------
(* Operators.                                                              *)

LEMMA PlusType ==
  ASSUME NEW u \in [Budgets -> Nat], NEW v \in [Budgets -> Nat]
  PROVE  Plus(u, v) \in [Budgets -> Nat]
BY DEF Plus

LEMMA MinusType ==
  ASSUME NEW u \in [Budgets -> Nat], NEW v \in [Budgets -> Nat]
  PROVE  Minus(u, v) \in [Budgets -> Nat]
BY DEF Minus, ClampedSub

(* HSET and ZADD, and HDEL and ZREM, of partial functions.                 *)
LEMMA WithIs ==
  ASSUME NEW S, NEW T, NEW f, PartialFunction(f, S, T), NEW op \in S, NEW v \in T
  PROVE  /\ PartialFunction(With(f, op, v), S, T)
         /\ DOMAIN With(f, op, v) = DOMAIN f \cup {op}
         /\ With(f, op, v)[op] = v
         /\ \A o \in DOMAIN f : o # op => With(f, op, v)[o] = f[o]
BY DEF PartialFunction, With

LEMMA WithoutIs ==
  ASSUME NEW S, NEW T, NEW f, PartialFunction(f, S, T), NEW ops
  PROVE  /\ PartialFunction(Without(f, ops), S, T)
         /\ DOMAIN Without(f, ops) = DOMAIN f \ ops
         /\ \A o \in DOMAIN f \ ops : Without(f, ops)[o] = f[o]
BY DEF PartialFunction, Without

(* HSET of a member that is there replaces its value.                      *)
LEMMA ExceptIsWith ==
  ASSUME NEW S, NEW T, NEW f, PartialFunction(f, S, T), NEW op \in DOMAIN f, NEW v
  PROVE  [f EXCEPT ![op] = v] = With(f, op, v)
<1>1. f = [o \in DOMAIN f |-> f[o]] /\ DOMAIN f \cup {op} = DOMAIN f
  BY DEF PartialFunction
<1> QED
  BY <1>1 DEF With

(* ZADD of a member at the score it has changes nothing.                   *)
LEMMA WithSame ==
  ASSUME NEW S, NEW T, NEW f, PartialFunction(f, S, T), NEW op \in DOMAIN f
  PROVE  With(f, op, f[op]) = f
<1>1. f = [o \in DOMAIN f |-> f[o]] /\ DOMAIN f \cup {op} = DOMAIN f
  BY DEF PartialFunction
<1> QED
  BY <1>1 DEF With
-----------------------------------------------------------------------------
(* The store as one value.                                                 *)

Open(r) == r.state \in {"pending", "liable"}

Before ==
  [used |-> used, leases |-> leases, reservations |-> reservations,
   operations |-> operations, tombstones |-> tombstones, spent |-> spent]

Consistent(st) ==
  /\ st.used \in [Budgets -> Nat] /\ st.spent \in [Budgets -> Nat]
  /\ PartialFunction(st.leases, Operations, Nat)
  /\ PartialFunction(st.reservations, Operations, Record)
  /\ PartialFunction(st.tombstones, Operations, Nat)
  /\ st.operations = DOMAIN st.reservations
  /\ DOMAIN st.leases = {op \in st.operations : Open(st.reservations[op])}
  /\ DOMAIN st.tombstones = st.operations \ DOMAIN st.leases
  /\ \A op \in DOMAIN st.leases : st.leases[op] = st.reservations[op].expiresAt

(* IndexesAgree says that the store is consistent.                         *)
LEMMA AgreeIsConsistent == IndexesAgree <=> Consistent(Before) /\ clock \in Nat
<1>1. IndexesAgree => Consistent(Before) /\ clock \in Nat
  BY DEF IndexesAgree, RedisTypeOK, Consistent, Before, Open
<1>2. Consistent(Before) /\ clock \in Nat => IndexesAgree
  BY DEF IndexesAgree, RedisTypeOK, Consistent, Before, Open, PartialFunction
<1> QED
  BY <1>1, <1>2

LEMMA BecomeAgrees ==
  ASSUME NEW st, Consistent(st), Become(st), clock' \in Nat
  PROVE  IndexesAgree'
BY DEF IndexesAgree, RedisTypeOK, Consistent, Become, Open, PartialFunction

LEMMA RecordFields ==
  ASSUME NEW r \in Record
  PROVE  /\ r.mode \in Modes /\ r.state \in {"pending", "liable", "settled"}
         /\ r.budgetKeys \in SUBSET Budgets /\ r.reserved \in [Budgets -> Nat]
         /\ r.expiresAt \in Nat /\ r.growthCursor \in Nat
         /\ r.actual \in [Budgets -> Nat]
         /\ \A b \in Budgets : r.reserved[b] \in Nat /\ r.actual[b] \in Nat
BY DEF Record

LEMMA SettledFields ==
  ASSUME NEW r \in Record, NEW actual \in [Budgets -> Nat],
         NEW outcome \in Outcomes \cup {LeaseExpired}
  PROVE  LET s == Settled(r, actual, outcome)
         IN  /\ s \in Record
             /\ s.state = "settled" /\ s.actual = actual /\ s.outcome = outcome
             /\ s.reserved = r.reserved /\ s.budgetKeys = r.budgetKeys
BY DEF Settled, Record
-----------------------------------------------------------------------------
(* What cleanup leaves.                                                    *)

Released(expired) == {op \in expired : reservations[op].state = "pending"}
Retained(expired) == {op \in expired : reservations[op].state = "liable"}

(* st is what cleaning up these leases and these tombstones leaves.        *)
IsCleaned(st, er, eo) ==
  /\ st.used = Minus(used, Units(Released(er)))
  /\ st.spent = Plus(spent, Units(Retained(er)))
  /\ st.operations = operations \ (Released(er) \cup eo)
  /\ st.leases = Without(leases, er)
  /\ DOMAIN st.reservations = st.operations
  /\ \A op \in st.operations : st.reservations[op] =
       IF op \in Retained(er) THEN RetainLiable(reservations[op]) ELSE reservations[op]
  /\ DOMAIN st.tombstones = (DOMAIN tombstones \cup Retained(er)) \ eo
  /\ \A op \in DOMAIN st.tombstones : st.tombstones[op] =
       IF op \in Retained(er) THEN clock + IdempotencyTtl ELSE tombstones[op]
  /\ st.reservations = [op \in st.operations |-> st.reservations[op]]
  /\ st.tombstones = [op \in DOMAIN st.tombstones |-> st.tombstones[op]]

(* The conditions that Cleaned tests again, on records of leases and of    *)
(* tombstones, always hold: what it leaves is IsCleaned.                   *)
LEMMA CleanedIs ==
  ASSUME IndexesAgree, NEW er \in SUBSET DOMAIN leases, NEW eo \in SUBSET DOMAIN tombstones
  PROVE  IsCleaned(Cleaned(er, eo), er, eo)
<1> DEFINE released == {op \in er : InState(op, {"pending"})}
           retained == {op \in er : InState(op, {"liable"})}
           records == [op \in DOMAIN reservations \ released |->
                   IF op \in retained THEN RetainLiable(reservations[op]) ELSE reservations[op]]
           forgotten == {op \in eo \cap (operations \ released) :
                      op \in DOMAIN records /\ records[op].state = "settled"}
           added == [op \in DOMAIN tombstones \cup retained |->
                 IF op \in retained THEN clock + IdempotencyTtl ELSE tombstones[op]]
<1>1. er \subseteq operations /\ eo \subseteq operations \ DOMAIN leases /\ operations = DOMAIN reservations
  BY DEF IndexesAgree
<1>2. released = Released(er) /\ retained = Retained(er)
  BY <1>1 DEF InState, Released, Retained
<1>3. \A op \in eo : op \notin er /\ reservations[op].state = "settled"
  BY <1>1 DEF IndexesAgree, RedisTypeOK, PartialFunction, Record
<1>4. forgotten = eo
  <2>1. ASSUME NEW op \in eo PROVE op \in forgotten
    <3>1. op \in operations \ released /\ op \notin retained /\ reservations[op].state = "settled"
      BY <1>1, <1>3
    <3>2. op \in DOMAIN records /\ records[op] = reservations[op]
      BY <1>1, <3>1
    <3> HIDE DEF records, released
    <3> QED BY <3>1, <3>2
  <2> QED BY <2>1
<1>5. Cleaned(er, eo) =
        [used |-> Minus(used, Units(released)),
         leases |-> Without(leases, er),
         reservations |-> Without(records, forgotten),
         operations |-> operations \ (released \cup eo),
         tombstones |-> Without(added, eo),
         spent |-> Plus(spent, Units(retained))]
  BY DEF Cleaned
<1>6. /\ DOMAIN Without(records, eo) = operations \ (released \cup eo)
      /\ \A op \in operations \ (released \cup eo) : Without(records, eo)[op] =
           IF op \in retained THEN RetainLiable(reservations[op]) ELSE reservations[op]
      /\ Without(records, eo) = [op \in DOMAIN Without(records, eo) |-> Without(records, eo)[op]]
  BY <1>1 DEF Without
<1>7. /\ DOMAIN Without(added, eo) = (DOMAIN tombstones \cup retained) \ eo
      /\ \A op \in (DOMAIN tombstones \cup retained) \ eo : Without(added, eo)[op] =
           IF op \in retained THEN clock + IdempotencyTtl ELSE tombstones[op]
      /\ Without(added, eo) = [op \in DOMAIN Without(added, eo) |-> Without(added, eo)[op]]
  BY DEF Without
<1> HIDE DEF released, retained, records, forgotten, added
<1> QED
  BY <1>2, <1>4, <1>5, <1>6, <1>7 DEF IsCleaned

LEMMA UnitsType ==
  ASSUME IndexesAgree, NEW ops \in SUBSET operations
  PROVE  Units(ops) \in [Budgets -> Nat]
<1>1. ASSUME NEW b \in Budgets
      PROVE  Total([op \in Operations |-> IF op \in ops THEN reservations[op].reserved[b] ELSE 0]) \in Nat
  <2>1. \A op \in ops : reservations[op].reserved[b] \in Nat
    BY RecordFields DEF IndexesAgree, RedisTypeOK, PartialFunction
  <2>2. [op \in Operations |-> IF op \in ops THEN reservations[op].reserved[b] ELSE 0] \in [Operations -> Nat]
    BY <2>1
  <2> QED BY <2>2, ConstantTypes, TotalType
<1> QED
  BY <1>1 DEF Units

(* Cleanup leaves a consistent store: a retained lease is moved from the   *)
(* lease index to the tombstones, a released one from all indexes.         *)
LEMMA CleanedConsistent ==
  ASSUME IndexesAgree, NEW er \in SUBSET DOMAIN leases, NEW eo \in SUBSET DOMAIN tombstones
  PROVE  Consistent(Cleaned(er, eo))
<1> DEFINE st == Cleaned(er, eo)
<1>0. IsCleaned(st, er, eo)
  BY CleanedIs
<1> HIDE DEF st
<1>1. /\ operations = DOMAIN reservations
      /\ DOMAIN leases = {op \in operations : Open(reservations[op])}
      /\ DOMAIN tombstones = operations \ DOMAIN leases
      /\ \A op \in DOMAIN leases : leases[op] = reservations[op].expiresAt
      /\ \A op \in operations : op \in Operations /\ reservations[op] \in Record
      /\ \A op \in DOMAIN tombstones : tombstones[op] \in Nat
      /\ PartialFunction(leases, Operations, Nat)
      /\ used \in [Budgets -> Nat] /\ spent \in [Budgets -> Nat] /\ clock \in Nat
  BY DEF IndexesAgree, RedisTypeOK, PartialFunction, Open
<1>2. Released(er) \in SUBSET operations /\ Retained(er) \in SUBSET operations
  BY <1>1 DEF Released, Retained
<1>3. st.used \in [Budgets -> Nat] /\ st.spent \in [Budgets -> Nat]
  BY <1>0, <1>1, <1>2, UnitsType, PlusType, MinusType DEF IsCleaned
<1>4. ASSUME NEW op \in st.operations
      PROVE  /\ st.reservations[op] \in Record
             /\ op \in er <=> op \in Retained(er)
             /\ Open(st.reservations[op]) <=> op \in DOMAIN leases \ er
             /\ op \notin er => st.reservations[op] = reservations[op]
  <2>1. op \in operations /\ op \notin Released(er) /\ op \notin eo
    BY <1>0 DEF IsCleaned
  <2>2. reservations[op] \in Record
    BY <1>1, <2>1
  <2>3. op \in er <=> op \in Retained(er)
    BY <1>1, <2>1 DEF Released, Retained, Open
  <2>4. CASE op \in Retained(er)
    <3>1. st.reservations[op] = RetainLiable(reservations[op])
      BY <1>0, <2>4 DEF IsCleaned
    <3>2. st.reservations[op] \in Record /\ st.reservations[op].state = "settled"
      BY <2>2, <3>1, SettledFields, RecordFields DEF RetainLiable
    <3> QED BY <2>3, <2>4, <3>2 DEF Open
  <2>5. CASE op \notin Retained(er)
    <3>1. st.reservations[op] = reservations[op]
      BY <1>0, <2>5 DEF IsCleaned
    <3> QED BY <1>1, <2>1, <2>2, <2>3, <2>5, <3>1
  <2> QED BY <2>4, <2>5
<1>5. /\ DOMAIN st.reservations = st.operations /\ st.operations \subseteq operations
      /\ st.operations = operations \ (Released(er) \cup eo)
      /\ st.leases = Without(leases, er)
      /\ DOMAIN st.tombstones = (DOMAIN tombstones \cup Retained(er)) \ eo
  BY <1>0 DEF IsCleaned
<1>6. PartialFunction(st.reservations, Operations, Record)
  <2>1. st.reservations = [op \in st.operations |-> st.reservations[op]]
    BY <1>0 DEF IsCleaned
  <2> QED BY <1>1, <1>4, <1>5, <2>1 DEF PartialFunction
<1>7. PartialFunction(st.tombstones, Operations, Nat)
  <2>1. st.tombstones = [op \in DOMAIN st.tombstones |-> st.tombstones[op]]
    BY <1>0 DEF IsCleaned
  <2>2. ASSUME NEW op \in DOMAIN st.tombstones
        PROVE  op \in Operations /\ st.tombstones[op] \in Nat
    <3>1. op \in DOMAIN tombstones \/ op \in Retained(er)
      BY <1>0 DEF IsCleaned
    <3>2. op \in Operations
      BY <1>1, <1>2, <3>1
    <3>3. st.tombstones[op] = IF op \in Retained(er) THEN clock + IdempotencyTtl ELSE tombstones[op]
      BY <1>0 DEF IsCleaned
    <3>4. clock + IdempotencyTtl \in Nat
      BY <1>1, ConstantTypes
    <3> QED BY <1>1, <3>1, <3>2, <3>3, <3>4
  <2> QED BY <2>1, <2>2 DEF PartialFunction
<1>8. /\ PartialFunction(st.leases, Operations, Nat)
      /\ DOMAIN st.leases = DOMAIN leases \ er
      /\ \A op \in DOMAIN leases \ er : st.leases[op] = leases[op]
  <2>1. st.leases = Without(leases, er)
    BY <1>5
  <2>2. PartialFunction(leases, Operations, Nat)
    BY <1>1
  <2>3. /\ PartialFunction(Without(leases, er), Operations, Nat)
        /\ DOMAIN Without(leases, er) = DOMAIN leases \ er
        /\ \A op \in DOMAIN leases \ er : Without(leases, er)[op] = leases[op]
    BY <2>2, WithoutIs
  <2> QED BY <2>1, <2>3
<1>9. DOMAIN st.leases = {op \in st.operations : Open(st.reservations[op])}
  <2>1. ASSUME NEW op \in DOMAIN leases \ er PROVE op \in st.operations
    <3>1. op \in operations /\ op \notin Released(er) /\ op \notin DOMAIN tombstones
      BY <1>1 DEF Released
    <3> QED BY <1>5, <3>1
  <2> QED BY <1>4, <1>8, <2>1
<1>10. DOMAIN st.tombstones = st.operations \ DOMAIN st.leases
  <2>1. ASSUME NEW op \in st.operations, op \notin DOMAIN st.leases
        PROVE  op \in DOMAIN st.tombstones
    <3>1. op \in operations /\ op \notin eo
      BY <1>5, <2>1
    <3>2. op \in DOMAIN tombstones \/ op \in Retained(er)
      BY <1>1, <1>4, <1>8, <2>1, <3>1
    <3> QED BY <1>5, <3>1, <3>2
  <2>2. ASSUME NEW op \in DOMAIN st.tombstones
        PROVE  op \in st.operations /\ op \notin DOMAIN st.leases
    <3>1. (op \in DOMAIN tombstones \/ op \in Retained(er)) /\ op \notin eo
      BY <1>5, <2>2
    <3>2. op \in operations /\ op \notin Released(er)
      BY <1>1, <3>1 DEF Released, Retained
    <3>3. op \notin DOMAIN leases \ er
      BY <1>1, <3>1 DEF Retained
    <3> QED BY <1>5, <1>8, <3>1, <3>2, <3>3
  <2> QED BY <2>1, <2>2
<1>11. ASSUME NEW op \in DOMAIN st.leases
       PROVE  st.leases[op] = st.reservations[op].expiresAt
  BY <1>1, <1>4, <1>8, <1>9
<1>12. Consistent(st)
  BY <1>3, <1>5, <1>6, <1>7, <1>8, <1>9, <1>10, <1>11 DEF Consistent
<1> QED
  BY <1>12 DEF st

-----------------------------------------------------------------------------
(* What the scripts write.                                                 *)

(* One record written to a store, with the indexes that go with it.        *)
Put(st, op, r, u, s) ==
  [used |-> u,
   leases |-> IF Open(r) THEN With(st.leases, op, r.expiresAt) ELSE Without(st.leases, {op}),
   reservations |-> With(st.reservations, op, r),
   operations |-> st.operations \cup {op},
   tombstones |-> IF Open(r) THEN st.tombstones
                  ELSE With(st.tombstones, op, clock + IdempotencyTtl),
   spent |-> s]

(* A new operation is written, or one whose lease is indexed.              *)
LEMMA PutConsistent ==
  ASSUME NEW st, Consistent(st), NEW op \in Operations, NEW r \in Record,
         NEW u \in [Budgets -> Nat], NEW s \in [Budgets -> Nat], clock \in Nat,
         op \in st.operations => op \in DOMAIN st.leases
  PROVE  Consistent(Put(st, op, r, u, s))
<1> DEFINE L == With(st.leases, op, r.expiresAt)
           M == Without(st.leases, {op})
           R == With(st.reservations, op, r)
           T == With(st.tombstones, op, clock + IdempotencyTtl)
           p == Put(st, op, r, u, s)
<1>1. /\ p.used = u /\ p.spent = s /\ p.reservations = R
      /\ p.operations = st.operations \cup {op}
      /\ p.leases = IF Open(r) THEN L ELSE M
      /\ p.tombstones = IF Open(r) THEN st.tombstones ELSE T
  BY DEF Put
<1>2. /\ PartialFunction(st.leases, Operations, Nat)
      /\ PartialFunction(st.reservations, Operations, Record)
      /\ PartialFunction(st.tombstones, Operations, Nat)
      /\ st.operations = DOMAIN st.reservations
      /\ DOMAIN st.leases = {o \in st.operations : Open(st.reservations[o])}
      /\ DOMAIN st.tombstones = st.operations \ DOMAIN st.leases
      /\ \A o \in DOMAIN st.leases : st.leases[o] = st.reservations[o].expiresAt
  BY DEF Consistent
<1>3. r.expiresAt \in Nat /\ clock + IdempotencyTtl \in Nat
  BY RecordFields, ConstantTypes
<1>p. PartialFunction(st.leases, Operations, Nat)
  BY <1>2
<1>q. PartialFunction(st.reservations, Operations, Record)
  BY <1>2
<1>t. PartialFunction(st.tombstones, Operations, Nat)
  BY <1>2
<1>4. /\ PartialFunction(L, Operations, Nat)
      /\ DOMAIN L = DOMAIN st.leases \cup {op} /\ L[op] = r.expiresAt
      /\ \A o \in DOMAIN st.leases : o # op => L[o] = st.leases[o]
  <2>1. /\ PartialFunction(With(st.leases, op, r.expiresAt), Operations, Nat)
        /\ DOMAIN With(st.leases, op, r.expiresAt) = DOMAIN st.leases \cup {op}
        /\ With(st.leases, op, r.expiresAt)[op] = r.expiresAt
        /\ \A o \in DOMAIN st.leases : o # op =>
             With(st.leases, op, r.expiresAt)[o] = st.leases[o]
    BY <1>p, <1>3 DEF PartialFunction, With
  <2> QED BY <2>1
<1>5. /\ PartialFunction(M, Operations, Nat) /\ DOMAIN M = DOMAIN st.leases \ {op}
      /\ \A o \in DOMAIN st.leases \ {op} : M[o] = st.leases[o]
  <2>1. /\ PartialFunction(Without(st.leases, {op}), Operations, Nat)
        /\ DOMAIN Without(st.leases, {op}) = DOMAIN st.leases \ {op}
        /\ \A o \in DOMAIN st.leases \ {op} : Without(st.leases, {op})[o] = st.leases[o]
    BY <1>p DEF PartialFunction, Without
  <2> QED BY <2>1
<1>6. /\ PartialFunction(R, Operations, Record)
      /\ DOMAIN R = DOMAIN st.reservations \cup {op} /\ R[op] = r
      /\ \A o \in DOMAIN st.reservations : o # op => R[o] = st.reservations[o]
  <2>1. /\ PartialFunction(With(st.reservations, op, r), Operations, Record)
        /\ DOMAIN With(st.reservations, op, r) = DOMAIN st.reservations \cup {op}
        /\ With(st.reservations, op, r)[op] = r
        /\ \A o \in DOMAIN st.reservations : o # op =>
             With(st.reservations, op, r)[o] = st.reservations[o]
    BY <1>q DEF PartialFunction, With
  <2> QED BY <2>1
<1>7. /\ PartialFunction(T, Operations, Nat)
      /\ DOMAIN T = DOMAIN st.tombstones \cup {op}
  <2>1. /\ PartialFunction(With(st.tombstones, op, clock + IdempotencyTtl), Operations, Nat)
        /\ DOMAIN With(st.tombstones, op, clock + IdempotencyTtl) = DOMAIN st.tombstones \cup {op}
    BY <1>t, <1>3 DEF PartialFunction, With
  <2> QED BY <2>1
<1> HIDE DEF L, M, R, T, p
<1>8. /\ PartialFunction(p.leases, Operations, Nat)
      /\ PartialFunction(p.tombstones, Operations, Nat)
      /\ PartialFunction(p.reservations, Operations, Record)
  BY <1>1, <1>2, <1>4, <1>5, <1>6, <1>7
<1>9. p.operations = DOMAIN p.reservations
  BY <1>1, <1>2, <1>6
<1>10. DOMAIN p.leases = {o \in p.operations : Open(p.reservations[o])}
  BY <1>1, <1>2, <1>4, <1>5, <1>6
<1>11. DOMAIN p.tombstones = p.operations \ DOMAIN p.leases
  BY <1>1, <1>2, <1>4, <1>5, <1>7
<1>12. ASSUME NEW o \in DOMAIN p.leases
       PROVE  p.leases[o] = p.reservations[o].expiresAt
  BY <1>1, <1>2, <1>4, <1>5, <1>6
<1>13. Consistent(p)
  BY <1>1, <1>8, <1>9, <1>10, <1>11, <1>12 DEF Consistent
<1> QED
  BY <1>13 DEF p
-----------------------------------------------------------------------------
(* The shape of a step.                                                    *)

DueLeases == {op \in DOMAIN leases : leases[op] <= clock}
DueTombstones == {op \in DOMAIN tombstones : tombstones[op] <= clock}

Cleans ==
  \E er \in SUBSET DueLeases, eo \in SUBSET DueTombstones : Become(Cleaned(er, eo))

Admits(er, eo, op, charge, lim, ttl) ==
  LET st == Cleaned(er, eo)
  IN  /\ op \notin st.operations
      /\ WithinLimits(charge, lim, st.used)
      /\ Become(Put(st, op, Pending(charge, clock + ttl), Plus(st.used, charge.units), st.spent))

(* What a client's request makes of the record q of a lease that lasts.    *)
Relabels(q, r, u, s) ==
  /\ Open(r) /\ r.state \in {q.state, "liable"} /\ r.expiresAt > clock
  /\ r.reserved = q.reserved /\ r.budgetKeys = q.budgetKeys
  /\ u = used /\ s = spent

Grows(q, r, u, s) ==
  \E add \in Growths, lim \in Limits :
    /\ WithinLimits(add, lim, used) /\ add.keys = q.budgetKeys
    /\ r.state = q.state /\ r.expiresAt = q.expiresAt
    /\ r.reserved = Plus(q.reserved, add.units) /\ r.budgetKeys = q.budgetKeys
    /\ u = Plus(used, add.units) /\ s = spent

Settles(q, r, u, s) ==
  \E actual \in Actuals, outcome \in Outcomes :
    /\ \A b \in Budgets : actual[b] <= q.reserved[b]
    /\ r = Settled(q, actual, outcome)
    /\ u = Minus(used, Minus(q.reserved, actual)) /\ s = Plus(spent, actual)

Changes(op, r, u, s) ==
  /\ op \in DOMAIN leases /\ reservations[op].expiresAt > clock
  /\ \/ Relabels(reservations[op], r, u, s)
     \/ Grows(reservations[op], r, u, s)
     \/ Settles(reservations[op], r, u, s)
  /\ Become(Put(Before, op, r, u, s))

Step ==
  \/ Cleans
  \/ \E er \in SUBSET DueLeases, eo \in SUBSET DueTombstones, op \in Operations,
        charge \in Charges, lim \in Limits, ttl \in Ttls : Admits(er, eo, op, charge, lim, ttl)
  \/ \E op \in Operations, r \in Record, u \in [Budgets -> Nat], s \in [Budgets -> Nat] :
       Changes(op, r, u, s)
  \/ \E candidates \in SUBSET Budgets : RetireHistoricalBudgets(candidates)

LEMMA BatchesAreDue ==
  ASSUME NEW zset, NEW batch \in Batches(zset)
  PROVE  batch \subseteq {op \in DOMAIN zset : zset[op] <= clock}
BY DEF Batches

LEMMA PendingRecord ==
  ASSUME NEW c \in Charges, NEW at \in Nat
  PROVE  /\ Pending(c, at) \in Record
         /\ Pending(c, at).state = "pending" /\ Pending(c, at).expiresAt = at
         /\ Pending(c, at).reserved = c.units /\ Pending(c, at).budgetKeys = c.keys
<1>1. c.mode \in Modes /\ c.keys \in SUBSET Budgets /\ c.units \in [Budgets -> Nat]
  BY ChargeTypes
<1>2. NoUnits \in [Budgets -> Nat]
  BY DEF NoUnits
<1> QED
  BY <1>1, <1>2 DEF Pending, Record

(* What cleanup leaves, as a record of its six fields.                     *)
LEMMA CleanedIsRecord ==
  ASSUME NEW er, NEW eo
  PROVE  Cleaned(er, eo) =
           [used |-> Cleaned(er, eo).used, leases |-> Cleaned(er, eo).leases,
            reservations |-> Cleaned(er, eo).reservations,
            operations |-> Cleaned(er, eo).operations,
            tombstones |-> Cleaned(er, eo).tombstones, spent |-> Cleaned(er, eo).spent]
<1> DEFINE released == {op \in er : InState(op, {"pending"})}
           retained == {op \in er : InState(op, {"liable"})}
           records == [op \in DOMAIN reservations \ released |->
                   IF op \in retained THEN RetainLiable(reservations[op]) ELSE reservations[op]]
           forgotten == {op \in eo \cap (operations \ released) :
                      op \in DOMAIN records /\ records[op].state = "settled"}
           added == [op \in DOMAIN tombstones \cup retained |->
                 IF op \in retained THEN clock + IdempotencyTtl ELSE tombstones[op]]
           u == Minus(used, Units(released))
           l == Without(leases, er)
           r == Without(records, forgotten)
           o == operations \ (released \cup eo)
           t == Without(added, eo)
           s == Plus(spent, Units(retained))
<1>1. Cleaned(er, eo) = [used |-> u, leases |-> l, reservations |-> r, operations |-> o,
                         tombstones |-> t, spent |-> s]
  BY DEF Cleaned
<1> HIDE DEF u, l, r, o, t, s
<1> QED
  BY <1>1

(* An admission script cleans up, and may admit.                           *)
LEMMA ReserveShape ==
  ASSUME IndexesAgree, NEW op \in Operations, NEW charge \in Charges, NEW lim \in Limits,
         NEW ttl \in Ttls, Reserve(op, charge, lim, ttl)
  PROVE  Step
<1>1. PICK er \in Batches(leases), eo \in Batches(tombstones) :
        LET store == Cleaned(er, eo)
            record == Pending(charge, clock + ttl)
        IN  \/ Become(store)
            \/ /\ op \notin store.operations
               /\ WithinLimits(charge, lim, store.used)
               /\ Become([store EXCEPT !.used = Plus(@, charge.units),
                                       !.reservations = With(@, op, record),
                                       !.operations = @ \cup {op},
                                       !.leases = With(@, op, clock + ttl)])
  BY DEF Reserve
<1>2. er \in SUBSET DueLeases /\ eo \in SUBSET DueTombstones
  BY BatchesAreDue DEF DueLeases, DueTombstones
<1> DEFINE store == Cleaned(er, eo)
           record == Pending(charge, clock + ttl)
<1>3. CASE Become(store)
  BY <1>2, <1>3 DEF Step, Cleans
<1>4. CASE ~Become(store)
  <2>1. clock + ttl \in Nat
    BY ConstantTypes DEF IndexesAgree, RedisTypeOK
  <2>2. Open(record) /\ record.expiresAt = clock + ttl
    BY <2>1, PendingRecord DEF Open
  <2>3. /\ op \notin store.operations
        /\ WithinLimits(charge, lim, store.used)
        /\ Become([store EXCEPT !.used = Plus(@, charge.units),
                                !.reservations = With(@, op, record),
                                !.operations = @ \cup {op},
                                !.leases = With(@, op, clock + ttl)])
    BY <1>1, <1>4
  <2>4. store = [used |-> store.used, leases |-> store.leases,
                 reservations |-> store.reservations, operations |-> store.operations,
                 tombstones |-> store.tombstones, spent |-> store.spent]
    BY CleanedIsRecord, Zenon
  <2> HIDE DEF store, record
  <2> DEFINE u == Plus(store.used, charge.units)
             l == With(store.leases, op, clock + ttl)
             r == With(store.reservations, op, record)
             o == store.operations \cup {op}
             new == [store EXCEPT !.used = u, !.reservations = r, !.operations = o, !.leases = l]
             a == store.used
             b == store.leases
             c == store.reservations
             d == store.operations
             e == store.tombstones
             f == store.spent
  <2>5. store = [used |-> a, leases |-> b, reservations |-> c, operations |-> d,
                 tombstones |-> e, spent |-> f]
    BY <2>4
  <2> HIDE DEF u, l, r, o, a, b, c, d, e, f
  <2>6. /\ new.used = u /\ new.leases = l /\ new.reservations = r /\ new.operations = o
        /\ new.tombstones = e /\ new.spent = f
    BY <2>5
  <2>7. Become(new)
    BY <2>3 DEF u, l, r, o
  <2> HIDE DEF new
  <2> DEFINE put == Put(store, op, record, Plus(store.used, charge.units), store.spent)
  <2>8. /\ put.used = u /\ put.leases = l /\ put.reservations = r /\ put.operations = o
        /\ put.tombstones = e /\ put.spent = f
    BY <2>2 DEF Put, u, l, r, o, e, f
  <2> HIDE DEF put
  <2>9. Become(put)
    BY <2>6, <2>7, <2>8 DEF Become
  <2>10. Admits(er, eo, op, charge, lim, ttl)
    BY <2>3, <2>9 DEF Admits, put, store, record
  <2> QED BY <1>2, <2>10 DEF Step
<1> QED
  BY <1>3, <1>4

(* Expiring the one reservation a script was called for is cleaning it up. *)
LEMMA DirectExpiryShape ==
  ASSUME IndexesAgree, NEW op \in Operations, DirectExpiry(op)
  PROVE  Cleans
<1>1. op \in DOMAIN leases /\ leases[op] <= clock /\ op \in operations
  BY DEF DirectExpiry, InState, IndexesAgree
<1>2. {op} \in SUBSET DueLeases /\ {} \in SUBSET DueTombstones
  BY <1>1 DEF DueLeases
<1>3. IsCleaned(Cleaned({op}, {}), {op}, {})
  BY <1>1, CleanedIs
<1> DEFINE st == Cleaned({op}, {})
<1>4. /\ PartialFunction(reservations, Operations, Record)
      /\ PartialFunction(tombstones, Operations, Nat)
      /\ used \in [Budgets -> Nat] /\ spent \in [Budgets -> Nat]
      /\ operations = DOMAIN reservations /\ DOMAIN tombstones \subseteq operations
      /\ \A o \in operations : reservations[o] \in Record
  BY DEF IndexesAgree, RedisTypeOK, PartialFunction
<1>5. leases' = st.leases
  BY <1>3 DEF DirectExpiry, IsCleaned
<1>6. ASSUME NEW b \in Budgets
      PROVE  /\ Units({})[b] = 0
             /\ Units({op})[b] = reservations[op].reserved[b]
             /\ used[b] \in Nat /\ spent[b] \in Nat
  <2> DEFINE none == [o \in Operations |-> IF o \in {} THEN reservations[o].reserved[b] ELSE 0]
             one  == [o \in Operations |-> IF o \in {op} THEN reservations[o].reserved[b] ELSE 0]
  <2>1. reservations[op].reserved[b] \in Nat
    BY <1>1, <1>4, RecordFields
  <2>2. /\ none \in [Operations -> Nat] /\ one \in [Operations -> Nat]
        /\ none[op] = 0 /\ one[op] = reservations[op].reserved[b]
        /\ \A o \in Operations : none[o] = 0
        /\ \A o \in Operations \ {op} : one[o] = none[o]
    BY <2>1
  <2>3. Units({})[b] = Total(none) /\ Units({op})[b] = Total(one)
    BY DEF Units
  <2> HIDE DEF none, one
  <2>4. Total(none) = 0
    BY <2>2, TotalZero
  <2>5. Total(one) = Total(none) - none[op] + one[op]
    BY <2>2, ConstantTypes, TotalChange
  <2> QED BY <1>4, <2>1, <2>2, <2>3, <2>4, <2>5
<1> HIDE DEF st
<1>7. CASE reservations[op].state = "pending"
  <2>1. Released({op}) = {op} /\ Retained({op}) = {}
    BY <1>7 DEF Released, Retained
  <2>2. used' = st.used
    <3>1. used' = Minus(used, reservations[op].reserved)
      BY <1>7 DEF DirectExpiry
    <3>2. st.used = Minus(used, Units({op}))
      BY <1>3, <2>1 DEF IsCleaned, st
    <3> QED BY <1>6, <3>1, <3>2 DEF Minus
  <2>3. spent' = st.spent
    <3>1. spent' = spent /\ st.spent = Plus(spent, Units({}))
      BY <1>3, <1>7, <2>1 DEF IsCleaned, st, DirectExpiry
    <3> QED BY <1>4, <1>6, <3>1 DEF Plus
  <2>4. operations' = st.operations
    BY <1>3, <1>7, <2>1 DEF IsCleaned, st, DirectExpiry
  <2>5. reservations' = st.reservations
    <3>1. reservations' = Without(reservations, {op})
      BY <1>7 DEF DirectExpiry
    <3>2. st.reservations = [o \in operations \ {op} |-> reservations[o]]
      BY <1>3, <2>1 DEF IsCleaned, st
    <3> QED BY <1>4, <3>1, <3>2 DEF Without
  <2>6. tombstones' = st.tombstones
    <3>1. tombstones' = tombstones
      BY <1>7 DEF DirectExpiry
    <3>2. st.tombstones = [o \in DOMAIN tombstones |-> tombstones[o]]
      BY <1>3, <2>1 DEF IsCleaned, st
    <3> QED BY <1>4, <3>1, <3>2 DEF PartialFunction
  <2> QED BY <1>2, <1>5, <2>2, <2>3, <2>4, <2>5, <2>6 DEF Cleans, Become, st
<1>8. CASE reservations[op].state # "pending"
  <2>1. Released({op}) = {} /\ Retained({op}) = {op}
    BY <1>8 DEF Released, Retained, DirectExpiry, InState
  <2>2. used' = st.used
    <3>1. used' = used /\ st.used = Minus(used, Units({}))
      BY <1>3, <1>8, <2>1 DEF IsCleaned, st, DirectExpiry
    <3> QED BY <1>4, <1>6, <3>1 DEF Minus, ClampedSub
  <2>3. spent' = st.spent
    <3>1. spent' = Plus(spent, reservations[op].reserved)
      BY <1>8 DEF DirectExpiry
    <3>2. st.spent = Plus(spent, Units({op}))
      BY <1>3, <2>1 DEF IsCleaned, st
    <3> QED BY <1>6, <3>1, <3>2 DEF Plus
  <2>4. operations' = st.operations
    BY <1>3, <1>8, <2>1 DEF IsCleaned, st, DirectExpiry
  <2>5. reservations' = st.reservations
    <3>1. reservations' = [reservations EXCEPT ![op] = RetainLiable(reservations[op])]
      BY <1>8 DEF DirectExpiry
    <3>2. reservations' = With(reservations, op, RetainLiable(reservations[op]))
      BY <1>1, <1>4, <3>1, ExceptIsWith
    <3>3. st.reservations =
            [o \in operations |-> IF o \in {op} THEN RetainLiable(reservations[o]) ELSE reservations[o]]
      BY <1>3, <2>1 DEF IsCleaned, st
    <3>4. operations \cup {op} = operations
      BY <1>1
    <3> QED BY <1>4, <3>2, <3>3, <3>4 DEF With
  <2>6. tombstones' = st.tombstones
    <3>1. tombstones' = With(tombstones, op, clock + IdempotencyTtl)
      BY <1>8 DEF DirectExpiry
    <3>2. st.tombstones =
            [o \in DOMAIN tombstones \cup {op} |->
               IF o \in {op} THEN clock + IdempotencyTtl ELSE tombstones[o]]
      BY <1>3, <2>1 DEF IsCleaned, st
    <3> QED BY <3>1, <3>2 DEF With
  <2> QED BY <1>2, <1>5, <2>2, <2>3, <2>4, <2>5, <2>6 DEF Cleans, Become, st
<1> QED
  BY <1>7, <1>8

(* What is known of the record of a lease that lasts.                      *)
LEMMA LiveIs ==
  ASSUME IndexesAgree, NEW op \in Operations, Live(op)
  PROVE  /\ op \in DOMAIN leases /\ op \in DOMAIN reservations /\ op \in operations
         /\ reservations[op] \in Record /\ Open(reservations[op])
         /\ reservations[op].expiresAt > clock
         /\ leases[op] = reservations[op].expiresAt
         /\ PartialFunction(leases, Operations, Nat)
         /\ PartialFunction(reservations, Operations, Record)
         /\ used \in [Budgets -> Nat] /\ spent \in [Budgets -> Nat] /\ clock \in Nat
BY DEF Live, InState, Open, IndexesAgree, RedisTypeOK, PartialFunction

(* A script that writes the record of a lease that lasts.                  *)
LEMMA ChangeShape ==
  ASSUME IndexesAgree, NEW op \in Operations, Live(op), NEW r \in Record,
         used' \in [Budgets -> Nat], spent' \in [Budgets -> Nat],
         reservations' = With(reservations, op, r), operations' = operations,
         leases' = IF Open(r) THEN With(leases, op, r.expiresAt) ELSE Without(leases, {op}),
         tombstones' = IF Open(r) THEN tombstones ELSE With(tombstones, op, clock + IdempotencyTtl),
         \/ Relabels(reservations[op], r, used', spent')
         \/ Grows(reservations[op], r, used', spent')
         \/ Settles(reservations[op], r, used', spent')
  PROVE  Step
<1>1. op \in DOMAIN leases /\ reservations[op].expiresAt > clock /\ operations \cup {op} = operations
  BY LiveIs
<1>2. /\ Before.leases = leases /\ Before.reservations = reservations
      /\ Before.operations = operations /\ Before.tombstones = tombstones
  BY DEF Before
<1> DEFINE put == Put(Before, op, r, used', spent')
<1>3. /\ put.used = used' /\ put.spent = spent' /\ put.leases = leases'
      /\ put.reservations = reservations' /\ put.operations = operations'
      /\ put.tombstones = tombstones'
  BY <1>1, <1>2 DEF Put
<1> HIDE DEF put
<1>4. Become(put)
  BY <1>3 DEF Become
<1>5. Changes(op, r, used', spent')
  BY <1>1, <1>4 DEF Changes, put
<1> QED
  BY <1>5 DEF Step

(* Each of the other scripts expires its reservation or writes it.         *)
LEMMA MarkLiableShape ==
  ASSUME IndexesAgree, NEW op \in Operations, MarkLiable(op)
  PROVE  Step
<1>1. CASE DirectExpiry(op)
  BY <1>1, DirectExpiryShape DEF Step
<1>2. CASE ~DirectExpiry(op)
  <2> DEFINE r == [reservations[op] EXCEPT !.state = "liable"]
  <2>1. Live(op) /\ reservations' = [reservations EXCEPT ![op] = r]
        /\ UNCHANGED <<used, leases, operations, tombstones, clock, spent>>
    BY <1>2 DEF MarkLiable
  <2>2. /\ op \in DOMAIN leases /\ op \in DOMAIN reservations /\ reservations[op] \in Record
        /\ reservations[op].expiresAt > clock /\ leases[op] = reservations[op].expiresAt
        /\ used \in [Budgets -> Nat] /\ spent \in [Budgets -> Nat]
    BY <2>1, LiveIs
  <2>3. PartialFunction(leases, Operations, Nat)
    BY <2>1, LiveIs
  <2>4. PartialFunction(reservations, Operations, Record)
    BY <2>1, LiveIs
  <2>5. /\ r \in Record /\ r.state = "liable" /\ r.expiresAt = reservations[op].expiresAt
        /\ r.reserved = reservations[op].reserved /\ r.budgetKeys = reservations[op].budgetKeys
    BY <2>2 DEF Record
  <2> HIDE DEF r
  <2>6. Open(r)
    BY <2>5 DEF Open
  <2>7. reservations' = With(reservations, op, r)
    BY <2>1, <2>2, <2>4, ExceptIsWith
  <2>8. With(leases, op, leases[op]) = leases
    BY <2>2, <2>3, WithSame
  <2>9. Relabels(reservations[op], r, used', spent')
    BY <2>1, <2>2, <2>5, <2>6 DEF Relabels
  <2>10. used' \in [Budgets -> Nat] /\ spent' \in [Budgets -> Nat] /\ operations' = operations
    BY <2>1, <2>2
  <2>11. /\ leases' = IF Open(r) THEN With(leases, op, r.expiresAt) ELSE Without(leases, {op})
         /\ tombstones' = IF Open(r) THEN tombstones
                          ELSE With(tombstones, op, clock + IdempotencyTtl)
    BY <2>1, <2>2, <2>5, <2>6, <2>8
  <2> QED BY <2>1, <2>5, <2>7, <2>9, <2>10, <2>11, ChangeShape
<1> QED
  BY <1>1, <1>2

LEMMA RenewShape ==
  ASSUME IndexesAgree, NEW op \in Operations, NEW ttl \in Ttls, Renew(op, ttl)
  PROVE  Step
<1>1. CASE DirectExpiry(op)
  BY <1>1, DirectExpiryShape DEF Step
<1>2. CASE ~DirectExpiry(op)
  <2> DEFINE at == clock + ttl
             r == [reservations[op] EXCEPT !.expiresAt = at]
  <2>1. /\ Live(op) /\ reservations' = [reservations EXCEPT ![op] = r]
        /\ leases' = With(leases, op, at)
        /\ UNCHANGED <<used, operations, tombstones, clock, spent>>
    BY <1>2 DEF Renew
  <2>2. /\ op \in DOMAIN reservations /\ reservations[op] \in Record /\ Open(reservations[op])
        /\ used \in [Budgets -> Nat] /\ spent \in [Budgets -> Nat] /\ clock \in Nat
    BY <2>1, LiveIs
  <2>3. at \in Nat /\ at > clock
    BY <2>2, ConstantTypes
  <2>4. PartialFunction(reservations, Operations, Record)
    BY <2>1, LiveIs
  <2> HIDE DEF at
  <2>5. /\ r \in Record /\ r.state = reservations[op].state /\ r.expiresAt = at
        /\ r.reserved = reservations[op].reserved /\ r.budgetKeys = reservations[op].budgetKeys
    BY <2>2, <2>3 DEF Record
  <2> HIDE DEF r
  <2>6. Open(r)
    BY <2>2, <2>5 DEF Open
  <2>7. reservations' = With(reservations, op, r)
    BY <2>1, <2>2, <2>4, ExceptIsWith
  <2>9. Relabels(reservations[op], r, used', spent')
    BY <2>1, <2>2, <2>3, <2>5, <2>6 DEF Relabels
  <2>10. used' \in [Budgets -> Nat] /\ spent' \in [Budgets -> Nat] /\ operations' = operations
    BY <2>1, <2>2
  <2>11. /\ leases' = IF Open(r) THEN With(leases, op, r.expiresAt) ELSE Without(leases, {op})
         /\ tombstones' = IF Open(r) THEN tombstones
                          ELSE With(tombstones, op, clock + IdempotencyTtl)
    BY <2>1, <2>5, <2>6
  <2> QED BY <2>1, <2>5, <2>7, <2>9, <2>10, <2>11, ChangeShape
<1> QED
  BY <1>1, <1>2

LEMMA SettleShape ==
  ASSUME IndexesAgree, NEW op \in Operations, NEW actual \in Actuals, NEW outcome \in Outcomes,
         Settle(op, actual, outcome)
  PROVE  Step
<1>1. CASE DirectExpiry(op)
  BY <1>1, DirectExpiryShape DEF Step
<1>2. CASE ~DirectExpiry(op)
  <2> DEFINE r == Settled(reservations[op], actual, outcome)
  <2>1. /\ Live(op) /\ reservations' = [reservations EXCEPT ![op] = r]
        /\ \A b \in Budgets : actual[b] <= reservations[op].reserved[b]
        /\ used' = Minus(used, Minus(reservations[op].reserved, actual))
        /\ leases' = Without(leases, {op})
        /\ tombstones' = With(tombstones, op, clock + IdempotencyTtl)
        /\ spent' = Plus(spent, actual)
        /\ UNCHANGED <<operations, clock>>
    BY <1>2 DEF Settle
  <2>2. /\ op \in DOMAIN reservations /\ reservations[op] \in Record
        /\ used \in [Budgets -> Nat] /\ spent \in [Budgets -> Nat]
    BY <2>1, LiveIs
  <2>3. actual \in [Budgets -> Nat] /\ reservations[op].reserved \in [Budgets -> Nat]
    BY <2>2, ConstantTypes, RecordFields
  <2>4. PartialFunction(reservations, Operations, Record)
    BY <2>1, LiveIs
  <2>5. r \in Record /\ r.state = "settled"
    BY <2>2, <2>3, SettledFields
  <2>6. Settles(reservations[op], r, used', spent')
    BY <2>1 DEF Settles
  <2> HIDE DEF r
  <2>7. ~Open(r)
    BY <2>5 DEF Open
  <2>8. reservations' = With(reservations, op, r)
    BY <2>1, <2>2, <2>4, ExceptIsWith
  <2>9. used' \in [Budgets -> Nat] /\ spent' \in [Budgets -> Nat]
    <3>1. Minus(reservations[op].reserved, actual) \in [Budgets -> Nat]
      BY <2>3, MinusType
    <3> QED BY <2>1, <2>2, <2>3, <3>1, MinusType, PlusType
  <2>10. /\ leases' = IF Open(r) THEN With(leases, op, r.expiresAt) ELSE Without(leases, {op})
         /\ tombstones' = IF Open(r) THEN tombstones
                          ELSE With(tombstones, op, clock + IdempotencyTtl)
         /\ operations' = operations
    BY <2>1, <2>7
  <2> QED BY <2>1, <2>5, <2>6, <2>8, <2>9, <2>10, ChangeShape
<1> QED
  BY <1>1, <1>2

LEMMA GrowShape ==
  ASSUME IndexesAgree, NEW op \in Operations, NEW inc \in Increments, NEW cursor \in 0..MaxCursor,
         NEW add \in Growths, NEW lim \in Limits, Grow(op, inc, cursor, add, lim)
  PROVE  Step
<1>1. CASE DirectExpiry(op)
  BY <1>1, DirectExpiryShape DEF Step
<1>2. CASE ~DirectExpiry(op)
  <2> DEFINE q == reservations[op]
             accepted == WithinLimits(add, lim, used)
             v == IF accepted THEN Plus(q.reserved, add.units) ELSE q.reserved
             n == q.growthCursor + 1
             r == [q EXCEPT !.reserved = IF accepted THEN Plus(@, add.units) ELSE @,
                            !.growthCursor = @ + 1, !.lastGrowth = {inc}]
  <2>1. /\ Live(op) /\ q.budgetKeys = add.keys
        /\ used' = IF accepted THEN Plus(used, add.units) ELSE used
        /\ UNCHANGED <<leases, operations, tombstones, clock, spent>>
    BY <1>2 DEF Grow
  <2>a. reservations' = [reservations EXCEPT ![op] = r]
    BY <1>2, Zenon DEF Grow
  <2>2. /\ op \in DOMAIN leases /\ op \in DOMAIN reservations /\ q \in Record /\ Open(q)
        /\ q.expiresAt > clock /\ leases[op] = q.expiresAt
        /\ used \in [Budgets -> Nat] /\ spent \in [Budgets -> Nat]
    BY <2>1, LiveIs
  <2>3. q.reserved \in [Budgets -> Nat] /\ q.growthCursor \in Nat
    BY <2>2, RecordFields
  <2>4. add.units \in [Budgets -> Nat]
    BY ChargeTypes
  <2>5. PartialFunction(leases, Operations, Nat)
    BY <2>1, LiveIs
  <2>6. PartialFunction(reservations, Operations, Record)
    BY <2>1, LiveIs
  <2>7. v \in [Budgets -> Nat] /\ n \in Nat
    BY <2>3, <2>4, PlusType
  <2>8. used' \in [Budgets -> Nat]
    BY <2>1, <2>2, <2>4, PlusType
  <2>b. r = [q EXCEPT !.reserved = v, !.growthCursor = n, !.lastGrowth = {inc}]
    BY Zenon DEF v, n
  <2>c. {inc} \in SUBSET Increments
    OBVIOUS
  <2> HIDE DEF v, n, r
  <2>9. /\ r \in Record /\ r.state = q.state /\ r.expiresAt = q.expiresAt
        /\ r.reserved = v /\ r.budgetKeys = q.budgetKeys
    BY <2>2, <2>7, <2>b, <2>c DEF Record
  <2>10. Open(r)
    BY <2>2, <2>9 DEF Open
  <2>11. reservations' = With(reservations, op, r)
    BY <2>a, <2>2, <2>6, ExceptIsWith
  <2>12. With(leases, op, leases[op]) = leases
    BY <2>2, <2>5, WithSame
  <2>13. /\ leases' = IF Open(r) THEN With(leases, op, r.expiresAt) ELSE Without(leases, {op})
         /\ tombstones' = IF Open(r) THEN tombstones
                          ELSE With(tombstones, op, clock + IdempotencyTtl)
         /\ operations' = operations /\ spent' = spent
    BY <2>1, <2>2, <2>9, <2>10, <2>12
  <2>14. CASE accepted
    <3>1. Grows(q, r, used', spent')
      BY <2>1, <2>9, <2>13, <2>14 DEF Grows, v
    <3> QED BY <2>1, <2>2, <2>8, <2>9, <2>11, <2>13, <3>1, ChangeShape
  <2>15. CASE ~accepted
    <3>1. Relabels(q, r, used', spent')
      BY <2>1, <2>2, <2>9, <2>10, <2>13, <2>15 DEF Relabels, v
    <3> QED BY <2>1, <2>2, <2>8, <2>9, <2>11, <2>13, <3>1, ChangeShape
  <2> QED BY <2>14, <2>15
<1> QED
  BY <1>1, <1>2

(* Every step is one of these, or it moves the clock alone.                *)
LEMMA StepShape ==
  ASSUME IndexesAgree, [Next]_vars
  PROVE  /\ clock' \in Nat
         /\ \/ Step /\ clock' = clock
            \/ UNCHANGED <<storeVars, spent>>
<1>0. clock \in Nat
  BY DEF IndexesAgree, RedisTypeOK
<1>1. ASSUME NEW op \in Operations, NEW charge \in Charges, NEW lim \in Limits, NEW ttl \in Ttls,
             Reserve(op, charge, lim, ttl)
      PROVE  Step /\ clock' = clock
  BY <1>1, ReserveShape DEF Reserve
<1>2. ASSUME NEW op \in Operations, MarkLiable(op)
      PROVE  Step /\ clock' = clock
  BY <1>2, MarkLiableShape DEF MarkLiable, DirectExpiry
<1>3. ASSUME NEW op \in Operations, NEW ttl \in Ttls, Renew(op, ttl)
      PROVE  Step /\ clock' = clock
  BY <1>3, RenewShape DEF Renew, DirectExpiry
<1>4. ASSUME NEW op \in Operations, NEW actual \in Actuals, NEW outcome \in Outcomes,
             Settle(op, actual, outcome)
      PROVE  Step /\ clock' = clock
  BY <1>4, SettleShape DEF Settle, DirectExpiry
<1>5. ASSUME NEW op \in Operations, NEW inc \in Increments, NEW cursor \in 0..MaxCursor,
             NEW add \in Growths, NEW lim \in Limits, Grow(op, inc, cursor, add, lim)
      PROVE  Step /\ clock' = clock
  BY <1>5, GrowShape DEF Grow, DirectExpiry
<1>6. ASSUME NEW candidates \in SUBSET Budgets, RetireHistoricalBudgets(candidates)
      PROVE  Step /\ clock' = clock
  BY <1>6 DEF RetireHistoricalBudgets, Step
<1>7. CASE ClockStep
  BY <1>7, ConstantTypes DEF ClockStep
<1>8. CASE UNCHANGED vars
  BY <1>0, <1>8 DEF vars
<1> QED
  BY <1>0, <1>1, <1>2, <1>3, <1>4, <1>5, <1>6, <1>7, <1>8 DEF Next, Admission
-----------------------------------------------------------------------------
(* The indexes agree.                                                      *)

LEMMA InitAgrees == Init => IndexesAgree
<1> SUFFICES ASSUME Init PROVE IndexesAgree
  OBVIOUS
<1>1. <<>> \in [{} -> Nat] /\ <<>> \in [{} -> Record] /\ DOMAIN <<>> = {}
  OBVIOUS
<1>2. NoUnits \in [Budgets -> Nat]
  BY DEF NoUnits
<1> QED
  BY <1>1, <1>2 DEF Init, IndexesAgree, RedisTypeOK, PartialFunction

LEMMA AdmitsConsistent ==
  ASSUME IndexesAgree, NEW er \in SUBSET DueLeases, NEW eo \in SUBSET DueTombstones,
         NEW op \in Operations, NEW charge \in Charges, NEW lim \in Limits, NEW ttl \in Ttls,
         Admits(er, eo, op, charge, lim, ttl)
  PROVE  LET st == Cleaned(er, eo)
         IN  Consistent(Put(st, op, Pending(charge, clock + ttl), Plus(st.used, charge.units),
                            st.spent))
<1> DEFINE st == Cleaned(er, eo)
           r == Pending(charge, clock + ttl)
<1>1. er \in SUBSET DOMAIN leases /\ eo \in SUBSET DOMAIN tombstones
  BY DEF DueLeases, DueTombstones
<1>2. Consistent(st)
  BY <1>1, CleanedConsistent
<1>3. clock \in Nat /\ clock + ttl \in Nat
  BY ConstantTypes DEF IndexesAgree, RedisTypeOK
<1>4. r \in Record
  BY <1>3, PendingRecord
<1>5. op \notin st.operations
  BY DEF Admits
<1> HIDE DEF st, r
<1>6. st.used \in [Budgets -> Nat] /\ st.spent \in [Budgets -> Nat]
  BY <1>2 DEF Consistent
<1>7. Plus(st.used, charge.units) \in [Budgets -> Nat]
  BY <1>6, ChargeTypes, PlusType
<1>8. Consistent(Put(st, op, r, Plus(st.used, charge.units), st.spent))
  BY <1>2, <1>3, <1>4, <1>5, <1>6, <1>7, PutConsistent
<1> QED
  BY <1>8 DEF st, r

(* Every script and every move of the clock keeps them so.                 *)
LEMMA StepAgrees == IndexesAgree /\ [Next]_vars => IndexesAgree'
<1> SUFFICES ASSUME IndexesAgree, [Next]_vars PROVE IndexesAgree'
  OBVIOUS
<1>1. clock' \in Nat /\ (Step \/ UNCHANGED <<storeVars, spent>>)
  BY StepShape
<1>2. CASE Cleans
  <2>1. PICK er \in SUBSET DueLeases, eo \in SUBSET DueTombstones : Become(Cleaned(er, eo))
    BY <1>2 DEF Cleans
  <2>2. Consistent(Cleaned(er, eo))
    BY CleanedConsistent DEF DueLeases, DueTombstones
  <2> QED BY <1>1, <2>1, <2>2, BecomeAgrees
<1>3. ASSUME NEW er \in SUBSET DueLeases, NEW eo \in SUBSET DueTombstones, NEW op \in Operations,
             NEW charge \in Charges, NEW lim \in Limits, NEW ttl \in Ttls,
             Admits(er, eo, op, charge, lim, ttl)
      PROVE  IndexesAgree'
  <2> DEFINE st == Cleaned(er, eo)
             put == Put(st, op, Pending(charge, clock + ttl), Plus(st.used, charge.units), st.spent)
  <2>1. Consistent(put)
    BY <1>3, AdmitsConsistent
  <2>2. Become(put)
    BY <1>3 DEF Admits
  <2> HIDE DEF put
  <2> QED BY <1>1, <2>1, <2>2, BecomeAgrees
<1>4. ASSUME NEW op \in Operations, NEW r \in Record, NEW u \in [Budgets -> Nat],
             NEW s \in [Budgets -> Nat], Changes(op, r, u, s)
      PROVE  IndexesAgree'
  <2>1. Consistent(Before) /\ clock \in Nat
    BY AgreeIsConsistent
  <2>2. op \in DOMAIN Before.leases
    BY <1>4 DEF Changes, Before
  <2>3. Consistent(Put(Before, op, r, u, s))
    BY <2>1, <2>2, PutConsistent
  <2>4. Become(Put(Before, op, r, u, s))
    BY <1>4 DEF Changes
  <2> QED BY <1>1, <2>3, <2>4, BecomeAgrees
<1>5. ASSUME NEW candidates \in SUBSET Budgets, RetireHistoricalBudgets(candidates)
      PROVE  IndexesAgree'
  <2>1. used' \in [Budgets -> Nat] /\ spent' \in [Budgets -> Nat]
    BY <1>5 DEF RetireHistoricalBudgets, IndexesAgree, RedisTypeOK
  <2>2. UNCHANGED <<leases, reservations, operations, tombstones, clock>>
    BY <1>5 DEF RetireHistoricalBudgets
  <2> QED BY <1>1, <2>1, <2>2 DEF IndexesAgree, RedisTypeOK
<1>6. CASE UNCHANGED <<storeVars, spent>>
  BY <1>1, <1>6 DEF storeVars, IndexesAgree, RedisTypeOK
<1> QED
  BY <1>1, <1>2, <1>3, <1>4, <1>5, <1>6 DEF Step

(* The lease index, the tombstones and the claimed operations agree with   *)
(* the records (RESERVE_SCRIPT to RETIRE_HISTORICAL_BUDGETS_SCRIPT),       *)
(* whatever batches cleanup takes, in whatever order, and however the      *)
(* clock is set.                                                           *)
THEOREM IndexesAlwaysAgree == Spec => []IndexesAgree
<1> QED
  BY InitAgrees, StepAgrees, PTL DEF Spec

(* The verdict on an operation of a consistent store.                      *)
Says(st, op) ==
  IF op \notin st.operations THEN <<"absent">>
  ELSE IF op \in DOMAIN st.leases
    THEN <<IF st.reservations[op].expiresAt <= clock THEN "expired" ELSE "active",
           st.reservations[op].state>>
  ELSE IF st.tombstones[op] <= clock THEN <<"absent">>
  ELSE IF st.reservations[op].outcome = LeaseExpired THEN <<"expired", "liable">>
  ELSE <<"settled", st.reservations[op].actual>>

(* Reconciliation says it, before a step and after.                        *)
LEMMA SaysVerdict ==
  ASSUME IndexesAgree, NEW op \in Operations
  PROVE  Verdict(op) = Says(Before, op)
<1>1. Consistent(Before)
  BY AgreeIsConsistent
<1>2. /\ Before.operations = operations /\ Before.leases = leases
      /\ Before.reservations = reservations /\ Before.tombstones = tombstones
  BY DEF Before
<1>3. /\ operations = DOMAIN reservations
      /\ op \in operations => reservations[op].state \in {"pending", "liable", "settled"}
      /\ op \in DOMAIN leases <=> op \in operations /\ reservations[op].state \in {"pending", "liable"}
      /\ op \in DOMAIN tombstones <=> op \in operations /\ op \notin DOMAIN leases
  BY RecordFields DEF IndexesAgree, RedisTypeOK, PartialFunction
<1>4. CASE op \notin operations
  BY <1>2, <1>3, <1>4 DEF Verdict, Says
<1>5. CASE op \in DOMAIN leases
  <2>1. Verdict(op) = <<IF reservations[op].expiresAt <= clock THEN "expired" ELSE "active",
                        reservations[op].state>>
    BY <1>3, <1>5 DEF Verdict
  <2> QED BY <1>2, <1>3, <1>5, <2>1 DEF Says
<1>6. CASE op \in operations /\ op \notin DOMAIN leases
  <2>1. Verdict(op) = IF tombstones[op] <= clock THEN <<"absent">>
             ELSE IF reservations[op].outcome = LeaseExpired THEN <<"expired", "liable">>
             ELSE <<"settled", reservations[op].actual>>
    BY <1>3, <1>6 DEF Verdict
  <2> QED BY <1>2, <1>3, <1>6, <2>1 DEF Says
<1> QED
  BY <1>3, <1>4, <1>5, <1>6

LEMMA SaysVerdictNext ==
  ASSUME NEW st, Consistent(st), Become(st), clock' = clock, NEW op \in Operations
  PROVE  Verdict(op)' = Says(st, op)
<1>2. /\ st.operations = operations' /\ st.leases = leases'
      /\ st.reservations = reservations' /\ st.tombstones = tombstones'
  BY DEF Become
<1>3. /\ operations' = DOMAIN reservations'
      /\ op \in operations' => reservations'[op].state \in {"pending", "liable", "settled"}
      /\ op \in DOMAIN leases' <=> op \in operations' /\ reservations'[op].state \in {"pending", "liable"}
      /\ op \in DOMAIN tombstones' <=> op \in operations' /\ op \notin DOMAIN leases'
  BY <1>2, RecordFields DEF Consistent, PartialFunction, Open
<1>4. CASE op \notin operations'
  BY <1>2, <1>3, <1>4 DEF Verdict, Says
<1>5. CASE op \in DOMAIN leases'
  <2>1. Verdict(op)' = <<IF reservations'[op].expiresAt <= clock' THEN "expired" ELSE "active",
                        reservations'[op].state>>
    BY <1>3, <1>5 DEF Verdict
  <2> QED BY <1>2, <1>3, <1>5, <2>1 DEF Says
<1>6. CASE op \in operations' /\ op \notin DOMAIN leases'
  <2>1. Verdict(op)' = IF tombstones'[op] <= clock' THEN <<"absent">>
             ELSE IF reservations'[op].outcome = LeaseExpired THEN <<"expired", "liable">>
             ELSE <<"settled", reservations'[op].actual>>
    BY <1>3, <1>6 DEF Verdict
  <2> QED BY <1>2, <1>3, <1>6, <2>1 DEF Says
<1> QED
  BY <1>3, <1>4, <1>5, <1>6

(* Nobody meets an invalid record.                                         *)
LEMMA NeverInvalid ==
  ASSUME IndexesAgree', NEW op \in Operations
  PROVE  Verdict(op)' # <<"invalid_state">>
<1>1. /\ operations' = DOMAIN reservations'
      /\ op \in operations' => reservations'[op].state \in {"pending", "liable", "settled"}
      /\ op \in DOMAIN leases' <=> op \in operations' /\ reservations'[op].state \in {"pending", "liable"}
      /\ op \in DOMAIN tombstones' <=> op \in operations' /\ op \notin DOMAIN leases'
  BY RecordFields DEF IndexesAgree, RedisTypeOK, PartialFunction
<1>2. Verdict(op)'[1] \in {"absent", "expired", "active", "settled"}
  <2>1. CASE op \notin operations'
    BY <1>1, <2>1 DEF Verdict
  <2>2. CASE op \in DOMAIN leases'
    <3>1. Verdict(op)' = <<IF reservations'[op].expiresAt <= clock' THEN "expired" ELSE "active",
                          reservations'[op].state>>
      BY <1>1, <2>2 DEF Verdict
    <3> QED BY <3>1
  <2>3. CASE op \in operations' /\ op \notin DOMAIN leases'
    <3>1. Verdict(op)' = IF tombstones'[op] <= clock' THEN <<"absent">>
               ELSE IF reservations'[op].outcome = LeaseExpired THEN <<"expired", "liable">>
               ELSE <<"settled", reservations'[op].actual>>
      BY <1>1, <2>3 DEF Verdict
    <3> QED BY <3>1
  <2> QED BY <1>1, <2>1, <2>2, <2>3
<1> QED
  BY <1>2
-----------------------------------------------------------------------------
(* What becomes of an operation that a step is not about.                  *)

IsKept(st, op) ==
  /\ op \in st.operations <=> op \in operations
  /\ op \in DOMAIN st.leases <=> op \in DOMAIN leases
  /\ op \in operations => st.reservations[op] = reservations[op]
  /\ op \in operations \ DOMAIN leases => st.tombstones[op] = tombstones[op]

IsReleased(st, op) ==
  /\ op \in DOMAIN leases /\ reservations[op].expiresAt <= clock
  /\ reservations[op].state = "pending" /\ op \notin st.operations

IsRetained(st, op) ==
  /\ op \in DOMAIN leases /\ reservations[op].expiresAt <= clock
  /\ reservations[op].state = "liable"
  /\ op \in st.operations /\ op \notin DOMAIN st.leases
  /\ st.reservations[op] = RetainLiable(reservations[op])
  /\ st.tombstones[op] = clock + IdempotencyTtl

IsForgotten(st, op) ==
  /\ op \in operations \ DOMAIN leases /\ tombstones[op] <= clock /\ op \notin st.operations

Lapses(st, op) ==
  IsKept(st, op) \/ IsReleased(st, op) \/ IsRetained(st, op) \/ IsForgotten(st, op)

(* Cleanup does nothing else to any operation.                             *)
LEMMA CleanedLapses ==
  ASSUME IndexesAgree, NEW er \in SUBSET DueLeases, NEW eo \in SUBSET DueTombstones,
         NEW op \in Operations
  PROVE  Lapses(Cleaned(er, eo), op)
<1> DEFINE st == Cleaned(er, eo)
<1>1. IsCleaned(st, er, eo)
  BY CleanedIs DEF DueLeases, DueTombstones
<1>2. Consistent(st)
  BY CleanedConsistent DEF DueLeases, DueTombstones
<1> HIDE DEF st
<1>3. /\ DOMAIN leases \subseteq operations
      /\ \A o \in DOMAIN leases : Open(reservations[o]) /\ leases[o] = reservations[o].expiresAt
      /\ DOMAIN tombstones = operations \ DOMAIN leases
  BY DEF IndexesAgree, Open
<1>4. /\ \A o \in er : o \in DOMAIN leases /\ reservations[o].expiresAt <= clock
      /\ \A o \in eo : o \in operations \ DOMAIN leases /\ tombstones[o] <= clock
  BY <1>3 DEF DueLeases, DueTombstones
<1>5. /\ st.operations = operations \ (Released(er) \cup eo)
      /\ DOMAIN st.leases = DOMAIN leases \ er
      /\ \A o \in st.operations : st.reservations[o] =
           IF o \in Retained(er) THEN RetainLiable(reservations[o]) ELSE reservations[o]
      /\ \A o \in DOMAIN st.tombstones : st.tombstones[o] =
           IF o \in Retained(er) THEN clock + IdempotencyTtl ELSE tombstones[o]
      /\ DOMAIN st.tombstones = st.operations \ DOMAIN st.leases
  BY <1>1, <1>2 DEF IsCleaned, Without, Consistent
<1>6. CASE op \in Released(er)
  BY <1>4, <1>5, <1>6 DEF Released, IsReleased, Lapses, st
<1>7. CASE op \in Retained(er)
  <2>1. /\ op \in er /\ reservations[op].state = "liable" /\ op \notin Released(er)
        /\ op \in operations /\ op \notin eo
    BY <1>3, <1>4, <1>7 DEF Released, Retained
  <2>2. IsRetained(st, op)
    BY <1>4, <1>5, <1>7, <2>1 DEF IsRetained
  <2> QED BY <2>2 DEF Lapses, st
<1>8. CASE op \in eo
  BY <1>4, <1>5, <1>8 DEF IsForgotten, Lapses, st
<1>9. CASE op \notin Released(er) \cup Retained(er) \cup eo
  <2>1. op \notin er
    BY <1>3, <1>4, <1>9 DEF Released, Retained, Open
  <2>2. IsKept(st, op)
    BY <1>3, <1>5, <1>9, <2>1 DEF IsKept
  <2> QED BY <2>2 DEF Lapses, st
<1> QED
  BY <1>6, <1>7, <1>8, <1>9

(* Writing one record leaves every other operation as it was.              *)
LEMMA PutKeepsOthers ==
  ASSUME NEW st, Consistent(st), NEW op \in Operations, NEW r, NEW u, NEW s,
         NEW o \in Operations, o # op
  PROVE  /\ o \in Put(st, op, r, u, s).operations <=> o \in st.operations
         /\ o \in DOMAIN Put(st, op, r, u, s).leases <=> o \in DOMAIN st.leases
         /\ o \in st.operations => Put(st, op, r, u, s).reservations[o] = st.reservations[o]
         /\ o \in st.operations \ DOMAIN st.leases =>
              Put(st, op, r, u, s).tombstones[o] = st.tombstones[o]
<1> DEFINE p == Put(st, op, r, u, s)
<1>1. /\ p.reservations = With(st.reservations, op, r)
      /\ p.operations = st.operations \cup {op}
      /\ p.leases = IF Open(r) THEN With(st.leases, op, r.expiresAt) ELSE Without(st.leases, {op})
      /\ p.tombstones = IF Open(r) THEN st.tombstones
                        ELSE With(st.tombstones, op, clock + IdempotencyTtl)
  BY DEF Put
<1>2. st.operations = DOMAIN st.reservations /\ DOMAIN st.tombstones = st.operations \ DOMAIN st.leases
  BY DEF Consistent
<1> HIDE DEF p
<1>3. o \in DOMAIN p.leases <=> o \in DOMAIN st.leases
  BY <1>1 DEF With, Without
<1>4. o \in st.operations => p.reservations[o] = st.reservations[o]
  BY <1>1, <1>2 DEF With
<1>5. o \in st.operations \ DOMAIN st.leases => p.tombstones[o] = st.tombstones[o]
  BY <1>1, <1>2 DEF With
<1> QED
  BY <1>1, <1>3, <1>4, <1>5 DEF p

(* What a lapse makes of a verdict.                                        *)
LEMMA LapseVerdict ==
  ASSUME IndexesAgree, NEW st, NEW op \in Operations, Lapses(st, op)
  PROVE  Says(st, op) \in Following(Says(Before, op))
<1>1. /\ Before.operations = operations /\ Before.leases = leases
      /\ Before.reservations = reservations /\ Before.tombstones = tombstones
  BY DEF Before
<1>2. DOMAIN leases \subseteq operations /\ clock \in Nat
  BY DEF IndexesAgree, RedisTypeOK
<1>3. Says(Before, op) \in Following(Says(Before, op))
  BY DEF Following
<1>4. CASE IsKept(st, op)
  <2>1. Says(st, op) = Says(Before, op)
    BY <1>1, <1>2, <1>4 DEF IsKept, Says
  <2> QED BY <1>3, <2>1
<1>5. CASE IsReleased(st, op)
  <2>1. Says(st, op) = <<"absent">> /\ Says(Before, op) = <<"expired", "pending">>
    BY <1>1, <1>2, <1>5 DEF IsReleased, Says
  <2> QED BY <2>1 DEF Following
<1>6. CASE IsRetained(st, op)
  <2>1. Says(Before, op) = <<"expired", "liable">>
    BY <1>1, <1>2, <1>6 DEF IsRetained, Says
  <2>2. ~(clock + IdempotencyTtl <= clock)
    BY <1>2, ConstantTypes
  <2>3. reservations[op] \in Record /\ reservations[op].reserved \in [Budgets -> Nat]
    BY <1>2, <1>6, RecordFields DEF IsRetained, IndexesAgree, RedisTypeOK, PartialFunction
  <2>4. st.reservations[op].outcome = LeaseExpired
    BY <1>6, <2>3, SettledFields DEF IsRetained, RetainLiable
  <2>5. Says(st, op) = <<"expired", "liable">>
    BY <1>6, <2>2, <2>4 DEF IsRetained, Says
  <2> QED BY <1>3, <2>1, <2>5
<1>7. CASE IsForgotten(st, op)
  <2>1. Says(st, op) = <<"absent">> /\ Says(Before, op) = <<"absent">>
    BY <1>1, <1>2, <1>7 DEF IsForgotten, Says
  <2> QED BY <1>3, <2>1
<1> QED
  BY <1>4, <1>5, <1>6, <1>7 DEF Lapses

LEMMA FollowingAbsent ==
  ASSUME NEW v, v \in {<<"absent">>, <<"expired", "pending">>}
  PROVE  <<"active", "pending">> \in Following(v)
BY DEF Following

LEMMA FollowingActive ==
  /\ \A v : v \in Following(v)
  /\ <<"active", "liable">> \in Following(<<"active", "pending">>)
  /\ \A actual \in Actuals : /\ <<"settled", actual>> \in Following(<<"active", "pending">>)
                             /\ <<"settled", actual>> \in Following(<<"active", "liable">>)
<1>1. /\ <<"active", "pending">> \notin {<<"absent">>, <<"expired", "pending">>}
      /\ <<"active", "liable">> \notin {<<"absent">>, <<"expired", "pending">>}
      /\ <<"active", "liable">> # <<"active", "pending">>
  OBVIOUS
<1> QED
  BY <1>1 DEF Following

(* An operation that cleanup leaves unclaimed had no record that counts.   *)
LEMMA UnclaimedVerdict ==
  ASSUME IndexesAgree, NEW st, NEW op \in Operations, Lapses(st, op), op \notin st.operations
  PROVE  Says(Before, op) \in {<<"absent">>, <<"expired", "pending">>}
<1>1. /\ Before.operations = operations /\ Before.leases = leases
      /\ Before.reservations = reservations /\ Before.tombstones = tombstones
      /\ DOMAIN leases \subseteq operations
  BY DEF Before, IndexesAgree
<1>2. IsKept(st, op) \/ IsReleased(st, op) \/ IsForgotten(st, op)
  BY DEF Lapses, IsRetained
<1> QED
  BY <1>1, <1>2 DEF IsKept, IsReleased, IsForgotten, Says

LEMMA OthersVerdict ==
  ASSUME NEW st, Consistent(st), NEW op \in Operations, NEW r, NEW u, NEW s,
         NEW o \in Operations, o # op
  PROVE  Says(Put(st, op, r, u, s), o) = Says(st, o)
<1>1. DOMAIN st.leases \subseteq st.operations
  BY DEF Consistent
<1>2. /\ o \in Put(st, op, r, u, s).operations <=> o \in st.operations
      /\ o \in DOMAIN Put(st, op, r, u, s).leases <=> o \in DOMAIN st.leases
      /\ o \in st.operations => Put(st, op, r, u, s).reservations[o] = st.reservations[o]
      /\ o \in st.operations \ DOMAIN st.leases =>
           Put(st, op, r, u, s).tombstones[o] = st.tombstones[o]
  BY PutKeepsOthers
<1> QED
  BY <1>1, <1>2 DEF Says

(* What the record that was just written says.                             *)
LEMMA PutVerdict ==
  ASSUME NEW st, NEW op \in Operations, NEW r \in Record, NEW u, NEW s, clock \in Nat
  PROVE  Says(Put(st, op, r, u, s), op) =
           IF Open(r) THEN <<IF r.expiresAt <= clock THEN "expired" ELSE "active", r.state>>
           ELSE IF r.outcome = LeaseExpired THEN <<"expired", "liable">>
           ELSE <<"settled", r.actual>>
<1> DEFINE p == Put(st, op, r, u, s)
<1>1. /\ p.reservations = With(st.reservations, op, r)
      /\ p.operations = st.operations \cup {op}
      /\ p.leases = IF Open(r) THEN With(st.leases, op, r.expiresAt) ELSE Without(st.leases, {op})
      /\ p.tombstones = IF Open(r) THEN st.tombstones
                        ELSE With(st.tombstones, op, clock + IdempotencyTtl)
  BY DEF Put
<1> HIDE DEF p
<1>2. p.reservations[op] = r /\ op \in p.operations /\ (op \in DOMAIN p.leases <=> Open(r))
  BY <1>1 DEF With, Without
<1>3. ~Open(r) => p.tombstones[op] = clock + IdempotencyTtl
  BY <1>1 DEF With
<1>4. ~(clock + IdempotencyTtl <= clock)
  BY ConstantTypes
<1> QED
  BY <1>2, <1>3, <1>4 DEF Says, p

(* A request on an active reservation, which settles with no label that    *)
(* cleanup uses, leaves a verdict that may follow.                         *)
LEMMA ChangeVerdict ==
  ASSUME IndexesAgree, LeaseExpired \notin Outcomes,
         NEW op \in Operations, NEW r \in Record, NEW u, NEW s, Changes(op, r, u, s)
  PROVE  Says(Put(Before, op, r, u, s), op) \in Following(Says(Before, op))
<1> DEFINE q == reservations[op]
<1>1. /\ op \in DOMAIN leases /\ q.expiresAt > clock
      /\ Relabels(q, r, u, s) \/ Grows(q, r, u, s) \/ Settles(q, r, u, s)
  BY DEF Changes
<1>2. /\ op \in operations /\ q \in Record /\ Open(q) /\ clock \in Nat /\ q.expiresAt \in Nat
  BY <1>1, RecordFields DEF IndexesAgree, RedisTypeOK, PartialFunction, Open
<1>3. /\ Before.operations = operations /\ Before.leases = leases
      /\ Before.reservations = reservations /\ Before.tombstones = tombstones
  BY DEF Before
<1>4. Says(Before, op) = <<"active", q.state>> /\ q.state \in {"pending", "liable"}
  BY <1>1, <1>2, <1>3 DEF Says, Open
<1> HIDE DEF q
<1>5. CASE Relabels(q, r, u, s) \/ Grows(q, r, u, s)
  <2>1. Open(r) /\ r.expiresAt > clock /\ r.state \in {q.state, "liable"}
    BY <1>1, <1>2, <1>5 DEF Relabels, Grows, Open
  <2>2. r.expiresAt \in Nat
    BY RecordFields
  <2>3. Says(Put(Before, op, r, u, s), op) = <<"active", r.state>>
    BY <1>2, <2>1, <2>2, PutVerdict
  <2> QED BY <1>4, <2>1, <2>3, FollowingActive
<1>6. CASE Settles(q, r, u, s)
  <2>1. PICK actual \in Actuals, outcome \in Outcomes : r = Settled(q, actual, outcome)
    BY <1>6 DEF Settles
  <2>2. actual \in [Budgets -> Nat]
    BY ConstantTypes
  <2>3. r.state = "settled" /\ r.actual = actual /\ r.outcome = outcome
    BY <1>2, <2>1, <2>2, SettledFields
  <2>4. Says(Put(Before, op, r, u, s), op) = <<"settled", actual>>
    BY <1>2, <2>3, PutVerdict DEF Open
  <2> QED BY <1>4, <2>4, FollowingActive
<1> QED
  BY <1>1, <1>5, <1>6

(* A step of the scripts leaves every verdict standing.                    *)
LEMMA StepVerdicts ==
  ASSUME IndexesAgree, LeaseExpired \notin Outcomes, Step, clock' = clock,
         NEW op \in Operations
  PROVE  Verdict(op)' \in Following(Verdict(op))
<1>0. Consistent(Before) /\ clock \in Nat /\ Verdict(op) = Says(Before, op)
  BY AgreeIsConsistent, SaysVerdict
<1>1. CASE Cleans
  <2>1. PICK er \in SUBSET DueLeases, eo \in SUBSET DueTombstones : Become(Cleaned(er, eo))
    BY <1>1 DEF Cleans
  <2>2. Consistent(Cleaned(er, eo))
    BY CleanedConsistent DEF DueLeases, DueTombstones
  <2>3. Verdict(op)' = Says(Cleaned(er, eo), op)
    BY <2>1, <2>2, SaysVerdictNext
  <2>4. Lapses(Cleaned(er, eo), op)
    BY CleanedLapses
  <2>5. Says(Cleaned(er, eo), op) \in Following(Says(Before, op))
    BY <2>4, LapseVerdict
  <2> QED BY <1>0, <2>3, <2>5
<1>2. ASSUME NEW er \in SUBSET DueLeases, NEW eo \in SUBSET DueTombstones, NEW called \in Operations,
             NEW charge \in Charges, NEW lim \in Limits, NEW ttl \in Ttls,
             Admits(er, eo, called, charge, lim, ttl)
      PROVE  Verdict(op)' \in Following(Verdict(op))
  <2> DEFINE st == Cleaned(er, eo)
             r == Pending(charge, clock + ttl)
             u == Plus(st.used, charge.units)
             put == Put(st, called, r, u, st.spent)
  <2>1. Consistent(put)
    BY <1>2, AdmitsConsistent
  <2>2. Become(put) /\ called \notin st.operations
    BY <1>2 DEF Admits
  <2> HIDE DEF put
  <2>3. Verdict(op)' = Says(put, op)
    BY <2>1, <2>2, SaysVerdictNext
  <2> USE DEF put
  <2>4. Consistent(st)
    BY CleanedConsistent DEF DueLeases, DueTombstones
  <2>5. Lapses(st, op)
    BY CleanedLapses
  <2>6. r \in Record /\ r.state = "pending" /\ r.expiresAt > clock
    BY <1>0, ConstantTypes, PendingRecord
  <2> HIDE DEF st, r, u
  <2>7. CASE op # called
    <3>1. Says(put, op) = Says(st, op)
      BY <2>4, <2>7, OthersVerdict
    <3>2. Says(st, op) \in Following(Says(Before, op))
      BY <2>5, LapseVerdict
    <3> QED BY <1>0, <2>3, <3>1, <3>2
  <2>8. CASE op = called
    <3>1. Says(put, op) = <<"active", "pending">>
      <4>1. r.expiresAt \in Nat /\ ~(r.expiresAt <= clock)
        BY <1>0, <2>6, RecordFields
      <4> QED BY <1>0, <2>6, <2>8, <4>1, PutVerdict DEF Open
    <3>2. Says(Before, op) \in {<<"absent">>, <<"expired", "pending">>}
      BY <2>2, <2>5, <2>8, UnclaimedVerdict
    <3> QED BY <1>0, <2>3, <3>1, <3>2, FollowingAbsent
  <2> QED BY <2>7, <2>8
<1>3. ASSUME NEW called \in Operations, NEW r \in Record, NEW u \in [Budgets -> Nat],
             NEW s \in [Budgets -> Nat], Changes(called, r, u, s)
      PROVE  Verdict(op)' \in Following(Verdict(op))
  <2> DEFINE put == Put(Before, called, r, u, s)
  <2>1. called \in DOMAIN Before.leases /\ Become(put)
    BY <1>3 DEF Changes, Before
  <2>2. Consistent(put)
    BY <1>0, <2>1, PutConsistent
  <2> HIDE DEF put
  <2>3. Verdict(op)' = Says(put, op)
    BY <2>1, <2>2, SaysVerdictNext
  <2> USE DEF put
  <2>4. CASE op # called
    <3>1. Says(put, op) = Says(Before, op)
      BY <1>0, <2>4, OthersVerdict
    <3> QED BY <1>0, <2>3, <3>1, FollowingActive
  <2>5. CASE op = called
    <3>1. Says(put, op) \in Following(Says(Before, op))
      BY <1>3, <2>5, ChangeVerdict
    <3> QED BY <1>0, <2>3, <3>1
  <2> QED BY <2>4, <2>5
<1>4. ASSUME NEW candidates \in SUBSET Budgets, RetireHistoricalBudgets(candidates)
      PROVE  Verdict(op)' \in Following(Verdict(op))
  <2>1. UNCHANGED <<reservations, tombstones, clock>>
    BY <1>4 DEF RetireHistoricalBudgets
  <2>2. Verdict(op)' = Verdict(op)
    BY <2>1 DEF Verdict
  <2> QED BY <2>2, FollowingActive
<1> QED
  BY <1>1, <1>2, <1>3, <1>4 DEF Step

(* VerdictsStand, if clients cannot settle with the label of a lease that  *)
(* expired after execution started.                                        *)
THEOREM VerdictsAlwaysStand ==
  ASSUME LeaseExpired \notin Outcomes
  PROVE  Spec => VerdictsStand
<1>1. ASSUME IndexesAgree, [Next]_vars, NEW op \in Operations
      PROVE  /\ Verdict(op)' # <<"invalid_state">>
             /\ clock' = clock => Verdict(op)' \in Following(Verdict(op))
  <2>1. Verdict(op)' # <<"invalid_state">>
    <3>1. IndexesAgree'
      BY <1>1, StepAgrees
    <3> QED BY <3>1, NeverInvalid
  <2>2. CASE Step /\ clock' = clock
    BY <1>1, <2>1, <2>2, StepVerdicts
  <2>3. CASE UNCHANGED <<storeVars, spent>>
    <3>1. ASSUME clock' = clock PROVE Verdict(op)' = Verdict(op)
      BY <2>3, <3>1 DEF Verdict, storeVars
    <3> QED BY <2>1, <3>1, FollowingActive
  <2> QED BY <1>1, <2>2, <2>3, StepShape
<1>2. IndexesAgree /\ [Next]_vars =>
        [\A op \in Operations :
           /\ Verdict(op)' # <<"invalid_state">>
           /\ clock' = clock => Verdict(op)' \in Following(Verdict(op))]_vars
  BY <1>1
<1> QED
  BY <1>2, IndexesAlwaysAgree, PTL DEF Spec, VerdictsStand

-----------------------------------------------------------------------------
(* Units.                                                                  *)

(* What each operation holds of a budget, and all of them together.        *)
Holding(st, b) ==
  [op \in Operations |-> IF op \in DOMAIN st.leases THEN st.reservations[op].reserved[b] ELSE 0]
Held(st, b) == Total(Holding(st, b))

(* The counters are exact.                                                 *)
Balanced(st) == \A b \in Budgets : st.used[b] = Held(st, b) + st.spent[b]

(* A reservation holds nothing of a budget that it does not name.          *)
Names(st) ==
  \A op \in DOMAIN st.leases : \A b \in Budgets \ st.reservations[op].budgetKeys :
    st.reservations[op].reserved[b] = 0

(* What operations hold are units, and so is what they hold together.      *)
LEMMA HoldingType ==
  ASSUME NEW st, Consistent(st), NEW b \in Budgets
  PROVE  Holding(st, b) \in [Operations -> Nat] /\ Held(st, b) \in Nat
<1>1. ASSUME NEW op \in Operations, op \in DOMAIN st.leases
      PROVE  st.reservations[op].reserved[b] \in Nat
  BY <1>1, RecordFields DEF Consistent, PartialFunction
<1>2. Holding(st, b) \in [Operations -> Nat]
  BY <1>1 DEF Holding
<1> QED
  BY <1>2, ConstantTypes, TotalType DEF Held

LEMMA PutHolding ==
  ASSUME NEW st, Consistent(st), NEW op \in Operations, NEW r \in Record, NEW u, NEW s,
         NEW b \in Budgets
  PROVE  /\ Holding(Put(st, op, r, u, s), b)[op] = IF Open(r) THEN r.reserved[b] ELSE 0
         /\ \A o \in Operations \ {op} : Holding(Put(st, op, r, u, s), b)[o] = Holding(st, b)[o]
         /\ Holding(Put(st, op, r, u, s), b) \in [Operations -> Nat]
<1> DEFINE p == Put(st, op, r, u, s)
<1>0. /\ p.reservations = With(st.reservations, op, r)
      /\ p.leases = IF Open(r) THEN With(st.leases, op, r.expiresAt) ELSE Without(st.leases, {op})
  BY DEF Put
<1>1. DOMAIN st.leases \subseteq st.operations /\ Holding(st, b) \in [Operations -> Nat]
      /\ r.reserved[b] \in Nat
  BY HoldingType, RecordFields DEF Consistent
<1> HIDE DEF p
<1>2. p.reservations[op] = r /\ (op \in DOMAIN p.leases <=> Open(r))
  BY <1>0 DEF With, Without
<1>3. Holding(p, b)[op] = IF Open(r) THEN r.reserved[b] ELSE 0
  BY <1>2 DEF Holding
<1>4. ASSUME NEW o \in Operations \ {op}
      PROVE  Holding(p, b)[o] = Holding(st, b)[o]
  <2>1. /\ o \in DOMAIN p.leases <=> o \in DOMAIN st.leases
        /\ o \in st.operations => p.reservations[o] = st.reservations[o]
    BY PutKeepsOthers DEF p
  <2> QED BY <1>1, <2>1 DEF Holding
<1>5. ASSUME NEW o \in Operations PROVE Holding(p, b)[o] \in Nat
  BY <1>1, <1>3, <1>4
<1>6. Holding(p, b) \in [Operations -> Nat]
  BY <1>5 DEF Holding
<1> QED
  BY <1>3, <1>4, <1>6 DEF p

(* Writing one record changes what is held by what it holds.               *)
LEMMA PutHeld ==
  ASSUME NEW st, Consistent(st), NEW op \in Operations, NEW r \in Record, NEW u, NEW s,
         NEW b \in Budgets
  PROVE  Held(Put(st, op, r, u, s), b) =
           Held(st, b) - Holding(st, b)[op] + (IF Open(r) THEN r.reserved[b] ELSE 0)
<1>1. Holding(st, b) \in [Operations -> Nat]
  BY HoldingType
<1>2. /\ Holding(Put(st, op, r, u, s), b)[op] = IF Open(r) THEN r.reserved[b] ELSE 0
      /\ \A o \in Operations \ {op} : Holding(Put(st, op, r, u, s), b)[o] = Holding(st, b)[o]
      /\ Holding(Put(st, op, r, u, s), b) \in [Operations -> Nat]
  BY PutHolding
<1>3. Total(Holding(Put(st, op, r, u, s), b)) =
        Total(Holding(st, b)) - Holding(st, b)[op] + Holding(Put(st, op, r, u, s), b)[op]
  BY <1>1, <1>2, ConstantTypes, TotalChange
<1> QED
  BY <1>2, <1>3 DEF Held

LEMMA HeldBounds ==
  ASSUME NEW st, Consistent(st), NEW op \in Operations, NEW b \in Budgets
  PROVE  Holding(st, b)[op] <= Held(st, b) /\ Holding(st, b)[op] \in Nat /\ Held(st, b) \in Nat
<1>1. Holding(st, b) \in [Operations -> Nat] /\ Held(st, b) \in Nat
  BY HoldingType
<1>2. Holding(st, b)[op] <= Total(Holding(st, b))
  BY <1>1, ConstantTypes, TotalBound
<1> QED
  BY <1>1, <1>2 DEF Held

(* Cleanup splits what is held into what remains, what it releases and     *)
(* what it charges.                                                        *)
LEMMA CleanedHeld ==
  ASSUME IndexesAgree, NEW er \in SUBSET DOMAIN leases, NEW eo \in SUBSET DOMAIN tombstones,
         NEW b \in Budgets
  PROVE  /\ Held(Before, b) =
              Held(Cleaned(er, eo), b) + (Units(Released(er))[b] + Units(Retained(er))[b])
         /\ Units(Released(er))[b] \in Nat /\ Units(Retained(er))[b] \in Nat
<1> DEFINE st == Cleaned(er, eo)
           part(S) == [op \in Operations |-> IF op \in S THEN reservations[op].reserved[b] ELSE 0]
<1>1. Consistent(st) /\ Consistent(Before)
  BY CleanedConsistent, AgreeIsConsistent
<1>2. IsCleaned(st, er, eo)
  BY CleanedIs
<1> HIDE DEF st
<1>3. /\ DOMAIN leases \subseteq operations
      /\ \A op \in DOMAIN leases : Open(reservations[op]) /\ op \in Operations
      /\ DOMAIN tombstones = operations \ DOMAIN leases
      /\ \A op \in DOMAIN leases : reservations[op].reserved[b] \in Nat
  BY RecordFields DEF IndexesAgree, RedisTypeOK, PartialFunction, Open
<1>4. \A S \in SUBSET DOMAIN leases : part(S) \in [Operations -> Nat]
  BY <1>3
<1>5. Released(er) \in SUBSET DOMAIN leases /\ Retained(er) \in SUBSET DOMAIN leases
  BY DEF Released, Retained
<1>6. /\ Units(Released(er))[b] = Total(part(Released(er)))
      /\ Units(Retained(er))[b] = Total(part(Retained(er)))
  BY DEF Units
<1>7. /\ Total(part(Released(er))) \in Nat /\ Total(part(Retained(er))) \in Nat
  BY <1>4, <1>5, ConstantTypes, TotalType
<1>8. Holding(Before, b) \in [Operations -> Nat] /\ Holding(st, b) \in [Operations -> Nat]
  BY <1>1, HoldingType
<1>9. ASSUME NEW op \in Operations
      PROVE  Holding(Before, b)[op] = IF op \in DOMAIN leases THEN reservations[op].reserved[b] ELSE 0
  BY DEF Holding, Before
<1>10. ASSUME NEW op \in Operations
       PROVE  Holding(st, b)[op] = IF op \in DOMAIN leases \ er THEN reservations[op].reserved[b] ELSE 0
  <2>1. DOMAIN st.leases = DOMAIN leases \ er
    BY <1>2 DEF IsCleaned, Without
  <2>2. ASSUME op \in DOMAIN leases \ er PROVE st.reservations[op] = reservations[op]
    <3>1. op \in st.operations /\ op \notin Retained(er)
      BY <1>1, <2>1, <2>2 DEF Consistent, Retained
    <3> QED BY <1>2, <3>1 DEF IsCleaned
  <2> QED BY <2>1, <2>2 DEF Holding
<1>11. Total(Holding(Before, b)) = Total(Holding(st, b)) + Total(part(er))
  <2>1. part(er) \in [Operations -> Nat]
    BY <1>4
  <2>2. ASSUME NEW op \in Operations
        PROVE  \/ Holding(st, b)[op] = Holding(Before, b)[op] /\ part(er)[op] = 0
               \/ part(er)[op] = Holding(Before, b)[op] /\ Holding(st, b)[op] = 0
    BY <1>9, <1>10
  <2> HIDE DEF part
  <2> QED BY <1>8, <2>1, <2>2, ConstantTypes, TotalSplit
<1>12. Total(part(er)) = Total(part(Released(er))) + Total(part(Retained(er)))
  <2>1. /\ part(er) \in [Operations -> Nat] /\ part(Released(er)) \in [Operations -> Nat]
        /\ part(Retained(er)) \in [Operations -> Nat]
    BY <1>4, <1>5
  <2>2. \A op \in er : op \in Released(er) \/ op \in Retained(er)
    BY <1>3 DEF Released, Retained, Open
  <2>3. /\ Released(er) \cap Retained(er) = {}
        /\ Released(er) \subseteq er /\ Retained(er) \subseteq er
    BY DEF Released, Retained
  <2>4. ASSUME NEW op \in Operations
        PROVE  \/ part(Released(er))[op] = part(er)[op] /\ part(Retained(er))[op] = 0
               \/ part(Retained(er))[op] = part(er)[op] /\ part(Released(er))[op] = 0
    BY <2>2, <2>3
  <2> HIDE DEF part
  <2> QED BY <2>1, <2>4, ConstantTypes, TotalSplit
<1> QED
  BY <1>6, <1>7, <1>11, <1>12 DEF Held, st

(* Cleanup keeps the counters exact: no counter is clamped at zero.        *)
LEMMA CleanedBalanced ==
  ASSUME IndexesAgree, Balanced(Before), Names(Before),
         NEW er \in SUBSET DOMAIN leases, NEW eo \in SUBSET DOMAIN tombstones
  PROVE  /\ Balanced(Cleaned(er, eo)) /\ Names(Cleaned(er, eo))
         /\ \A b \in Budgets : Cleaned(er, eo).used[b] <= used[b]
<1> DEFINE st == Cleaned(er, eo)
<1>1. Consistent(st) /\ Consistent(Before)
  BY CleanedConsistent, AgreeIsConsistent
<1>2. IsCleaned(st, er, eo)
  BY CleanedIs
<1>3. ASSUME NEW b \in Budgets
      PROVE  st.used[b] = Held(st, b) + st.spent[b] /\ st.used[b] <= used[b]
  <2>1. /\ Held(Before, b) = Held(st, b) + (Units(Released(er))[b] + Units(Retained(er))[b])
        /\ Units(Released(er))[b] \in Nat /\ Units(Retained(er))[b] \in Nat
    BY CleanedHeld
  <2>2. Held(st, b) \in Nat /\ Held(Before, b) \in Nat
    BY <1>1, HoldingType
  <2> HIDE DEF st
  <2>3. used[b] = Held(Before, b) + spent[b] /\ used[b] \in Nat /\ spent[b] \in Nat
    BY DEF Balanced, Before, IndexesAgree, RedisTypeOK
  <2>4. st.used[b] = ClampedSub(used[b], Units(Released(er))[b])
    BY <1>2 DEF IsCleaned, Minus
  <2>5. st.spent[b] = spent[b] + Units(Retained(er))[b]
    BY <1>2 DEF IsCleaned, Plus
  <2>6. st.used[b] = used[b] - Units(Released(er))[b]
    BY <2>1, <2>2, <2>3, <2>4 DEF ClampedSub
  <2> QED BY <2>1, <2>2, <2>3, <2>5, <2>6
<1>4. Names(st)
  <2> SUFFICES ASSUME NEW op \in DOMAIN st.leases
               PROVE  \A b \in Budgets \ st.reservations[op].budgetKeys :
                        st.reservations[op].reserved[b] = 0
    BY DEF Names
  <2> HIDE DEF st
  <2>1. op \in DOMAIN leases \ er /\ op \in st.operations
    BY <1>1, <1>2 DEF IsCleaned, Without, Consistent
  <2>2. op \notin Retained(er)
    BY <2>1 DEF Retained
  <2>3. st.reservations[op] = reservations[op]
    BY <1>2, <2>1, <2>2 DEF IsCleaned
  <2> QED BY <2>1, <2>3 DEF Names, Before
<1> QED
  BY <1>3, <1>4 DEF Balanced

(* Writing a record that names its budgets.                                *)
LEMMA PutNames ==
  ASSUME NEW st, Consistent(st), Names(st), NEW op \in Operations, NEW r \in Record,
         NEW u, NEW s,
         Open(r) => \A b \in Budgets \ r.budgetKeys : r.reserved[b] = 0
  PROVE  Names(Put(st, op, r, u, s))
<1> DEFINE p == Put(st, op, r, u, s)
<1> SUFFICES ASSUME NEW o \in DOMAIN p.leases
             PROVE  \A b \in Budgets \ p.reservations[o].budgetKeys : p.reservations[o].reserved[b] = 0
  BY DEF Names
<1>0. /\ p.reservations = With(st.reservations, op, r)
      /\ p.leases = IF Open(r) THEN With(st.leases, op, r.expiresAt) ELSE Without(st.leases, {op})
  BY DEF Put
<1>1. DOMAIN st.leases \subseteq st.operations /\ DOMAIN st.leases \subseteq Operations
  BY DEF Consistent, PartialFunction
<1>2. CASE o = op
  <2>1. p.reservations[op] = r /\ Open(r)
    BY <1>0, <1>2 DEF With, Without
  <2> HIDE DEF p
  <2> QED BY <1>2, <2>1
<1>3. CASE o # op
  <2>0. o \in DOMAIN st.leases
    BY <1>0, <1>3 DEF With, Without
  <2>1. p.reservations[o] = st.reservations[o]
    BY <1>1, <1>3, <2>0, PutKeepsOthers
  <2> HIDE DEF p
  <2> QED BY <2>0, <2>1 DEF Names
<1> QED
  BY <1>2, <1>3

(* Admission, and every request on an active reservation, keeps them       *)
(* exact.                                                                  *)
LEMMA AdmitsBalanced ==
  ASSUME IndexesAgree, Balanced(Before), Names(Before),
         NEW er \in SUBSET DueLeases, NEW eo \in SUBSET DueTombstones,
         NEW op \in Operations, NEW charge \in Charges, NEW lim \in Limits, NEW ttl \in Ttls,
         Admits(er, eo, op, charge, lim, ttl)
  PROVE  LET st == Cleaned(er, eo)
             put == Put(st, op, Pending(charge, clock + ttl), Plus(st.used, charge.units), st.spent)
         IN  Balanced(put) /\ Names(put)
<1> DEFINE st == Cleaned(er, eo)
           r == Pending(charge, clock + ttl)
           u == Plus(st.used, charge.units)
           put == Put(st, op, r, u, st.spent)
<1>1. er \in SUBSET DOMAIN leases /\ eo \in SUBSET DOMAIN tombstones
  BY DEF DueLeases, DueTombstones
<1>2. Consistent(st) /\ Balanced(st) /\ Names(st)
  BY <1>1, CleanedConsistent, CleanedBalanced
<1>3. op \notin st.operations
  BY DEF Admits
<1>4. clock + ttl \in Nat
  BY ConstantTypes DEF IndexesAgree, RedisTypeOK
<1>5. r \in Record /\ r.state = "pending" /\ r.reserved = charge.units /\ r.budgetKeys = charge.keys
  BY <1>4, PendingRecord
<1>6. charge.units \in [Budgets -> Nat] /\ \A b \in Budgets \ charge.keys : charge.units[b] = 0
  BY ChargeTypes
<1> HIDE DEF st, r
<1>7. Open(r)
  BY <1>5 DEF Open
<1>8. ASSUME NEW b \in Budgets
      PROVE  put.used[b] = Held(put, b) + put.spent[b]
  <2>1. Held(put, b) = Held(st, b) - Holding(st, b)[op] + r.reserved[b]
    BY <1>2, <1>5, <1>7, PutHeld
  <2>2. Holding(st, b)[op] = 0
    BY <1>2, <1>3 DEF Holding, Consistent
  <2>3. Held(st, b) \in Nat /\ charge.units[b] \in Nat /\ st.used[b] \in Nat /\ st.spent[b] \in Nat
    BY <1>2, <1>6, HoldingType DEF Consistent
  <2>4. put.used[b] = st.used[b] + charge.units[b] /\ put.spent[b] = st.spent[b]
    BY DEF Put, Plus
  <2>5. st.used[b] = Held(st, b) + st.spent[b]
    BY <1>2 DEF Balanced
  <2> HIDE DEF put
  <2> QED BY <1>5, <2>1, <2>2, <2>3, <2>4, <2>5
<1>9. Names(put)
  BY <1>2, <1>5, <1>6, PutNames
<1>10. Balanced(put)
  BY <1>8 DEF Balanced
<1> QED
  BY <1>9, <1>10 DEF st, r

LEMMA ChangesBalanced ==
  ASSUME IndexesAgree, Balanced(Before), Names(Before),
         NEW op \in Operations, NEW r \in Record, NEW u \in [Budgets -> Nat],
         NEW s \in [Budgets -> Nat], Changes(op, r, u, s)
  PROVE  Balanced(Put(Before, op, r, u, s)) /\ Names(Put(Before, op, r, u, s))
<1> DEFINE q == reservations[op]
           put == Put(Before, op, r, u, s)
<1>1. /\ op \in DOMAIN leases /\ q.expiresAt > clock
      /\ Relabels(q, r, u, s) \/ Grows(q, r, u, s) \/ Settles(q, r, u, s)
  BY DEF Changes
<1>2. /\ op \in operations /\ q \in Record /\ Open(q)
      /\ used \in [Budgets -> Nat] /\ spent \in [Budgets -> Nat]
  BY <1>1 DEF IndexesAgree, RedisTypeOK, PartialFunction, Open
<1>3. Consistent(Before) /\ Before.used = used /\ Before.spent = spent
  BY AgreeIsConsistent DEF Before
<1>4. \A b \in Budgets \ q.budgetKeys : q.reserved[b] = 0
  BY <1>1 DEF Names, Before
<1>5. /\ q.reserved \in [Budgets -> Nat] /\ r.reserved \in [Budgets -> Nat]
      /\ r.actual \in [Budgets -> Nat]
  BY <1>2, RecordFields
<1>6. ASSUME NEW b \in Budgets
      PROVE  /\ Holding(Before, b)[op] = q.reserved[b]
             /\ used[b] = Held(Before, b) + spent[b] /\ q.reserved[b] <= Held(Before, b)
             /\ Held(Before, b) \in Nat
  <2>1. Holding(Before, b)[op] = q.reserved[b]
    BY <1>1 DEF Holding, Before
  <2> QED BY <1>3, <2>1, HeldBounds DEF Balanced
<1>7. ASSUME NEW b \in Budgets
      PROVE  /\ Held(put, b) = Held(Before, b) - q.reserved[b] + (IF Open(r) THEN r.reserved[b] ELSE 0)
             /\ put.used[b] = u[b] /\ put.spent[b] = s[b]
  <2>1. put.used[b] = u[b] /\ put.spent[b] = s[b]
    BY DEF Put
  <2> QED BY <1>3, <1>6, <2>1, PutHeld
<1> HIDE DEF q
<1>8. CASE Relabels(q, r, u, s)
  <2>1. Open(r) /\ r.reserved = q.reserved /\ r.budgetKeys = q.budgetKeys /\ u = used /\ s = spent
    BY <1>8 DEF Relabels
  <2>2. Names(put)
    BY <1>3, <1>4, <2>1, PutNames
  <2>3. ASSUME NEW b \in Budgets PROVE put.used[b] = Held(put, b) + put.spent[b]
    <3>1. q.reserved[b] \in Nat /\ spent[b] \in Nat
      BY <1>2, <1>5
    <3> HIDE DEF put
    <3> QED BY <1>6, <1>7, <2>1, <3>1
  <2> QED BY <2>2, <2>3 DEF Balanced
<1>9. CASE Grows(q, r, u, s)
  <2>1. PICK add \in Growths :
          /\ add.keys = q.budgetKeys /\ r.state = q.state
          /\ r.reserved = Plus(q.reserved, add.units) /\ r.budgetKeys = q.budgetKeys
          /\ u = Plus(used, add.units) /\ s = spent
    BY <1>9 DEF Grows
  <2>2. add.units \in [Budgets -> Nat] /\ \A b \in Budgets \ add.keys : add.units[b] = 0
    BY ChargeTypes
  <2>3. Open(r)
    BY <1>2, <2>1 DEF Open
  <2>4. \A b \in Budgets : r.reserved[b] = q.reserved[b] + add.units[b] /\ u[b] = used[b] + add.units[b]
    BY <2>1 DEF Plus
  <2>5. Names(put)
    <3>1. \A b \in Budgets \ r.budgetKeys : r.reserved[b] = 0
      BY <1>4, <2>1, <2>2, <2>4
    <3> QED BY <1>3, <3>1, PutNames
  <2>6. ASSUME NEW b \in Budgets PROVE put.used[b] = Held(put, b) + put.spent[b]
    <3>1. q.reserved[b] \in Nat /\ spent[b] \in Nat /\ add.units[b] \in Nat
      BY <1>2, <1>5, <2>2
    <3> HIDE DEF put
    <3> QED BY <1>6, <1>7, <2>1, <2>3, <2>4, <3>1
  <2> QED BY <2>5, <2>6 DEF Balanced
<1>10. CASE Settles(q, r, u, s)
  <2>1. PICK actual \in Actuals, outcome \in Outcomes :
          /\ \A b \in Budgets : actual[b] <= q.reserved[b]
          /\ r = Settled(q, actual, outcome)
          /\ u = Minus(used, Minus(q.reserved, actual)) /\ s = Plus(spent, actual)
    BY <1>10 DEF Settles
  <2>2. actual \in [Budgets -> Nat]
    BY ConstantTypes
  <2>3. r.state = "settled"
    BY <1>2, <2>1, <2>2, SettledFields
  <2>4. ~Open(r)
    BY <2>3 DEF Open
  <2>5. Names(put)
    BY <1>3, <2>4, PutNames
  <2>6. ASSUME NEW b \in Budgets PROVE put.used[b] = Held(put, b) + put.spent[b]
    <3>1. q.reserved[b] \in Nat /\ spent[b] \in Nat /\ actual[b] \in Nat /\ used[b] \in Nat
      BY <1>2, <1>5, <2>2
    <3>2. s[b] = spent[b] + actual[b]
      BY <2>1 DEF Plus
    <3>3. u[b] = ClampedSub(used[b], ClampedSub(q.reserved[b], actual[b]))
      BY <2>1 DEF Minus
    <3>4. u[b] = used[b] - (q.reserved[b] - actual[b])
      BY <1>6, <2>1, <3>1, <3>3 DEF ClampedSub
    <3> HIDE DEF put
    <3> QED BY <1>6, <1>7, <2>4, <3>1, <3>2, <3>4
  <2> QED BY <2>5, <2>6 DEF Balanced
<1> QED
  BY <1>1, <1>8, <1>9, <1>10

(* Nothing is held of a budget that no open reservation refers to.         *)
LEMMA UnreferencedHeld ==
  ASSUME IndexesAgree, Names(Before), NEW b \in Budgets, ~Referenced(b)
  PROVE  Held(Before, b) = 0
<1>1. Consistent(Before) /\ Before.leases = leases /\ Before.reservations = reservations
  BY AgreeIsConsistent DEF Before
<1>2. Holding(Before, b) \in [Operations -> Nat]
  BY <1>1, HoldingType
<1>3. ASSUME NEW op \in Operations
      PROVE  Holding(Before, b)[op] = 0
  <2>1. CASE op \in DOMAIN leases
    <3>1. b \notin reservations[op].budgetKeys
      BY <2>1 DEF IndexesAgree, Referenced
    <3> QED BY <1>1, <2>1, <3>1 DEF Holding, Names
  <2>2. CASE op \notin DOMAIN leases
    BY <1>1, <2>2 DEF Holding
  <2> QED BY <2>1, <2>2
<1> QED
  BY <1>2, <1>3, TotalZero DEF Held

(* Exact counters and named budgets, in the next state.                    *)
LEMMA BecomeBalanced ==
  ASSUME NEW st, Become(st), Balanced(st), Names(st)
  PROVE  Balanced(Before)' /\ Names(Before)'
<1>1. /\ Before'.used = st.used /\ Before'.leases = st.leases
      /\ Before'.reservations = st.reservations /\ Before'.spent = st.spent
  BY DEF Become, Before
<1>2. \A b \in Budgets : Holding(Before', b) = Holding(st, b)
  BY <1>1 DEF Holding
<1>3. \A b \in Budgets : Held(Before', b) = Held(st, b)
  BY <1>2 DEF Held
<1> QED
  BY <1>1, <1>3 DEF Balanced, Names

LEMMA InitBalanced == Init => Balanced(Before) /\ Names(Before)
<1> SUFFICES ASSUME Init PROVE Balanced(Before) /\ Names(Before)
  OBVIOUS
<1>1. DOMAIN Before.leases = {} /\ Before.used = NoUnits /\ Before.spent = NoUnits
  BY DEF Init, Before
<1>2. ASSUME NEW b \in Budgets PROVE Held(Before, b) = 0
  <2>1. Holding(Before, b) \in [Operations -> Nat] /\ \A op \in Operations : Holding(Before, b)[op] = 0
    BY <1>1 DEF Holding
  <2> QED BY <2>1, TotalZero DEF Held
<1> QED
  BY <1>1, <1>2 DEF Balanced, Names, NoUnits

(* Every step keeps the counters exact.                                    *)
LEMMA StepBalanced ==
  IndexesAgree /\ Balanced(Before) /\ Names(Before) /\ [Next]_vars =>
    Balanced(Before)' /\ Names(Before)'
<1> SUFFICES ASSUME IndexesAgree, Balanced(Before), Names(Before), [Next]_vars
             PROVE  Balanced(Before)' /\ Names(Before)'
  OBVIOUS
<1>1. clock' \in Nat /\ (Step \/ UNCHANGED <<storeVars, spent>>)
  BY StepShape
<1>2. CASE Cleans
  <2>1. PICK er \in SUBSET DueLeases, eo \in SUBSET DueTombstones : Become(Cleaned(er, eo))
    BY <1>2 DEF Cleans
  <2>2. er \in SUBSET DOMAIN leases /\ eo \in SUBSET DOMAIN tombstones
    BY DEF DueLeases, DueTombstones
  <2>3. Balanced(Cleaned(er, eo)) /\ Names(Cleaned(er, eo))
    BY <2>2, CleanedBalanced
  <2> QED BY <2>1, <2>3, BecomeBalanced
<1>3. ASSUME NEW er \in SUBSET DueLeases, NEW eo \in SUBSET DueTombstones, NEW op \in Operations,
             NEW charge \in Charges, NEW lim \in Limits, NEW ttl \in Ttls,
             Admits(er, eo, op, charge, lim, ttl)
      PROVE  Balanced(Before)' /\ Names(Before)'
  <2> DEFINE st == Cleaned(er, eo)
             put == Put(st, op, Pending(charge, clock + ttl), Plus(st.used, charge.units), st.spent)
  <2>1. Balanced(put) /\ Names(put)
    BY <1>3, AdmitsBalanced
  <2>2. Become(put)
    BY <1>3 DEF Admits
  <2> HIDE DEF put
  <2> QED BY <2>1, <2>2, BecomeBalanced
<1>4. ASSUME NEW op \in Operations, NEW r \in Record, NEW u \in [Budgets -> Nat],
             NEW s \in [Budgets -> Nat], Changes(op, r, u, s)
      PROVE  Balanced(Before)' /\ Names(Before)'
  <2>1. Balanced(Put(Before, op, r, u, s)) /\ Names(Put(Before, op, r, u, s))
    BY <1>4, ChangesBalanced
  <2>2. Become(Put(Before, op, r, u, s))
    BY <1>4 DEF Changes
  <2> QED BY <2>1, <2>2, BecomeBalanced
<1>5. ASSUME NEW candidates \in SUBSET Budgets, RetireHistoricalBudgets(candidates)
      PROVE  Balanced(Before)' /\ Names(Before)'
  <2>1. /\ \A b \in candidates : ~Referenced(b)
        /\ used' = [b \in Budgets |-> IF b \in candidates THEN 0 ELSE used[b]]
        /\ spent' = [b \in Budgets |-> IF b \in candidates THEN 0 ELSE spent[b]]
        /\ leases' = leases /\ reservations' = reservations
    BY <1>5 DEF RetireHistoricalBudgets
  <2>2. /\ Before'.used = used' /\ Before'.spent = spent' /\ Before'.leases = Before.leases
        /\ Before'.reservations = Before.reservations
        /\ Before.used = used /\ Before.spent = spent
    BY <2>1 DEF Before
  <2>3. \A b \in Budgets : Holding(Before', b) = Holding(Before, b)
    BY <2>2 DEF Holding
  <2>4. ASSUME NEW b \in Budgets PROVE used'[b] = Held(Before', b) + spent'[b]
    <3>1. Held(Before', b) = Held(Before, b)
      BY <2>3 DEF Held
    <3>2. CASE b \in candidates
      <4>1. Held(Before, b) = 0
        BY <2>1, <3>2, UnreferencedHeld
      <4>2. used'[b] = 0 /\ spent'[b] = 0
        BY <2>1, <3>2
      <4> QED BY <3>1, <4>1, <4>2
    <3>3. CASE b \notin candidates
      BY <2>1, <2>2, <3>1, <3>3 DEF Balanced
    <3> QED BY <3>2, <3>3
  <2> QED BY <2>2, <2>4 DEF Balanced, Names
<1>6. CASE UNCHANGED <<storeVars, spent>>
  <2>1. Become(Before)
    BY <1>6 DEF Become, Before, storeVars
  <2> QED BY <2>1, BecomeBalanced
<1> QED
  BY <1>1, <1>2, <1>3, <1>4, <1>5, <1>6 DEF Step

(* Every budget counter is exactly what open reservations hold of it and   *)
(* what was charged since it was last retired.                             *)
CountersExact == Balanced(Before) /\ Names(Before)

(* Every budget counter stays exactly what the open reservations hold of   *)
(* it and what was finally charged since the budget was retired: HINCRBY   *)
(* and subtractUsed, whose clamp at zero never takes effect, never drift   *)
(* from the records.                                                       *)
THEOREM CountersStayExact == Spec => [](IndexesAgree /\ CountersExact)
<1>1. Init => IndexesAgree /\ CountersExact
  BY InitAgrees, InitBalanced DEF CountersExact
<1>2. IndexesAgree /\ CountersExact /\ [Next]_vars => (IndexesAgree /\ CountersExact)'
  BY StepAgrees, StepBalanced DEF CountersExact
<1> QED
  BY <1>1, <1>2, PTL DEF Spec

-----------------------------------------------------------------------------
(* The scripts implement the ledger.                                       *)

EntryOf(rs, op) ==
  IF op \in DOMAIN rs
    THEN [state |-> rs[op].state, reserved |-> rs[op].reserved, actual |-> rs[op].actual]
    ELSE [state |-> "absent", reserved |-> NoUnits, actual |-> NoUnits]

(* The ledger's entries, before and after a step.                          *)
Entries == [op \in Operations |-> EntryOf(reservations, op)]
EntriesNext == [op \in Operations |-> EntryOf(reservations', op)]

(* What a step that leaves the store st charges of a budget.               *)
ChargedIn(st, b) ==
  [op \in Operations |->
    IF op \in DOMAIN leases /\ op \in st.operations \ DOMAIN st.leases
      THEN st.reservations[op].actual[b] ELSE 0]

(* The ledger's totals, open entries and charges are the store's.          *)
LEMMA LedgerTotal ==
  ASSUME NEW f
  PROVE  Ledger!Total(f) = Total(f)
BY DEF Ledger!Total, Ledger!UnitsOf, Ledger!Cardinality, Total, UnitsOf, Cardinality

LEMMA EntryOpen ==
  ASSUME NEW st, Consistent(st), NEW op \in Operations
  PROVE  /\ Ledger!Open(EntryOf(st.reservations, op)) <=> op \in DOMAIN st.leases
         /\ EntryOf(st.reservations, op).state = "settled" <=> op \in st.operations \ DOMAIN st.leases
         /\ EntryOf(st.reservations, op).state = "absent" <=> op \notin st.operations
         /\ op \in st.operations =>
              /\ EntryOf(st.reservations, op).state = st.reservations[op].state
              /\ EntryOf(st.reservations, op).reserved = st.reservations[op].reserved
              /\ EntryOf(st.reservations, op).actual = st.reservations[op].actual
<1>1. /\ st.operations = DOMAIN st.reservations
      /\ op \in DOMAIN st.leases <=> op \in st.operations /\ Open(st.reservations[op])
      /\ op \in st.operations => st.reservations[op].state \in {"pending", "liable", "settled"}
  BY RecordFields DEF Consistent, PartialFunction
<1> QED
  BY <1>1 DEF EntryOf, Ledger!Open, Open

LEMMA LedgerHeld ==
  ASSUME NEW st, Consistent(st), reservations' = st.reservations, NEW b \in Budgets
  PROVE  Ledger!HeldBy(EntriesNext, b) = Held(st, b)
<1> DEFINE held == [op \in Operations |->
             IF Ledger!Open(EntriesNext[op]) THEN EntriesNext[op].reserved[b] ELSE 0]
<1>1. Ledger!HeldBy(EntriesNext, b) = Total(held)
  BY LedgerTotal DEF Ledger!HeldBy
<1>2. ASSUME NEW op \in Operations PROVE held[op] = Holding(st, b)[op]
  <2>1. EntriesNext[op] = EntryOf(st.reservations, op)
    BY DEF EntriesNext
  <2>2. DOMAIN st.leases \subseteq st.operations
    BY DEF Consistent
  <2> QED BY <2>1, <2>2, EntryOpen DEF Holding
<1>3. held = Holding(st, b)
  BY <1>2 DEF Holding
<1> QED
  BY <1>1, <1>3 DEF Held

LEMMA LedgerCharged ==
  ASSUME IndexesAgree, NEW st, Consistent(st), reservations' = st.reservations, NEW b \in Budgets
  PROVE  Ledger!Charged(b) = Total(ChargedIn(st, b))
<1> DEFINE charged == [op \in Operations |->
             IF Ledger!Open(Entries[op]) /\ EntriesNext[op].state = "settled"
               THEN EntriesNext[op].actual[b] ELSE 0]
<1>1. Ledger!Charged(b) = Total(charged)
  BY LedgerTotal DEF Ledger!Charged, Entries, EntriesNext, EntryOf
<1>2. ASSUME NEW op \in Operations PROVE charged[op] = ChargedIn(st, b)[op]
  <2>1. EntriesNext[op] = EntryOf(st.reservations, op)
    BY DEF EntriesNext
  <2>2. Consistent(Before) /\ Before.reservations = reservations /\ Before.leases = leases
    BY AgreeIsConsistent DEF Before
  <2>3. Ledger!Open(Entries[op]) <=> op \in DOMAIN leases
    BY <2>2, EntryOpen DEF Entries
  <2>4. /\ EntriesNext[op].state = "settled" <=> op \in st.operations \ DOMAIN st.leases
        /\ op \in st.operations => EntriesNext[op].actual = st.reservations[op].actual
    BY <2>1, EntryOpen
  <2> QED BY <2>3, <2>4 DEF ChargedIn
<1>3. charged = ChargedIn(st, b)
  BY <1>2 DEF ChargedIn
<1> QED
  BY <1>1, <1>3

LEMMA ChargedType ==
  ASSUME NEW st, Consistent(st), NEW b \in Budgets
  PROVE  ChargedIn(st, b) \in [Operations -> Nat]
<1>1. ASSUME NEW op \in Operations, op \in st.operations
      PROVE  st.reservations[op].actual[b] \in Nat
  BY <1>1, RecordFields DEF Consistent, PartialFunction
<1> QED
  BY <1>1 DEF ChargedIn

(* An operation that a step is not about expires or stays as it is.        *)
LEMMA LapseExpires ==
  ASSUME IndexesAgree, NEW st, Consistent(st), NEW op \in Operations, Lapses(st, op)
  PROVE  Ledger!Expires(EntryOf(reservations, op), EntryOf(st.reservations, op))
<1>0. /\ Consistent(Before) /\ Before.reservations = reservations /\ Before.leases = leases
      /\ Before.operations = operations /\ DOMAIN leases \subseteq operations
      /\ operations = DOMAIN reservations /\ st.operations = DOMAIN st.reservations
  BY AgreeIsConsistent DEF Before, IndexesAgree, Consistent
<1>1. /\ op \in operations => EntryOf(reservations, op).state = reservations[op].state
      /\ EntryOf(reservations, op).state = "settled" <=> op \in operations \ DOMAIN leases
      /\ op \in operations => EntryOf(reservations, op).reserved = reservations[op].reserved
  BY <1>0, EntryOpen
<1>2. op \notin st.operations => EntryOf(st.reservations, op).state = "absent"
  BY EntryOpen
<1>3. CASE IsKept(st, op)
  <2>1. EntryOf(st.reservations, op) = EntryOf(reservations, op)
    BY <1>0, <1>3 DEF IsKept, EntryOf
  <2> QED BY <2>1 DEF Ledger!Expires
<1>4. CASE IsReleased(st, op)
  BY <1>0, <1>1, <1>2, <1>4 DEF IsReleased, Ledger!Expires
<1>5. CASE IsRetained(st, op)
  <2>1. /\ op \in operations /\ reservations[op].state = "liable"
        /\ op \in st.operations /\ st.reservations[op] = RetainLiable(reservations[op])
    BY <1>0, <1>5 DEF IsRetained
  <2>2. reservations[op] \in Record
    BY <2>1 DEF IndexesAgree, RedisTypeOK, PartialFunction
  <2>3. reservations[op].reserved \in [Budgets -> Nat]
    BY <2>2, RecordFields
  <2>4. st.reservations[op].state = "settled" /\ st.reservations[op].actual = reservations[op].reserved
    BY <2>1, <2>2, <2>3, SettledFields DEF RetainLiable
  <2>5. /\ EntryOf(st.reservations, op).state = "settled"
        /\ EntryOf(st.reservations, op).actual = reservations[op].reserved
    BY <2>1, <2>4, EntryOpen
  <2> QED BY <1>1, <2>1, <2>5 DEF Ledger!Expires
<1>6. CASE IsForgotten(st, op)
  BY <1>0, <1>1, <1>2, <1>6 DEF IsForgotten, Ledger!Expires
<1> QED
  BY <1>3, <1>4, <1>5, <1>6 DEF Lapses

(* Cleanup charges exactly the liable leases that it retains.              *)
LEMMA CleanedCharges ==
  ASSUME IndexesAgree, NEW er \in SUBSET DueLeases, NEW eo \in SUBSET DueTombstones,
         NEW b \in Budgets
  PROVE  Total(ChargedIn(Cleaned(er, eo), b)) = Units(Retained(er))[b]
<1> DEFINE st == Cleaned(er, eo)
           part == [op \in Operations |-> IF op \in Retained(er) THEN reservations[op].reserved[b] ELSE 0]
<1>0. er \in SUBSET DOMAIN leases /\ eo \in SUBSET DOMAIN tombstones
  BY DEF DueLeases, DueTombstones
<1>1. Consistent(st) /\ IsCleaned(st, er, eo)
  BY <1>0, CleanedConsistent, CleanedIs
<1> HIDE DEF st
<1>2. /\ DOMAIN leases \subseteq operations /\ DOMAIN tombstones = operations \ DOMAIN leases
      /\ DOMAIN st.leases = DOMAIN leases \ er
      /\ \A op \in DOMAIN leases : reservations[op] \in Record /\ Open(reservations[op])
  BY <1>1 DEF IndexesAgree, RedisTypeOK, PartialFunction, IsCleaned, Without, Open
<1>3. ASSUME NEW op \in Operations
      PROVE  ChargedIn(st, b)[op] = part[op]
  <2>1. CASE op \in Retained(er)
    <3>1. op \in er /\ op \in DOMAIN leases /\ op \notin Released(er) /\ op \notin eo
      BY <1>0, <1>2, <2>1 DEF Released, Retained
    <3>2. op \in st.operations /\ st.reservations[op] = RetainLiable(reservations[op])
      BY <1>1, <1>2, <2>1, <3>1 DEF IsCleaned
    <3>3. reservations[op].reserved \in [Budgets -> Nat]
      BY <1>2, <3>1, RecordFields
    <3>4. st.reservations[op].actual = reservations[op].reserved
      BY <1>2, <3>1, <3>2, <3>3, SettledFields DEF RetainLiable
    <3> QED BY <1>2, <2>1, <3>1, <3>2, <3>4 DEF ChargedIn
  <2>2. CASE op \notin Retained(er)
    <3>1. ~(op \in DOMAIN leases /\ op \in st.operations \ DOMAIN st.leases)
      BY <1>1, <1>2, <2>2 DEF IsCleaned, Released, Retained, Open
    <3> QED BY <2>2, <3>1 DEF ChargedIn
  <2> QED BY <2>1, <2>2
<1>4. ChargedIn(st, b) = part
  BY <1>3 DEF ChargedIn
<1>5. Units(Retained(er))[b] = Total(part)
  BY DEF Units
<1> QED
  BY <1>4, <1>5 DEF st

(* The books of the ledger after a step that leaves the store st.          *)
LEMMA LedgerBooks ==
  ASSUME NEW st, Consistent(st), Balanced(st), Become(st)
  PROVE  used' = [b \in Budgets |-> Ledger!HeldBy(EntriesNext, b) + spent'[b]]
<1>1. ASSUME NEW b \in Budgets
      PROVE  used'[b] = Ledger!HeldBy(EntriesNext, b) + spent'[b]
  BY LedgerHeld DEF Balanced, Become
<1>2. used' \in [Budgets -> Nat]
  BY DEF Become, Consistent
<1> QED
  BY <1>1, <1>2

(* Cleanup alone is a ledger step that retires nothing.                    *)
LEMMA CleansLedger ==
  ASSUME IndexesAgree, Balanced(Before), Names(Before), Cleans
  PROVE  Ledger!Retire({})
<1>1. PICK er \in SUBSET DueLeases, eo \in SUBSET DueTombstones : Become(Cleaned(er, eo))
  BY DEF Cleans
<1>2. er \in SUBSET DOMAIN leases /\ eo \in SUBSET DOMAIN tombstones
  BY DEF DueLeases, DueTombstones
<1> DEFINE st == Cleaned(er, eo)
<1>3. Consistent(st) /\ Balanced(st) /\ IsCleaned(st, er, eo)
  BY <1>2, CleanedConsistent, CleanedBalanced, CleanedIs
<1>4. \A op \in Operations : Lapses(st, op)
  BY CleanedLapses
<1>5. \A b \in Budgets : Total(ChargedIn(st, b)) = Units(Retained(er))[b]
  BY CleanedCharges
<1> HIDE DEF st
<1>6. Become(st)
  BY <1>1 DEF st
<1>7. reservations' = st.reservations /\ spent' = st.spent
  BY <1>6 DEF Become
<1>8. \A op \in Operations : Ledger!Expires(Entries[op], EntriesNext[op])
  BY <1>3, <1>4, <1>7, LapseExpires DEF Entries, EntriesNext
<1>9. spent' = [b \in Budgets |-> IF b \in {} THEN 0 ELSE spent[b] + Ledger!Charged(b)]
  <2>1. \A b \in Budgets : Ledger!Charged(b) = Units(Retained(er))[b]
    BY <1>3, <1>5, <1>7, LedgerCharged
  <2>2. spent' = Plus(spent, Units(Retained(er)))
    BY <1>3, <1>7 DEF IsCleaned
  <2> QED BY <2>1, <2>2 DEF Plus
<1>10. used' = [b \in Budgets |-> Ledger!HeldBy(EntriesNext, b) + spent'[b]]
  BY <1>3, <1>6, LedgerBooks
<1> QED
  BY <1>8, <1>9, <1>10 DEF Ledger!Retire, Entries, EntriesNext, EntryOf

(* Admission within what a limit leaves stays within the limit.            *)
LEMMA QuoteKept ==
  ASSUME NEW c \in Charges \cup Growths, NEW lim \in Limits, NEW u \in [Budgets -> Nat],
         WithinLimits(c, lim, u), NEW b \in Budgets
  PROVE  Plus(u, c.units)[b] <= u[b] \/ Plus(u, c.units)[b] <= lim[b]
<1>1. /\ c.units \in [Budgets -> Nat] /\ lim \in [Budgets -> Nat]
      /\ \A d \in Budgets \ c.keys : c.units[d] = 0
  BY ChargeTypes, ConstantTypes
<1>2. c.units[b] \in Nat /\ lim[b] \in Nat /\ u[b] \in Nat
  BY <1>1
<1>3. Plus(u, c.units)[b] = u[b] + c.units[b]
  BY DEF Plus
<1>4. CASE b \in c.keys
  <2>1. c.units[b] <= ClampedSub(lim[b], u[b])
    BY <1>4 DEF WithinLimits
  <2> QED BY <1>2, <1>3, <2>1 DEF ClampedSub
<1>5. CASE b \notin c.keys
  BY <1>1, <1>2, <1>3, <1>5
<1> QED
  BY <1>4, <1>5

(* Cleanup and admission together are one ledger call, as is a request on  *)
(* an active reservation.                                                  *)
LEMMA AdmitsLedger ==
  ASSUME IndexesAgree, Balanced(Before), Names(Before),
         NEW er \in SUBSET DueLeases, NEW eo \in SUBSET DueTombstones,
         NEW op \in Operations, NEW charge \in Charges, NEW lim \in Limits, NEW ttl \in Ttls,
         Admits(er, eo, op, charge, lim, ttl)
  PROVE  Ledger!Call
<1> DEFINE st == Cleaned(er, eo)
           r == Pending(charge, clock + ttl)
           u == Plus(st.used, charge.units)
           put == Put(st, op, r, u, st.spent)
<1>1. er \in SUBSET DOMAIN leases /\ eo \in SUBSET DOMAIN tombstones
  BY DEF DueLeases, DueTombstones
<1>2. /\ Consistent(st) /\ IsCleaned(st, er, eo)
      /\ \A b \in Budgets : st.used[b] <= used[b]
  BY <1>1, CleanedConsistent, CleanedIs, CleanedBalanced
<1>3. \A o \in Operations : Lapses(st, o)
  BY CleanedLapses
<1>4. \A b \in Budgets : Total(ChargedIn(st, b)) = Units(Retained(er))[b]
  BY CleanedCharges
<1>5. Consistent(put)
  BY AdmitsConsistent
<1>6. Balanced(put)
  BY AdmitsBalanced
<1>7. op \notin st.operations /\ WithinLimits(charge, lim, st.used) /\ Become(put)
  BY DEF Admits
<1>8. clock + ttl \in Nat
  BY ConstantTypes DEF IndexesAgree, RedisTypeOK
<1>9. r \in Record /\ r.state = "pending"
  BY <1>8, PendingRecord
<1> HIDE DEF st, r
<1>10. Open(r)
  BY <1>9 DEF Open
<1>11. /\ put.reservations = With(st.reservations, op, r) /\ put.operations = st.operations \cup {op}
       /\ put.used = u /\ put.spent = st.spent
       /\ put.leases = With(st.leases, op, r.expiresAt)
  BY <1>10 DEF Put
<1>12. \A o \in Operations \ {op} :
         /\ o \in put.operations <=> o \in st.operations
         /\ o \in DOMAIN put.leases <=> o \in DOMAIN st.leases
         /\ o \in st.operations => put.reservations[o] = st.reservations[o]
  BY <1>2, PutKeepsOthers
<1>13. put.reservations[op] = r /\ op \in put.operations /\ op \in DOMAIN put.leases
  BY <1>11 DEF With
<1> HIDE DEF put
<1>14. reservations' = put.reservations /\ used' = put.used /\ spent' = put.spent
  BY <1>7 DEF Become
<1>15. ASSUME NEW o \in Operations \ {op}
       PROVE  Ledger!Expires(Entries[o], EntriesNext[o])
  <2>1. EntriesNext[o] = EntryOf(put.reservations, o)
    BY <1>14 DEF EntriesNext
  <2>2. EntryOf(put.reservations, o) = EntryOf(st.reservations, o)
    BY <1>2, <1>5, <1>12 DEF EntryOf, Consistent
  <2>3. Ledger!Expires(EntryOf(reservations, o), EntryOf(st.reservations, o))
    BY <1>2, <1>3, LapseExpires
  <2> QED BY <2>1, <2>2, <2>3 DEF Entries
<1>16. Ledger!Changes(Entries[op], EntriesNext[op])
  <2>1. EntriesNext[op].state = "pending"
    <3>1. EntriesNext[op] = EntryOf(put.reservations, op)
      BY <1>14 DEF EntriesNext
    <3> QED BY <1>5, <1>9, <1>13, <3>1, EntryOpen
  <2>2. ~Ledger!Open(Entries[op]) \/ Entries[op].state = "pending"
    <3>1. /\ Consistent(Before) /\ Before.reservations = reservations /\ Before.leases = leases
          /\ Before.operations = operations /\ DOMAIN leases \subseteq operations
      BY AgreeIsConsistent DEF Before, IndexesAgree
    <3>2. Entries[op] = EntryOf(reservations, op)
      BY DEF Entries
    <3>3. /\ Ledger!Open(Entries[op]) <=> op \in DOMAIN leases
          /\ op \in operations => Entries[op].state = reservations[op].state
      BY <3>1, <3>2, EntryOpen
    <3>4. op \notin DOMAIN leases \/ reservations[op].state = "pending"
      BY <1>3, <1>7, <3>1 DEF Lapses, IsKept, IsReleased, IsRetained, IsForgotten
    <3> QED BY <3>1, <3>3, <3>4
  <2> QED BY <2>1, <2>2 DEF Ledger!Changes
<1>17. spent' = [b \in Budgets |-> spent[b] + Ledger!Charged(b)]
  <2>1. ASSUME NEW b \in Budgets PROVE Ledger!Charged(b) = Units(Retained(er))[b]
    <3>1. ASSUME NEW o \in Operations PROVE ChargedIn(put, b)[o] = ChargedIn(st, b)[o]
      <4>1. CASE o = op
        BY <1>7, <1>13, <4>1 DEF ChargedIn
      <4>2. CASE o # op
        BY <1>12, <4>2 DEF ChargedIn
      <4> QED BY <4>1, <4>2
    <3>2. ChargedIn(put, b) = ChargedIn(st, b)
      BY <3>1 DEF ChargedIn
    <3>3. Ledger!Charged(b) = Total(ChargedIn(put, b))
      BY <1>5, <1>14, LedgerCharged
    <3> QED BY <1>4, <3>2, <3>3
  <2>2. spent' = Plus(spent, Units(Retained(er)))
    BY <1>2, <1>11, <1>14 DEF IsCleaned
  <2> QED BY <2>1, <2>2 DEF Plus
<1>18. used' = [b \in Budgets |-> Ledger!HeldBy(EntriesNext, b) + spent'[b]]
  BY <1>5, <1>6, <1>7, LedgerBooks
<1>19. Ledger!WithinQuote
  <2>1. ASSUME NEW b \in Budgets PROVE used'[b] > used[b] => used'[b] <= lim[b]
    <3>1. st.used \in [Budgets -> Nat]
      BY <1>2 DEF Consistent
    <3>2. used'[b] <= st.used[b] \/ used'[b] <= lim[b]
      BY <1>7, <1>11, <1>14, <3>1, QuoteKept
    <3>3. used'[b] \in Nat /\ used[b] \in Nat /\ st.used[b] \in Nat
      BY <1>5, <1>14, <3>1 DEF Consistent, IndexesAgree, RedisTypeOK
    <3> QED BY <1>2, <3>2, <3>3
  <2> QED BY <2>1 DEF Ledger!WithinQuote
<1> QED
  BY <1>15, <1>16, <1>17, <1>18, <1>19 DEF Ledger!Call, Entries, EntriesNext, EntryOf

LEMMA ChangesLedger ==
  ASSUME IndexesAgree, Balanced(Before), Names(Before),
         NEW op \in Operations, NEW r \in Record, NEW u \in [Budgets -> Nat],
         NEW s \in [Budgets -> Nat], Changes(op, r, u, s)
  PROVE  Ledger!Call
<1> DEFINE q == reservations[op]
           put == Put(Before, op, r, u, s)
<1>1. /\ op \in DOMAIN leases /\ q.expiresAt > clock /\ Become(put)
      /\ Relabels(q, r, u, s) \/ Grows(q, r, u, s) \/ Settles(q, r, u, s)
  BY DEF Changes
<1>2. /\ op \in operations /\ q \in Record /\ Open(q) /\ DOMAIN leases \subseteq operations
      /\ used \in [Budgets -> Nat] /\ spent \in [Budgets -> Nat]
  BY <1>1 DEF IndexesAgree, RedisTypeOK, PartialFunction, Open
<1>3. /\ Consistent(Before) /\ Before.used = used /\ Before.spent = spent
      /\ Before.leases = leases /\ Before.reservations = reservations
      /\ Before.operations = operations
  BY AgreeIsConsistent DEF Before
<1>4. Consistent(put)
  BY <1>1, <1>3, PutConsistent DEF IndexesAgree, RedisTypeOK
<1>5. Balanced(put)
  BY ChangesBalanced
<1>6. /\ put.reservations[op] = r /\ op \in put.operations /\ put.used = u /\ put.spent = s
      /\ op \in DOMAIN put.leases <=> Open(r)
  BY DEF Put, With, Without
<1>7. \A o \in Operations \ {op} :
         /\ o \in put.operations <=> o \in operations
         /\ o \in DOMAIN put.leases <=> o \in DOMAIN leases
         /\ o \in operations => put.reservations[o] = reservations[o]
  BY <1>3, PutKeepsOthers
<1> HIDE DEF put
<1>8. reservations' = put.reservations /\ used' = put.used /\ spent' = put.spent
  BY <1>1 DEF Become
<1>9. ASSUME NEW o \in Operations \ {op}
      PROVE  Ledger!Expires(Entries[o], EntriesNext[o])
  <2>1. EntriesNext[o] = Entries[o]
    BY <1>3, <1>4, <1>7, <1>8 DEF Entries, EntriesNext, EntryOf, Consistent
  <2> QED BY <2>1 DEF Ledger!Expires
<1>10. /\ Entries[op].state = q.state /\ Entries[op].reserved = q.reserved
       /\ Ledger!Open(Entries[op])
  <2>1. Entries[op] = EntryOf(Before.reservations, op)
    BY <1>3 DEF Entries
  <2> QED BY <1>1, <1>2, <1>3, <2>1, EntryOpen
<1>11. /\ EntriesNext[op].state = r.state /\ EntriesNext[op].reserved = r.reserved
       /\ EntriesNext[op].actual = r.actual
  <2>1. EntriesNext[op] = EntryOf(put.reservations, op)
    BY <1>8 DEF EntriesNext
  <2> QED BY <1>4, <1>6, <2>1, EntryOpen
<1>12. /\ q.state \in {"pending", "liable"} /\ q.reserved \in [Budgets -> Nat]
       /\ \A b \in Budgets : q.reserved[b] \in Nat
  BY <1>2, RecordFields DEF Open
<1>13. ASSUME NEW b \in Budgets
       PROVE  /\ Total(ChargedIn(put, b)) = IF Open(r) THEN 0 ELSE r.actual[b]
              /\ ChargedIn(put, b) \in [Operations -> Nat]
  <2> DEFINE none == [o \in Operations |-> 0]
  <2>1. ChargedIn(put, b)[op] = IF Open(r) THEN 0 ELSE r.actual[b]
    BY <1>1, <1>6 DEF ChargedIn
  <2>2. \A o \in Operations \ {op} : ChargedIn(put, b)[o] = 0
    BY <1>2, <1>7 DEF ChargedIn
  <2>3. ChargedIn(put, b) \in [Operations -> Nat]
    BY <1>4, ChargedType
  <2>4. /\ none \in [Operations -> Nat] /\ none[op] = 0
        /\ \A o \in Operations : none[o] = 0
        /\ \A o \in Operations \ {op} : ChargedIn(put, b)[o] = none[o]
    BY <2>2
  <2> HIDE DEF none
  <2>5. Total(none) = 0
    BY <2>4, TotalZero
  <2>6. Total(ChargedIn(put, b)) = Total(none) - none[op] + ChargedIn(put, b)[op]
    BY <2>3, <2>4, ConstantTypes, TotalChange
  <2>7. ChargedIn(put, b)[op] \in Nat
    BY <2>3
  <2> QED BY <2>1, <2>3, <2>4, <2>5, <2>6, <2>7
<1>14. ASSUME NEW b \in Budgets
       PROVE  Ledger!Charged(b) = IF Open(r) THEN 0 ELSE r.actual[b]
  BY <1>4, <1>8, <1>13, LedgerCharged
<1>15. used' = [b \in Budgets |-> Ledger!HeldBy(EntriesNext, b) + spent'[b]]
  BY <1>1, <1>4, <1>5, LedgerBooks
<1>16. \A b \in Budgets : used[b] \in Nat /\ spent[b] \in Nat
  BY <1>2
<1> HIDE DEF q
<1>17. CASE Relabels(q, r, u, s)
  <2>1. /\ Open(r) /\ r.state \in {q.state, "liable"} /\ r.reserved = q.reserved
        /\ used' = used /\ spent' = spent
    BY <1>6, <1>8, <1>17 DEF Relabels
  <2>2. Ledger!Changes(Entries[op], EntriesNext[op])
    BY <1>10, <1>11, <1>12, <2>1 DEF Ledger!Changes
  <2>3. spent' = [b \in Budgets |-> spent[b] + Ledger!Charged(b)]
    BY <1>2, <1>14, <1>16, <2>1
  <2>4. Ledger!WithinQuote
    BY <1>16, <2>1 DEF Ledger!WithinQuote
  <2> QED BY <1>9, <1>15, <2>2, <2>3, <2>4 DEF Ledger!Call, Entries, EntriesNext, EntryOf
<1>18. CASE Grows(q, r, u, s)
  <2>1. PICK add \in Growths, lim \in Limits :
          /\ WithinLimits(add, lim, used) /\ add.keys = q.budgetKeys
          /\ r.state = q.state /\ r.reserved = Plus(q.reserved, add.units)
          /\ u = Plus(used, add.units) /\ s = spent
    BY <1>18 DEF Grows
  <2>2. add.units \in [Budgets -> Nat]
    BY ChargeTypes
  <2>3. Open(r)
    BY <1>12, <2>1 DEF Open
  <2>4. ASSUME NEW b \in Budgets PROVE r.reserved[b] >= q.reserved[b]
    <3>1. r.reserved[b] = q.reserved[b] + add.units[b]
      BY <2>1 DEF Plus
    <3> QED BY <1>12, <2>2, <3>1
  <2>5. Ledger!Changes(Entries[op], EntriesNext[op])
    BY <1>10, <1>11, <1>12, <2>1, <2>4 DEF Ledger!Changes
  <2>6. spent' = [b \in Budgets |-> spent[b] + Ledger!Charged(b)]
    BY <1>2, <1>6, <1>8, <1>14, <1>16, <2>1, <2>3
  <2>7. Ledger!WithinQuote
    <3>1. ASSUME NEW b \in Budgets PROVE used'[b] > used[b] => used'[b] <= lim[b]
      <4>1. used'[b] <= used[b] \/ used'[b] <= lim[b]
        BY <1>2, <1>6, <1>8, <2>1, QuoteKept
      <4>2. used'[b] \in Nat
        BY <1>6, <1>8
      <4> QED BY <1>16, <4>1, <4>2
    <3> QED BY <3>1 DEF Ledger!WithinQuote
  <2> QED BY <1>9, <1>15, <2>5, <2>6, <2>7 DEF Ledger!Call, Entries, EntriesNext, EntryOf
<1>19. CASE Settles(q, r, u, s)
  <2>1. PICK actual \in Actuals, outcome \in Outcomes :
          /\ \A b \in Budgets : actual[b] <= q.reserved[b]
          /\ r = Settled(q, actual, outcome)
          /\ u = Minus(used, Minus(q.reserved, actual)) /\ s = Plus(spent, actual)
    BY <1>19 DEF Settles
  <2>2. actual \in [Budgets -> Nat]
    BY ConstantTypes
  <2>3. r.state = "settled" /\ r.actual = actual /\ r.reserved = q.reserved
    BY <1>2, <2>1, <2>2, SettledFields DEF q
  <2>4. ~Open(r)
    BY <2>3 DEF Open
  <2>5. Ledger!Changes(Entries[op], EntriesNext[op])
    BY <1>10, <1>11, <2>1, <2>3 DEF Ledger!Changes
  <2>6. spent' = [b \in Budgets |-> spent[b] + Ledger!Charged(b)]
    <3>1. spent' = Plus(spent, actual)
      BY <1>6, <1>8, <2>1
    <3>2. \A b \in Budgets : Ledger!Charged(b) = actual[b]
      BY <1>14, <2>3, <2>4
    <3> QED BY <3>1, <3>2 DEF Plus
  <2>7. Ledger!WithinQuote
    <3>1. ASSUME NEW b \in Budgets PROVE used'[b] <= used[b]
      <4>1. used'[b] = ClampedSub(used[b], ClampedSub(q.reserved[b], actual[b]))
        BY <1>6, <1>8, <2>1 DEF Minus
      <4>2. actual[b] \in Nat
        BY <2>2
      <4> QED BY <1>12, <1>16, <4>1, <4>2 DEF ClampedSub
    <3> QED BY <3>1 DEF Ledger!WithinQuote
  <2> QED BY <1>9, <1>15, <2>5, <2>6, <2>7 DEF Ledger!Call, Entries, EntriesNext, EntryOf
<1> QED
  BY <1>1, <1>17, <1>18, <1>19

(* Retiring budgets retires them in the ledger.                            *)
LEMMA RetiresLedger ==
  ASSUME IndexesAgree, Balanced(Before), Names(Before), Balanced(Before)',
         NEW candidates \in SUBSET Budgets, RetireHistoricalBudgets(candidates)
  PROVE  Ledger!Retire(candidates)
<1>1. /\ \A b \in candidates : ~Referenced(b)
      /\ used' = [b \in Budgets |-> IF b \in candidates THEN 0 ELSE used[b]]
      /\ spent' = [b \in Budgets |-> IF b \in candidates THEN 0 ELSE spent[b]]
      /\ leases' = leases /\ reservations' = reservations
  BY DEF RetireHistoricalBudgets
<1>2. Consistent(Before) /\ Before.reservations = reservations /\ Before.leases = leases
      /\ Before.operations = operations /\ Before.used = used /\ Before.spent = spent
      /\ DOMAIN leases = {op \in operations : Open(reservations[op])}
  BY AgreeIsConsistent DEF Before, IndexesAgree, Open
<1>3. \A op \in Operations : EntriesNext[op] = Entries[op]
  BY <1>1 DEF Entries, EntriesNext
<1>4. \A op \in Operations : Ledger!Expires(Entries[op], EntriesNext[op])
  BY <1>3 DEF Ledger!Expires
<1>5. ASSUME NEW b \in Budgets
      PROVE  Ledger!Charged(b) = 0
  <2>1. Ledger!Charged(b) = Total(ChargedIn(Before, b))
    BY <1>1, <1>2, LedgerCharged
  <2>2. ChargedIn(Before, b) \in [Operations -> Nat]
    BY <1>2, ChargedType
  <2>3. \A op \in Operations : ChargedIn(Before, b)[op] = 0
    BY <1>2 DEF ChargedIn
  <2> QED BY <2>1, <2>2, <2>3, TotalZero
<1>6. ASSUME NEW b \in Budgets
      PROVE  /\ Ledger!HeldBy(EntriesNext, b) = Held(Before, b)
             /\ used[b] = Held(Before, b) + spent[b] /\ spent[b] \in Nat /\ Held(Before, b) \in Nat
             /\ b \in candidates => Held(Before, b) = 0
  <2>1. Ledger!HeldBy(EntriesNext, b) = Held(Before, b)
    BY <1>1, <1>2, LedgerHeld
  <2>2. spent[b] \in Nat /\ Held(Before, b) \in Nat
    BY <1>2, HoldingType DEF Consistent
  <2> QED BY <1>1, <1>2, <2>1, <2>2, UnreferencedHeld DEF Balanced
<1>7. used' = [b \in Budgets |-> Ledger!HeldBy(EntriesNext, b) + spent'[b]]
  <2>1. ASSUME NEW b \in Budgets PROVE used'[b] = Ledger!HeldBy(EntriesNext, b) + spent'[b]
    BY <1>1, <1>6
  <2> QED BY <1>1, <2>1
<1>8. spent' = [b \in Budgets |-> IF b \in candidates THEN 0 ELSE spent[b] + Ledger!Charged(b)]
  <2>1. ASSUME NEW b \in Budgets
        PROVE  spent'[b] = IF b \in candidates THEN 0 ELSE spent[b] + Ledger!Charged(b)
    BY <1>1, <1>5, <1>6
  <2> QED BY <1>1, <2>1
<1>9. \A b \in candidates : Ledger!HeldBy(EntriesNext, b) = 0
  BY <1>6
<1> QED
  BY <1>4, <1>7, <1>8, <1>9 DEF Ledger!Retire, Entries, EntriesNext, EntryOf

(* Every step is a ledger step or none.                                    *)
LEMMA LedgerStep ==
  ASSUME IndexesAgree, CountersExact, CountersExact', [Next]_vars
  PROVE  [Ledger!LedgerNext]_(Ledger!ledgerVars)
<1>0. Balanced(Before) /\ Names(Before) /\ Balanced(Before)'
  BY DEF CountersExact
<1>1. CASE UNCHANGED <<storeVars, spent>>
  BY <1>1 DEF storeVars, Ledger!ledgerVars
<1>2. CASE Cleans
  <2>1. Ledger!Retire({})
    BY <1>0, <1>2, CleansLedger
  <2> QED BY <2>1 DEF Ledger!LedgerNext
<1>3. ASSUME NEW er \in SUBSET DueLeases, NEW eo \in SUBSET DueTombstones, NEW op \in Operations,
             NEW charge \in Charges, NEW lim \in Limits, NEW ttl \in Ttls,
             Admits(er, eo, op, charge, lim, ttl)
      PROVE  Ledger!LedgerNext
  BY <1>0, <1>3, AdmitsLedger DEF Ledger!LedgerNext
<1>4. ASSUME NEW op \in Operations, NEW r \in Record, NEW u \in [Budgets -> Nat],
             NEW s \in [Budgets -> Nat], Changes(op, r, u, s)
      PROVE  Ledger!LedgerNext
  BY <1>0, <1>4, ChangesLedger DEF Ledger!LedgerNext
<1>5. ASSUME NEW candidates \in SUBSET Budgets, RetireHistoricalBudgets(candidates)
      PROVE  Ledger!LedgerNext
  BY <1>0, <1>5, RetiresLedger DEF Ledger!LedgerNext
<1> QED
  BY <1>1, <1>2, <1>3, <1>4, <1>5, StepShape DEF Step

(* The scripts implement the ledger: lazy and bounded cleanup, expiry by   *)
(* the script that meets it, and retirement of whole budgets are each one  *)
(* exact ledger step or none.                                              *)
THEOREM ScriptsImplementLedger == Spec => ImplementsLedger
<1>1. Init => IndexesAgree /\ CountersExact
  BY InitAgrees, InitBalanced DEF CountersExact
<1>2. IndexesAgree /\ CountersExact /\ [Next]_vars => (IndexesAgree /\ CountersExact)'
  BY StepAgrees, StepBalanced DEF CountersExact
<1>3. IndexesAgree /\ CountersExact /\ (IndexesAgree /\ CountersExact)' /\ [Next]_vars =>
        [Ledger!LedgerNext]_(Ledger!ledgerVars)
  BY LedgerStep
<1>4. Init => Ledger!LedgerInit
  BY DEF Init, Ledger!LedgerInit, NoUnits
<1> QED
  BY <1>1, <1>2, <1>3, <1>4, PTL DEF Spec, ImplementsLedger, Ledger!LedgerSpec
=============================================================================
