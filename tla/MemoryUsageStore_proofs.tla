----------------------- MODULE MemoryUsageStore_proofs -----------------------
(***************************************************************************)
(* Theorems about the process-local store, for all operations, budgets,    *)
(* charges, limits and lifetimes.                                          *)
(*                                                                         *)
(* Every method is recovery followed by at most one change to one          *)
(* operation, so each invariant is proved in two stages: that what         *)
(* recovery leaves satisfies it (the Recovered... lemmas), and that the    *)
(* change a method makes to that preserves it.  The last part shows that   *)
(* recovery may be taken for one step: the loop of RecoveryObserver        *)
(* implements it.                                                          *)
(***************************************************************************)
EXTENDS RecoveryObserver, UsageUnits_proofs, WellFoundedInduction

LEMMA ConstantTypes ==
  /\ IsFiniteSet(Operations)
  /\ IdempotencyTtl \in Nat /\ MaxClock \in Nat
BY ConstantsAssumption
-----------------------------------------------------------------------------
(* Operators.                                                              *)

LEMMA PlusType ==
  ASSUME NEW u \in [Budgets -> Nat], NEW v \in [Budgets -> Nat]
  PROVE  Plus(u, v) \in [Budgets -> Nat]
BY DEF Plus

LEMMA MinusType ==
  ASSUME NEW u \in [Budgets -> Nat], NEW v \in [Budgets -> Nat]
  PROVE  Minus(u, v) \in [Budgets -> Nat]
BY DEF Minus, ClampedSub

LEMMA NoReservationType == NoReservation \in Reservation
BY DEF NoReservation, NoUnits, Reservation

LEMMA DeadlineType ==
  ASSUME NEW r \in Reservation
  PROVE  Deadline(r) \in Nat
BY DEF Deadline, Reservation

(* A non-empty set of naturals has a least element.                        *)
LEMMA MinNat ==
  ASSUME NEW S, S \subseteq Nat, S # {}
  PROVE  Min(S) \in S /\ \A n \in S : Min(S) <= n
<1> DEFINE R == {p \in Nat \X Nat : p[1] < p[2]}
<1>1. IsWellFoundedOn(R, Nat)
  BY NatLessThanWellFounded, Zenon DEF OpToRel
<1>2. \A m, n \in Nat : <<n, m>> \in R <=> n < m
  OBVIOUS
<1> HIDE DEF R
<1>3. PICK m \in S : \A n \in S : ~ (<<n, m>> \in R)
  BY <1>1, WFMin
<1>4. ASSUME NEW n \in S PROVE m <= n
  <2>1. m \in Nat /\ n \in Nat
    OBVIOUS
  <2>2. ~ (n < m)
    BY <1>2, <1>3, <2>1
  <2> QED BY <2>1, <2>2
<1> QED
  BY <1>4 DEF Min

(* The earliest deadline of a set of reservations is earlier than none.    *)
LEMMA EarliestDeadlineIsLeast ==
  ASSUME NEW rs \in [Operations -> Reservation]
  PROVE  /\ EarliestDeadline(rs) \in Nat \cup {Infinity}
         /\ \A op \in Operations : Retained(rs[op]) =>
              /\ EarliestDeadline(rs) # Infinity
              /\ EarliestDeadline(rs) <= Deadline(rs[op])
<1> DEFINE S == {Deadline(rs[op]) : op \in {o \in Operations : Retained(rs[o])}}
<1>1. S \subseteq Nat
  BY DeadlineType
<1>2. EarliestDeadline(rs) = IF S = {} THEN Infinity ELSE Min(S)
  BY DEF EarliestDeadline
<1>3. \A op \in Operations : Retained(rs[op]) => Deadline(rs[op]) \in S
  OBVIOUS
<1> HIDE DEF S
<1>4. CASE S = {}
  BY <1>2, <1>3, <1>4
<1>5. CASE S # {}
  <2>1. Min(S) \in S /\ \A n \in S : Min(S) <= n
    BY <1>1, <1>5, MinNat
  <2>2. EarliestDeadline(rs) = Min(S) /\ Min(S) \in Nat
    BY <1>1, <1>2, <1>5, <2>1
  <2>3. Min(S) # Infinity
    BY <2>2 DEF Infinity
  <2> QED BY <1>3, <2>1, <2>2, <2>3
<1> QED
  BY <1>4, <1>5

LEMMA TrackType ==
  ASSUME NEW at \in Nat \cup {Infinity}, NEW deadline \in Nat
  PROVE  TrackRecoveryAt(at, deadline) \in Nat \cup {Infinity}
BY DEF TrackRecoveryAt
-----------------------------------------------------------------------------
(* What recovery leaves is well typed.                                     *)

LEMMA SettlementType ==
  ASSUME NEW r \in Reservation, clock \in Nat,
         NEW actual \in [Budgets -> Nat], NEW outcome \in Outcomes \cup {LeaseExpired}
  PROVE  Settlement(r, actual, outcome) \in Reservation
<1>1. clock + IdempotencyTtl \in Nat
  BY ConstantTypes
<1> QED
  BY <1>1 DEF Settlement, Reservation

LEMMA RetainType ==
  ASSUME NEW r \in Reservation, clock \in Nat
  PROVE  Retain(r) \in Reservation
<1>1. r.reserved \in [Budgets -> Nat]
  BY DEF Reservation
<1> QED
  BY <1>1, SettlementType DEF Retain

LEMMA ExpiredUnitsType ==
  ASSUME TypeOK, NEW states, NEW b \in Budgets
  PROVE  ExpiredUnits(states, b) \in Nat
<1> DEFINE f == [op \in Operations |->
                  IF Expired(op, states) THEN reservations[op].reserved[b] ELSE 0]
<1>1. f \in [Operations -> Nat]
  <2>1. \A op \in Operations : reservations[op].reserved[b] \in Nat
    BY DEF TypeOK, Reservation
  <2> QED BY <2>1
<1> HIDE DEF f
<1>2. Total(f) \in Nat
  BY <1>1, ConstantTypes, TotalType
<1> QED
  BY <1>2 DEF f, ExpiredUnits

LEMMA RecoveredType ==
  ASSUME TypeOK
  PROVE  /\ Recovered \in [Operations -> Reservation]
         /\ RecoveredUsed \in [Budgets -> Nat]
         /\ RecoveredNext \in Nat \cup {Infinity}
         /\ RecoveredSpent \in [Budgets -> Nat]
<1>1. Recovered \in [Operations -> Reservation]
  <2>1. ASSUME NEW op \in Operations
        PROVE  /\ reservations[op] \in Reservation
               /\ Retain(reservations[op]) \in Reservation
    BY RetainType DEF TypeOK
  <2> QED BY <2>1, NoReservationType DEF Recovered
<1>2. RecoveredUsed \in [Budgets -> Nat]
  <2>1. ASSUME NEW b \in Budgets
        PROVE  ClampedSub(used[b], ExpiredUnits({"pending"}, b)) \in Nat
    <3>1. used[b] \in Nat /\ ExpiredUnits({"pending"}, b) \in Nat
      BY ExpiredUnitsType DEF TypeOK
    <3> QED BY <3>1 DEF ClampedSub
  <2> QED BY <2>1 DEF RecoveredUsed
<1>3. RecoveredNext \in Nat \cup {Infinity}
  BY <1>1, EarliestDeadlineIsLeast DEF RecoveredNext, TypeOK
<1>4. RecoveredSpent \in [Budgets -> Nat]
  <2>1. ASSUME NEW b \in Budgets
        PROVE  spent[b] + ExpiredUnits({"liable"}, b) \in Nat
    <3>1. spent[b] \in Nat /\ ExpiredUnits({"liable"}, b) \in Nat
      BY ExpiredUnitsType DEF TypeOK
    <3> QED BY <3>1
  <2> QED BY <2>1 DEF RecoveredSpent
<1> QED
  BY <1>1, <1>2, <1>3, <1>4
-----------------------------------------------------------------------------
(* The reservations that the methods leave are well typed.                 *)

LEMMA PendingType ==
  ASSUME NEW mode \in Modes, NEW c \in Charge, NEW at \in Nat, NEW cursor \in Nat
  PROVE  Pending(mode, c, at, cursor) \in Reservation
<1>1. c.keys \in SUBSET Budgets /\ c.units \in [Budgets -> Nat]
  BY DEF Charge
<1>2. ASSUME NEW keys \in SUBSET Budgets, NEW units \in [Budgets -> Nat],
             NEW r \in Reservation
      PROVE  [r EXCEPT !.mode = mode, !.state = "pending", !.budgetKeys = keys,
                       !.reserved = units, !.expiresAt = at, !.growthCursor = cursor]
               \in Reservation
  BY DEF Reservation
<1> QED
  BY <1>1, <1>2, NoReservationType DEF Pending

LEMMA DecidedType ==
  ASSUME TypeOK, NEW op \in Operations, NEW r \in Reservation, NEW inc \in Increments,
         NEW c \in Charge, NEW lim \in [Budgets -> Nat], NEW accepted \in BOOLEAN
  PROVE  Decided(r, op, inc, c, lim, accepted) \in Reservation
<1> DEFINE reserved == IF accepted THEN Plus(r.reserved, c.units) ELSE r.reserved
           quoted   == [b \in Budgets |-> IF b \in c.keys THEN lim[b] ELSE 0]
           last     == [incrementId |-> inc, expectedGrowthCursor |-> r.growthCursor,
                        additional |-> c, limits |-> quoted, accepted |-> accepted,
                        growthCursor |-> issued[op] + 1, reserved |-> reserved]
<1>1. r.reserved \in [Budgets -> Nat] /\ r.growthCursor \in Nat
  BY DEF Reservation
<1>2. c.units \in [Budgets -> Nat]
  BY DEF Charge
<1>3. reserved \in [Budgets -> Nat]
  BY <1>1, <1>2, PlusType
<1>4. quoted \in [Budgets -> Nat]
  OBVIOUS
<1>5. issued[op] + 1 \in Nat
  BY DEF TypeOK
<1>6. Decided(r, op, inc, c, lim, accepted) =
        [r EXCEPT !.reserved = reserved, !.growthCursor = issued[op] + 1,
                  !.lastGrowth = {last}]
  BY DEF Decided, GrowthResult
<1> HIDE DEF reserved, quoted
<1>7. last \in Growth
  BY <1>1, <1>3, <1>4, <1>5 DEF Growth
<1> HIDE DEF last
<1>8. ASSUME NEW units \in [Budgets -> Nat], NEW cursor \in Nat, NEW g \in Growth
      PROVE  [r EXCEPT !.reserved = units, !.growthCursor = cursor, !.lastGrowth = {g}]
               \in Reservation
  BY DEF Reservation
<1>9. [r EXCEPT !.reserved = reserved, !.growthCursor = issued[op] + 1,
                !.lastGrowth = {last}] \in Reservation
  BY <1>3, <1>5, <1>7, <1>8, Zenon
<1> QED
  BY <1>6, <1>9
-----------------------------------------------------------------------------
(* Type correctness.                                                       *)

(* Replacing one reservation after recovery keeps the type.                *)
LEMMA ReplaceType ==
  ASSUME TypeOK, NEW op \in Operations, NEW r \in Reservation
  PROVE  [Recovered EXCEPT ![op] = r] \in [Operations -> Reservation]
BY RecoveredType

LEMMA RecoverOnlyType ==
  ASSUME TypeOK, RecoverOnly
  PROVE  TypeOK'
BY RecoveredType DEF TypeOK, RecoverOnly

LEMMA AdmitType ==
  ASSUME TypeOK, NEW op \in Operations, NEW mode \in Modes, NEW c \in Charges,
         NEW lim \in Limits, NEW ttl \in Ttls, Admit(op, mode, c, lim, ttl)
  PROVE  TypeOK'
<1>1. CASE RecoverOnly
  BY <1>1, RecoverOnlyType
<1>2. CASE ~RecoverOnly
  <2> DEFINE r == Pending(mode, c, clock + ttl, issued[op] + 1)
  <2>1. /\ reservations' = [Recovered EXCEPT ![op] = r]
        /\ used' = Plus(RecoveredUsed, c.units)
        /\ issued' = [issued EXCEPT ![op] = @ + 1]
        /\ nextRecoveryAt' = TrackRecoveryAt(RecoveredNext, clock + ttl)
        /\ spent' = RecoveredSpent
        /\ clock' = clock
    BY <1>2 DEF Admit
  <2>2. c \in Charge
    BY ConstantsAssumption
  <2>3. c.units \in [Budgets -> Nat]
    BY <2>2 DEF Charge
  <2>4. issued[op] + 1 \in Nat
    BY DEF TypeOK
  <2>5. clock + ttl \in Nat
    <3>1. ttl \in Nat
      BY ConstantsAssumption
    <3> QED BY <3>1 DEF TypeOK
  <2>6. r \in Reservation
    BY <2>2, <2>4, <2>5, PendingType
  <2> HIDE DEF r
  <2>7. reservations' \in [Operations -> Reservation]
    BY <2>1, <2>6, ReplaceType
  <2>8. used' \in [Budgets -> Nat]
    BY <2>1, <2>3, RecoveredType, PlusType
  <2>9. nextRecoveryAt' \in Nat \cup {Infinity}
    BY <2>1, <2>5, RecoveredType, TrackType
  <2>10. issued' \in [Operations -> Nat]
    BY <2>1, <2>4 DEF TypeOK
  <2>11. spent' \in [Budgets -> Nat] /\ clock' \in Nat
    BY <2>1, RecoveredType DEF TypeOK
  <2> QED BY <2>7, <2>8, <2>9, <2>10, <2>11 DEF TypeOK
<1> QED
  BY <1>1, <1>2

LEMMA MarkLiableType ==
  ASSUME TypeOK, NEW op \in Operations, MarkLiable(op)
  PROVE  TypeOK'
<1>1. CASE RecoverOnly
  BY <1>1, RecoverOnlyType
<1>2. CASE ~RecoverOnly
  <2> DEFINE r == [Recovered[op] EXCEPT !.state = "liable"]
  <2>1. /\ reservations' = [Recovered EXCEPT ![op] = r]
        /\ used' = RecoveredUsed
        /\ nextRecoveryAt' = RecoveredNext
        /\ spent' = RecoveredSpent
        /\ issued' = issued /\ clock' = clock
    BY <1>2 DEF MarkLiable
  <2>2. r \in Reservation
    <3>1. Recovered[op] \in Reservation
      BY RecoveredType
    <3> QED BY <3>1 DEF Reservation
  <2> HIDE DEF r
  <2>3. reservations' \in [Operations -> Reservation]
    BY <2>1, <2>2, ReplaceType
  <2> QED BY <2>1, <2>3, RecoveredType DEF TypeOK
<1> QED
  BY <1>1, <1>2

LEMMA RenewType ==
  ASSUME TypeOK, NEW op \in Operations, NEW ttl \in Ttls, Renew(op, ttl)
  PROVE  TypeOK'
<1>1. CASE RecoverOnly
  BY <1>1, RecoverOnlyType
<1>2. CASE ~RecoverOnly
  <2> DEFINE r == [Recovered[op] EXCEPT !.expiresAt = clock + ttl]
  <2>1. /\ reservations' = [Recovered EXCEPT ![op] = r]
        /\ used' = RecoveredUsed
        /\ nextRecoveryAt' = TrackRecoveryAt(RecoveredNext, clock + ttl)
        /\ spent' = RecoveredSpent
        /\ issued' = issued /\ clock' = clock
    BY <1>2 DEF Renew
  <2>2. clock + ttl \in Nat
    <3>1. ttl \in Nat
      BY ConstantsAssumption
    <3> QED BY <3>1 DEF TypeOK
  <2>3. r \in Reservation
    <3>1. Recovered[op] \in Reservation
      BY RecoveredType
    <3> QED BY <3>1, <2>2 DEF Reservation
  <2> HIDE DEF r
  <2>4. reservations' \in [Operations -> Reservation]
    BY <2>1, <2>3, ReplaceType
  <2>5. nextRecoveryAt' \in Nat \cup {Infinity}
    BY <2>1, <2>2, RecoveredType, TrackType
  <2> QED BY <2>1, <2>4, <2>5, RecoveredType DEF TypeOK
<1> QED
  BY <1>1, <1>2

LEMMA GrowType ==
  ASSUME TypeOK, NEW op \in Operations, NEW mode, NEW inc \in Increments,
         NEW cursor, NEW add \in Growths, NEW lim \in Limits,
         Grow(op, mode, inc, cursor, add, lim)
  PROVE  TypeOK'
<1>1. CASE RecoverOnly
  BY <1>1, RecoverOnlyType
<1>2. CASE ~RecoverOnly
  <2>1. PICK accepted \in BOOLEAN :
          /\ reservations' =
               [Recovered EXCEPT ![op] = Decided(Recovered[op], op, inc, add, lim, accepted)]
          /\ used' \in {RecoveredUsed, Plus(RecoveredUsed, add.units)}
          /\ issued' = [issued EXCEPT ![op] = @ + 1]
          /\ nextRecoveryAt' = RecoveredNext
          /\ spent' = RecoveredSpent
          /\ clock' = clock
    BY <1>2 DEF Grow
  <2>2. add \in Charge /\ lim \in [Budgets -> Nat]
    BY ConstantsAssumption
  <2>3. add.units \in [Budgets -> Nat]
    BY <2>2 DEF Charge
  <2>4. Recovered[op] \in Reservation
    BY RecoveredType
  <2>5. Decided(Recovered[op], op, inc, add, lim, accepted) \in Reservation
    BY <2>2, <2>4, DecidedType
  <2>6. reservations' \in [Operations -> Reservation]
    BY <2>1, <2>5, ReplaceType
  <2>7. used' \in [Budgets -> Nat]
    BY <2>1, <2>3, RecoveredType, PlusType
  <2>8. issued' \in [Operations -> Nat]
    BY <2>1 DEF TypeOK
  <2> QED BY <2>1, <2>6, <2>7, <2>8, RecoveredType DEF TypeOK
<1> QED
  BY <1>1, <1>2

LEMMA SettleAsType ==
  ASSUME TypeOK, NEW op \in Operations, NEW mode, NEW actual \in Actuals,
         NEW outcome \in Outcomes, SettleAs(op, mode, actual, outcome)
  PROVE  TypeOK'
<1>1. CASE RecoverOnly
  BY <1>1, RecoverOnlyType
<1>2. CASE ~RecoverOnly
  <2>1. /\ reservations' =
             [Recovered EXCEPT ![op] = Settlement(Recovered[op], actual, outcome)]
        /\ used' = Minus(RecoveredUsed, Minus(Recovered[op].reserved, actual))
        /\ nextRecoveryAt' = TrackRecoveryAt(RecoveredNext, clock + IdempotencyTtl)
        /\ spent' = Plus(RecoveredSpent, actual)
        /\ issued' = issued /\ clock' = clock
    BY <1>2 DEF SettleAs
  <2>2. actual \in [Budgets -> Nat]
    BY ConstantsAssumption
  <2>3. Recovered[op] \in Reservation
    BY RecoveredType
  <2>4. Recovered[op].reserved \in [Budgets -> Nat]
    BY <2>3 DEF Reservation
  <2>5. clock \in Nat
    BY DEF TypeOK
  <2>6. Settlement(Recovered[op], actual, outcome) \in Reservation
    BY <2>2, <2>3, <2>5, SettlementType
  <2>7. reservations' \in [Operations -> Reservation]
    BY <2>1, <2>6, ReplaceType
  <2>8. used' \in [Budgets -> Nat]
    BY <2>1, <2>2, <2>4, RecoveredType, MinusType
  <2>9. nextRecoveryAt' \in Nat \cup {Infinity}
    <3>1. clock + IdempotencyTtl \in Nat
      BY <2>5, ConstantTypes
    <3> QED BY <2>1, <3>1, RecoveredType, TrackType
  <2>10. spent' \in [Budgets -> Nat]
    BY <2>1, <2>2, RecoveredType, PlusType
  <2> QED BY <2>1, <2>7, <2>8, <2>9, <2>10 DEF TypeOK
<1> QED
  BY <1>1, <1>2

LEMMA RetireType ==
  ASSUME TypeOK, NEW b \in Budgets, RetireBudgetKey(b)
  PROVE  TypeOK'
<1>1. CASE RecoverOnly
  BY <1>1, RecoverOnlyType
<1>2. CASE ~RecoverOnly
  <2>1. /\ reservations' = Recovered
        /\ used' = [RecoveredUsed EXCEPT ![b] = 0]
        /\ nextRecoveryAt' = RecoveredNext
        /\ spent' = [RecoveredSpent EXCEPT ![b] = 0]
        /\ issued' = issued /\ clock' = clock
    BY <1>2 DEF RetireBudgetKey
  <2> QED BY <2>1, RecoveredType DEF TypeOK
<1> QED
  BY <1>1, <1>2

LEMMA TypeStep ==
  ASSUME TypeOK, [Next]_vars
  PROVE  TypeOK'
<1>1. CASE UNCHANGED vars
  BY <1>1 DEF TypeOK, vars
<1>2. ASSUME NEW op \in Operations, NEW c \in Charges, NEW lim \in Limits, NEW ttl \in Ttls,
             \/ "scalar" \in Modes /\ Reserve(op, c, lim, ttl)
             \/ "vector" \in Modes /\ ReserveVector(op, c, lim, ttl)
      PROVE  TypeOK'
  BY <1>2, AdmitType DEF Reserve, ReserveVector
<1>3. ASSUME NEW op \in Operations, NEW inc \in Increments, NEW cursor \in 1..MaxCursor,
             NEW add \in Growths, NEW lim \in Limits,
             \/ "scalar" \in Modes /\ GrowReservation(op, inc, cursor, add, lim)
             \/ "vector" \in Modes /\ GrowVectorReservation(op, inc, cursor, add, lim)
      PROVE  TypeOK'
  BY <1>3, GrowType DEF GrowReservation, GrowVectorReservation
<1>4. ASSUME NEW op \in Operations, NEW actual \in Actuals, NEW outcome \in Outcomes,
             \/ "scalar" \in Modes /\ Settle(op, actual, outcome)
             \/ "vector" \in Modes /\ SettleVector(op, actual, outcome)
      PROVE  TypeOK'
  BY <1>4, SettleAsType DEF Settle, SettleVector
<1>5. ASSUME NEW op \in Operations, MarkLiable(op)
      PROVE  TypeOK'
  BY <1>5, MarkLiableType
<1>6. ASSUME NEW op \in Operations, NEW ttl \in Ttls, Renew(op, ttl)
      PROVE  TypeOK'
  BY <1>6, RenewType
<1>7. ASSUME NEW b \in Budgets, RetireBudgetKey(b)
      PROVE  TypeOK'
  BY <1>7, RetireType
<1>8. CASE Stats
  BY <1>8, RecoverOnlyType DEF Stats
<1>9. CASE ClockStep
  <2>1. clock' \in Nat
    BY <1>9, ConstantTypes DEF ClockStep
  <2> QED BY <1>9, <2>1 DEF ClockStep, TypeOK
<1> QED
  BY <1>1, <1>2, <1>3, <1>4, <1>5, <1>6, <1>7, <1>8, <1>9 DEF Next

(* Every reachable state is well typed: no recovery, growth or settlement  *)
(* drives a counter below zero or writes a malformed reservation record.   *)
THEOREM Typed == Spec => []TypeOK
<1>1. Init => TypeOK
  BY NoReservationType DEF Init, TypeOK
<1>2. TypeOK /\ [Next]_vars => TypeOK'
  BY TypeStep
<1> QED
  BY <1>1, <1>2, PTL DEF Spec
-----------------------------------------------------------------------------
(* Conservation.                                                           *)

(* What each of the reservations rs holds on budget b, and their total.    *)
Holding(rs, b) ==
  [op \in Operations |-> IF Active(rs[op]) THEN rs[op].reserved[b] ELSE 0]

HeldIn(rs, b) == Total(Holding(rs, b))

(* An active reservation holds nothing on budgets it does not name: without *)
(* this, retiring a key that nothing active refers to could strand units.  *)
HoldsWhatItNames ==
  \A op \in Operations : Active(reservations[op]) =>
    \A b \in Budgets \ reservations[op].budgetKeys : reservations[op].reserved[b] = 0

Conservation == TypeOK /\ HoldsWhatItNames /\ UsageConserved

LEMMA HoldingType ==
  ASSUME NEW rs \in [Operations -> Reservation], NEW b \in Budgets
  PROVE  /\ Holding(rs, b) \in [Operations -> Nat]
         /\ HeldIn(rs, b) \in Nat
<1>1. \A op \in Operations : rs[op].reserved[b] \in Nat
  BY DEF Reservation
<1>2. Holding(rs, b) \in [Operations -> Nat]
  BY <1>1 DEF Holding
<1> QED
  BY <1>2, TotalType, ConstantTypes DEF HeldIn

LEMMA HeldIsHeldIn ==
  ASSUME NEW b \in Budgets
  PROVE  /\ Held(b) = HeldIn(reservations, b)
         /\ (Held(b) = HeldIn(reservations, b))'
BY DEF Held, HeldIn, Holding

(* Changing one reservation changes what is held by the difference.        *)
LEMMA HeldAfterChange ==
  ASSUME NEW rs \in [Operations -> Reservation], NEW op \in Operations,
         NEW r \in Reservation, NEW b \in Budgets
  PROVE  HeldIn([rs EXCEPT ![op] = r], b) =
           HeldIn(rs, b) - Holding(rs, b)[op] + (IF Active(r) THEN r.reserved[b] ELSE 0)
<1> DEFINE rs2 == [rs EXCEPT ![op] = r]
<1>1. rs2 \in [Operations -> Reservation] /\ rs2[op] = r
  OBVIOUS
<1>2. \A o \in Operations \ {op} : rs2[o] = rs[o]
  OBVIOUS
<1> HIDE DEF rs2
<1>3. /\ Holding(rs, b) \in [Operations -> Nat]
      /\ Holding(rs2, b) \in [Operations -> Nat]
  BY <1>1, HoldingType
<1>4. \A o \in Operations \ {op} : Holding(rs2, b)[o] = Holding(rs, b)[o]
  BY <1>2 DEF Holding
<1>5. Holding(rs2, b)[op] = IF Active(r) THEN r.reserved[b] ELSE 0
  BY <1>1 DEF Holding
<1>6. Total(Holding(rs2, b)) = Total(Holding(rs, b)) - Holding(rs, b)[op] + Holding(rs2, b)[op]
  BY <1>3, <1>4, ConstantTypes, TotalChange
<1> QED
  BY <1>5, <1>6 DEF HeldIn, rs2

(* What was held is what stays held, what is released and what is charged. *)
LEMMA HeldSplitsAtRecovery ==
  ASSUME TypeOK, NEW b \in Budgets
  PROVE  HeldIn(reservations, b) =
           HeldIn(Recovered, b) + ExpiredUnits({"pending"}, b) + ExpiredUnits({"liable"}, b)
<1> DEFINE all     == Holding(reservations, b)
           kept    == Holding(Recovered, b)
           units(states) == [op \in Operations |->
                        IF Expired(op, states) THEN reservations[op].reserved[b] ELSE 0]
           gone    == [op \in Operations |->
                        IF Expired(op, {"pending", "liable"})
                          THEN reservations[op].reserved[b] ELSE 0]
<1>1. \A op \in Operations : reservations[op].reserved[b] \in Nat
  BY DEF TypeOK, Reservation
<1>2. /\ all \in [Operations -> Nat] /\ kept \in [Operations -> Nat]
      /\ units({"pending"}) \in [Operations -> Nat]
      /\ units({"liable"}) \in [Operations -> Nat]
      /\ gone \in [Operations -> Nat]
  <2>1. all \in [Operations -> Nat]
    BY HoldingType DEF TypeOK
  <2>2. kept \in [Operations -> Nat]
    BY HoldingType, RecoveredType
  <2>3. /\ units({"pending"}) \in [Operations -> Nat]
        /\ units({"liable"}) \in [Operations -> Nat]
        /\ gone \in [Operations -> Nat]
    BY <1>1
  <2> QED BY <2>1, <2>2, <2>3
<1>3. ASSUME NEW op \in Operations
      PROVE  \/ kept[op] = all[op] /\ gone[op] = 0
             \/ gone[op] = all[op] /\ kept[op] = 0
  <2>1. CASE Expired(op, {"pending"})
    BY <2>1 DEF Expired, Recovered, Holding, Active, NoReservation
  <2>2. CASE Expired(op, {"liable"})
    <3>1. Recovered[op] = Retain(reservations[op])
      BY <2>2 DEF Expired, Recovered
    <3>2. ~Active(Retain(reservations[op]))
      BY DEF Retain, Settlement, Active, Reservation, TypeOK
    <3> QED BY <2>2, <3>1, <3>2 DEF Expired, Holding, Active
  <2>3. CASE Expired(op, {"settled"})
    BY <2>3 DEF Expired, Recovered, Holding, Active, NoReservation
  <2>4. CASE ~Expired(op, {"pending"}) /\ ~Expired(op, {"liable"}) /\ ~Expired(op, {"settled"})
    BY <2>4 DEF Expired, Recovered, Holding, Active
  <2> QED BY <2>1, <2>2, <2>3, <2>4
<1>4. ASSUME NEW op \in Operations
      PROVE  \/ units({"pending"})[op] = gone[op] /\ units({"liable"})[op] = 0
             \/ units({"liable"})[op] = gone[op] /\ units({"pending"})[op] = 0
  BY DEF Expired
<1>5. /\ HeldIn(reservations, b) = Total(all) /\ HeldIn(Recovered, b) = Total(kept)
      /\ ExpiredUnits({"pending"}, b) = Total(units({"pending"}))
      /\ ExpiredUnits({"liable"}, b) = Total(units({"liable"}))
  BY DEF HeldIn, ExpiredUnits
<1> HIDE DEF all, kept, units, gone
<1>6. Total(all) = Total(kept) + Total(gone)
  BY <1>2, <1>3, ConstantTypes, TotalSplit
<1>7. Total(gone) = Total(units({"pending"})) + Total(units({"liable"}))
  BY <1>2, <1>4, ConstantTypes, TotalSplit
<1>8. /\ Total(kept) \in Nat
      /\ Total(units({"pending"})) \in Nat /\ Total(units({"liable"})) \in Nat
  BY <1>2, ConstantTypes, TotalType
<1> QED
  BY <1>5, <1>6, <1>7, <1>8

(* Recovery keeps the books balanced.                                      *)
LEMMA RecoveredConserved ==
  ASSUME Conservation, NEW b \in Budgets
  PROVE  RecoveredUsed[b] = HeldIn(Recovered, b) + RecoveredSpent[b]
<1>1. used[b] = HeldIn(reservations, b) + spent[b]
  BY HeldIsHeldIn DEF Conservation, UsageConserved
<1>2. HeldIn(reservations, b) =
        HeldIn(Recovered, b) + ExpiredUnits({"pending"}, b) + ExpiredUnits({"liable"}, b)
  BY HeldSplitsAtRecovery DEF Conservation
<1>3. /\ HeldIn(Recovered, b) \in Nat /\ spent[b] \in Nat
      /\ ExpiredUnits({"pending"}, b) \in Nat /\ ExpiredUnits({"liable"}, b) \in Nat
  BY HoldingType, RecoveredType, ExpiredUnitsType DEF Conservation, TypeOK
<1>4. /\ RecoveredUsed[b] = ClampedSub(used[b], ExpiredUnits({"pending"}, b))
      /\ RecoveredSpent[b] = spent[b] + ExpiredUnits({"liable"}, b)
  BY DEF RecoveredUsed, RecoveredSpent
<1> QED
  BY <1>1, <1>2, <1>3, <1>4 DEF ClampedSub

(* After recovery a counter covers every reservation it is charged for.    *)
LEMMA RecoveredCovers ==
  ASSUME Conservation, NEW op \in Operations, NEW b \in Budgets, Active(Recovered[op])
  PROVE  /\ Recovered[op].reserved[b] <= HeldIn(Recovered, b)
         /\ HeldIn(Recovered, b) <= RecoveredUsed[b]
<1>1. Holding(Recovered, b) \in [Operations -> Nat] /\ HeldIn(Recovered, b) \in Nat
  BY HoldingType, RecoveredType DEF Conservation
<1>2. Holding(Recovered, b)[op] = Recovered[op].reserved[b]
  BY DEF Holding
<1>3. Holding(Recovered, b)[op] <= HeldIn(Recovered, b)
  BY <1>1, ConstantTypes, TotalBound DEF HeldIn
<1>4. RecoveredSpent[b] \in Nat
  BY RecoveredType DEF Conservation
<1> QED
  BY <1>1, <1>2, <1>3, <1>4, RecoveredConserved

(* What recovery keeps active, it keeps as it was.                         *)
LEMMA RecoveredActive ==
  ASSUME TypeOK, NEW op \in Operations, Active(Recovered[op])
  PROVE  Recovered[op] = reservations[op]
<1>1. ~Active(Retain(reservations[op]))
  BY DEF Retain, Settlement, Active, Reservation, TypeOK
<1>2. ~Active(NoReservation)
  BY DEF NoReservation, Active
<1> QED
  BY <1>1, <1>2 DEF Recovered

LEMMA RecoveredNames ==
  ASSUME Conservation, NEW op \in Operations, Active(Recovered[op]),
         NEW b \in Budgets \ Recovered[op].budgetKeys
  PROVE  Recovered[op].reserved[b] = 0
BY RecoveredActive DEF Conservation, HoldsWhatItNames

(* The shape of a step that replaces at most one reservation: the books    *)
(* balance after it if the replacement accounts for what it changes.       *)
LEMMA ReplaceConserved ==
  ASSUME Conservation, TypeOK', NEW op \in Operations, NEW r \in Reservation,
         reservations' = [Recovered EXCEPT ![op] = r],
         Active(r) => \A b \in Budgets \ r.budgetKeys : r.reserved[b] = 0,
         \A b \in Budgets :
           used'[b] - RecoveredUsed[b] - (spent'[b] - RecoveredSpent[b]) =
             (IF Active(r) THEN r.reserved[b] ELSE 0) - Holding(Recovered, b)[op]
  PROVE  Conservation'
<1>1. HoldsWhatItNames'
  <2>1. ASSUME NEW o \in Operations, Active(reservations'[o]),
               NEW b \in Budgets \ reservations'[o].budgetKeys
        PROVE  reservations'[o].reserved[b] = 0
    <3>1. CASE o = op
      BY <2>1, <3>1, RecoveredType DEF Conservation
    <3>2. CASE o # op
      <4>1. reservations'[o] = Recovered[o]
        BY <3>2, RecoveredType DEF Conservation
      <4> QED BY <2>1, <4>1, RecoveredNames
    <3> QED BY <3>1, <3>2
  <2> QED BY <2>1 DEF HoldsWhatItNames, Active
<1>2. ASSUME NEW b \in Budgets PROVE used'[b] = Held(b)' + spent'[b]
  <2>1. HeldIn(reservations', b) = HeldIn(Recovered, b) - Holding(Recovered, b)[op]
                                     + (IF Active(r) THEN r.reserved[b] ELSE 0)
    BY RecoveredType, HeldAfterChange DEF Conservation
  <2>2. Held(b)' = HeldIn(reservations', b)
    BY HeldIsHeldIn
  <2>3. RecoveredUsed[b] = HeldIn(Recovered, b) + RecoveredSpent[b]
    BY RecoveredConserved
  <2>4. /\ HeldIn(Recovered, b) \in Nat /\ HeldIn(reservations', b) \in Nat
        /\ Holding(Recovered, b)[op] \in Nat
    <3>1. Recovered \in [Operations -> Reservation]
      BY RecoveredType DEF Conservation
    <3>2. reservations' \in [Operations -> Reservation]
      BY DEF TypeOK
    <3>3. HeldIn(Recovered, b) \in Nat /\ Holding(Recovered, b) \in [Operations -> Nat]
      BY <3>1, HoldingType
    <3>4. HeldIn(reservations', b) \in Nat
      BY <3>2, HoldingType
    <3> QED BY <3>3, <3>4
  <2>5. /\ RecoveredUsed[b] \in Nat /\ RecoveredSpent[b] \in Nat
        /\ used'[b] \in Nat /\ spent'[b] \in Nat
    BY RecoveredType DEF Conservation, TypeOK
  <2>6. (IF Active(r) THEN r.reserved[b] ELSE 0) \in Nat
    BY DEF Reservation
  <2> HIDE DEF Holding
  <2> QED BY <2>1, <2>2, <2>3, <2>4, <2>5, <2>6
<1> QED
  BY <1>1, <1>2 DEF Conservation, UsageConserved

LEMMA RecoverOnlyConserved ==
  ASSUME Conservation, RecoverOnly
  PROVE  Conservation'
<1>1. TypeOK'
  BY RecoverOnlyType DEF Conservation
<1>2. HoldsWhatItNames'
  <2>1. \A op \in Operations : Active(Recovered[op]) =>
          \A b \in Budgets \ Recovered[op].budgetKeys : Recovered[op].reserved[b] = 0
    BY RecoveredNames
  <2> QED BY <2>1 DEF RecoverOnly, HoldsWhatItNames, Active
<1>3. ASSUME NEW b \in Budgets PROVE used'[b] = Held(b)' + spent'[b]
  BY RecoveredConserved, HeldIsHeldIn DEF RecoverOnly
<1> QED
  BY <1>1, <1>2, <1>3 DEF Conservation, UsageConserved

LEMMA AdmitConserved ==
  ASSUME Conservation, NEW op \in Operations, NEW mode \in Modes, NEW c \in Charges,
         NEW lim \in Limits, NEW ttl \in Ttls, Admit(op, mode, c, lim, ttl)
  PROVE  Conservation'
<1>1. CASE RecoverOnly
  BY <1>1, RecoverOnlyConserved
<1>2. CASE ~RecoverOnly
  <2> DEFINE r == Pending(mode, c, clock + ttl, issued[op] + 1)
  <2>1. /\ reservations' = [Recovered EXCEPT ![op] = r]
        /\ used' = Plus(RecoveredUsed, c.units)
        /\ spent' = RecoveredSpent
        /\ Recovered[op].state = "absent"
    BY <1>2 DEF Admit, Admits
  <2>2. TypeOK'
    BY AdmitType DEF Conservation
  <2>3. c \in Charge /\ NamesItsUnits(c)
    BY ConstantsAssumption
  <2>4. c.keys \subseteq Budgets /\ c.units \in [Budgets -> Nat]
    BY <2>3 DEF Charge
  <2>5. r \in Reservation
    <3>1. r = reservations'[op]
      BY <2>1, RecoveredType DEF Conservation
    <3>2. reservations'[op] \in Reservation
      BY <2>2 DEF TypeOK
    <3> QED BY <3>1, <3>2
  <2>6. Active(r) /\ r.reserved = c.units /\ r.budgetKeys = c.keys
    BY DEF Pending, NoReservation, Active
  <2>7. \A b \in Budgets \ r.budgetKeys : r.reserved[b] = 0
    BY <2>3, <2>6 DEF NamesItsUnits
  <2>8. ASSUME NEW b \in Budgets
        PROVE  used'[b] - RecoveredUsed[b] - (spent'[b] - RecoveredSpent[b]) =
                 (IF Active(r) THEN r.reserved[b] ELSE 0) - Holding(Recovered, b)[op]
    <3>1. Holding(Recovered, b)[op] = 0
      BY <2>1 DEF Holding, Active
    <3>2. used'[b] = RecoveredUsed[b] + c.units[b]
      BY <2>1 DEF Plus
    <3>3. RecoveredUsed[b] \in Nat /\ RecoveredSpent[b] \in Nat /\ c.units[b] \in Nat
      BY <2>4, RecoveredType DEF Conservation
    <3> HIDE DEF r
    <3> QED BY <2>1, <2>6, <3>1, <3>2, <3>3
  <2> HIDE DEF r
  <2> QED BY <2>1, <2>2, <2>5, <2>7, <2>8, ReplaceConserved
<1> QED
  BY <1>1, <1>2

(* A replacement that keeps an active reservation's charge.                *)
LEMMA RelabelConserved ==
  ASSUME Conservation, TypeOK', NEW op \in Operations, NEW r \in Reservation,
         reservations' = [Recovered EXCEPT ![op] = r],
         used' = RecoveredUsed, spent' = RecoveredSpent,
         Active(Recovered[op]), Active(r),
         r.budgetKeys = Recovered[op].budgetKeys, r.reserved = Recovered[op].reserved
  PROVE  Conservation'
<1>1. \A b \in Budgets \ r.budgetKeys : r.reserved[b] = 0
  BY RecoveredNames
<1>2. ASSUME NEW b \in Budgets
      PROVE  used'[b] - RecoveredUsed[b] - (spent'[b] - RecoveredSpent[b]) =
               (IF Active(r) THEN r.reserved[b] ELSE 0) - Holding(Recovered, b)[op]
  <2>1. Holding(Recovered, b)[op] = r.reserved[b]
    BY DEF Holding
  <2>2. RecoveredUsed[b] \in Nat /\ RecoveredSpent[b] \in Nat /\ r.reserved[b] \in Nat
    BY RecoveredType DEF Conservation, Reservation
  <2> QED BY <2>1, <2>2
<1> QED
  BY <1>1, <1>2, ReplaceConserved

LEMMA MarkLiableConserved ==
  ASSUME Conservation, NEW op \in Operations, MarkLiable(op)
  PROVE  Conservation'
<1>1. CASE RecoverOnly
  BY <1>1, RecoverOnlyConserved
<1>2. CASE ~RecoverOnly
  <2> DEFINE r == [Recovered[op] EXCEPT !.state = "liable"]
  <2>1. /\ reservations' = [Recovered EXCEPT ![op] = r]
        /\ used' = RecoveredUsed /\ spent' = RecoveredSpent
        /\ Active(Recovered[op])
    BY <1>2 DEF MarkLiable
  <2>2. Recovered[op] \in Reservation
    BY RecoveredType DEF Conservation
  <2>3. /\ r \in Reservation /\ r.state = "liable"
        /\ r.budgetKeys = Recovered[op].budgetKeys /\ r.reserved = Recovered[op].reserved
    BY <2>2 DEF Reservation
  <2>4. Active(r)
    BY <2>3 DEF Active
  <2>5. TypeOK'
    BY MarkLiableType DEF Conservation
  <2> HIDE DEF r
  <2> QED BY <2>1, <2>3, <2>4, <2>5, RelabelConserved
<1> QED
  BY <1>1, <1>2

LEMMA RenewConserved ==
  ASSUME Conservation, NEW op \in Operations, NEW ttl \in Ttls, Renew(op, ttl)
  PROVE  Conservation'
<1>1. CASE RecoverOnly
  BY <1>1, RecoverOnlyConserved
<1>2. CASE ~RecoverOnly
  <2> DEFINE r == [Recovered[op] EXCEPT !.expiresAt = clock + ttl]
  <2>1. /\ reservations' = [Recovered EXCEPT ![op] = r]
        /\ used' = RecoveredUsed /\ spent' = RecoveredSpent
        /\ Active(Recovered[op])
    BY <1>2 DEF Renew
  <2>2. Recovered[op] \in Reservation
    BY RecoveredType DEF Conservation
  <2>3. clock + ttl \in Nat
    <3>1. ttl \in Nat
      BY ConstantsAssumption
    <3> QED BY <3>1 DEF Conservation, TypeOK
  <2>4. /\ r \in Reservation /\ r.state = Recovered[op].state
        /\ r.budgetKeys = Recovered[op].budgetKeys /\ r.reserved = Recovered[op].reserved
    BY <2>2, <2>3 DEF Reservation
  <2>5. Active(r)
    BY <2>1, <2>4 DEF Active
  <2>6. TypeOK'
    BY RenewType DEF Conservation
  <2> HIDE DEF r
  <2> QED BY <2>1, <2>4, <2>5, <2>6, RelabelConserved
<1> QED
  BY <1>1, <1>2

LEMMA GrowConserved ==
  ASSUME Conservation, NEW op \in Operations, NEW mode \in Modes, NEW inc \in Increments,
         NEW cursor \in 1..MaxCursor, NEW add \in Growths, NEW lim \in Limits,
         Grow(op, mode, inc, cursor, add, lim)
  PROVE  Conservation'
<1>1. CASE RecoverOnly
  BY <1>1, RecoverOnlyConserved
<1>2. CASE ~RecoverOnly
  <2>1. PICK accepted \in BOOLEAN :
          /\ reservations' =
               [Recovered EXCEPT ![op] = Decided(Recovered[op], op, inc, add, lim, accepted)]
          /\ used' = IF accepted THEN Plus(RecoveredUsed, add.units) ELSE RecoveredUsed
          /\ spent' = RecoveredSpent
          /\ GrowthApplies(op, mode, inc, cursor, add)
    BY <1>2 DEF Grow
  <2> DEFINE r == Decided(Recovered[op], op, inc, add, lim, accepted)
  <2>2. TypeOK'
    BY GrowType DEF Conservation
  <2>3. add \in Charge /\ NamesItsUnits(add) /\ lim \in [Budgets -> Nat]
    BY ConstantsAssumption
  <2>4. add.units \in [Budgets -> Nat]
    BY <2>3 DEF Charge
  <2>5. Recovered[op] \in Reservation
    BY RecoveredType DEF Conservation
  <2>6. r \in Reservation
    BY <2>3, <2>5, DecidedType DEF Conservation
  <2>7. Active(Recovered[op]) /\ add.keys = Recovered[op].budgetKeys
    BY <2>1 DEF GrowthApplies
  <2>8. /\ r.state = Recovered[op].state /\ r.budgetKeys = Recovered[op].budgetKeys
        /\ r.reserved = IF accepted THEN Plus(Recovered[op].reserved, add.units)
                                   ELSE Recovered[op].reserved
    BY <2>5 DEF Decided, GrowthResult, Reservation
  <2> HIDE DEF r
  <2>9. Active(r)
    BY <2>7, <2>8 DEF Active
  <2>10. ASSUME NEW b \in Budgets
         PROVE  /\ Recovered[op].reserved[b] \in Nat /\ add.units[b] \in Nat
                /\ RecoveredUsed[b] \in Nat /\ RecoveredSpent[b] \in Nat
                /\ r.reserved[b] = Recovered[op].reserved[b]
                                     + (IF accepted THEN add.units[b] ELSE 0)
    <3>1. Recovered[op].reserved[b] \in Nat
      BY <2>5 DEF Reservation
    <3>2. add.units[b] \in Nat /\ RecoveredUsed[b] \in Nat /\ RecoveredSpent[b] \in Nat
      BY <2>4, RecoveredType DEF Conservation
    <3> QED BY <2>8, <3>1, <3>2 DEF Plus
  <2>11. ASSUME NEW b \in Budgets \ r.budgetKeys PROVE r.reserved[b] = 0
    <3>1. add.units[b] = 0
      BY <2>3, <2>7, <2>8 DEF NamesItsUnits
    <3>2. Recovered[op].reserved[b] = 0
      BY <2>7, <2>8, RecoveredNames
    <3> QED BY <2>10, <3>1, <3>2
  <2>12. ASSUME NEW b \in Budgets
         PROVE  used'[b] - RecoveredUsed[b] - (spent'[b] - RecoveredSpent[b]) =
                  (IF Active(r) THEN r.reserved[b] ELSE 0) - Holding(Recovered, b)[op]
    <3>1. Holding(Recovered, b)[op] = Recovered[op].reserved[b]
      BY <2>7 DEF Holding
    <3>2. used'[b] = RecoveredUsed[b] + (IF accepted THEN add.units[b] ELSE 0)
      BY <2>1, <2>10 DEF Plus
    <3> QED BY <2>1, <2>9, <2>10, <3>1, <3>2
  <2>13. reservations' = [Recovered EXCEPT ![op] = r]
    BY <2>1 DEF r
  <2> QED BY <2>2, <2>6, <2>11, <2>12, <2>13, ReplaceConserved
<1> QED
  BY <1>1, <1>2

LEMMA SettleAsConserved ==
  ASSUME Conservation, NEW op \in Operations, NEW mode \in Modes, NEW actual \in Actuals,
         NEW outcome \in Outcomes, SettleAs(op, mode, actual, outcome)
  PROVE  Conservation'
<1>1. CASE RecoverOnly
  BY <1>1, RecoverOnlyConserved
<1>2. CASE ~RecoverOnly
  <2> DEFINE r == Settlement(Recovered[op], actual, outcome)
  <2>1. /\ reservations' = [Recovered EXCEPT ![op] = r]
        /\ used' = Minus(RecoveredUsed, Minus(Recovered[op].reserved, actual))
        /\ spent' = Plus(RecoveredSpent, actual)
        /\ Settles(op, mode, actual)
    BY <1>2 DEF SettleAs
  <2>2. TypeOK'
    BY SettleAsType DEF Conservation
  <2>3. actual \in [Budgets -> Nat]
    BY ConstantsAssumption
  <2>4. Recovered[op] \in Reservation
    BY RecoveredType DEF Conservation
  <2>5. r \in Reservation
    BY <2>3, <2>4, SettlementType DEF Conservation, TypeOK
  <2>6. ~Active(r)
    BY <2>4 DEF Settlement, Active, Reservation
  <2>7. ASSUME NEW b \in Budgets
        PROVE  used'[b] - RecoveredUsed[b] - (spent'[b] - RecoveredSpent[b]) =
                 (IF Active(r) THEN r.reserved[b] ELSE 0) - Holding(Recovered, b)[op]
    <3>1. Active(Recovered[op]) /\ actual[b] <= Recovered[op].reserved[b]
      BY <2>1 DEF Settles
    <3>2. Holding(Recovered, b)[op] = Recovered[op].reserved[b]
      BY <3>1 DEF Holding
    <3>3. /\ Recovered[op].reserved[b] <= HeldIn(Recovered, b)
          /\ HeldIn(Recovered, b) <= RecoveredUsed[b]
      BY <3>1, RecoveredCovers
    <3>4. actual[b] \in Nat /\ Recovered[op].reserved[b] \in Nat
      BY <2>3, <2>4 DEF Reservation
    <3>5. /\ RecoveredUsed[b] \in Nat /\ RecoveredSpent[b] \in Nat
          /\ HeldIn(Recovered, b) \in Nat
      BY RecoveredType, HoldingType DEF Conservation
    <3>6. used'[b] = RecoveredUsed[b] - (Recovered[op].reserved[b] - actual[b])
      BY <2>1, <3>1, <3>3, <3>4, <3>5 DEF Minus, ClampedSub
    <3>7. spent'[b] = RecoveredSpent[b] + actual[b]
      BY <2>1 DEF Plus
    <3> HIDE DEF r
    <3> QED BY <2>6, <3>2, <3>4, <3>5, <3>6, <3>7
  <2> HIDE DEF r
  <2> QED BY <2>1, <2>2, <2>5, <2>6, <2>7, ReplaceConserved
<1> QED
  BY <1>1, <1>2

LEMMA RetireConserved ==
  ASSUME Conservation, NEW k \in Budgets, RetireBudgetKey(k)
  PROVE  Conservation'
<1>1. CASE RecoverOnly
  BY <1>1, RecoverOnlyConserved
<1>2. CASE ~RecoverOnly
  <2>1. /\ reservations' = Recovered
        /\ used' = [RecoveredUsed EXCEPT ![k] = 0]
        /\ spent' = [RecoveredSpent EXCEPT ![k] = 0]
        /\ ~Referenced(k, Recovered)
    BY <1>2 DEF RetireBudgetKey
  <2>2. TypeOK'
    BY RetireType DEF Conservation
  <2>3. HoldsWhatItNames'
    <3>1. \A op \in Operations : Active(Recovered[op]) =>
            \A b \in Budgets \ Recovered[op].budgetKeys : Recovered[op].reserved[b] = 0
      BY RecoveredNames
    <3> QED BY <2>1, <3>1 DEF HoldsWhatItNames, Active
  <2>4. HeldIn(Recovered, k) = 0
    <3>1. \A op \in Operations : Holding(Recovered, k)[op] = 0
      BY <2>1, RecoveredNames DEF Holding, Referenced
    <3>2. Holding(Recovered, k) \in [Operations -> Nat]
      BY HoldingType, RecoveredType DEF Conservation
    <3> QED BY <3>1, <3>2, TotalZero DEF HeldIn
  <2>5. ASSUME NEW b \in Budgets PROVE used'[b] = Held(b)' + spent'[b]
    <3>1. Held(b)' = HeldIn(Recovered, b)
      BY <2>1, HeldIsHeldIn
    <3>2. RecoveredUsed[b] = HeldIn(Recovered, b) + RecoveredSpent[b]
      BY RecoveredConserved
    <3>3. used'[b] = IF b = k THEN 0 ELSE RecoveredUsed[b]
      BY <2>1, RecoveredType DEF Conservation
    <3>4. spent'[b] = IF b = k THEN 0 ELSE RecoveredSpent[b]
      BY <2>1, RecoveredType DEF Conservation
    <3> QED BY <2>4, <3>1, <3>2, <3>3, <3>4
  <2> QED BY <2>2, <2>3, <2>5 DEF Conservation, UsageConserved
<1> QED
  BY <1>1, <1>2

LEMMA ConservationStep ==
  ASSUME Conservation, [Next]_vars
  PROVE  Conservation'
<1>1. CASE UNCHANGED vars
  BY <1>1 DEF Conservation, TypeOK, HoldsWhatItNames, UsageConserved, Held, Active, vars
<1>2. ASSUME NEW op \in Operations, NEW c \in Charges, NEW lim \in Limits, NEW ttl \in Ttls,
             \/ "scalar" \in Modes /\ Reserve(op, c, lim, ttl)
             \/ "vector" \in Modes /\ ReserveVector(op, c, lim, ttl)
      PROVE  Conservation'
  BY <1>2, AdmitConserved DEF Reserve, ReserveVector
<1>3. ASSUME NEW op \in Operations, NEW inc \in Increments, NEW cursor \in 1..MaxCursor,
             NEW add \in Growths, NEW lim \in Limits,
             \/ "scalar" \in Modes /\ GrowReservation(op, inc, cursor, add, lim)
             \/ "vector" \in Modes /\ GrowVectorReservation(op, inc, cursor, add, lim)
      PROVE  Conservation'
  BY <1>3, GrowConserved DEF GrowReservation, GrowVectorReservation
<1>4. ASSUME NEW op \in Operations, NEW actual \in Actuals, NEW outcome \in Outcomes,
             \/ "scalar" \in Modes /\ Settle(op, actual, outcome)
             \/ "vector" \in Modes /\ SettleVector(op, actual, outcome)
      PROVE  Conservation'
  BY <1>4, SettleAsConserved DEF Settle, SettleVector
<1>5. ASSUME NEW op \in Operations, MarkLiable(op)
      PROVE  Conservation'
  BY <1>5, MarkLiableConserved
<1>6. ASSUME NEW op \in Operations, NEW ttl \in Ttls, Renew(op, ttl)
      PROVE  Conservation'
  BY <1>6, RenewConserved
<1>7. ASSUME NEW b \in Budgets, RetireBudgetKey(b)
      PROVE  Conservation'
  BY <1>7, RetireConserved
<1>8. CASE Stats
  BY <1>8, RecoverOnlyConserved DEF Stats
<1>9. CASE ClockStep
  <2>1. TypeOK'
    BY TypeStep DEF Conservation
  <2> QED
    BY <1>9, <2>1
    DEF Conservation, HoldsWhatItNames, UsageConserved, Held, Active, ClockStep
<1> QED
  BY <1>1, <1>2, <1>3, <1>4, <1>5, <1>6, <1>7, <1>8, <1>9 DEF Next

LEMMA ConservationInit == Init => Conservation
<1> SUFFICES ASSUME Init PROVE Conservation
  OBVIOUS
<1>1. TypeOK
  BY NoReservationType DEF Init, TypeOK
<1>2. \A op \in Operations : ~Active(reservations[op])
  BY DEF Init, NoReservation, Active
<1>3. HoldsWhatItNames
  BY <1>2 DEF HoldsWhatItNames
<1>4. ASSUME NEW b \in Budgets PROVE used[b] = Held(b) + spent[b]
  <2>1. Holding(reservations, b) \in [Operations -> Nat]
    BY <1>1, HoldingType DEF TypeOK
  <2>2. \A op \in Operations : Holding(reservations, b)[op] = 0
    BY <1>2 DEF Holding
  <2>3. Held(b) = 0
    BY <2>1, <2>2, TotalZero, HeldIsHeldIn DEF HeldIn
  <2> QED BY <2>3 DEF Init
<1> QED
  BY <1>1, <1>3, <1>4 DEF Conservation, UsageConserved

(* No interleaving of admissions, growth, settlements, expiry recoveries,  *)
(* tombstone pruning and retirements leaks a unit or counts one twice.     *)
THEOREM Conserved == Spec => []UsageConserved
<1>1. Init => Conservation
  BY ConservationInit
<1>2. Conservation /\ [Next]_vars => Conservation'
  BY ConservationStep
<1>3. Conservation => UsageConserved
  BY DEF Conservation
<1> QED
  BY <1>1, <1>2, <1>3, PTL DEF Spec

(* The clamp in releaseAcrossBudgets never hides an error: at every moment *)
(* a budget's counter is at least what each active reservation would       *)
(* release from it.                                                        *)
THEOREM Covered == Spec => []CountersCoverReservations
<1>1. Init => Conservation
  BY ConservationInit
<1>2. Conservation /\ [Next]_vars => Conservation'
  BY ConservationStep
<1>3. Conservation => CountersCoverReservations
  <2> SUFFICES ASSUME Conservation, NEW op \in Operations, Active(reservations[op]),
                      NEW b \in Budgets
               PROVE  reservations[op].reserved[b] <= used[b]
    BY DEF CountersCoverReservations
  <2>1. /\ Holding(reservations, b) \in [Operations -> Nat]
        /\ HeldIn(reservations, b) \in Nat
    BY HoldingType DEF Conservation, TypeOK
  <2>2. Holding(reservations, b)[op] <= HeldIn(reservations, b)
    BY <2>1, TotalBound, ConstantTypes DEF HeldIn
  <2>3. Holding(reservations, b)[op] = reservations[op].reserved[b]
    BY DEF Holding
  <2>4. used[b] = HeldIn(reservations, b) + spent[b] /\ spent[b] \in Nat
    BY HeldIsHeldIn DEF Conservation, UsageConserved, TypeOK
  <2>5. reservations[op].reserved[b] \in Nat
    BY DEF Conservation, TypeOK, Reservation
  <2> QED BY <2>1, <2>2, <2>3, <2>4, <2>5
<1> QED
  BY <1>1, <1>2, <1>3, PTL DEF Spec
-----------------------------------------------------------------------------
(* Admission within the quoted limits.                                     *)

LEMMA RecoveredUsedShrinks ==
  ASSUME TypeOK, NEW b \in Budgets
  PROVE  RecoveredUsed[b] <= used[b]
<1>1. used[b] \in Nat /\ ExpiredUnits({"pending"}, b) \in Nat
  BY ExpiredUnitsType DEF TypeOK
<1> QED
  BY <1>1 DEF RecoveredUsed, ClampedSub

(* A charge that fits what remains keeps its counters within the limit.    *)
LEMMA FitsLimit ==
  ASSUME TypeOK, NEW c \in Charge, NamesItsUnits(c), NEW lim \in [Budgets -> Nat],
         WithinLimits(c, lim, RecoveredUsed), NEW b \in Budgets
  PROVE  \/ Plus(RecoveredUsed, c.units)[b] <= used[b]
         \/ Plus(RecoveredUsed, c.units)[b] <= lim[b]
<1>1. RecoveredUsed[b] \in Nat /\ c.units[b] \in Nat /\ lim[b] \in Nat /\ used[b] \in Nat
  <2>1. c.units \in [Budgets -> Nat]
    BY DEF Charge
  <2>2. RecoveredUsed[b] \in Nat /\ used[b] \in Nat
    BY RecoveredType DEF TypeOK
  <2> QED BY <2>1, <2>2
<1>2. Plus(RecoveredUsed, c.units)[b] = RecoveredUsed[b] + c.units[b]
  BY DEF Plus
<1>3. CASE c.units[b] = 0
  BY <1>1, <1>2, <1>3, RecoveredUsedShrinks
<1>4. CASE c.units[b] # 0
  <2>1. b \in c.keys
    BY <1>4 DEF NamesItsUnits
  <2>2. c.units[b] <= ClampedSub(lim[b], RecoveredUsed[b])
    BY <2>1 DEF WithinLimits
  <2> QED BY <1>1, <1>2, <1>4, <2>2 DEF ClampedSub
<1> QED
  BY <1>3, <1>4

(* What a step raises, a charge that fits a quoted limit and the cap on    *)
(* retained budget keys raises.                                            *)
LEMMA UsedShape ==
  ASSUME TypeOK, [Next]_vars
  PROVE  \/ \A b \in Budgets : used'[b] <= used[b]
         \/ \E c \in Charges \cup Growths, lim \in Limits :
              /\ WithinLimits(c, lim, RecoveredUsed) /\ BudgetRoom(c, RecoveredUsed)
              /\ used' = Plus(RecoveredUsed, c.units)
<1> DEFINE Shrinks == \A b \in Budgets : used'[b] <= used[b]
           Raises  == \E c \in Charges \cup Growths, lim \in Limits :
                        /\ WithinLimits(c, lim, RecoveredUsed) /\ BudgetRoom(c, RecoveredUsed)
                        /\ used' = Plus(RecoveredUsed, c.units)
<1>1. used' = RecoveredUsed => Shrinks
  BY RecoveredUsedShrinks
<1>2. RecoverOnly => Shrinks
  BY <1>1 DEF RecoverOnly
<1>3. ASSUME NEW op \in Operations, NEW mode, NEW c \in Charges, NEW lim \in Limits,
             NEW ttl \in Ttls, Admit(op, mode, c, lim, ttl)
      PROVE  Shrinks \/ Raises
  <2> HIDE DEF Shrinks
  <2> QED BY <1>2, <1>3 DEF Admit, Admits
<1>4. ASSUME NEW op \in Operations, NEW mode, NEW inc \in Increments, NEW cursor,
             NEW add \in Growths, NEW lim \in Limits, Grow(op, mode, inc, cursor, add, lim)
      PROVE  Shrinks \/ Raises
  <2> HIDE DEF Shrinks
  <2> QED BY <1>1, <1>2, <1>4 DEF Grow
<1>5. ASSUME NEW op \in Operations, NEW mode, NEW actual \in Actuals, NEW outcome,
             SettleAs(op, mode, actual, outcome)
      PROVE  Shrinks
  <2>1. CASE RecoverOnly
    BY <1>2, <2>1
  <2>2. ASSUME ~RecoverOnly, NEW b \in Budgets PROVE used'[b] <= used[b]
    <3>1. used' = Minus(RecoveredUsed, Minus(Recovered[op].reserved, actual))
      BY <1>5, <2>2 DEF SettleAs
    <3>2. Recovered[op].reserved[b] \in Nat /\ RecoveredUsed[b] \in Nat /\ used[b] \in Nat
      BY RecoveredType DEF TypeOK, Reservation
    <3>3. actual[b] \in Nat
      BY ConstantsAssumption
    <3>4. used'[b] <= RecoveredUsed[b] /\ used'[b] \in Nat
      BY <3>1, <3>2, <3>3 DEF Minus, ClampedSub
    <3> QED BY <3>2, <3>4, RecoveredUsedShrinks
  <2> QED BY <2>1, <2>2
<1>6. ASSUME NEW op \in Operations, MarkLiable(op) PROVE Shrinks
  BY <1>1, <1>2, <1>6 DEF MarkLiable
<1>7. ASSUME NEW op \in Operations, NEW ttl \in Ttls, Renew(op, ttl) PROVE Shrinks
  BY <1>1, <1>2, <1>7 DEF Renew
<1>8. ASSUME NEW k \in Budgets, RetireBudgetKey(k) PROVE Shrinks
  <2>1. ASSUME NEW b \in Budgets PROVE [RecoveredUsed EXCEPT ![k] = 0][b] <= used[b]
    <3>1. RecoveredUsed \in [Budgets -> Nat] /\ used[b] \in Nat
      BY RecoveredType DEF TypeOK
    <3>2. [RecoveredUsed EXCEPT ![k] = 0][b] = IF b = k THEN 0 ELSE RecoveredUsed[b]
      BY <3>1
    <3> QED BY <3>1, <3>2, RecoveredUsedShrinks
  <2> QED BY <1>2, <1>8, <2>1 DEF RetireBudgetKey
<1>9. ASSUME Stats \/ ClockStep \/ UNCHANGED vars PROVE Shrinks
  BY <1>2, <1>9 DEF Stats, ClockStep, vars, TypeOK
<1> HIDE DEF Shrinks, Raises
<1>10. ASSUME NEW op \in Operations, NEW c \in Charges, NEW lim \in Limits, NEW ttl \in Ttls,
              \/ "scalar" \in Modes /\ Reserve(op, c, lim, ttl)
              \/ "vector" \in Modes /\ ReserveVector(op, c, lim, ttl)
       PROVE  Shrinks \/ Raises
  BY <1>3, <1>10 DEF Reserve, ReserveVector
<1>11. ASSUME NEW op \in Operations, NEW inc \in Increments, NEW cursor \in 1..MaxCursor,
              NEW add \in Growths, NEW lim \in Limits,
              \/ "scalar" \in Modes /\ GrowReservation(op, inc, cursor, add, lim)
              \/ "vector" \in Modes /\ GrowVectorReservation(op, inc, cursor, add, lim)
       PROVE  Shrinks \/ Raises
  BY <1>4, <1>11 DEF GrowReservation, GrowVectorReservation
<1>12. ASSUME NEW op \in Operations, NEW actual \in Actuals, NEW outcome \in Outcomes,
              \/ "scalar" \in Modes /\ Settle(op, actual, outcome)
              \/ "vector" \in Modes /\ SettleVector(op, actual, outcome)
       PROVE  Shrinks \/ Raises
  BY <1>5, <1>12 DEF Settle, SettleVector
<1>13. Shrinks \/ Raises
  BY <1>6, <1>7, <1>8, <1>9, <1>10, <1>11, <1>12 DEF Next
<1> QED
  BY <1>13 DEF Shrinks, Raises

LEMMA WithinLimitsStep ==
  ASSUME TypeOK, [Next]_vars, NEW b \in Budgets
  PROVE  used'[b] <= used[b] \/ \E lim \in Limits : used'[b] <= lim[b]
<1>1. ASSUME NEW c \in Charges \cup Growths, NEW lim \in Limits,
             WithinLimits(c, lim, RecoveredUsed), used' = Plus(RecoveredUsed, c.units)
      PROVE  used'[b] <= used[b] \/ used'[b] <= lim[b]
  <2>1. c \in Charge /\ NamesItsUnits(c) /\ lim \in [Budgets -> Nat]
    BY ConstantsAssumption
  <2> QED BY <1>1, <2>1, FitsLimit
<1> QED
  BY <1>1, UsedShape

(* However admissions, growth, expiry and settlement interleave, and       *)
(* whatever limits their callers quote, no budget is charged beyond the    *)
(* largest limit quoted for it.                                            *)
THEOREM NotOversubscribed == Spec => []NoOversubscription
<1> DEFINE Bounded == TypeOK /\ NoOversubscription
<1>1. Init => Bounded
  BY NoReservationType DEF Init, TypeOK, NoOversubscription
<1>2. Bounded /\ [Next]_vars => Bounded'
  <2> SUFFICES ASSUME TypeOK, NoOversubscription, [Next]_vars
               PROVE  TypeOK' /\ NoOversubscription'
    OBVIOUS
  <2>1. TypeOK'
    BY TypeStep
  <2>2. ASSUME NEW b \in Budgets
        PROVE  used'[b] = 0 \/ \E lim \in Limits : used'[b] <= lim[b]
    <3>1. used[b] \in Nat /\ used'[b] \in Nat
      BY <2>1 DEF TypeOK
    <3>2. \A lim \in Limits : lim[b] \in Nat
      BY ConstantsAssumption
    <3>3. used'[b] <= used[b] \/ \E lim \in Limits : used'[b] <= lim[b]
      BY WithinLimitsStep
    <3>4. used[b] = 0 \/ \E lim \in Limits : used[b] <= lim[b]
      BY DEF NoOversubscription
    <3> QED BY <3>1, <3>2, <3>3, <3>4
  <2> QED BY <2>1, <2>2 DEF NoOversubscription
<1>3. Bounded => NoOversubscription
  OBVIOUS
<1> HIDE DEF Bounded
<1> QED
  BY <1>1, <1>2, <1>3, PTL DEF Spec
-----------------------------------------------------------------------------
(* The recovery gate.                                                      *)

LEMMA RecoveredGate ==
  ASSUME TypeOK, RecoveryGateSound, NEW op \in Operations, Retained(Recovered[op])
  PROVE  RecoveredNext # Infinity /\ RecoveredNext <= Deadline(Recovered[op])
<1>1. CASE GateOpen
  BY <1>1, RecoveredType, EarliestDeadlineIsLeast DEF RecoveredNext
<1>2. CASE ~GateOpen
  <2>1. Recovered[op] = reservations[op]
    BY <1>2 DEF Recovered, Expired
  <2> QED BY <1>2, <2>1 DEF RecoveredNext, RecoveryGateSound
<1> QED
  BY <1>1, <1>2

(* A deadline that is tracked, or that was covered before, is covered.     *)
LEMMA TrackedGate ==
  ASSUME TypeOK, RecoveryGateSound, NEW op \in Operations, NEW r \in Reservation,
         reservations' = [Recovered EXCEPT ![op] = r],
         NEW at \in Nat,
         nextRecoveryAt' = TrackRecoveryAt(RecoveredNext, at), at <= Deadline(r)
  PROVE  RecoveryGateSound'
<1> SUFFICES ASSUME NEW o \in Operations, Retained(reservations'[o])
             PROVE  /\ nextRecoveryAt' # Infinity
                    /\ nextRecoveryAt' <= Deadline(reservations'[o])
  BY DEF RecoveryGateSound, Retained, Deadline
<1>1. /\ RecoveredNext \in Nat \cup {Infinity} /\ Infinity \notin Nat
      /\ Deadline(r) \in Nat /\ Deadline(Recovered[o]) \in Nat
  BY RecoveredType, DeadlineType DEF Infinity
<1>2. nextRecoveryAt' \in Nat /\ nextRecoveryAt' <= at
  BY <1>1 DEF TrackRecoveryAt
<1>3. RecoveredNext = Infinity \/ nextRecoveryAt' <= RecoveredNext
  BY <1>1 DEF TrackRecoveryAt
<1>4. CASE o = op
  <2>1. reservations'[o] = r
    BY <1>4, RecoveredType
  <2> QED BY <1>1, <1>2, <2>1
<1>5. CASE o # op
  <2>1. reservations'[o] = Recovered[o]
    BY <1>5, RecoveredType
  <2>2. RecoveredNext # Infinity /\ RecoveredNext <= Deadline(Recovered[o])
    BY <2>1, RecoveredGate
  <2> QED BY <1>1, <1>2, <1>3, <2>1, <2>2
<1> QED
  BY <1>4, <1>5

LEMMA KeptGate ==
  ASSUME TypeOK, RecoveryGateSound, NEW op \in Operations, NEW r \in Reservation,
         reservations' = [Recovered EXCEPT ![op] = r], nextRecoveryAt' = RecoveredNext,
         Retained(Recovered[op]), Deadline(r) = Deadline(Recovered[op])
  PROVE  RecoveryGateSound'
<1> SUFFICES ASSUME NEW o \in Operations, Retained(reservations'[o])
             PROVE  /\ nextRecoveryAt' # Infinity
                    /\ nextRecoveryAt' <= Deadline(reservations'[o])
  BY DEF RecoveryGateSound, Retained, Deadline
<1>1. CASE o = op
  <2>1. reservations'[o] = r
    BY <1>1, RecoveredType
  <2> QED BY <1>1, <2>1, RecoveredGate
<1>2. CASE o # op
  <2>1. reservations'[o] = Recovered[o]
    BY <1>2, RecoveredType
  <2> QED BY <2>1, RecoveredGate
<1> QED
  BY <1>1, <1>2

LEMMA RecoverOnlyGate ==
  ASSUME TypeOK, RecoveryGateSound, reservations' = Recovered, nextRecoveryAt' = RecoveredNext
  PROVE  RecoveryGateSound'
BY RecoveredGate DEF RecoveryGateSound, Retained, Deadline

LEMMA GateStep ==
  ASSUME TypeOK, RecoveryGateSound, [Next]_vars
  PROVE  RecoveryGateSound'
<1>1. RecoverOnly => RecoveryGateSound'
  BY RecoverOnlyGate DEF RecoverOnly
<1>2. ASSUME NEW op \in Operations, NEW mode \in Modes, NEW c \in Charges,
             NEW lim \in Limits, NEW ttl \in Ttls, Admit(op, mode, c, lim, ttl)
      PROVE  RecoveryGateSound'
  <2>1. CASE RecoverOnly
    BY <1>1, <2>1
  <2>2. CASE ~RecoverOnly
    <3> DEFINE r == Pending(mode, c, clock + ttl, issued[op] + 1)
    <3>1. /\ reservations' = [Recovered EXCEPT ![op] = r]
          /\ nextRecoveryAt' = TrackRecoveryAt(RecoveredNext, clock + ttl)
      BY <1>2, <2>2 DEF Admit
    <3>2. clock + ttl \in Nat
      <4>1. ttl \in Nat
        BY ConstantsAssumption
      <4> QED BY <4>1 DEF TypeOK
    <3>3. issued[op] + 1 \in Nat
      BY DEF TypeOK
    <3>4. c \in Charge
      BY ConstantsAssumption
    <3>5. r \in Reservation
      BY <3>2, <3>3, <3>4, PendingType
    <3>6. Deadline(r) = clock + ttl
      BY DEF Deadline, Pending, NoReservation
    <3> HIDE DEF r
    <3>7. clock + ttl <= Deadline(r)
      BY <3>2, <3>6
    <3> QED BY <3>1, <3>2, <3>5, <3>7, TrackedGate
  <2> QED BY <2>1, <2>2
<1>3. ASSUME NEW op \in Operations, NEW mode \in Modes, NEW inc \in Increments,
             NEW cursor \in 1..MaxCursor, NEW add \in Growths, NEW lim \in Limits,
             Grow(op, mode, inc, cursor, add, lim)
      PROVE  RecoveryGateSound'
  <2>1. CASE RecoverOnly
    BY <1>1, <2>1
  <2>2. CASE ~RecoverOnly
    <3>1. PICK accepted \in BOOLEAN :
            /\ reservations' =
                 [Recovered EXCEPT ![op] = Decided(Recovered[op], op, inc, add, lim, accepted)]
            /\ nextRecoveryAt' = RecoveredNext
            /\ Active(Recovered[op])
      BY <1>3, <2>2 DEF Grow, GrowthApplies
    <3> DEFINE r == Decided(Recovered[op], op, inc, add, lim, accepted)
    <3>2. Recovered[op] \in Reservation
      BY RecoveredType
    <3>3. r \in Reservation
      BY <3>2, ConstantsAssumption, DecidedType
    <3>4. /\ r.state = Recovered[op].state /\ r.expiresAt = Recovered[op].expiresAt
          /\ r.tombstoneExpiresAt = Recovered[op].tombstoneExpiresAt
      BY <3>2 DEF Decided, GrowthResult, Reservation
    <3>5. Deadline(r) = Deadline(Recovered[op]) /\ Retained(Recovered[op])
      BY <3>1, <3>4 DEF Deadline, Active, Retained
    <3> HIDE DEF r
    <3>6. reservations' = [Recovered EXCEPT ![op] = r]
      BY <3>1 DEF r
    <3> QED BY <3>1, <3>3, <3>5, <3>6, KeptGate
  <2> QED BY <2>1, <2>2
<1>4. ASSUME NEW op \in Operations, NEW mode \in Modes, NEW actual \in Actuals,
             NEW outcome \in Outcomes, SettleAs(op, mode, actual, outcome)
      PROVE  RecoveryGateSound'
  <2>1. CASE RecoverOnly
    BY <1>1, <2>1
  <2>2. CASE ~RecoverOnly
    <3> DEFINE r == Settlement(Recovered[op], actual, outcome)
    <3>1. /\ reservations' = [Recovered EXCEPT ![op] = r]
          /\ nextRecoveryAt' = TrackRecoveryAt(RecoveredNext, clock + IdempotencyTtl)
      BY <1>4, <2>2 DEF SettleAs
    <3>2. Recovered[op] \in Reservation /\ clock \in Nat
      BY RecoveredType DEF TypeOK
    <3>3. clock + IdempotencyTtl \in Nat
      BY <3>2, ConstantTypes
    <3>4. r \in Reservation
      <4>1. actual \in [Budgets -> Nat]
        BY ConstantsAssumption
      <4> QED BY <3>2, <4>1, SettlementType
    <3>5. r.state = "settled" /\ r.tombstoneExpiresAt = clock + IdempotencyTtl
      BY <3>2 DEF Settlement, Reservation
    <3> HIDE DEF r
    <3>6. Deadline(r) = clock + IdempotencyTtl
      BY <3>5 DEF Deadline
    <3>7. clock + IdempotencyTtl <= Deadline(r)
      BY <3>3, <3>6
    <3> QED BY <3>1, <3>3, <3>4, <3>7, TrackedGate
  <2> QED BY <2>1, <2>2
<1>5. ASSUME NEW op \in Operations, MarkLiable(op)
      PROVE  RecoveryGateSound'
  <2>1. CASE RecoverOnly
    BY <1>1, <2>1
  <2>2. CASE ~RecoverOnly
    <3> DEFINE r == [Recovered[op] EXCEPT !.state = "liable"]
    <3>1. /\ reservations' = [Recovered EXCEPT ![op] = r]
          /\ nextRecoveryAt' = RecoveredNext /\ Active(Recovered[op])
      BY <1>5, <2>2 DEF MarkLiable
    <3>2. Recovered[op] \in Reservation
      BY RecoveredType
    <3>3. r \in Reservation /\ r.state = "liable" /\ r.expiresAt = Recovered[op].expiresAt
      BY <3>2 DEF Reservation
    <3> HIDE DEF r
    <3>4. Deadline(r) = Deadline(Recovered[op]) /\ Retained(Recovered[op])
      BY <3>1, <3>3 DEF Deadline, Active, Retained
    <3> QED BY <3>1, <3>3, <3>4, KeptGate
  <2> QED BY <2>1, <2>2
<1>6. ASSUME NEW op \in Operations, NEW ttl \in Ttls, Renew(op, ttl)
      PROVE  RecoveryGateSound'
  <2>1. CASE RecoverOnly
    BY <1>1, <2>1
  <2>2. CASE ~RecoverOnly
    <3> DEFINE r == [Recovered[op] EXCEPT !.expiresAt = clock + ttl]
    <3>1. /\ reservations' = [Recovered EXCEPT ![op] = r]
          /\ nextRecoveryAt' = TrackRecoveryAt(RecoveredNext, clock + ttl)
          /\ Active(Recovered[op])
      BY <1>6, <2>2 DEF Renew
    <3>2. Recovered[op] \in Reservation
      BY RecoveredType
    <3>3. clock + ttl \in Nat
      <4>1. ttl \in Nat
        BY ConstantsAssumption
      <4> QED BY <4>1 DEF TypeOK
    <3>4. /\ r \in Reservation /\ r.state = Recovered[op].state
          /\ r.expiresAt = clock + ttl
      BY <3>2, <3>3 DEF Reservation
    <3> HIDE DEF r
    <3>5. Deadline(r) = clock + ttl
      BY <3>1, <3>4 DEF Deadline, Active
    <3>6. clock + ttl <= Deadline(r)
      BY <3>3, <3>5
    <3> QED BY <3>1, <3>3, <3>4, <3>6, TrackedGate
  <2> QED BY <2>1, <2>2
<1>7. ASSUME NEW b \in Budgets, RetireBudgetKey(b)
      PROVE  RecoveryGateSound'
  BY <1>1, <1>7, RecoverOnlyGate DEF RetireBudgetKey
<1>8. CASE Stats
  BY <1>1, <1>8 DEF Stats
<1>9. CASE ClockStep \/ UNCHANGED vars
  BY <1>9 DEF ClockStep, vars, RecoveryGateSound, Retained, Deadline
<1>10. ASSUME NEW op \in Operations, NEW c \in Charges, NEW lim \in Limits, NEW ttl \in Ttls,
             \/ "scalar" \in Modes /\ Reserve(op, c, lim, ttl)
             \/ "vector" \in Modes /\ ReserveVector(op, c, lim, ttl)
      PROVE  RecoveryGateSound'
  BY <1>2, <1>10 DEF Reserve, ReserveVector
<1>11. ASSUME NEW op \in Operations, NEW inc \in Increments, NEW cursor \in 1..MaxCursor,
             NEW add \in Growths, NEW lim \in Limits,
             \/ "scalar" \in Modes /\ GrowReservation(op, inc, cursor, add, lim)
             \/ "vector" \in Modes /\ GrowVectorReservation(op, inc, cursor, add, lim)
      PROVE  RecoveryGateSound'
  BY <1>3, <1>11 DEF GrowReservation, GrowVectorReservation
<1>12. ASSUME NEW op \in Operations, NEW actual \in Actuals, NEW outcome \in Outcomes,
             \/ "scalar" \in Modes /\ Settle(op, actual, outcome)
             \/ "vector" \in Modes /\ SettleVector(op, actual, outcome)
      PROVE  RecoveryGateSound'
  BY <1>4, <1>12 DEF Settle, SettleVector
<1> QED
  BY <1>5, <1>6, <1>7, <1>8, <1>9, <1>10, <1>11, <1>12 DEF Next

(* The gate never hides a deadline: a call that skips recovery because     *)
(* nextRecoveryAt lies ahead has no expired lease or tombstone to recover, *)
(* whichever way renewals and the wall clock have moved.                   *)
THEOREM GateSound == Spec => []RecoveryGateSound
<1> DEFINE Gated == TypeOK /\ RecoveryGateSound
<1>1. Init => Gated
  <2>1. Init => TypeOK
    BY NoReservationType DEF Init, TypeOK
  <2>2. Init => RecoveryGateSound
    <3>1. Init => \A op \in Operations : ~Retained(reservations[op])
      <4>1. ~Retained(NoReservation)
        BY DEF Retained, NoReservation
      <4>2. Init => \A op \in Operations : reservations[op] = NoReservation
        BY DEF Init
      <4> QED BY <4>1, <4>2
    <3> QED BY <3>1 DEF RecoveryGateSound
  <2> QED BY <2>1, <2>2
<1>2. Gated /\ [Next]_vars => Gated'
  BY TypeStep, GateStep
<1>3. Gated => RecoveryGateSound
  OBVIOUS
<1> HIDE DEF Gated
<1> QED
  BY <1>1, <1>2, <1>3, PTL DEF Spec
-----------------------------------------------------------------------------
(* The shape of a step.                                                    *)

(* What a method may put in the place of the reservation that recovery     *)
(* left of op, with the growth cursors issued and the units charged.       *)
Admitted(op, r) ==
  /\ Recovered[op].state = "absent" /\ OperationRoom(Recovered)
  /\ \E mode \in Modes, c \in Charges, at \in Nat : r = Pending(mode, c, at, issued[op] + 1)
  /\ issued' = [issued EXCEPT ![op] = @ + 1] /\ spent' = RecoveredSpent

Relabelled(op, r) ==
  /\ Active(Recovered[op])
  /\ \/ r = [Recovered[op] EXCEPT !.state = "liable"]
     \/ \E at \in Nat : r = [Recovered[op] EXCEPT !.expiresAt = at]
  /\ issued' = issued /\ spent' = RecoveredSpent

Grown(op, r) ==
  /\ Active(Recovered[op])
  /\ \E inc \in Increments, add \in Growths, lim \in Limits, accepted \in BOOLEAN :
       r = Decided(Recovered[op], op, inc, add, lim, accepted)
  /\ issued' = [issued EXCEPT ![op] = @ + 1] /\ spent' = RecoveredSpent

Settled(op, r) ==
  /\ \E mode \in Modes, actual \in Actuals, outcome \in Outcomes :
       /\ Settles(op, mode, actual)
       /\ r = Settlement(Recovered[op], actual, outcome)
       /\ spent' = Plus(RecoveredSpent, actual)
  /\ issued' = issued

Replaces(op, r) ==
  /\ r \in Reservation
  /\ reservations' = [Recovered EXCEPT ![op] = r]
  /\ Admitted(op, r) \/ Relabelled(op, r) \/ Grown(op, r) \/ Settled(op, r)

Recovers ==
  /\ reservations' = Recovered /\ issued' = issued
  /\ \/ spent' = RecoveredSpent
     \/ \E b \in Budgets : ~Referenced(b, Recovered) /\ spent' = [RecoveredSpent EXCEPT ![b] = 0]

(* A step replaces one reservation after recovery, or only recovers,       *)
(* perhaps retiring a budget key, or leaves the books alone.               *)
LEMMA StepShape ==
  ASSUME TypeOK, [Next]_vars
  PROVE  \/ UNCHANGED <<reservations, issued, used, spent>>
         \/ Recovers
         \/ \E op \in Operations, r \in Reservation : Replaces(op, r)
<1> DEFINE Kept == UNCHANGED <<reservations, issued, used, spent>> \/ Recovers
           Replaced == \E op \in Operations, r \in Reservation : Replaces(op, r)
<1>1. RecoverOnly => Kept
  BY DEF RecoverOnly, Recovers
<1>2. ASSUME NEW op \in Operations, NEW r,
             reservations' = [Recovered EXCEPT ![op] = r],
             Admitted(op, r) \/ Relabelled(op, r) \/ Grown(op, r) \/ Settled(op, r)
      PROVE  Replaced
  <2>1. TypeOK'
    BY TypeStep
  <2>2. r = reservations'[op]
    BY <1>2, RecoveredType
  <2>3. r \in Reservation
    BY <2>1, <2>2 DEF TypeOK
  <2> QED BY <1>2, <2>3 DEF Replaces
<1>3. ASSUME NEW op \in Operations, NEW mode \in Modes, NEW c \in Charges,
             NEW lim \in Limits, NEW ttl \in Ttls, Admit(op, mode, c, lim, ttl)
      PROVE  Kept \/ Replaced
  <2>1. clock + ttl \in Nat
    <3>1. ttl \in Nat
      BY ConstantsAssumption
    <3> QED BY <3>1 DEF TypeOK
  <2>2. CASE ~RecoverOnly
    <3> DEFINE r == Pending(mode, c, clock + ttl, issued[op] + 1)
    <3>1. reservations' = [Recovered EXCEPT ![op] = r] /\ Admitted(op, r)
      BY <1>3, <2>1, <2>2 DEF Admit, Admits, Admitted
    <3> HIDE DEF r, Replaced
    <3> QED BY <1>2, <3>1
  <2> HIDE DEF Kept, Replaced
  <2> QED BY <1>1, <2>2
<1>4. ASSUME NEW op \in Operations, NEW mode \in Modes, NEW inc \in Increments,
             NEW cursor \in 1..MaxCursor, NEW add \in Growths, NEW lim \in Limits,
             Grow(op, mode, inc, cursor, add, lim)
      PROVE  Kept \/ Replaced
  <2>1. CASE ~RecoverOnly
    <3>1. PICK accepted \in BOOLEAN :
            /\ reservations' =
                 [Recovered EXCEPT ![op] = Decided(Recovered[op], op, inc, add, lim, accepted)]
            /\ issued' = [issued EXCEPT ![op] = @ + 1] /\ spent' = RecoveredSpent
            /\ Active(Recovered[op])
      BY <1>4, <2>1 DEF Grow, GrowthApplies
    <3>2. Grown(op, Decided(Recovered[op], op, inc, add, lim, accepted))
      BY <3>1 DEF Grown
    <3> HIDE DEF Replaced
    <3> QED BY <1>2, <3>1, <3>2
  <2> HIDE DEF Kept, Replaced
  <2> QED BY <1>1, <2>1
<1>5. ASSUME NEW op \in Operations, NEW mode \in Modes, NEW actual \in Actuals,
             NEW outcome \in Outcomes, SettleAs(op, mode, actual, outcome)
      PROVE  Kept \/ Replaced
  <2>1. CASE ~RecoverOnly
    <3>1. /\ reservations' =
               [Recovered EXCEPT ![op] = Settlement(Recovered[op], actual, outcome)]
          /\ Settled(op, Settlement(Recovered[op], actual, outcome))
      BY <1>5, <2>1 DEF SettleAs, Settled
    <3> HIDE DEF Replaced
    <3> QED BY <1>2, <3>1
  <2> HIDE DEF Kept, Replaced
  <2> QED BY <1>1, <2>1
<1>6. ASSUME NEW op \in Operations, MarkLiable(op)
      PROVE  Kept \/ Replaced
  <2>1. CASE ~RecoverOnly
    <3> DEFINE r == [Recovered[op] EXCEPT !.state = "liable"]
    <3>1. reservations' = [Recovered EXCEPT ![op] = r] /\ Relabelled(op, r)
      BY <1>6, <2>1 DEF MarkLiable, Relabelled
    <3> HIDE DEF r, Replaced
    <3> QED BY <1>2, <3>1
  <2> HIDE DEF Kept, Replaced
  <2> QED BY <1>1, <2>1
<1>7. ASSUME NEW op \in Operations, NEW ttl \in Ttls, Renew(op, ttl)
      PROVE  Kept \/ Replaced
  <2>1. clock + ttl \in Nat
    <3>1. ttl \in Nat
      BY ConstantsAssumption
    <3> QED BY <3>1 DEF TypeOK
  <2>2. CASE ~RecoverOnly
    <3> DEFINE r == [Recovered[op] EXCEPT !.expiresAt = clock + ttl]
    <3>1. reservations' = [Recovered EXCEPT ![op] = r] /\ Relabelled(op, r)
      BY <1>7, <2>1, <2>2 DEF Renew, Relabelled
    <3> HIDE DEF r, Replaced
    <3> QED BY <1>2, <3>1
  <2> HIDE DEF Kept, Replaced
  <2> QED BY <1>1, <2>2
<1>8. ASSUME NEW b \in Budgets, RetireBudgetKey(b)
      PROVE  Kept
  BY <1>8, <1>1 DEF RetireBudgetKey, Recovers
<1>9. ASSUME Stats \/ ClockStep \/ UNCHANGED vars
      PROVE  Kept
  BY <1>9, <1>1 DEF Stats, ClockStep, vars
<1> HIDE DEF Kept, Replaced
<1>10. ASSUME NEW op \in Operations, NEW c \in Charges, NEW lim \in Limits, NEW ttl \in Ttls,
              \/ "scalar" \in Modes /\ Reserve(op, c, lim, ttl)
              \/ "vector" \in Modes /\ ReserveVector(op, c, lim, ttl)
       PROVE  Kept \/ Replaced
  BY <1>3, <1>10 DEF Reserve, ReserveVector
<1>11. ASSUME NEW op \in Operations, NEW inc \in Increments, NEW cursor \in 1..MaxCursor,
              NEW add \in Growths, NEW lim \in Limits,
              \/ "scalar" \in Modes /\ GrowReservation(op, inc, cursor, add, lim)
              \/ "vector" \in Modes /\ GrowVectorReservation(op, inc, cursor, add, lim)
       PROVE  Kept \/ Replaced
  BY <1>4, <1>11 DEF GrowReservation, GrowVectorReservation
<1>12. ASSUME NEW op \in Operations, NEW actual \in Actuals, NEW outcome \in Outcomes,
              \/ "scalar" \in Modes /\ Settle(op, actual, outcome)
              \/ "vector" \in Modes /\ SettleVector(op, actual, outcome)
       PROVE  Kept \/ Replaced
  BY <1>5, <1>12 DEF Settle, SettleVector
<1>13. Kept \/ Replaced
  BY <1>6, <1>7, <1>8, <1>9, <1>10, <1>11, <1>12 DEF Next
<1> QED
  BY <1>13 DEF Kept, Replaced
-----------------------------------------------------------------------------
(* What a step may never do.                                               *)

(* What recovery does to a reservation.                                    *)
LEMMA RecoveredFates ==
  ASSUME TypeOK, NEW op \in Operations
  PROVE  /\ ~Overdue(reservations[op]) => Recovered[op] = reservations[op]
         /\ GateOpen /\ Overdue(reservations[op]) /\ reservations[op].state = "liable" =>
              Recovered[op] = Retain(reservations[op])
         /\ \/ Recovered[op] = reservations[op]
            \/ Recovered[op] = NoReservation /\ reservations[op].state \in {"pending", "settled"}
            \/ Recovered[op] = Retain(reservations[op]) /\ reservations[op].state = "liable"
BY DEF Recovered, Expired

(* The fields of the records that the methods write.                       *)
LEMMA RetainFields ==
  ASSUME NEW r \in Reservation, NEW actual, NEW outcome
  PROVE  LET s == Settlement(r, actual, outcome)
         IN  /\ s.state = "settled" /\ s.actual = actual /\ s.outcome = outcome
             /\ s.mode = r.mode /\ s.budgetKeys = r.budgetKeys /\ s.reserved = r.reserved
             /\ s.growthCursor = r.growthCursor /\ s.lastGrowth = r.lastGrowth
BY DEF Settlement, Reservation

LEMMA PendingFields ==
  ASSUME NEW mode, NEW c, NEW at, NEW cursor
  PROVE  LET s == Pending(mode, c, at, cursor)
         IN  /\ s.state = "pending" /\ s.reserved = c.units /\ s.outcome = ""
             /\ s.growthCursor = cursor /\ s.lastGrowth = {}
BY DEF Pending, NoReservation

LEMMA DecidedFields ==
  ASSUME NEW r \in Reservation, NEW op, NEW inc, NEW c, NEW lim, NEW accepted \in BOOLEAN
  PROVE  LET s == Decided(r, op, inc, c, lim, accepted)
         IN  /\ s.state = r.state /\ s.mode = r.mode /\ s.budgetKeys = r.budgetKeys
             /\ s.reserved = IF accepted THEN Plus(r.reserved, c.units) ELSE r.reserved
             /\ s.growthCursor = issued[op] + 1
             /\ s.outcome = r.outcome /\ s.actual = r.actual
             /\ \A g \in s.lastGrowth :
                  /\ g.reserved = s.reserved /\ g.growthCursor = s.growthCursor
                  /\ g.expectedGrowthCursor = r.growthCursor
<1> DEFINE last == GrowthResult(r, op, inc, c, lim, accepted)
           s == [r EXCEPT !.reserved = last.reserved, !.growthCursor = last.growthCursor,
                          !.lastGrowth = {last}]
<1>1. /\ last.reserved = IF accepted THEN Plus(r.reserved, c.units) ELSE r.reserved
      /\ last.growthCursor = issued[op] + 1
      /\ last.expectedGrowthCursor = r.growthCursor
  BY DEF GrowthResult
<1>2. Decided(r, op, inc, c, lim, accepted) = s
  BY DEF Decided
<1> HIDE DEF last
<1>3. /\ s.state = r.state /\ s.mode = r.mode /\ s.budgetKeys = r.budgetKeys
      /\ s.reserved = last.reserved /\ s.growthCursor = last.growthCursor
      /\ s.outcome = r.outcome /\ s.actual = r.actual /\ s.lastGrowth = {last}
  BY DEF Reservation
<1> HIDE DEF s
<1> QED
  BY <1>1, <1>2, <1>3

(* A replacement is made of what recovery left, and an active reservation  *)
(* is replaced by one with the same labels and no less reserved, or by its *)
(* settlement.                                                             *)
LEMMA ReplacementOf ==
  ASSUME TypeOK, NEW op \in Operations, NEW r \in Reservation, Replaces(op, r)
  PROVE  LET q == Recovered[op]
         IN  /\ q.state = "absent" \/ Active(q)
             /\ q.state = "absent" => r.state = "pending"
             /\ Active(q) =>
                  /\ q = reservations[op]
                  /\ r.state \in {q.state, "liable", "settled"}
                  /\ r.mode = q.mode /\ r.budgetKeys = q.budgetKeys
                  /\ \A b \in Budgets : r.reserved[b] >= q.reserved[b]
                  /\ r.reserved = q.reserved \/ r.growthCursor = issued[op] + 1
                  /\ r.state = "settled" => r.reserved = q.reserved
<1> DEFINE q == Recovered[op]
<1>1. q \in Reservation /\ q.reserved \in [Budgets -> Nat]
  BY RecoveredType DEF Reservation
<1>2. Active(q) => q = reservations[op]
  BY RecoveredActive
<1>3. ~ (q.state = "absent" /\ Active(q))
  BY DEF Active
<1>4. CASE Admitted(op, r)
  <2>1. PICK mode, c, at : r = Pending(mode, c, at, issued[op] + 1)
    BY <1>4 DEF Admitted
  <2>2. r.state = "pending"
    BY <2>1 DEF Pending, NoReservation
  <2>3. q.state = "absent"
    BY <1>4 DEF Admitted
  <2> HIDE DEF q
  <2> QED BY <1>3, <2>2, <2>3 DEF q
<1>5. CASE Relabelled(op, r)
  <2>1. /\ Active(q) /\ r.state \in {q.state, "liable"} /\ q.state # "settled"
        /\ r.mode = q.mode /\ r.budgetKeys = q.budgetKeys /\ r.reserved = q.reserved
    <3> HIDE DEF q
    <3> QED BY <1>1, <1>5 DEF Relabelled, Reservation, q, Active
  <2> HIDE DEF q
  <2> QED BY <1>1, <1>2, <1>3, <2>1 DEF q
<1>6. CASE Grown(op, r)
  <2>1. PICK inc \in Increments, add \in Growths, lim \in Limits, accepted \in BOOLEAN :
          r = Decided(q, op, inc, add, lim, accepted)
    BY <1>6 DEF Grown
  <2>2. add.units \in [Budgets -> Nat]
    <3>1. add \in Charge
      BY ConstantsAssumption
    <3> QED BY <3>1 DEF Charge
  <2>3. Active(q) /\ q.state # "settled"
    BY <1>6 DEF Grown, Active
  <2>4. /\ r.state = q.state /\ r.mode = q.mode /\ r.budgetKeys = q.budgetKeys
        /\ r.reserved = IF accepted THEN Plus(q.reserved, add.units) ELSE q.reserved
        /\ r.growthCursor = issued[op] + 1
    BY <1>1, <2>1, DecidedFields
  <2> HIDE DEF q
  <2>5. \A b \in Budgets : r.reserved[b] >= q.reserved[b]
    <3>1. ASSUME NEW b \in Budgets
          PROVE  q.reserved[b] \in Nat /\ add.units[b] \in Nat
      BY <1>1, <2>2
    <3> QED BY <2>4, <3>1 DEF Plus
  <2> QED BY <1>2, <1>3, <2>3, <2>4, <2>5 DEF q
<1>7. CASE Settled(op, r)
  <2>1. PICK actual, outcome : Active(q) /\ r = Settlement(q, actual, outcome)
    BY <1>7 DEF Settled, Settles
  <2>2. /\ r.state = "settled" /\ r.mode = q.mode
        /\ r.budgetKeys = q.budgetKeys /\ r.reserved = q.reserved
    BY <1>1, <2>1, RetainFields
  <2> HIDE DEF q
  <2> QED BY <1>1, <1>2, <1>3, <2>1, <2>2 DEF q
<1> QED
  BY <1>4, <1>5, <1>6, <1>7 DEF Replaces

(* A replacement puts its record on its own operation and leaves every     *)
(* other reservation as recovery left it.                                  *)
LEMMA NotReplaced ==
  ASSUME TypeOK, NEW op \in Operations, NEW r \in Reservation, Replaces(op, r),
         NEW o \in Operations
  PROVE  /\ o = op => reservations'[o] = r
         /\ o # op => reservations'[o] = Recovered[o]
BY RecoveredType DEF Replaces

LEMMA SettlementStep ==
  ASSUME TypeOK, [Next]_vars, NEW op \in Operations,
         reservations[op].state = "settled", ~Overdue(reservations[op])
  PROVE  reservations'[op] = reservations[op]
<1>1. Recovered[op] = reservations[op]
  BY RecoveredFates
<1>2. ASSUME NEW o \in Operations, NEW r \in Reservation, Replaces(o, r)
      PROVE  reservations'[op] = reservations[op]
  <2>1. o # op
    BY <1>1, <1>2, ReplacementOf DEF Active
  <2> QED BY <1>1, <1>2, <2>1, NotReplaced
<1> QED
  BY <1>1, <1>2, StepShape DEF Recovers

(* A terminal result is immutable while its tombstone lasts, whatever      *)
(* other calls do and however often the operation is retried.              *)
THEOREM SettlementsFinal == Spec => SettlementFinal
<1>1. TypeOK /\ [Next]_vars =>
        [\A op \in Operations :
           reservations[op].state = "settled" /\ ~Overdue(reservations[op]) =>
             reservations'[op] = reservations[op]]_vars
  BY SettlementStep
<1> QED
  BY <1>1, Typed, PTL DEF Spec, SettlementFinal

LEMMA LiableStep ==
  ASSUME TypeOK, RecoveryGateSound, [Next]_vars, NEW op \in Operations,
         reservations[op].state = "liable"
  PROVE  \/ reservations' = reservations
         \/ /\ reservations'[op].state \in {"liable", "settled"}
            /\ reservations'[op].state = "settled" /\ Overdue(reservations[op]) =>
                 reservations'[op].actual = reservations[op].reserved
<1> DEFINE Kept(r) == /\ r.state \in {"liable", "settled"}
                      /\ r.state = "settled" /\ Overdue(reservations[op]) =>
                           r.actual = reservations[op].reserved
<1>1. reservations[op] \in Reservation
  BY DEF TypeOK
<1>2. Retain(reservations[op]).state = "settled"
      /\ Retain(reservations[op]).actual = reservations[op].reserved
  BY <1>1, RetainFields DEF Retain
<1>3. Kept(Recovered[op])
  BY <1>2, RecoveredFates
<1>4. Overdue(reservations[op]) => Recovered[op].state = "settled"
  <2>1. Overdue(reservations[op]) => GateOpen
    <3>1. /\ nextRecoveryAt \in Nat \cup {Infinity} /\ clock \in Nat
          /\ Deadline(reservations[op]) \in Nat
      BY <1>1, DeadlineType DEF TypeOK
    <3>2. Retained(reservations[op])
      BY DEF Retained
    <3> QED BY <3>1, <3>2 DEF RecoveryGateSound, Overdue, GateOpen, Infinity
  <2> QED BY <1>2, <2>1, RecoveredFates
<1>5. ASSUME NEW o \in Operations, NEW r \in Reservation, Replaces(o, r)
      PROVE  Kept(reservations'[op])
  <2>1. CASE o # op
    BY <1>3, <1>5, <2>1, NotReplaced
  <2>2. CASE o = op
    <3>1. reservations'[op] = r
      BY <1>5, <2>2, NotReplaced
    <3>2. Active(Recovered[op])
      BY <1>3, <1>5, <2>2, ReplacementOf
    <3>3. r.state \in {"liable", "settled"}
      BY <1>3, <1>5, <2>2, <3>2, ReplacementOf
    <3>4. ~Overdue(reservations[op])
      BY <1>4, <3>2 DEF Active
    <3> QED BY <3>1, <3>3, <3>4
  <2> QED BY <2>1, <2>2
<1> HIDE DEF Kept
<1>6. reservations' = reservations \/ Kept(reservations'[op])
  BY <1>3, <1>5, StepShape DEF Recovers
<1> QED
  BY <1>6 DEF Kept

(* Work that was marked liable is charged in full once its lease has run   *)
(* out, and is never released, denied by a late settlement or forgotten.   *)
THEOREM LiableKept == Spec => LiableNeverRefunded
<1>1. TypeOK /\ RecoveryGateSound /\ [Next]_vars =>
        [\A op \in Operations : reservations[op].state = "liable" =>
           /\ reservations'[op].state \in {"liable", "settled"}
           /\ reservations'[op].state = "settled" /\ Overdue(reservations[op]) =>
                reservations'[op].actual = reservations[op].reserved]_vars
  <2> SUFFICES ASSUME TypeOK, RecoveryGateSound, [Next]_vars,
                      NEW op \in Operations, reservations[op].state = "liable"
               PROVE  /\ reservations'[op].state \in {"liable", "settled"}
                      /\ reservations'[op].state = "settled" /\ Overdue(reservations[op]) =>
                           reservations'[op].actual = reservations[op].reserved
    BY Zenon
  <2> QED BY LiableStep
<1> QED
  BY <1>1, Typed, GateSound, PTL DEF Spec, LiableNeverRefunded
-----------------------------------------------------------------------------
(* Growth.                                                                 *)

(* No record carries a cursor that was not issued yet.                     *)
CursorIssued == \A op \in Operations : reservations[op].growthCursor <= issued[op]

LEMMA CursorStep ==
  ASSUME TypeOK, CursorIssued, [Next]_vars
  PROVE  CursorIssued'
<1> SUFFICES ASSUME NEW op \in Operations
             PROVE  reservations'[op].growthCursor <= issued'[op]
  BY DEF CursorIssued
<1>1. /\ reservations[op] \in Reservation /\ reservations[op].growthCursor \in Nat
      /\ issued[op] \in Nat /\ reservations[op].growthCursor <= issued[op]
  BY DEF TypeOK, Reservation, CursorIssued
<1>2. Recovered[op].growthCursor <= issued[op]
  <2>1. Retain(reservations[op]).growthCursor = reservations[op].growthCursor
    BY <1>1, RetainFields DEF Retain
  <2>2. NoReservation.growthCursor = 0
    BY DEF NoReservation
  <2> QED BY <1>1, <2>1, <2>2, RecoveredFates
<1>3. ASSUME NEW o \in Operations, NEW r \in Reservation, Replaces(o, r)
      PROVE  reservations'[op].growthCursor <= issued'[op]
  <2>1. CASE o # op
    <3>1. issued'[op] = issued[op]
      BY <1>3, <2>1 DEF Replaces, Admitted, Relabelled, Grown, Settled, TypeOK
    <3> QED BY <1>2, <1>3, <2>1, <3>1, NotReplaced
  <2>2. CASE o = op
    <3>1. reservations'[op] = r
      BY <1>3, <2>2, NotReplaced
    <3>2. CASE Admitted(op, r)
      <4>1. r.growthCursor = issued[op] + 1
        BY <3>2 DEF Admitted, Pending, NoReservation
      <4>2. issued'[op] = issued[op] + 1
        BY <3>2 DEF Admitted, TypeOK
      <4> QED BY <1>1, <3>1, <4>1, <4>2
    <3>3. CASE Relabelled(op, r) \/ Settled(op, r)
      <4>1. Recovered[op] \in Reservation
        BY RecoveredType
      <4>2. r.growthCursor = Recovered[op].growthCursor /\ issued' = issued
        BY <3>3, <4>1 DEF Relabelled, Settled, Settlement, Reservation
      <4> QED BY <1>2, <3>1, <4>2
    <3>4. CASE Grown(op, r)
      <4>1. Recovered[op] \in Reservation
        BY RecoveredType
      <4>2. r.growthCursor = issued[op] + 1
        BY <3>4, <4>1, DecidedFields DEF Grown
      <4>3. issued'[op] = issued[op] + 1
        BY <3>4 DEF Grown, TypeOK
      <4> QED BY <1>1, <3>1, <4>2, <4>3
    <3> QED BY <1>3, <2>2, <3>2, <3>3, <3>4 DEF Replaces
  <2> QED BY <2>1, <2>2
<1> QED
  BY <1>1, <1>2, <1>3, StepShape DEF Recovers

LEMMA CursorInit == Init => TypeOK /\ CursorIssued
<1>1. Init => TypeOK
  BY NoReservationType DEF Init, TypeOK
<1>2. NoReservation.growthCursor = 0
  BY DEF NoReservation
<1> QED
  BY <1>1, <1>2 DEF Init, CursorIssued

(* A growth result that a record still carries is the one its capacity and *)
(* its cursor come from.                                                   *)
CurrentGrowth(r) ==
  \A g \in r.lastGrowth :
    /\ r.reserved = g.reserved /\ r.growthCursor = g.growthCursor
    /\ g.expectedGrowthCursor < g.growthCursor

LEMMA CurrentGrowthStep ==
  ASSUME TypeOK, CursorIssued, GrowthReplayIsCurrent, [Next]_vars
  PROVE  GrowthReplayIsCurrent'
<1>1. \A op \in Operations : CurrentGrowth(reservations[op])
  BY DEF GrowthReplayIsCurrent, CurrentGrowth
<1>2. ASSUME NEW op \in Operations
      PROVE  CurrentGrowth(reservations'[op])
  <2>1. reservations[op] \in Reservation /\ Recovered[op] \in Reservation
    BY RecoveredType DEF TypeOK
  <2>2. ASSUME NEW r \in Reservation, NEW s, CurrentGrowth(r),
               s.lastGrowth = r.lastGrowth, s.reserved = r.reserved,
               s.growthCursor = r.growthCursor
        PROVE  CurrentGrowth(s)
    BY <2>2 DEF CurrentGrowth
  <2>3. ASSUME NEW s, s.lastGrowth = {} PROVE CurrentGrowth(s)
    BY <2>3 DEF CurrentGrowth
  <2>4. CurrentGrowth(Recovered[op])
    <3>1. CurrentGrowth(NoReservation)
      BY <2>3 DEF NoReservation
    <3>2. CurrentGrowth(Retain(reservations[op]))
      BY <1>1, <2>1, <2>2, RetainFields DEF Retain
    <3> QED BY <1>1, <3>1, <3>2, RecoveredFates
  <2>5. ASSUME NEW o \in Operations, NEW r \in Reservation, Replaces(o, r)
        PROVE  CurrentGrowth(reservations'[op])
    <3>1. CASE o # op
      BY <2>4, <2>5, <3>1, NotReplaced
    <3>2. CASE o = op
      <4>1. CASE Admitted(op, r)
        <5>1. r.lastGrowth = {}
          BY <4>1 DEF Admitted, Pending, NoReservation
        <5> QED BY <2>3, <2>5, <3>2, <5>1, NotReplaced
      <4>2. CASE Relabelled(op, r) \/ Settled(op, r)
        <5>1. /\ r.lastGrowth = Recovered[op].lastGrowth
              /\ r.reserved = Recovered[op].reserved
              /\ r.growthCursor = Recovered[op].growthCursor
          BY <2>1, <4>2 DEF Relabelled, Settled, Settlement, Reservation
        <5>2. CurrentGrowth(r)
          BY <2>1, <2>2, <2>4, <5>1
        <5> QED BY <2>5, <3>2, <5>2, NotReplaced
      <4>3. CASE Grown(op, r)
        <5>1. PICK inc \in Increments, add \in Growths, lim \in Limits, accepted \in BOOLEAN :
                r = Decided(Recovered[op], op, inc, add, lim, accepted)
          BY <4>3 DEF Grown
        <5>2. /\ r.growthCursor = issued[op] + 1
              /\ \A g \in r.lastGrowth :
                   /\ g.reserved = r.reserved /\ g.growthCursor = r.growthCursor
                   /\ g.expectedGrowthCursor = Recovered[op].growthCursor
          BY <2>1, <5>1, DecidedFields
        <5>3. Recovered[op] = reservations[op]
          BY <4>3, RecoveredActive DEF Grown
        <5>4. reservations[op].growthCursor < issued[op] + 1
          <6>1. /\ reservations[op].growthCursor \in Nat /\ issued[op] \in Nat
                /\ reservations[op].growthCursor <= issued[op]
            BY <2>1 DEF CursorIssued, TypeOK, Reservation
          <6> QED BY <6>1
        <5>5. CurrentGrowth(r)
          BY <5>2, <5>3, <5>4 DEF CurrentGrowth
        <5> QED BY <2>5, <3>2, <5>5, NotReplaced
      <4> QED BY <2>5, <3>2, <4>1, <4>2, <4>3 DEF Replaces
    <3> QED BY <3>1, <3>2
  <2> QED BY <1>1, <2>4, <2>5, StepShape DEF Recovers
<1> QED
  BY <1>2 DEF GrowthReplayIsCurrent, CurrentGrowth

(* An exact retry of growth returns the reservation's present capacity and *)
(* cursor, whatever happened since its first answer was lost.              *)
THEOREM GrowthReplay == Spec => []GrowthReplayIsCurrent
<1> DEFINE Inv == TypeOK /\ CursorIssued /\ GrowthReplayIsCurrent
<1>1. Init => Inv
  <2>1. NoReservation.lastGrowth = {}
    BY DEF NoReservation
  <2>2. Init => GrowthReplayIsCurrent
    BY <2>1 DEF Init, GrowthReplayIsCurrent
  <2> QED BY <2>2, CursorInit
<1>2. Inv /\ [Next]_vars => Inv'
  BY TypeStep, CursorStep, CurrentGrowthStep
<1>3. Inv => GrowthReplayIsCurrent
  OBVIOUS
<1> HIDE DEF Inv
<1> QED
  BY <1>1, <1>2, <1>3, PTL DEF Spec

LEMMA ShrinkStep ==
  ASSUME TypeOK, CursorIssued, [Next]_vars, NEW op \in Operations,
         Active(reservations[op]), ~Overdue(reservations[op])
  PROVE  LET r == reservations[op]
             s == reservations'[op]
         IN  /\ s.state \in {r.state, "liable", "settled"}
             /\ s.mode = r.mode /\ s.budgetKeys = r.budgetKeys
             /\ \A b \in Budgets : s.reserved[b] >= r.reserved[b]
             /\ s.reserved # r.reserved => s.growthCursor > r.growthCursor
<1> DEFINE q == reservations[op]
           Keeps(s) ==
             /\ s.state \in {q.state, "liable", "settled"}
             /\ s.mode = q.mode /\ s.budgetKeys = q.budgetKeys
             /\ \A b \in Budgets : s.reserved[b] >= q.reserved[b]
             /\ s.reserved # q.reserved => s.growthCursor > q.growthCursor
<1>1. Recovered[op] = q
  BY RecoveredFates
<1>2. /\ \A b \in Budgets : q.reserved[b] \in Nat
      /\ q.growthCursor \in Nat /\ issued[op] \in Nat /\ q.growthCursor <= issued[op]
  BY DEF TypeOK, Reservation, CursorIssued
<1>3. Keeps(q)
  BY <1>2
<1>4. ASSUME NEW o \in Operations, NEW r \in Reservation, Replaces(o, r)
      PROVE  Keeps(reservations'[op])
  <2>1. CASE o # op
    BY <1>1, <1>3, <1>4, <2>1, NotReplaced
  <2>2. CASE o = op
    <3>1. Active(Recovered[op])
      BY <1>1
    <3>2. /\ r.state \in {q.state, "liable", "settled"}
          /\ r.mode = q.mode /\ r.budgetKeys = q.budgetKeys
          /\ \A b \in Budgets : r.reserved[b] >= q.reserved[b]
          /\ r.reserved = q.reserved \/ r.growthCursor = issued[op] + 1
      <4> HIDE DEF q
      <4> QED BY <1>1, <1>4, <2>2, <3>1, ReplacementOf
    <3>3. Keeps(r)
      <4> HIDE DEF q
      <4> QED BY <1>2, <3>2
    <3> HIDE DEF Keeps
    <3> QED BY <1>4, <2>2, <3>3, NotReplaced
  <2> QED BY <2>1, <2>2
<1> HIDE DEF Keeps
<1>5. Keeps(reservations'[op])
  BY <1>1, <1>3, <1>4, StepShape DEF Recovers
<1> QED
  BY <1>5 DEF Keeps

(* While a lease lasts, nothing but growth that consumes its cursor        *)
(* changes what it reserves: no retried admission, later limit, renewal or *)
(* recovery of other operations takes capacity away from running work.     *)
THEOREM NeverShrinks == Spec => ReservationNeverShrinks
<1> DEFINE Inv == TypeOK /\ CursorIssued
<1>1. Inv /\ [Next]_vars => Inv'
  BY TypeStep, CursorStep
<1>2. Inv /\ [Next]_vars =>
        [\A op \in Operations :
           LET r == reservations[op]
               s == reservations'[op]
           IN  Active(r) /\ ~Overdue(r) =>
                 /\ s.state \in {r.state, "liable", "settled"}
                 /\ s.mode = r.mode /\ s.budgetKeys = r.budgetKeys
                 /\ \A b \in Budgets : s.reserved[b] >= r.reserved[b]
                 /\ s.reserved # r.reserved => s.growthCursor > r.growthCursor]_vars
  BY ShrinkStep
<1>3. Init => Inv
  BY CursorInit
<1> HIDE DEF Inv
<1> QED
  BY <1>1, <1>2, <1>3, PTL DEF Spec, ReservationNeverShrinks
-----------------------------------------------------------------------------
(* Retention.                                                              *)

LEMMA RetentionStep ==
  ASSUME TypeOK, RetentionBounded, [Next]_vars
  PROVE  RetentionBounded'
<1> DEFINE Ops(rs) == {op \in Operations : Retained(rs[op])}
           Keys(u) == {b \in Budgets : u[b] > 0}
<1>1. /\ IsFiniteSet(Operations) /\ IsFiniteSet(Budgets)
      /\ MaxRetainedOperations \in Nat /\ MaxRetainedBudgetKeys \in Nat
  BY ConstantsAssumption
<1>2. ASSUME NEW S, NEW T, NEW max \in Nat, IsFiniteSet(T), S \subseteq T, Cardinality(T) <= max
      PROVE  Cardinality(S) <= max
  <2>1. IsFiniteSet(S) /\ Cardinality(S) <= Cardinality(T)
    BY <1>2, FS_Subset
  <2>2. Cardinality(S) \in Nat /\ Cardinality(T) \in Nat
    BY <1>2, <2>1, FS_CardinalityType
  <2> QED BY <1>2, <2>1, <2>2
<1>3. /\ \A rs : IsFiniteSet(Ops(rs))
      /\ \A u : IsFiniteSet(Keys(u))
  BY <1>1, FS_Subset
<1>4. /\ Cardinality(Ops(reservations)) <= MaxRetainedOperations
      /\ Cardinality(Keys(used)) <= MaxRetainedBudgetKeys
  BY DEF RetentionBounded
<1>5. Ops(Recovered) \subseteq Ops(reservations)
  BY RecoveredFates DEF Retained, NoReservation
<1>6. Cardinality(Ops(reservations')) <= MaxRetainedOperations
  <2>1. CASE Ops(reservations') \subseteq Ops(reservations)
    <3> HIDE DEF Ops
    <3> QED BY <1>1, <1>2, <1>3, <1>4, <2>1
  <2>2. ASSUME NEW op \in Operations, NEW r \in Reservation, Replaces(op, r)
        PROVE  Cardinality(Ops(reservations')) <= MaxRetainedOperations
    <3>1. CASE Retained(Recovered[op])
      <4>1. Ops(reservations') \subseteq Ops(Recovered)
        BY <2>2, <3>1, NotReplaced
      <4> QED BY <1>5, <2>1, <4>1
    <3>2. CASE ~Retained(Recovered[op])
      <4>1. Cardinality(Ops(Recovered)) < MaxRetainedOperations
        BY <2>2, <3>2
        DEF Replaces, Admitted, Relabelled, Grown, Settled, Settles, Active, Retained, OperationRoom
      <4>2. Ops(reservations') \subseteq Ops(Recovered) \cup {op}
        BY <2>2, NotReplaced
      <4>3. op \notin Ops(Recovered)
        BY <3>2
      <4> HIDE DEF Ops
      <4>4. /\ IsFiniteSet(Ops(Recovered) \cup {op})
            /\ Cardinality(Ops(Recovered) \cup {op}) = Cardinality(Ops(Recovered)) + 1
        BY <1>3, <4>3, FS_AddElement
      <4>5. Cardinality(Ops(Recovered)) \in Nat
        BY <1>3, FS_CardinalityType
      <4>6. Cardinality(Ops(Recovered) \cup {op}) <= MaxRetainedOperations
        BY <1>1, <4>1, <4>4, <4>5
      <4> QED BY <1>1, <1>2, <4>2, <4>4, <4>6
    <3> QED BY <3>1, <3>2
  <2> QED BY <1>5, <2>1, <2>2, StepShape DEF Recovers
<1>7. Cardinality(Keys(used')) <= MaxRetainedBudgetKeys
  <2>1. CASE \A b \in Budgets : used'[b] <= used[b]
    <3>1. \A b \in Budgets : used[b] \in Nat /\ used'[b] \in Nat
      BY TypeStep DEF TypeOK
    <3>2. Keys(used') \subseteq Keys(used)
      BY <2>1, <3>1
    <3> HIDE DEF Keys
    <3> QED BY <1>1, <1>2, <1>3, <1>4, <3>2
  <2>2. ASSUME NEW c \in Charges \cup Growths, BudgetRoom(c, RecoveredUsed),
               used' = Plus(RecoveredUsed, c.units)
        PROVE  Cardinality(Keys(used')) <= MaxRetainedBudgetKeys
    <3>1. c \in Charge
      BY ConstantsAssumption
    <3>2. \A b \in Budgets : RecoveredUsed[b] \in Nat /\ c.units[b] \in Nat
      BY <3>1, RecoveredType DEF Charge
    <3>3. Keys(used') = {b \in Budgets : RecoveredUsed[b] > 0 \/ c.units[b] > 0}
      BY <2>2, <3>2 DEF Plus
    <3> QED BY <2>2, <3>3 DEF BudgetRoom
  <2> QED BY <2>1, <2>2, UsedShape
<1> QED
  BY <1>6, <1>7 DEF RetentionBounded, Retained

(* The store never retains more operations or budget keys than its caps    *)
(* allow, also when growth first puts units on a key that was named before *)
(* with none.                                                              *)
THEOREM RetentionIsBounded == Spec => []RetentionBounded
<1> DEFINE Inv == TypeOK /\ RetentionBounded
<1>1. Init => Inv
  <2> SUFFICES ASSUME Init PROVE Inv
    OBVIOUS
  <2>1. TypeOK
    BY NoReservationType DEF Init, TypeOK
  <2>2. {op \in Operations : Retained(reservations[op])} = {}
    BY DEF Init, Retained, NoReservation
  <2>3. {b \in Budgets : used[b] > 0} = {}
    BY DEF Init
  <2>4. MaxRetainedOperations \in Nat /\ MaxRetainedBudgetKeys \in Nat
    BY ConstantsAssumption
  <2> QED BY <2>1, <2>2, <2>3, <2>4, FS_EmptySet DEF RetentionBounded
<1>2. Inv /\ [Next]_vars => Inv'
  BY TypeStep, RetentionStep
<1>3. Inv => RetentionBounded
  OBVIOUS
<1> HIDE DEF Inv
<1> QED
  BY <1>1, <1>2, <1>3, PTL DEF Spec
-----------------------------------------------------------------------------
(* Reconciliation.                                                         *)

(* A tombstone that says its lease expired was charged for all of it.      *)
ExpiredInFull ==
  \A op \in Operations :
    reservations[op].state = "settled" /\ reservations[op].outcome = LeaseExpired =>
      reservations[op].actual = reservations[op].reserved

LEMMA ExpiredInFullStep ==
  ASSUME LeaseExpired \notin Outcomes, TypeOK, ExpiredInFull, [Next]_vars
  PROVE  ExpiredInFull'
<1> DEFINE InFull(r) == r.state = "settled" /\ r.outcome = LeaseExpired => r.actual = r.reserved
<1>1. ASSUME NEW op \in Operations PROVE InFull(reservations'[op])
  <2>1. reservations[op] \in Reservation /\ Recovered[op] \in Reservation
    BY RecoveredType DEF TypeOK
  <2>2. InFull(reservations[op])
    BY DEF ExpiredInFull
  <2>3. InFull(Recovered[op])
    <3>1. InFull(NoReservation)
      BY DEF NoReservation
    <3>2. InFull(Retain(reservations[op]))
      BY <2>1, RetainFields DEF Retain
    <3> QED BY <2>2, <3>1, <3>2, RecoveredFates
  <2>4. ASSUME NEW o \in Operations, NEW r \in Reservation, Replaces(o, r)
        PROVE  InFull(reservations'[op])
    <3>1. CASE o # op
      BY <2>3, <2>4, <3>1, NotReplaced
    <3>2. CASE o = op
      <4>1. CASE Settled(op, r)
        <5>1. r.outcome \in Outcomes
          BY <2>1, <4>1, RetainFields DEF Settled
        <5> QED BY <2>4, <3>2, <5>1, NotReplaced
      <4>2. CASE Admitted(op, r) \/ Relabelled(op, r) \/ Grown(op, r)
        <5>1. r.state # "settled"
          <6>1. Admitted(op, r) => r.state = "pending"
            BY DEF Admitted, Pending, NoReservation
          <6>2. Relabelled(op, r) => r.state # "settled"
            BY <2>1 DEF Relabelled, Active, Reservation
          <6>3. Grown(op, r) => r.state # "settled"
            BY <2>1, DecidedFields DEF Grown, Active
          <6> QED BY <4>2, <6>1, <6>2, <6>3
        <5> QED BY <2>4, <3>2, <5>1, NotReplaced
      <4> QED BY <2>4, <3>2, <4>1, <4>2 DEF Replaces
    <3> QED BY <3>1, <3>2
  <2> HIDE DEF InFull
  <2> QED BY <2>2, <2>3, <2>4, StepShape DEF Recovers
<1> QED
  BY <1>1 DEF ExpiredInFull

LEMMA GateIsOpen ==
  ASSUME TypeOK, RecoveryGateSound, NEW op \in Operations, Overdue(reservations[op])
  PROVE  GateOpen
<1>1. /\ nextRecoveryAt \in Nat \cup {Infinity} /\ clock \in Nat
      /\ Deadline(reservations[op]) \in Nat
  BY DeadlineType DEF TypeOK
<1> QED
  BY <1>1 DEF RecoveryGateSound, Overdue, GateOpen, Infinity

(* What reconciliation reports without recovering is what the next call's  *)
(* recovery makes true.  It takes that no caller settles with the outcome  *)
(* that the store itself records for a lease that expired.                 *)
THEOREM ReconciliationAgrees ==
  ASSUME LeaseExpired \notin Outcomes
  PROVE  Spec => []ReconciliationAgreesWithRecovery
<1> DEFINE Inv == TypeOK /\ RecoveryGateSound /\ ExpiredInFull
<1>1. Init => TypeOK /\ ExpiredInFull
  <2>1. NoReservation.state = "absent"
    BY DEF NoReservation
  <2> QED BY <2>1, NoReservationType DEF Init, TypeOK, ExpiredInFull
<1>2. TypeOK /\ ExpiredInFull /\ [Next]_vars => (TypeOK /\ ExpiredInFull)'
  BY TypeStep, ExpiredInFullStep
<1>3. Inv => ReconciliationAgreesWithRecovery
  <2> SUFFICES ASSUME Inv, NEW op \in Operations
               PROVE  LET r == reservations[op]
                          verdict == ReconcileOperation(r)
                          after == Recovered[op]
                      IN  /\ verdict \in {"absent", "expired_pending"} <=> ~Retained(after)
                          /\ verdict \in {"active", "settled"} => after = r
                          /\ verdict = "expired_liable" =>
                               after.state = "settled" /\ after.actual = r.reserved
    BY Zenon DEF ReconciliationAgreesWithRecovery
  <2> DEFINE r == reservations[op]
             after == Recovered[op]
  <2>1. r \in Reservation /\ r.state \in {"absent", "pending", "liable", "settled"}
    BY DEF TypeOK, Reservation
  <2>2. CASE ~Overdue(r)
    <3>1. after = r
      BY <2>2, RecoveredFates
    <3>2. r.state = "settled" /\ r.outcome = LeaseExpired => r.actual = r.reserved
      BY DEF ExpiredInFull
    <3> HIDE DEF r, after
    <3> QED BY <2>1, <2>2, <3>1, <3>2 DEF ReconcileOperation, Retained, Active, r, after
  <2>3. CASE Overdue(r)
    <3>1. GateOpen
      BY <2>3, GateIsOpen
    <3>2. CASE r.state = "liable"
      <4>1. after = Retain(r)
        BY <2>3, <3>1, <3>2, RecoveredFates
      <4>2. after.state = "settled" /\ after.actual = r.reserved
        BY <2>1, <4>1, RetainFields DEF Retain
      <4>3. ReconcileOperation(r) = "expired_liable"
        BY <2>3, <3>2 DEF ReconcileOperation, Active, Retained
      <4> QED BY <4>2, <4>3 DEF Retained
    <3>3. CASE r.state \in {"pending", "settled"}
      <4>1. ~Retained(after)
        BY <2>3, <3>1, <3>3 DEF Recovered, Expired, Retained, NoReservation
      <4>2. ReconcileOperation(r) \in {"absent", "expired_pending"}
        BY <2>3, <3>3 DEF ReconcileOperation, Active, Retained
      <4> QED BY <4>1, <4>2
    <3> QED BY <2>1, <2>3, <3>2, <3>3 DEF Overdue, Retained
  <2> QED BY <2>2, <2>3
<1> HIDE DEF Inv
<1>4. TypeOK /\ RecoveryGateSound /\ ExpiredInFull => Inv
  BY DEF Inv
<1> QED
  BY <1>1, <1>2, <1>3, <1>4, GateSound, PTL DEF Spec
-----------------------------------------------------------------------------
(* The store implements the ledger.                                        *)

Entry(r) == [state |-> r.state, reserved |-> r.reserved, actual |-> r.actual]

(* What an operation's fate in a step adds to the units charged.           *)
ChargedTo(b) ==
  [op \in Operations |->
    IF Active(reservations[op]) /\ reservations'[op].state = "settled"
      THEN reservations'[op].actual[b] ELSE 0]

ExpiredOn(b) ==
  [op \in Operations |-> IF Expired(op, {"liable"}) THEN reservations[op].reserved[b] ELSE 0]

(* The ledger's totals are the store's.                                    *)
LEMMA LedgerTotal ==
  ASSUME NEW f
  PROVE  Ledger!Total(f) = Total(f)
BY DEF Ledger!Total, Ledger!UnitsOf, Ledger!Cardinality, Total, UnitsOf, Cardinality

LEMMA LedgerCharged ==
  ASSUME NEW b \in Budgets
  PROVE  Ledger!Charged(b) = Total(ChargedTo(b))
<1> DEFINE es == [op \in Operations |-> Entry(reservations[op])]
           fs == [op \in Operations |-> Entry(reservations'[op])]
           charged == [op \in Operations |->
             IF Ledger!Open(es[op]) /\ fs[op].state = "settled" THEN fs[op].actual[b] ELSE 0]
<1>1. Ledger!Charged(b) = Total(charged)
  BY LedgerTotal DEF Ledger!Charged, Entry
<1>2. ASSUME NEW op \in Operations PROVE charged[op] = ChargedTo(b)[op]
  BY DEF ChargedTo, Entry, Ledger!Open, Active
<1>3. charged = ChargedTo(b)
  BY <1>2 DEF ChargedTo
<1> QED
  BY <1>1, <1>3

LEMMA LedgerHeld ==
  ASSUME NEW b \in Budgets
  PROVE  Ledger!HeldBy([op \in Operations |-> Entry(reservations'[op])], b) = HeldIn(reservations', b)
<1> DEFINE fs == [op \in Operations |-> Entry(reservations'[op])]
           held == [op \in Operations |-> IF Ledger!Open(fs[op]) THEN fs[op].reserved[b] ELSE 0]
<1>1. Ledger!HeldBy(fs, b) = Total(held)
  BY LedgerTotal DEF Ledger!HeldBy
<1>2. ASSUME NEW op \in Operations PROVE held[op] = Holding(reservations', b)[op]
  BY DEF Holding, Entry, Ledger!Open, Active
<1>3. held = Holding(reservations', b)
  BY <1>2 DEF Holding
<1> QED
  BY <1>1, <1>3 DEF HeldIn

(* Recovery is expiry.                                                     *)
LEMMA RecoveryExpires ==
  ASSUME TypeOK, NEW op \in Operations
  PROVE  Ledger!Expires(Entry(reservations[op]), Entry(Recovered[op]))
<1>1. reservations[op] \in Reservation
  BY DEF TypeOK
<1>2. CASE Recovered[op] = reservations[op]
  <2>1. Entry(Recovered[op]) = Entry(reservations[op])
    BY <1>2 DEF Entry
  <2> QED BY <2>1 DEF Ledger!Expires
<1>3. CASE Recovered[op] = NoReservation /\ reservations[op].state \in {"pending", "settled"}
  <2>1. NoReservation.state = "absent"
    BY DEF NoReservation
  <2> QED BY <1>3, <2>1 DEF Ledger!Expires, Entry
<1>4. CASE Recovered[op] = Retain(reservations[op]) /\ reservations[op].state = "liable"
  <2>1. /\ Recovered[op].state = "settled"
        /\ Recovered[op].actual = reservations[op].reserved
    BY <1>1, <1>4, RetainFields DEF Retain
  <2> QED BY <1>4, <2>1 DEF Ledger!Expires, Entry
<1> QED
  BY <1>2, <1>3, <1>4, RecoveredFates

(* Nothing that recovery leaves alone or forgets is charged.               *)
LEMMA RecoveryCharges ==
  ASSUME TypeOK, NEW op \in Operations, NEW b \in Budgets
  PROVE  /\ reservations'[op] = Recovered[op] => ChargedTo(b)[op] = ExpiredOn(b)[op]
         /\ ~Expired(op, {"liable"}) => ExpiredOn(b)[op] = 0
         /\ Active(Recovered[op]) \/ Recovered[op].state = "absent" => ~Expired(op, {"liable"})
<1>1. reservations[op] \in Reservation
  BY DEF TypeOK
<1>2. /\ Retain(reservations[op]).state = "settled"
      /\ Retain(reservations[op]).actual = reservations[op].reserved
  BY <1>1, RetainFields DEF Retain
<1>3. Expired(op, {"liable"}) =>
        /\ Recovered[op] = Retain(reservations[op]) /\ Active(reservations[op])
  BY DEF Recovered, Expired, Active
<1>4. ~Expired(op, {"liable"}) =>
        ~ (Active(reservations[op]) /\ Recovered[op].state = "settled")
  BY DEF Recovered, Expired, NoReservation, Active
<1> QED
  BY <1>2, <1>3, <1>4 DEF ChargedTo, ExpiredOn, Active

LEMMA ChargedTypes ==
  ASSUME TypeOK, TypeOK', NEW b \in Budgets
  PROVE  /\ ChargedTo(b) \in [Operations -> Nat] /\ ExpiredOn(b) \in [Operations -> Nat]
         /\ ExpiredUnits({"liable"}, b) = Total(ExpiredOn(b))
<1>1. \A op \in Operations : reservations[op].reserved[b] \in Nat /\ reservations'[op].actual[b] \in Nat
  BY DEF TypeOK, Reservation
<1> QED
  BY <1>1 DEF ChargedTo, ExpiredOn, ExpiredUnits

LEMMA LedgerBooks ==
  ASSUME Conservation', TypeOK'
  PROVE  used' = [b \in Budgets |->
           Ledger!HeldBy([op \in Operations |-> Entry(reservations'[op])], b) + spent'[b]]
<1>1. ASSUME NEW b \in Budgets
      PROVE  used'[b] = Ledger!HeldBy([op \in Operations |-> Entry(reservations'[op])], b) + spent'[b]
  BY LedgerHeld, HeldIsHeldIn DEF Conservation, UsageConserved
<1>2. used' \in [Budgets -> Nat]
  BY DEF TypeOK
<1> QED
  BY <1>1, <1>2

LEMMA LedgerQuote ==
  ASSUME TypeOK, [Next]_vars
  PROVE  Ledger!WithinQuote
<1>1. ASSUME NEW c \in Charges \cup Growths, NEW lim \in Limits,
             WithinLimits(c, lim, RecoveredUsed), used' = Plus(RecoveredUsed, c.units)
      PROVE  \A b \in Budgets : used'[b] > used[b] => used'[b] <= lim[b]
  <2>1. c \in Charge /\ NamesItsUnits(c) /\ lim \in [Budgets -> Nat]
    BY ConstantsAssumption
  <2>2. ASSUME NEW b \in Budgets PROVE used'[b] <= used[b] \/ used'[b] <= lim[b]
    BY <1>1, <2>1, FitsLimit
  <2>3. \A b \in Budgets : used[b] \in Nat /\ used'[b] \in Nat
    BY TypeStep DEF TypeOK
  <2> QED BY <2>2, <2>3
<1> QED
  BY <1>1, UsedShape DEF Ledger!WithinQuote

(* A step that only recovers, and one that retires a key besides.          *)
LEMMA RecoversLedger ==
  ASSUME Conservation, Conservation', [Next]_vars, Recovers
  PROVE  Ledger!LedgerNext
<1>1. TypeOK /\ TypeOK'
  BY DEF Conservation
<1>2. \A op \in Operations : Ledger!Expires(Entry(reservations[op]), Entry(reservations'[op]))
  BY <1>1, RecoveryExpires DEF Recovers
<1>3. ASSUME NEW b \in Budgets
      PROVE  RecoveredSpent[b] = spent[b] + Ledger!Charged(b)
  <2>1. \A op \in Operations : ChargedTo(b)[op] = ExpiredOn(b)[op]
    BY <1>1, RecoveryCharges DEF Recovers
  <2>2. Total(ChargedTo(b)) = ExpiredUnits({"liable"}, b)
    BY <1>1, <2>1, ChargedTypes, TotalEqual
  <2> QED BY <2>2, LedgerCharged DEF RecoveredSpent
<1>4. ASSUME NEW retired \in SUBSET Budgets,
             \A b \in retired : ~Referenced(b, Recovered),
             spent' = [b \in Budgets |-> IF b \in retired THEN 0 ELSE RecoveredSpent[b]]
      PROVE  Ledger!Retire(retired)
  <2>1. ASSUME NEW b \in retired
        PROVE  Ledger!HeldBy([op \in Operations |-> Entry(reservations'[op])], b) = 0
    <3>1. \A op \in Operations : Holding(Recovered, b)[op] = 0
      BY <1>4, RecoveredNames DEF Holding, Referenced
    <3>2. Holding(Recovered, b) \in [Operations -> Nat]
      BY <1>1, HoldingType, RecoveredType
    <3>3. HeldIn(Recovered, b) = 0
      BY <3>1, <3>2, TotalZero DEF HeldIn
    <3> QED BY <3>3, LedgerHeld DEF Recovers
  <2>2. spent' = [b \in Budgets |-> IF b \in retired THEN 0 ELSE spent[b] + Ledger!Charged(b)]
    BY <1>3, <1>4
  <2> QED BY <1>1, <1>2, <2>1, <2>2, LedgerBooks DEF Ledger!Retire, Entry
<1>5. RecoveredSpent \in [Budgets -> Nat]
  BY <1>1, RecoveredType
<1>6. CASE spent' = RecoveredSpent
  <2>1. Ledger!Retire({})
    BY <1>4, <1>5, <1>6
  <2> QED BY <2>1 DEF Ledger!LedgerNext
<1>7. ASSUME NEW k \in Budgets, ~Referenced(k, Recovered),
             spent' = [RecoveredSpent EXCEPT ![k] = 0]
      PROVE  Ledger!LedgerNext
  <2>1. spent' = [b \in Budgets |-> IF b \in {k} THEN 0 ELSE RecoveredSpent[b]]
    BY <1>5, <1>7
  <2>2. Ledger!Retire({k})
    BY <1>4, <1>7, <2>1
  <2> QED BY <2>2 DEF Ledger!LedgerNext
<1> QED
  BY <1>6, <1>7 DEF Recovers

(* A step that replaces one reservation is a call.                         *)
LEMMA ReplacesLedger ==
  ASSUME Conservation, Conservation', [Next]_vars,
         NEW op \in Operations, NEW r \in Reservation, Replaces(op, r)
  PROVE  Ledger!Call
<1> DEFINE q == Recovered[op]
<1>1. TypeOK /\ TypeOK' /\ q \in Reservation
  BY RecoveredType DEF Conservation
<1>2. \A o \in Operations \ {op} :
        Ledger!Expires(Entry(reservations[o]), Entry(reservations'[o]))
  BY <1>1, RecoveryExpires, NotReplaced
<1>3. reservations'[op] = r
  BY <1>1, NotReplaced
<1>4. Ledger!Changes(Entry(reservations[op]), Entry(r))
  <2>1. CASE q.state = "absent"
    <3>1. r.state = "pending"
      BY <1>1, <2>1, ReplacementOf
    <3>2. ~Ledger!Open(Entry(reservations[op])) \/ reservations[op].state = "pending"
      BY <1>1, <2>1, RecoveryCharges, RecoveredFates, RetainFields
         DEF Ledger!Open, Entry, TypeOK, Retain
    <3> QED BY <3>1, <3>2 DEF Ledger!Changes, Entry
  <2>2. CASE Active(q) /\ ~Settled(op, r)
    <3>1. r.state # "settled"
      <4>1. Relabelled(op, r) => r.state # "settled"
        BY <1>1 DEF Relabelled, Active, Reservation
      <4>2. Grown(op, r) => r.state # "settled"
        BY <1>1, DecidedFields DEF Grown, Active
      <4>3. Admitted(op, r) => r.state # "settled"
        BY <2>2 DEF Admitted, Active
      <4> QED BY <2>2, <4>1, <4>2, <4>3 DEF Replaces
    <3>2. /\ q = reservations[op] /\ r.state \in {q.state, "liable", "settled"}
          /\ \A b \in Budgets : r.reserved[b] >= q.reserved[b]
      BY <1>1, <2>2, ReplacementOf
    <3>3. q.state \in {"pending", "liable"}
      BY <2>2 DEF Active
    <3> HIDE DEF q
    <3> QED BY <3>1, <3>2, <3>3 DEF Ledger!Changes, Entry
  <2>3. CASE Active(q) /\ Settled(op, r)
    <3>1. PICK mode \in Modes, actual \in Actuals, outcome \in Outcomes :
            Settles(op, mode, actual) /\ r = Settlement(q, actual, outcome)
      BY <2>3 DEF Settled
    <3>2. /\ r.state = "settled" /\ r.reserved = q.reserved /\ r.actual = actual
      BY <1>1, <3>1, RetainFields
    <3>3. q = reservations[op] /\ \A b \in Budgets : actual[b] <= q.reserved[b]
      BY <1>1, <2>3, <3>1, RecoveredActive DEF Settles
    <3>4. q.state \in {"pending", "liable"}
      BY <2>3 DEF Active
    <3> HIDE DEF q
    <3> QED BY <3>2, <3>3, <3>4 DEF Ledger!Changes, Ledger!Open, Entry
  <2> QED BY <1>1, <2>1, <2>2, <2>3, ReplacementOf
<1>5. ASSUME NEW b \in Budgets
      PROVE  spent'[b] = spent[b] + Ledger!Charged(b)
  <2>1. /\ ChargedTo(b) \in [Operations -> Nat] /\ ExpiredOn(b) \in [Operations -> Nat]
        /\ ExpiredUnits({"liable"}, b) = Total(ExpiredOn(b))
        /\ Total(ExpiredOn(b)) \in Nat /\ spent[b] \in Nat
    BY <1>1, ChargedTypes, ConstantTypes, TotalType DEF TypeOK
  <2>2. \A o \in Operations \ {op} : ChargedTo(b)[o] = ExpiredOn(b)[o]
    BY <1>1, NotReplaced, RecoveryCharges
  <2>3. ~Expired(op, {"liable"})
    BY <1>1, ReplacementOf, RecoveryCharges
  <2>4. ExpiredOn(b)[op] = 0
    BY <1>1, <2>3, RecoveryCharges
  <2>5. Total(ChargedTo(b)) = Total(ExpiredOn(b)) + ChargedTo(b)[op]
    <3>1. Total(ChargedTo(b)) = Total(ExpiredOn(b)) - ExpiredOn(b)[op] + ChargedTo(b)[op]
      BY <2>1, <2>2, ConstantTypes, TotalChange
    <3>2. ChargedTo(b)[op] \in Nat
      BY <2>1
    <3> QED BY <2>1, <2>4, <3>1, <3>2
  <2>6. RecoveredSpent[b] = spent[b] + Total(ExpiredOn(b))
    BY <2>1 DEF RecoveredSpent
  <2>7. CASE Settled(op, r)
    <3>1. PICK mode \in Modes, actual \in Actuals, outcome \in Outcomes :
            /\ Settles(op, mode, actual) /\ r = Settlement(q, actual, outcome)
            /\ spent' = Plus(RecoveredSpent, actual)
      BY <2>7 DEF Settled
    <3>2. r.state = "settled" /\ r.actual = actual /\ Active(reservations[op])
      BY <1>1, <3>1, RetainFields, RecoveredActive DEF Settles
    <3>3. ChargedTo(b)[op] = actual[b]
      BY <1>3, <3>2 DEF ChargedTo
    <3>4. actual[b] \in Nat
      BY ConstantsAssumption
    <3>5. spent'[b] = RecoveredSpent[b] + actual[b]
      BY <3>1 DEF Plus
    <3> QED BY <2>1, <2>5, <2>6, <3>3, <3>4, <3>5, LedgerCharged
  <2>8. CASE ~Settled(op, r)
    <3>1. r.state # "settled" /\ spent' = RecoveredSpent
      <4>1. Relabelled(op, r) => r.state # "settled" /\ spent' = RecoveredSpent
        BY <1>1 DEF Relabelled, Active, Reservation
      <4>2. Grown(op, r) => r.state # "settled" /\ spent' = RecoveredSpent
        BY <1>1, DecidedFields DEF Grown, Active
      <4>3. Admitted(op, r) => r.state # "settled" /\ spent' = RecoveredSpent
        BY DEF Admitted, Pending, NoReservation
      <4> QED BY <2>8, <4>1, <4>2, <4>3 DEF Replaces
    <3>2. ChargedTo(b)[op] = 0
      BY <1>3, <3>1 DEF ChargedTo
    <3> QED BY <2>1, <2>5, <2>6, <3>1, <3>2, LedgerCharged
  <2> QED BY <2>7, <2>8
<1>6. spent' = [b \in Budgets |-> spent[b] + Ledger!Charged(b)]
  <2>1. spent' \in [Budgets -> Nat]
    BY <1>1 DEF TypeOK
  <2> QED BY <1>5, <2>1
<1>7. used' = [b \in Budgets |->
        Ledger!HeldBy([o \in Operations |-> Entry(reservations'[o])], b) + spent'[b]]
  BY <1>1, LedgerBooks
<1> HIDE DEF q
<1> QED
  BY <1>1, <1>2, <1>3, <1>4, <1>6, <1>7, LedgerQuote DEF Ledger!Call, Entry

LEMMA LedgerStep ==
  ASSUME Conservation, Conservation', [Next]_vars
  PROVE  [Ledger!LedgerNext]_(Ledger!ledgerVars)
<1>1. CASE UNCHANGED <<reservations, issued, used, spent>>
  BY <1>1 DEF Ledger!ledgerVars
<1>2. CASE Recovers
  BY <1>2, RecoversLedger
<1>3. ASSUME NEW op \in Operations, NEW r \in Reservation, Replaces(op, r)
      PROVE  Ledger!LedgerNext
  BY <1>3, ReplacesLedger DEF Ledger!LedgerNext
<1> QED
  BY <1>1, <1>2, <1>3, StepShape DEF Conservation

(* The store implements the ledger: whatever its gate, cursors, tombstones *)
(* and caps do, every call is one exact ledger step or none.               *)
THEOREM StoreImplementsLedger == Spec => ImplementsLedger
<1>1. Init => Conservation
  BY ConservationInit
<1>2. Conservation /\ [Next]_vars => Conservation'
  BY ConservationStep
<1>3. Conservation /\ Conservation' /\ [Next]_vars => [Ledger!LedgerNext]_(Ledger!ledgerVars)
  BY LedgerStep
<1>4. Init => Ledger!LedgerInit
  <2> SUFFICES ASSUME Init PROVE Ledger!LedgerInit
    OBVIOUS
  <2>1. \A op \in Operations : reservations[op].state = "absent"
    BY DEF Init, NoReservation
  <2> QED BY <2>1 DEF Init, Ledger!LedgerInit
<1> QED
  BY <1>1, <1>2, <1>3, <1>4, PTL DEF Spec, ImplementsLedger, Ledger!LedgerSpec
-----------------------------------------------------------------------------
(* The recovery loop of RecoveryObserver, whose observer is passive.       *)

FrameState ==
  [position : Nat, next : Nat \cup {Infinity}, observing : BOOLEAN, releasing : SUBSET Operations]

(* The call whose loop is running.                                         *)
CurrentFrame == IF frames = <<>> THEN Frame ELSE Top

(* The reservations without the one that is released and not yet deleted.  *)
Remaining ==
  [op \in Operations |-> IF op \in CurrentFrame.releasing THEN NoReservation ELSE reservations[op]]

(* The operations whose entries the loop has passed and kept.              *)
Seen == {op \in Operations : Retained(Remaining[op]) /\ inserted[op] <= CurrentFrame.position}

EarliestOf(at, S, rs) ==
  IF S = {} THEN at = Infinity
  ELSE (\E op \in S : at = Deadline(rs[op])) /\ \A op \in S : at <= Deadline(rs[op])

Queued ==
  /\ inserted \in [Operations -> Nat] /\ serial \in Nat
  /\ \A op \in Operations : Retained(reservations[op]) => inserted[op] \in 1..serial
  /\ \A op, o \in Operations :
       Retained(reservations[op]) /\ Retained(reservations[o]) /\ inserted[op] = inserted[o] => op = o

Looped ==
  /\ frames \in {<<>>} \cup {<<f>> : f \in FrameState}
  /\ frames # <<>> =>
       /\ CurrentFrame.releasing # {} => CurrentFrame.observing
       /\ \A op \in CurrentFrame.releasing : inserted[op] <= CurrentFrame.position
       /\ \A op \in Seen : ~Overdue(Remaining[op])
       /\ EarliestOf(CurrentFrame.next, Seen, Remaining)

(* What the preflight has found, and holds until the loop has ended.       *)
Preflighted ==
  \A op \in Operations :
    reservations[op].state = "liable" /\ Overdue(reservations[op]) => Safe(clock + IdempotencyTtl)

LoopInv ==
  /\ TypeOK /\ HoldsWhatItNames
  /\ Queued /\ Looped
  /\ frames # <<>> => Preflighted
  /\ \A b \in Budgets : used[b] = HeldIn(Remaining, b) + spent[b]

LEMMA OneFrame ==
  ASSUME NEW f
  PROVE  /\ frames = <<f>> => Top = f /\ CurrentFrame = f /\ Front(frames) = <<>>
         /\ \A g : frames = <<f>> => (Become(g) <=> frames' = <<g>>)
<1>1. ASSUME frames = <<f>>
      PROVE  Top = f /\ Front(frames) = <<>> /\ frames # <<>>
  BY <1>1 DEF Top, Last, Front
<1>2. \A g : Append(<<>>, g) = <<g>>
  OBVIOUS
<1> QED
  BY <1>1, <1>2 DEF CurrentFrame, Become

LEMMA OneFrameNext ==
  ASSUME NEW g
  PROVE  frames' = <<g>> => Top' = g /\ CurrentFrame' = g
<1>1. ASSUME frames' = <<g>>
      PROVE  Top' = g /\ frames' # <<>>
  BY <1>1 DEF Top, Last
<1> QED
  BY <1>1 DEF CurrentFrame

LEMMA NoFrame ==
  /\ frames = <<>> => CurrentFrame = Frame
  /\ frames' = <<>> => CurrentFrame' = Frame
  /\ Frame \in FrameState /\ Frame.position = 0 /\ Frame.next = Infinity
  /\ ~Frame.observing /\ Frame.releasing = {}
BY DEF CurrentFrame, Frame, FrameState

LEMMA FramesAre ==
  ASSUME Looped, frames # <<>>
  PROVE  \E f \in FrameState : frames = <<f>>
BY DEF Looped

(* A turn of the loop.                                                     *)
VisitAt(op, f, g) ==
  LET r == reservations[op]
  IN  /\ ~f.observing /\ f.releasing = {} /\ frames = <<f>> /\ frames' = <<g>>
      /\ Retained(r) /\ f.position < inserted[op] /\ g.position = inserted[op]
      /\ \A o \in Operations \ {op} : Retained(reservations[o]) =>
           (inserted[o] <= f.position <=> inserted[o] <= g.position)
      /\ UNCHANGED <<nextRecoveryAt, issued, clock, inserted, serial>>
      /\ \/ /\ ~Overdue(r)
            /\ g.next = TrackRecoveryAt(f.next, Deadline(r)) /\ g.releasing = {}
            /\ reservations' = reservations /\ used' = used /\ spent' = spent
         \/ /\ Overdue(r) /\ r.state = "settled"
            /\ g.next = f.next /\ g.releasing = {}
            /\ reservations' = [reservations EXCEPT ![op] = NoReservation]
            /\ used' = used /\ spent' = spent
         \/ /\ Overdue(r) /\ r.state = "pending"
            /\ g.next = f.next /\ g.observing /\ g.releasing = {op}
            /\ reservations' = reservations /\ used' = Minus(used, r.reserved) /\ spent' = spent
         \/ /\ Overdue(r) /\ r.state = "liable"
            /\ g.next = TrackRecoveryAt(f.next, clock + IdempotencyTtl) /\ g.releasing = {}
            /\ reservations' = [reservations EXCEPT ![op] = Retain(r)]
            /\ used' = used /\ spent' = Plus(spent, r.reserved)

LEMMA VisitShape ==
  ASSUME LoopInv, NEW op \in Operations, Visit(op)
  PROVE  \E f, g \in FrameState : VisitAt(op, f, g)
<1>1. PICK f \in FrameState : frames = <<f>>
  BY FramesAre DEF LoopInv, Visit, Looping
<1>2. Top = f /\ CurrentFrame = f /\ \A g : Become(g) => frames' = <<g>>
  BY <1>1, OneFrame
<1>3. ~f.observing /\ f.releasing = {}
  BY <1>1, <1>2 DEF Visit, Looping, LoopInv, Looped
<1> DEFINE r == reservations[op]
<1>4. /\ Retained(r) /\ f.position < inserted[op]
      /\ \A o \in Ahead : inserted[op] <= inserted[o]
  BY <1>2 DEF Visit, Ahead, LoopInv, Queued, FrameState
<1>5. ASSUME NEW o \in Operations \ {op}, Retained(reservations[o])
      PROVE  inserted[o] <= f.position <=> inserted[o] <= inserted[op]
  <2>1. inserted[o] \in Nat /\ inserted[op] \in Nat /\ f.position \in Nat /\ inserted[o] # inserted[op]
    BY <1>4, <1>5 DEF LoopInv, Queued, FrameState
  <2>2. inserted[o] > f.position => inserted[op] <= inserted[o]
    BY <1>2, <1>4, <1>5 DEF Ahead
  <2> QED BY <1>4, <2>1, <2>2
<1> DEFINE after == [f EXCEPT !.position = inserted[op]]
<1>6. /\ after \in FrameState /\ after.position = inserted[op] /\ after.next = f.next
      /\ after.observing = f.observing /\ after.releasing = f.releasing
  BY DEF FrameState, LoopInv, Queued
<1>7. UNCHANGED <<nextRecoveryAt, issued, clock, inserted, serial>>
  BY DEF Visit
<1>8. \E g \in FrameState :
        /\ g.position = inserted[op] /\ frames' = <<g>>
        /\ \/ /\ ~Overdue(r)
              /\ g.next = TrackRecoveryAt(f.next, Deadline(r)) /\ g.releasing = {}
              /\ reservations' = reservations /\ used' = used /\ spent' = spent
           \/ /\ Overdue(r) /\ r.state = "settled"
              /\ g.next = f.next /\ g.releasing = {}
              /\ reservations' = [reservations EXCEPT ![op] = NoReservation]
              /\ used' = used /\ spent' = spent
           \/ /\ Overdue(r) /\ r.state = "pending"
              /\ g.next = f.next /\ g.observing /\ g.releasing = {op}
              /\ reservations' = reservations /\ used' = Minus(used, r.reserved) /\ spent' = spent
           \/ /\ Overdue(r) /\ r.state = "liable"
              /\ g.next = TrackRecoveryAt(f.next, clock + IdempotencyTtl) /\ g.releasing = {}
              /\ reservations' = [reservations EXCEPT ![op] = Retain(r)]
              /\ used' = used /\ spent' = Plus(spent, r.reserved)
  <2>0. f.next \in Nat \cup {Infinity} /\ Deadline(r) \in Nat /\ clock + IdempotencyTtl \in Nat
    BY DeadlineType, ConstantTypes DEF FrameState, LoopInv, TypeOK
  <2>1. CASE /\ ~Overdue(r)
             /\ Become([after EXCEPT !.next = TrackRecoveryAt(@, Deadline(r))])
             /\ UNCHANGED <<reservations, used, spent>>
    <3> DEFINE g == [after EXCEPT !.next = TrackRecoveryAt(f.next, Deadline(r))]
    <3>1. g \in FrameState /\ g.position = inserted[op] /\ g.releasing = {}
          /\ g.next = TrackRecoveryAt(f.next, Deadline(r))
      BY <1>3, <1>6, <2>0, TrackType DEF FrameState
    <3>2. frames' = <<g>>
      BY <1>2, <1>6, <2>1
    <3> HIDE DEF g, after
    <3> QED BY <2>1, <3>1, <3>2
  <2>2. CASE /\ Overdue(r) /\ r.state = "settled"
             /\ Become(after)
             /\ reservations' = [reservations EXCEPT ![op] = NoReservation]
             /\ UNCHANGED <<used, spent>>
    <3> HIDE DEF after
    <3> QED BY <1>2, <1>3, <1>6, <2>2
  <2>3. CASE /\ Overdue(r) /\ r.state = "pending"
             /\ Become([after EXCEPT !.observing = TRUE, !.releasing = {op}])
             /\ used' = Minus(used, r.reserved)
             /\ UNCHANGED <<reservations, spent>>
    <3> DEFINE g == [after EXCEPT !.observing = TRUE, !.releasing = {op}]
    <3>1. g \in FrameState /\ g.position = inserted[op] /\ g.releasing = {op}
          /\ g.next = f.next /\ g.observing
      BY <1>3, <1>6 DEF FrameState
    <3>2. frames' = <<g>>
      BY <1>2, <2>3
    <3> HIDE DEF g, after
    <3> QED BY <2>3, <3>1, <3>2
  <2>4. CASE /\ Overdue(r) /\ r.state = "liable"
             /\ IF Safe(clock + IdempotencyTtl)
                  THEN /\ Become([after EXCEPT !.observing = TRUE,
                                               !.next = TrackRecoveryAt(@, clock + IdempotencyTtl)])
                       /\ reservations' = [reservations EXCEPT ![op] = Retain(r)]
                       /\ spent' = Plus(spent, r.reserved)
                  ELSE Throws(op)
             /\ UNCHANGED used
    <3> DEFINE g == [after EXCEPT !.observing = TRUE,
                                  !.next = TrackRecoveryAt(f.next, clock + IdempotencyTtl)]
    <3>1. g \in FrameState /\ g.position = inserted[op] /\ g.releasing = {}
          /\ g.next = TrackRecoveryAt(f.next, clock + IdempotencyTtl)
      BY <1>3, <1>6, <2>0, TrackType DEF FrameState
    <3>2. Safe(clock + IdempotencyTtl)
      BY <1>1, <2>4 DEF LoopInv, Preflighted
    <3>3. frames' = <<g>>
      BY <1>2, <1>6, <2>4, <3>2
    <3> HIDE DEF g, after
    <3> QED BY <2>4, <3>1, <3>2, <3>3
  <2> QED BY <1>2, <2>1, <2>2, <2>3, <2>4 DEF Visit
<1> HIDE DEF after, r
<1> QED
  BY <1>1, <1>3, <1>4, <1>5, <1>7, <1>8 DEF VisitAt, r
-----------------------------------------------------------------------------
LEMMA EarliestTracks ==
  ASSUME NEW at \in Nat \cup {Infinity}, NEW S \in SUBSET Operations,
         NEW rs \in [Operations -> Reservation], NEW rs2 \in [Operations -> Reservation],
         EarliestOf(at, S, rs), \A o \in S : rs2[o] = rs[o], NEW op \in Operations
  PROVE  /\ EarliestOf(at, S, rs2)
         /\ EarliestOf(TrackRecoveryAt(at, Deadline(rs2[op])), S \cup {op}, rs2)
<1>1. \A o \in Operations : Deadline(rs2[o]) \in Nat /\ Deadline(rs[o]) \in Nat
  BY DeadlineType
<1>2. Infinity \notin Nat
  BY DEF Infinity
<1>3. EarliestOf(at, S, rs2)
  BY DEF EarliestOf
<1>4. CASE S = {}
  BY <1>3, <1>4, <1>1 DEF EarliestOf, TrackRecoveryAt
<1>5. CASE S # {}
  <2>1. at \in Nat /\ (\E o \in S : at = Deadline(rs2[o])) /\ \A o \in S : at <= Deadline(rs2[o])
    BY <1>1, <1>3, <1>5 DEF EarliestOf
  <2> DEFINE new == TrackRecoveryAt(at, Deadline(rs2[op]))
  <2>2. /\ new = at \/ new = Deadline(rs2[op])
        /\ new <= at /\ new <= Deadline(rs2[op]) /\ new \in Nat
    BY <1>1, <1>2, <2>1 DEF TrackRecoveryAt
  <2> HIDE DEF new
  <2>3. \A o \in S \cup {op} : new <= Deadline(rs2[o])
    BY <1>1, <2>1, <2>2
  <2>4. \E o \in S \cup {op} : new = Deadline(rs2[o])
    BY <2>1, <2>2
  <2> QED BY <1>3, <2>3, <2>4 DEF EarliestOf, new
<1> QED BY <1>4, <1>5

(* The earliest deadline is determined by the deadlines.                   *)
LEMMA EarliestIs ==
  ASSUME NEW rs \in [Operations -> Reservation], NEW at,
         EarliestOf(at, {op \in Operations : Retained(rs[op])}, rs)
  PROVE  at = EarliestDeadline(rs)
<1> DEFINE S == {op \in Operations : Retained(rs[op])}
           D == {Deadline(rs[op]) : op \in S}
<1>1. EarliestDeadline(rs) = IF D = {} THEN Infinity ELSE Min(D)
  BY DEF EarliestDeadline
<1>2. D \subseteq Nat
  BY DeadlineType
<1>3. CASE S = {}
  BY <1>1, <1>3 DEF EarliestOf
<1>4. CASE S # {}
  <2>1. D # {} /\ at \in D /\ \A n \in D : at <= n
    BY <1>4 DEF EarliestOf
  <2> HIDE DEF D
  <2>2. Min(D) \in D /\ \A n \in D : Min(D) <= n
    BY <1>2, <2>1, MinNat
  <2>3. at <= Min(D) /\ Min(D) <= at /\ at \in Nat /\ Min(D) \in Nat
    BY <1>2, <2>1, <2>2
  <2>4. at = Min(D)
    BY <2>3
  <2> QED BY <1>1, <2>1, <2>4
<1> QED BY <1>3, <1>4

(* What is left of the entry that the loop visits.                         *)
Leaves(op, f, g, x) ==
  LET r == reservations[op]
  IN  \/ /\ x = r /\ ~Overdue(r) /\ g.next = TrackRecoveryAt(f.next, Deadline(x))
         /\ used' = used /\ spent' = spent
      \/ /\ x = NoReservation /\ r.state = "settled" /\ Overdue(r) /\ g.next = f.next
         /\ used' = used /\ spent' = spent
      \/ /\ x = NoReservation /\ r.state = "pending" /\ Overdue(r) /\ g.next = f.next
         /\ used' = Minus(used, r.reserved) /\ spent' = spent
      \/ /\ x = Retain(r) /\ r.state = "liable" /\ Overdue(r)
         /\ g.next = TrackRecoveryAt(f.next, Deadline(x))
         /\ used' = used /\ spent' = Plus(spent, r.reserved)

LEMMA RetainIs ==
  ASSUME NEW r \in Reservation, clock \in Nat
  PROVE  /\ Retain(r).state = "settled" /\ Retained(Retain(r)) /\ ~Active(Retain(r))
         /\ Deadline(Retain(r)) = clock + IdempotencyTtl /\ ~Overdue(Retain(r))
<1>1. IdempotencyTtl \in Nat \ {0}
  BY ConstantsAssumption
<1>2. Retain(r).state = "settled" /\ Retain(r).tombstoneExpiresAt = clock + IdempotencyTtl
  BY DEF Retain, Settlement, Reservation
<1>3. Retained(Retain(r)) /\ ~Active(Retain(r)) /\ Deadline(Retain(r)) = clock + IdempotencyTtl
  BY <1>2 DEF Retained, Active, Deadline
<1> QED BY <1>1, <1>2, <1>3 DEF Overdue

LEMMA VisitLeaves ==
  ASSUME LoopInv, NEW op \in Operations, NEW f \in FrameState, NEW g \in FrameState, VisitAt(op, f, g)
  PROVE  /\ CurrentFrame = f /\ CurrentFrame' = g /\ Remaining = reservations
         /\ \E x \in Reservation : Leaves(op, f, g, x) /\ Remaining' = [reservations EXCEPT ![op] = x]
<1>1. CurrentFrame = f /\ CurrentFrame' = g
  BY OneFrame, OneFrameNext DEF VisitAt
<1>2. reservations \in [Operations -> Reservation] /\ clock \in Nat
  BY DEF LoopInv, TypeOK
<1>3. Remaining = reservations
  BY <1>1, <1>2 DEF Remaining, VisitAt
<1> DEFINE r == reservations[op]
<1>4. r \in Reservation /\ Retain(r) \in Reservation /\ NoReservation \in Reservation
  BY <1>2, RetainType, NoReservationType
<1>5. Remaining' = [o \in Operations |-> IF o \in g.releasing THEN NoReservation ELSE reservations'[o]]
  BY <1>1 DEF Remaining
<1>6. CASE ~Overdue(r)
  <2>1. Remaining' = [reservations EXCEPT ![op] = r]
    BY <1>2, <1>5, <1>6 DEF VisitAt
  <2>2. Leaves(op, f, g, r)
    BY <1>6 DEF VisitAt, Leaves
  <2> QED BY <1>1, <1>3, <1>4, <2>1, <2>2
<1>7. CASE Overdue(r) /\ r.state = "settled"
  <2>1. Remaining' = [reservations EXCEPT ![op] = NoReservation]
    BY <1>2, <1>5, <1>7 DEF VisitAt
  <2>2. Leaves(op, f, g, NoReservation)
    BY <1>7 DEF VisitAt, Leaves
  <2> QED BY <1>1, <1>3, <1>4, <2>1, <2>2
<1>8. CASE Overdue(r) /\ r.state = "pending"
  <2>1. Remaining' = [reservations EXCEPT ![op] = NoReservation]
    BY <1>2, <1>5, <1>8 DEF VisitAt
  <2>2. Leaves(op, f, g, NoReservation)
    BY <1>8 DEF VisitAt, Leaves
  <2> QED BY <1>1, <1>3, <1>4, <2>1, <2>2
<1>9. CASE Overdue(r) /\ r.state = "liable"
  <2>1. Remaining' = [reservations EXCEPT ![op] = Retain(r)]
    BY <1>2, <1>5, <1>9 DEF VisitAt
  <2>2. Leaves(op, f, g, Retain(r))
    BY <1>2, <1>4, <1>9, RetainIs DEF VisitAt, Leaves
  <2> QED BY <1>1, <1>3, <1>4, <2>1, <2>2
<1> QED
  BY <1>6, <1>7, <1>8, <1>9 DEF VisitAt
-----------------------------------------------------------------------------
(* The loop keeps its invariant, one lemma per step.                       *)

LEMMA VisitKeeps ==
  ASSUME LoopInv, NEW op \in Operations, Visit(op)
  PROVE  LoopInv'
<1>1. PICK f \in FrameState, g \in FrameState : VisitAt(op, f, g)
  BY VisitShape
<1>2. PICK x \in Reservation : Leaves(op, f, g, x) /\ Remaining' = [reservations EXCEPT ![op] = x]
  BY <1>1, VisitLeaves
<1>3. CurrentFrame = f /\ CurrentFrame' = g /\ Remaining = reservations
  BY <1>1, VisitLeaves
<1> DEFINE r == reservations[op]
<1>4. /\ reservations \in [Operations -> Reservation] /\ r \in Reservation /\ clock \in Nat
      /\ used \in [Budgets -> Nat] /\ spent \in [Budgets -> Nat] /\ r.reserved \in [Budgets -> Nat]
      /\ inserted \in [Operations -> Nat]
  BY DEF LoopInv, TypeOK, Reservation, Queued
<1>5. /\ Retain(r) \in Reservation /\ NoReservation \in Reservation
      /\ ~Active(Retain(r)) /\ ~Active(NoReservation) /\ ~Retained(NoReservation)
      /\ Retained(Retain(r)) /\ ~Overdue(Retain(r))
  BY <1>4, RetainType, NoReservationType, RetainIs DEF NoReservation, Active, Retained
<1>6. /\ reservations' \in [Operations -> Reservation]
      /\ \A o \in Operations : reservations'[o] = reservations[o] \/ ~Active(reservations'[o])
      /\ \A o \in Operations : Retained(reservations'[o]) => Retained(reservations[o])
  BY <1>1, <1>4, <1>5 DEF VisitAt
<1>7. TypeOK'
  <2>1. used' \in [Budgets -> Nat] /\ spent' \in [Budgets -> Nat]
    BY <1>1, <1>4, MinusType, PlusType DEF VisitAt
  <2> QED BY <1>1, <1>6, <2>1 DEF VisitAt, LoopInv, TypeOK
<1>8. HoldsWhatItNames'
  BY <1>6 DEF LoopInv, HoldsWhatItNames, Active
<1>9. Queued'
  BY <1>1, <1>6 DEF LoopInv, Queued, VisitAt, Retained
<1>10. /\ \A o \in Operations : Remaining'[o] \in Reservation
       /\ Remaining' \in [Operations -> Reservation] /\ Remaining'[op] = x
       /\ \A o \in Operations \ {op} : Remaining'[o] = reservations[o]
  BY <1>2, <1>4
<1>11. Seen' = IF Retained(x) THEN Seen \cup {op} ELSE Seen
  <2>1. inserted' = inserted /\ g.position = inserted[op] /\ f.position < inserted[op]
        /\ \A o \in Operations \ {op} : Retained(reservations[o]) =>
             (inserted[o] <= f.position <=> inserted[o] <= g.position)
    BY <1>1 DEF VisitAt
  <2>2. op \notin Seen
    BY <1>3, <1>4, <2>1 DEF Seen, FrameState
  <2>3. \A o \in Operations \ {op} : o \in Seen' <=> o \in Seen
    BY <1>3, <1>10, <2>1 DEF Seen, Retained
  <2>4. op \in Seen' <=> Retained(x)
    BY <1>3, <1>4, <1>10, <2>1 DEF Seen, Retained
  <2> QED BY <2>2, <2>3, <2>4 DEF Seen
<1>12. \A o \in Seen' : ~Overdue(Remaining[o])'
  <2>1. clock' = clock /\ (Retained(x) => ~Overdue(x))
    BY <1>1, <1>2, <1>5 DEF VisitAt, Leaves
  <2>2. \A o \in Seen : o # op /\ ~Overdue(reservations[o])
    BY <1>1, <1>3, <1>4 DEF LoopInv, Looped, Seen, VisitAt, FrameState
  <2>3. ASSUME NEW o \in Seen' PROVE ~Overdue(Remaining[o])'
    <3>1. CASE o = op
      BY <1>10, <1>11, <2>1, <2>2, <2>3, <3>1 DEF Overdue, Deadline, Retained
    <3>2. CASE o # op
      BY <1>10, <1>11, <2>1, <2>2, <2>3, <3>2 DEF Overdue, Deadline, Retained, Seen
    <3> QED BY <3>1, <3>2
  <2> QED BY <2>3
<1>13. EarliestOf(g.next, Seen', Remaining')
  <2>1. EarliestOf(f.next, Seen, reservations) /\ Seen \in SUBSET Operations /\ op \notin Seen
    BY <1>1, <1>3, <1>4 DEF LoopInv, Looped, VisitAt, Seen, FrameState
  <2>2. \A o \in Seen : Remaining'[o] = reservations[o]
    BY <1>10, <2>1
  <2>3. f.next \in Nat \cup {Infinity}
    BY DEF FrameState
  <2>4. /\ EarliestOf(f.next, Seen, Remaining')
        /\ EarliestOf(TrackRecoveryAt(f.next, Deadline(x)), Seen \cup {op}, Remaining')
    BY <1>4, <1>10, <2>1, <2>2, <2>3, EarliestTracks
  <2>5. IF Retained(x) THEN g.next = TrackRecoveryAt(f.next, Deadline(x)) ELSE g.next = f.next
    BY <1>1, <1>2, <1>5 DEF Leaves, VisitAt
  <2> QED BY <1>11, <2>4, <2>5
<1>14. Looped'
  <2>1. frames' \in {<<>>} \cup {<<h>> : h \in FrameState} /\ inserted' = inserted
        /\ (g.releasing # {} => g.observing) /\ g.releasing \subseteq {op} /\ g.position = inserted[op]
    BY <1>1 DEF VisitAt
  <2>2. \A o \in g.releasing : inserted[o] <= g.position
    BY <1>4, <2>1
  <2> QED BY <1>3, <1>12, <1>13, <2>1, <2>2 DEF Looped
<1>15. ASSUME NEW b \in Budgets PROVE used'[b] = HeldIn(Remaining', b) + spent'[b]
  <2>1. HeldIn(Remaining', b) =
          HeldIn(reservations, b) - Holding(reservations, b)[op] + (IF Active(x) THEN x.reserved[b] ELSE 0)
    BY <1>2, <1>4, HeldAfterChange
  <2>2. used[b] = HeldIn(reservations, b) + spent[b]
    BY <1>3 DEF LoopInv
  <2>3. Holding(reservations, b)[op] = IF Active(r) THEN r.reserved[b] ELSE 0
    BY DEF Holding
  <2>4. HeldIn(reservations, b) \in Nat /\ Holding(reservations, b)[op] <= HeldIn(reservations, b)
    BY <1>4, HoldingType, ConstantTypes, TotalBound DEF HeldIn
  <2>5. used[b] \in Nat /\ spent[b] \in Nat /\ r.reserved[b] \in Nat
    BY <1>4
  <2>6. CASE x = r /\ used' = used /\ spent' = spent
    BY <2>1, <2>2, <2>3, <2>4, <2>5, <2>6
  <2>7. CASE x = NoReservation /\ r.state = "settled" /\ used' = used /\ spent' = spent
    BY <1>5, <2>1, <2>2, <2>3, <2>4, <2>5, <2>7 DEF Active
  <2>8. CASE x = NoReservation /\ r.state = "pending" /\ used' = Minus(used, r.reserved) /\ spent' = spent
    <3>1. used'[b] = ClampedSub(used[b], r.reserved[b])
      BY <2>8 DEF Minus
    <3>2. Holding(reservations, b)[op] = r.reserved[b] /\ ~Active(x)
      BY <1>5, <2>3, <2>8 DEF Active
    <3> QED BY <2>1, <2>2, <2>4, <2>5, <2>8, <3>1, <3>2 DEF ClampedSub
  <2>9. CASE x = Retain(r) /\ r.state = "liable" /\ used' = used /\ spent' = Plus(spent, r.reserved)
    <3>1. spent'[b] = spent[b] + r.reserved[b]
      BY <2>9 DEF Plus
    <3>2. Holding(reservations, b)[op] = r.reserved[b] /\ ~Active(x)
      BY <1>5, <2>3, <2>9 DEF Active
    <3> QED BY <2>1, <2>2, <2>4, <2>5, <2>9, <3>1, <3>2
  <2> QED BY <1>2, <2>6, <2>7, <2>8, <2>9 DEF Leaves
<1>16. \A b \in Budgets : HeldIn(Remaining, b)' = HeldIn(Remaining', b)
  BY DEF HeldIn, Holding, Active
<1>17. Preflighted'
  <2>1. Preflighted /\ clock' = clock
    BY DEF LoopInv, Visit, Looping
  <2>2. Retain(r).state # "liable" /\ NoReservation.state # "liable"
    BY <1>4, RetainIs DEF NoReservation
  <2>3. \A o \in Operations : reservations'[o] = reservations[o] \/ reservations'[o].state # "liable"
    BY <1>1, <1>4, <2>2 DEF VisitAt
  <2> QED BY <2>1, <2>3 DEF Preflighted, Overdue, Deadline, Safe
<1> QED
  BY <1>7, <1>8, <1>9, <1>14, <1>15, <1>16, <1>17 DEF LoopInv

(* Between two calls of stats, or where nothing is being released.         *)
LEMMA NothingReleased ==
  ASSUME TypeOK, CurrentFrame.releasing = {}
  PROVE  Remaining = reservations
BY DEF Remaining, TypeOK

LEMMA LoopConserves ==
  ASSUME LoopInv, frames = <<>>
  PROVE  Remaining = reservations /\ Conservation
<1>1. Remaining = reservations
  BY NoFrame, NothingReleased DEF LoopInv
<1> QED
  BY <1>1, HeldIsHeldIn DEF LoopInv, Conservation, UsageConserved

LEMMA ConservesLoop ==
  ASSUME Conservation', Queued', frames' = <<>>
  PROVE  LoopInv'
<1>1. Remaining' = reservations'
  BY NoFrame DEF Remaining, Conservation, TypeOK
<1>2. ASSUME NEW b \in Budgets
      PROVE  (used[b] = HeldIn(Remaining, b) + spent[b])'
  BY <1>1, HeldIsHeldIn DEF Conservation, UsageConserved, HeldIn, Holding, Active
<1>3. Looped'
  BY DEF Looped
<1> QED
  BY <1>2, <1>3 DEF LoopInv, Conservation

LEMMA CallStatsShape ==
  ASSUME LoopInv, CallStats, MaxDepth = 0
  PROVE  frames = <<>> /\ frames' = <<Frame>> /\ CurrentFrame' = Frame
<1>1. frames = <<>>
  <2>1. ASSUME frames # <<>> PROVE FALSE
    <3>1. PICK f : frames = <<f>>
      BY <2>1, FramesAre DEF LoopInv
    <3>2. Len(<<f>>) = 1
      OBVIOUS
    <3> QED BY <2>1, <3>1, <3>2 DEF CallStats
  <2> QED BY <2>1
<1>2. frames' = <<Frame>>
  <2>1. Append(<<>>, Frame) = <<Frame>>
    OBVIOUS
  <2> QED BY <1>1, <2>1 DEF CallStats
<1> QED
  BY <1>1, <1>2, OneFrameNext

LEMMA CallStatsKeeps ==
  ASSUME LoopInv, CallStats, MaxDepth = 0
  PROVE  LoopInv'
<1>1. frames = <<>> /\ frames' = <<Frame>> /\ CurrentFrame' = Frame
  BY CallStatsShape
<1>2. /\ used' = used /\ reservations' = reservations /\ nextRecoveryAt' = nextRecoveryAt
      /\ issued' = issued /\ clock' = clock /\ spent' = spent /\ inserted' = inserted /\ serial' = serial
  BY DEF CallStats, vars
<1>3. TypeOK' /\ HoldsWhatItNames' /\ Queued'
  BY <1>2 DEF LoopInv, TypeOK, HoldsWhatItNames, Queued, Active, Retained
<1>4. Remaining = reservations /\ Remaining' = reservations
  BY <1>1, <1>2, <1>3, LoopConserves, NoFrame DEF Remaining, TypeOK
<1>5. \A op \in Operations : Retained(reservations[op]) => ~(inserted[op] <= 0)
  BY DEF LoopInv, Queued
<1>6. Seen' = {}
  BY <1>1, <1>2, <1>4, <1>5, NoFrame DEF Seen, Retained
<1>7. Looped'
  BY <1>1, <1>6, NoFrame DEF Looped, EarliestOf
<1>8. \A b \in Budgets : (used[b] = HeldIn(Remaining, b) + spent[b])'
  BY <1>2, <1>4 DEF LoopInv, HeldIn, Holding, Active
<1>9. Preflighted'
  <2>1. GateOpen /\ RecoverySafe
    BY DEF CallStats
  <2> QED BY <1>2, <2>1 DEF Preflighted, RecoverySafe, Expired, Overdue, Deadline, Safe
<1> QED
  BY <1>3, <1>7, <1>8, <1>9 DEF LoopInv

ObservedAt(f, g) ==
  /\ frames = <<f>> /\ frames' = <<g>>
  /\ g.position = f.position /\ g.next = f.next /\ g.releasing = {} /\ ~g.observing
  /\ reservations' = Remaining /\ Remaining' = Remaining
  /\ CurrentFrame = f /\ CurrentFrame' = g
  /\ UNCHANGED <<used, nextRecoveryAt, issued, clock, spent, inserted, serial>>

LEMMA ObservedShape ==
  ASSUME LoopInv, Observed
  PROVE  \E f, g \in FrameState : ObservedAt(f, g)
<1>1. PICK f \in FrameState : frames = <<f>>
  BY FramesAre DEF LoopInv, Observed
<1> DEFINE g == [f EXCEPT !.observing = FALSE, !.releasing = {}]
<1>2. Top = f /\ CurrentFrame = f /\ frames' = <<g>>
  BY <1>1, OneFrame DEF Observed
<1>3. g \in FrameState /\ g.position = f.position /\ g.next = f.next /\ g.releasing = {} /\ ~g.observing
  BY DEF FrameState
<1> HIDE DEF g
<1>4. CurrentFrame' = g
  BY <1>2, OneFrameNext
<1>5. reservations' = Remaining
  BY <1>2 DEF Observed, Remaining
<1>6. Remaining' = Remaining
  BY <1>3, <1>4, <1>5 DEF Remaining
<1> QED
  BY <1>1, <1>2, <1>3, <1>4, <1>5, <1>6 DEF Observed, ObservedAt

LEMMA ObservedKeeps ==
  ASSUME LoopInv, Observed
  PROVE  LoopInv'
<1>1. PICK f \in FrameState, g \in FrameState : ObservedAt(f, g)
  BY ObservedShape
<1>2. \A op \in Operations : reservations'[op] = reservations[op] \/ reservations'[op] = NoReservation
  BY <1>1 DEF ObservedAt, Remaining
<1>3. reservations' \in [Operations -> Reservation]
  BY <1>1, NoReservationType DEF ObservedAt, Remaining, LoopInv, TypeOK
<1>4. TypeOK'
  BY <1>1, <1>3 DEF ObservedAt, LoopInv, TypeOK
<1>5. ~Active(NoReservation) /\ ~Retained(NoReservation)
  BY DEF NoReservation, Active, Retained
<1>6. HoldsWhatItNames'
  BY <1>2, <1>5 DEF LoopInv, HoldsWhatItNames, Active
<1>7. Queued'
  BY <1>1, <1>2, <1>5 DEF LoopInv, Queued, ObservedAt, Retained
<1>8. Seen' = Seen
  BY <1>1 DEF ObservedAt, Seen, Retained
<1>9. Looped'
  <2>1. frames # <<>> /\ frames' \in {<<h>> : h \in FrameState}
    BY <1>1 DEF ObservedAt
  <2>2. \A op \in Seen' : ~Overdue(Remaining[op])'
    BY <1>1, <1>8, <2>1 DEF ObservedAt, LoopInv, Looped, Overdue, Deadline, Retained
  <2>3. EarliestOf(CurrentFrame.next, Seen, Remaining)'
    BY <1>1, <1>8, <2>1 DEF ObservedAt, LoopInv, Looped, EarliestOf, Deadline
  <2> QED BY <1>1, <2>1, <2>2, <2>3 DEF ObservedAt, Looped
<1>10. \A b \in Budgets : (used[b] = HeldIn(Remaining, b) + spent[b])'
  BY <1>1 DEF ObservedAt, LoopInv, HeldIn, Holding, Active
<1>11. Preflighted'
  <2>1. Preflighted /\ clock' = clock /\ NoReservation.state # "liable"
    BY <1>1 DEF LoopInv, ObservedAt, NoReservation
  <2> QED BY <1>2, <2>1 DEF Preflighted, Overdue, Deadline, Safe
<1> QED
  BY <1>4, <1>6, <1>7, <1>9, <1>10, <1>11 DEF LoopInv

LEMMA ReturnShape ==
  ASSUME LoopInv, Return
  PROVE  /\ frames # <<>> /\ frames' = <<>> /\ Remaining = reservations
         /\ \A op \in Operations : Retained(reservations[op]) =>
              inserted[op] <= Top.position /\ ~Overdue(reservations[op])
         /\ nextRecoveryAt' = EarliestDeadline(reservations)
         /\ UNCHANGED <<used, reservations, issued, clock, spent, inserted, serial>>
<1>1. PICK f \in FrameState : frames = <<f>>
  BY FramesAre DEF LoopInv, Return, Looping
<1>2. Top = f /\ CurrentFrame = f /\ frames' = <<>> /\ frames # <<>> /\ ~f.observing /\ f.releasing = {}
  BY <1>1, OneFrame DEF Return, Looping, LoopInv, Looped
<1>3. Remaining = reservations
  BY <1>2, NothingReleased DEF LoopInv
<1>4. \A op \in Operations : Retained(reservations[op]) => inserted[op] <= f.position
  <2>1. \A op \in Operations : inserted[op] \in Nat /\ f.position \in Nat
    BY DEF LoopInv, Queued, FrameState
  <2> QED BY <1>2, <2>1 DEF Return, Ahead
<1>5. Seen = {op \in Operations : Retained(reservations[op])}
  BY <1>2, <1>3, <1>4 DEF Seen
<1>6. f.next = EarliestDeadline(reservations)
  BY <1>2, <1>3, <1>5, EarliestIs DEF LoopInv, Looped, TypeOK
<1>7. \A op \in Seen : ~Overdue(reservations[op])
  BY <1>2, <1>3 DEF LoopInv, Looped
<1> QED
  BY <1>2, <1>3, <1>4, <1>5, <1>6, <1>7 DEF Return

LEMMA ReturnKeeps ==
  ASSUME LoopInv, Return
  PROVE  LoopInv'
<1>1. /\ frames' = <<>> /\ Remaining = reservations /\ nextRecoveryAt' = EarliestDeadline(reservations)
      /\ UNCHANGED <<used, reservations, issued, clock, spent, inserted, serial>>
  BY ReturnShape
<1>2. TypeOK'
  BY <1>1, EarliestDeadlineIsLeast DEF LoopInv, TypeOK
<1>3. HoldsWhatItNames' /\ Queued'
  BY <1>1 DEF LoopInv, HoldsWhatItNames, Queued, Active, Retained
<1>4. UsageConserved'
  BY <1>1, HeldIsHeldIn DEF LoopInv, UsageConserved, HeldIn, Holding, Active
<1> QED
  BY <1>1, <1>2, <1>3, <1>4, ConservesLoop DEF Conservation

(* A method that finds nothing to recover.                                 *)
LEMMA ClosedGate ==
  ASSUME TypeOK, ~GateOpen
  PROVE  /\ Recovered = reservations /\ RecoveredUsed = used
         /\ RecoveredSpent = spent /\ RecoveredNext = nextRecoveryAt
<1>1. \A op, states : ~Expired(op, states)
  BY DEF Expired
<1>2. ASSUME NEW states, NEW b \in Budgets PROVE ExpiredUnits(states, b) = 0
  <2> DEFINE none == [op \in Operations |->
                       IF Expired(op, states) THEN reservations[op].reserved[b] ELSE 0]
  <2>1. none \in [Operations -> Nat] /\ \A op \in Operations : none[op] = 0
    BY <1>1
  <2> HIDE DEF none
  <2>2. Total(none) = 0
    BY <2>1, TotalZero
  <2> QED BY <2>2 DEF ExpiredUnits, none
<1>3. Recovered = reservations
  BY <1>1 DEF Recovered, TypeOK
<1>4. RecoveredUsed = used
  <2>1. \A b \in Budgets : ClampedSub(used[b], ExpiredUnits({"pending"}, b)) = used[b]
    BY <1>2 DEF ClampedSub, TypeOK
  <2> QED BY <2>1 DEF RecoveredUsed, TypeOK
<1>5. RecoveredSpent = spent
  <2>1. \A b \in Budgets : spent[b] + ExpiredUnits({"liable"}, b) = spent[b]
    BY <1>2 DEF TypeOK
  <2> QED BY <2>1 DEF RecoveredSpent, TypeOK
<1> QED
  BY <1>3, <1>4, <1>5 DEF RecoveredNext

LEMMA ReserveBetweenKeeps ==
  ASSUME LoopInv, NEW op \in Operations, NEW c \in Charges, NEW lim \in Limits, NEW ttl \in Ttls,
         ReserveBetween(op, c, lim, ttl)
  PROVE  LoopInv'
<1>1. frames = <<>> /\ frames' = <<>> /\ ~GateOpen /\ Reserve(op, c, lim, ttl) /\ "scalar" \in Modes
  BY DEF ReserveBetween
<1>2. Conservation /\ Conservation'
  BY <1>1, LoopConserves, ConservationStep DEF Next
<1>3. Recovered = reservations
  BY <1>1, <1>2, ClosedGate DEF Conservation
<1>4. serial' = serial + 1 /\ serial \in Nat /\ inserted \in [Operations -> Nat]
  BY DEF ReserveBetween, LoopInv, Queued
<1>5. CASE Admits(op, c, lim)
  <2>1. inserted' = [inserted EXCEPT ![op] = serial + 1]
    BY <1>5 DEF ReserveBetween
  <2>2. \A o \in Operations \ {op} : reservations'[o] = reservations[o]
    BY <1>1, <1>2, <1>3, <1>5 DEF Reserve, Admit, Conservation, TypeOK
  <2>3. inserted' \in [Operations -> Nat] /\ inserted'[op] = serial + 1
        /\ \A o \in Operations \ {op} : inserted'[o] = inserted[o]
    BY <1>4, <2>1
  <2>4. ASSUME NEW o \in Operations, Retained(reservations'[o])
        PROVE  inserted'[o] \in 1..serial' /\ (o # op => inserted'[o] \in 1..serial)
    BY <1>4, <2>2, <2>3, <2>4 DEF LoopInv, Queued
  <2>5. ASSUME NEW o \in Operations, NEW p \in Operations, Retained(reservations'[o]),
               Retained(reservations'[p]), inserted'[o] = inserted'[p]
        PROVE  o = p
    <3>1. o # op /\ p # op => o = p
      BY <2>2, <2>3, <2>5 DEF LoopInv, Queued
    <3> QED BY <1>4, <2>3, <2>4, <2>5, <3>1
  <2>6. Queued'
    BY <1>4, <2>3, <2>4, <2>5 DEF Queued, Retained
  <2> QED BY <1>1, <1>2, <2>6, ConservesLoop
<1>6. CASE ~Admits(op, c, lim)
  <2>1. inserted' = inserted /\ reservations' = reservations
    BY <1>1, <1>3, <1>6 DEF ReserveBetween, Reserve, Admit, RecoverOnly
  <2>2. Queued'
    BY <1>4, <2>1 DEF LoopInv, Queued, Retained
  <2> QED BY <1>1, <1>2, <2>2, ConservesLoop
<1> QED
  BY <1>5, <1>6

LEMMA MarkLiableBetweenKeeps ==
  ASSUME LoopInv, NEW op \in Operations, MarkLiableBetween(op)
  PROVE  LoopInv'
<1>1. frames = <<>> /\ frames' = <<>> /\ ~GateOpen /\ MarkLiable(op) /\ inserted' = inserted /\ serial' = serial
  BY DEF MarkLiableBetween
<1>2. Conservation /\ Conservation'
  BY <1>1, LoopConserves, ConservationStep DEF Next
<1>3. Recovered = reservations /\ reservations \in [Operations -> Reservation]
  BY <1>1, <1>2, ClosedGate DEF Conservation, TypeOK
<1>4. \A o \in Operations : Retained(reservations'[o]) => Retained(reservations[o])
  BY <1>1, <1>3 DEF MarkLiable, RecoverOnly, Active, Retained
<1>5. Queued'
  BY <1>1, <1>4 DEF LoopInv, Queued, Retained
<1> QED
  BY <1>1, <1>2, <1>5, ConservesLoop

LEMMA ClockBetweenKeeps ==
  ASSUME LoopInv, ClockBetween
  PROVE  LoopInv'
<1>1. frames = <<>> /\ frames' = <<>> /\ ClockStep /\ inserted' = inserted /\ serial' = serial
  BY DEF ClockBetween
<1>2. Conservation /\ Conservation'
  BY <1>1, LoopConserves, ConservationStep DEF Next
<1>3. Queued'
  BY <1>1 DEF ClockStep, LoopInv, Queued, Retained
<1> QED
  BY <1>1, <1>2, <1>3, ConservesLoop

LEMMA LoopStarts == ObserverInit => LoopInv
<1> SUFFICES ASSUME ObserverInit PROVE LoopInv
  OBVIOUS
<1>1. Conservation /\ frames = <<>>
  BY ConservationInit DEF ObserverInit
<1>2. Remaining = reservations
  BY <1>1, NoFrame, NothingReleased DEF Conservation
<1>3. Queued
  BY DEF ObserverInit, Init, Queued, Retained, NoReservation
<1>4. Looped
  BY <1>1 DEF Looped
<1> QED
  BY <1>1, <1>2, <1>3, <1>4, HeldIsHeldIn DEF LoopInv, Conservation, UsageConserved

LEMMA LoopStep ==
  ASSUME LoopInv, MaxDepth = 0, [ObserverNext]_observerVars
  PROVE  LoopInv'
<1>1. CASE UNCHANGED observerVars
  <2>1. frames' = frames /\ inserted' = inserted /\ serial' = serial /\ UNCHANGED vars
    BY <1>1 DEF observerVars
  <2>2. TypeOK' /\ HoldsWhatItNames' /\ Queued'
    BY <2>1 DEF LoopInv, TypeOK, HoldsWhatItNames, Queued, Active, Retained, vars
  <2>3. CurrentFrame' = CurrentFrame
    BY <2>1 DEF CurrentFrame, Top
  <2>4. Remaining' = Remaining
    BY <2>1, <2>3 DEF Remaining, vars
  <2>5. Seen' = Seen /\ clock' = clock
    BY <2>1, <2>3, <2>4 DEF Seen, Retained, vars
  <2>6. Looped'
    <3>1. (\A op \in Seen : ~Overdue(Remaining[op])) => (\A op \in Seen' : ~Overdue(Remaining[op])')
      BY <2>4, <2>5 DEF Overdue, Deadline, Retained
    <3>2. EarliestOf(CurrentFrame.next, Seen, Remaining) => EarliestOf(CurrentFrame.next, Seen, Remaining)'
      BY <2>3, <2>4, <2>5 DEF EarliestOf, Deadline
    <3> QED BY <2>1, <2>3, <3>1, <3>2 DEF LoopInv, Looped
  <2>7. \A b \in Budgets : (used[b] = HeldIn(Remaining, b) + spent[b])'
    BY <2>1, <2>4 DEF LoopInv, HeldIn, Holding, Active, vars
  <2>8. frames' # <<>> => Preflighted'
    BY <2>1 DEF LoopInv, Preflighted, Overdue, Deadline, Retained, Safe, vars
  <2> QED BY <2>2, <2>6, <2>7, <2>8 DEF LoopInv
<1>2. ASSUME NEW op \in Operations, MarkLiableBetween(op) \/ Visit(op)
      PROVE  LoopInv'
  BY <1>2, MarkLiableBetweenKeeps, VisitKeeps
<1>3. ASSUME NEW op \in Operations, NEW c \in Charges, NEW lim \in Limits, NEW ttl \in Ttls,
             ReserveBetween(op, c, lim, ttl)
      PROVE  LoopInv'
  BY <1>3, ReserveBetweenKeeps
<1> QED
  BY <1>1, <1>2, <1>3, CallStatsKeeps, ObservedKeeps, ReturnKeeps, ClockBetweenKeeps DEF ObserverNext
-----------------------------------------------------------------------------
(* What the loop has still to do is nothing between two calls, and what    *)
(* recovery does at once when a call begins.                               *)

StillFor(state, b) ==
  [op \in Operations |->
    IF /\ frames # <<>> /\ inserted[op] > Top.position
       /\ Overdue(reservations[op]) /\ reservations[op].state = state
      THEN reservations[op].reserved[b] ELSE 0]

LEMMA StillType ==
  ASSUME TypeOK, NEW state, NEW b \in Budgets
  PROVE  /\ StillToExpire(state, b) = Total(StillFor(state, b))
         /\ StillFor(state, b) \in [Operations -> Nat]
         /\ StillToExpire(state, b) \in Nat
<1>1. \A op \in Operations : reservations[op].reserved[b] \in Nat
  BY DEF TypeOK, Reservation
<1>2. StillFor(state, b) \in [Operations -> Nat]
  BY <1>1 DEF StillFor
<1>3. StillToExpire(state, b) = Total(StillFor(state, b))
  BY DEF StillToExpire, StillFor
<1> QED
  BY <1>2, <1>3, ConstantTypes, TotalType

LEMMA NothingStill ==
  ASSUME TypeOK, NEW state, NEW b \in Budgets,
         frames # <<>> => \A op \in Operations : Retained(reservations[op]) => ~(inserted[op] > Top.position)
  PROVE  StillToExpire(state, b) = 0
<1>1. \A op \in Operations : StillFor(state, b)[op] = 0
  BY DEF StillFor, Overdue
<1>2. StillFor(state, b) \in [Operations -> Nat] /\ StillToExpire(state, b) = Total(StillFor(state, b))
  BY StillType
<1> HIDE DEF StillFor
<1> QED
  BY <1>1, <1>2, TotalZero

LEMMA FinishedBetween ==
  ASSUME TypeOK, frames = <<>>
  PROVE  /\ Finished = reservations /\ FinishedUsed = used
         /\ FinishedSpent = spent /\ FinishedNext = nextRecoveryAt
<1>1. Finished = reservations
  BY DEF Finished, TypeOK
<1>2. \A b \in Budgets : StillToExpire("pending", b) = 0 /\ StillToExpire("liable", b) = 0
  BY NothingStill
<1>3. FinishedUsed = used /\ FinishedSpent = spent
  BY <1>2 DEF FinishedUsed, FinishedSpent, TypeOK
<1> QED
  BY <1>1, <1>3 DEF FinishedNext

(* The same at the end of a step.                                          *)
LEMMA FinishedBetweenNext ==
  (TypeOK /\ frames = <<>>)' =>
    (/\ Finished = reservations /\ FinishedUsed = used
     /\ FinishedSpent = spent /\ FinishedNext = nextRecoveryAt)'
<1>1. TypeOK /\ frames = <<>> =>
        /\ Finished = reservations /\ FinishedUsed = used
        /\ FinishedSpent = spent /\ FinishedNext = nextRecoveryAt
  BY FinishedBetween
<1> QED
  BY <1>1, PTL
-----------------------------------------------------------------------------
(* The operators of the store that sees an indivisible recovery.           *)

LEMMA LoopTotal ==
  ASSUME NEW f
  PROVE  Indivisible!Total(f) = Total(f)
BY DEF Indivisible!Total, Indivisible!UnitsOf, Indivisible!Cardinality, Total, UnitsOf, Cardinality

LEMMA LoopCardinality ==
  ASSUME NEW S
  PROVE  Indivisible!Cardinality(S) = Cardinality(S)
BY DEF Indivisible!Cardinality, Cardinality

LEMMA LoopOperators ==
  /\ \A n : Indivisible!Safe(n) <=> Safe(n)
  /\ \A r : /\ Indivisible!Retained(r) <=> Retained(r)
            /\ Indivisible!Active(r) <=> Active(r)
            /\ Indivisible!Deadline(r) = Deadline(r)
            /\ Indivisible!Overdue(r) <=> Overdue(r)
  /\ Indivisible!Infinity = Infinity
  /\ Indivisible!NoUnits = NoUnits /\ Indivisible!NoReservation = NoReservation
  /\ \A at, d : Indivisible!TrackRecoveryAt(at, d) = TrackRecoveryAt(at, d)
  /\ \A u, v : Indivisible!Plus(u, v) = Plus(u, v)
  /\ \A m, k, u : Indivisible!OfMode(m, k, u) <=> OfMode(m, k, u)
  /\ \A m, n : Indivisible!ClampedSub(m, n) = ClampedSub(m, n)
<1>1. \A n : Indivisible!Safe(n) <=> Safe(n)
  BY DEF Indivisible!Safe, Safe
<1>2. \A r : /\ Indivisible!Retained(r) <=> Retained(r)
             /\ Indivisible!Active(r) <=> Active(r)
             /\ Indivisible!Deadline(r) = Deadline(r)
             /\ Indivisible!Overdue(r) <=> Overdue(r)
  BY DEF Indivisible!Retained, Indivisible!Active, Indivisible!Deadline, Indivisible!Overdue,
         Retained, Active, Deadline, Overdue
<1>3. Indivisible!Infinity = Infinity
  BY DEF Indivisible!Infinity, Infinity
<1>4. Indivisible!NoUnits = NoUnits /\ Indivisible!NoReservation = NoReservation
  BY DEF Indivisible!NoUnits, NoUnits, Indivisible!NoReservation, NoReservation
<1>5. \A at, d : Indivisible!TrackRecoveryAt(at, d) = TrackRecoveryAt(at, d)
  BY <1>3 DEF Indivisible!TrackRecoveryAt, TrackRecoveryAt
<1>6. \A u, v : Indivisible!Plus(u, v) = Plus(u, v)
  BY DEF Indivisible!Plus, Plus
<1>7. \A m, k, u : Indivisible!OfMode(m, k, u) <=> OfMode(m, k, u)
  BY DEF Indivisible!OfMode, OfMode
<1>8. \A m, n : Indivisible!ClampedSub(m, n) = ClampedSub(m, n)
  BY DEF Indivisible!ClampedSub, ClampedSub
<1> QED BY <1>1, <1>2, <1>3, <1>4, <1>5, <1>6, <1>7, <1>8

LEMMA LoopRetain ==
  ASSUME NEW r
  PROVE  Indivisible!Retain(r) = Retain(r)
BY DEF Indivisible!Retain, Indivisible!Settlement, Indivisible!LeaseExpired, Retain, Settlement, LeaseExpired

LEMMA LoopPending ==
  ASSUME NEW mode, NEW charge, NEW at, NEW cursor
  PROVE  Indivisible!Pending(mode, charge, at, cursor) = Pending(mode, charge, at, cursor)
BY LoopOperators DEF Indivisible!Pending, Pending

LEMMA LoopEarliest ==
  ASSUME NEW rs
  PROVE  Indivisible!EarliestDeadline(rs) = EarliestDeadline(rs)
<1> DEFINE S == {Indivisible!Deadline(rs[op]) : op \in {o \in Operations : Indivisible!Retained(rs[o])}}
           T == {Deadline(rs[op]) : op \in {o \in Operations : Retained(rs[o])}}
<1>1. S = T
  BY LoopOperators
<1>2. \A D : Indivisible!Min(D) = Min(D)
  BY DEF Indivisible!Min, Min
<1>3. Indivisible!EarliestDeadline(rs) = IF S = {} THEN Infinity ELSE Indivisible!Min(S)
  BY LoopOperators DEF Indivisible!EarliestDeadline
<1>4. EarliestDeadline(rs) = IF T = {} THEN Infinity ELSE Min(T)
  BY DEF EarliestDeadline
<1> HIDE DEF S, T
<1> QED BY <1>1, <1>2, <1>3, <1>4

(* Between two calls it sees what is there.                                *)
LEMMA LoopBetween ==
  ASSUME TypeOK, frames = <<>>
  PROVE  /\ Indivisible!GateOpen <=> GateOpen
         /\ Indivisible!RecoverySafe <=> RecoverySafe
         /\ Indivisible!Recovered = Recovered /\ Indivisible!RecoveredUsed = RecoveredUsed
         /\ Indivisible!RecoveredNext = RecoveredNext /\ Indivisible!RecoveredSpent = RecoveredSpent
<1>1. Finished = reservations /\ FinishedUsed = used /\ FinishedSpent = spent /\ FinishedNext = nextRecoveryAt
  BY FinishedBetween
<1>2. Indivisible!GateOpen <=> GateOpen
  BY <1>1, LoopOperators DEF Indivisible!GateOpen, GateOpen
<1>3. \A op, states : Indivisible!Expired(op, states) <=> Expired(op, states)
  BY <1>1, <1>2, LoopOperators DEF Indivisible!Expired, Expired
<1>4. Indivisible!RecoverySafe <=> RecoverySafe
  BY <1>3, LoopOperators DEF Indivisible!RecoverySafe, RecoverySafe
<1>5. Indivisible!Recovered = Recovered
  BY <1>1, <1>3, LoopOperators, LoopRetain DEF Indivisible!Recovered, Recovered
<1>6. ASSUME NEW states, NEW b
      PROVE  Indivisible!ExpiredUnits(states, b) = ExpiredUnits(states, b)
  <2>1. [op \in Operations |-> IF Indivisible!Expired(op, states) THEN Finished[op].reserved[b] ELSE 0]
          = [op \in Operations |-> IF Expired(op, states) THEN reservations[op].reserved[b] ELSE 0]
    BY <1>1, <1>3
  <2> QED BY <2>1, LoopTotal DEF Indivisible!ExpiredUnits, ExpiredUnits
<1>7. Indivisible!RecoveredUsed = RecoveredUsed
  BY <1>1, <1>6, LoopOperators DEF Indivisible!RecoveredUsed, RecoveredUsed
<1>8. Indivisible!RecoveredSpent = RecoveredSpent
  BY <1>1, <1>6 DEF Indivisible!RecoveredSpent, RecoveredSpent
<1>9. Indivisible!RecoveredNext = RecoveredNext
  BY <1>1, <1>2, <1>5, LoopEarliest DEF Indivisible!RecoveredNext, RecoveredNext
<1> QED
  BY <1>2, <1>4, <1>5, <1>7, <1>8, <1>9

LEMMA LoopAdmits ==
  ASSUME TypeOK, frames = <<>>, NEW op, NEW charge, NEW lim
  PROVE  Indivisible!Admits(op, charge, lim) <=> Admits(op, charge, lim)
<1>1. Indivisible!Recovered = Recovered /\ Indivisible!RecoveredUsed = RecoveredUsed
  BY LoopBetween
<1>2. \A u : Indivisible!WithinLimits(charge, lim, u) <=> WithinLimits(charge, lim, u)
  BY LoopOperators DEF Indivisible!WithinLimits, WithinLimits
<1>3. \A rs : Indivisible!OperationRoom(rs) <=> OperationRoom(rs)
  <2>1. \A rs : {op2 \in Operations : Indivisible!Retained(rs[op2])} = {op2 \in Operations : Retained(rs[op2])}
    BY LoopOperators
  <2> QED BY <2>1, LoopCardinality DEF Indivisible!OperationRoom, OperationRoom
<1>4. \A u : Indivisible!BudgetRoom(charge, u) <=> BudgetRoom(charge, u)
  BY LoopCardinality DEF Indivisible!BudgetRoom, BudgetRoom
<1> QED
  BY <1>1, <1>2, <1>3, <1>4 DEF Indivisible!Admits, Admits

LEMMA BetweenVars ==
  ASSUME LoopInv, LoopInv', frames = <<>>, frames' = <<>>
  PROVE  /\ TypeOK
         /\ Finished = reservations /\ FinishedUsed = used
         /\ FinishedSpent = spent /\ FinishedNext = nextRecoveryAt
         /\ Finished' = reservations' /\ FinishedUsed' = used'
         /\ FinishedSpent' = spent' /\ FinishedNext' = nextRecoveryAt'
BY FinishedBetween, FinishedBetweenNext DEF LoopInv

LEMMA RecoverOnlyMaps ==
  ASSUME LoopInv, LoopInv', frames = <<>>, frames' = <<>>, RecoverOnly
  PROVE  Indivisible!RecoverOnly
BY BetweenVars, LoopBetween DEF RecoverOnly, Indivisible!RecoverOnly

LEMMA ReserveMaps ==
  ASSUME LoopInv, LoopInv', frames = <<>>, frames' = <<>>,
         NEW op, NEW c, NEW lim, NEW ttl, Reserve(op, c, lim, ttl)
  PROVE  Indivisible!Reserve(op, c, lim, ttl)
<1>1. /\ Indivisible!OfMode("scalar", c.keys, c.units) /\ Indivisible!Total(issued) < MaxCursor
      /\ Indivisible!Safe(clock + ttl) /\ Indivisible!RecoverySafe
  BY BetweenVars, LoopBetween, LoopOperators, LoopTotal DEF Reserve, Admit
<1>2. Indivisible!Admits(op, c, lim) <=> Admits(op, c, lim)
  BY BetweenVars, LoopAdmits
<1>3. CASE Admits(op, c, lim)
  <2>1. /\ reservations' = [Recovered EXCEPT ![op] = Pending("scalar", c, clock + ttl, issued[op] + 1)]
        /\ used' = Plus(RecoveredUsed, c.units)
        /\ issued' = [issued EXCEPT ![op] = @ + 1]
        /\ nextRecoveryAt' = TrackRecoveryAt(RecoveredNext, clock + ttl)
        /\ spent' = RecoveredSpent
        /\ clock' = clock
    BY <1>3 DEF Reserve, Admit
  <2>2. /\ Finished' = [Indivisible!Recovered EXCEPT ![op] =
                          Indivisible!Pending("scalar", c, clock + ttl, issued[op] + 1)]
        /\ FinishedUsed' = Indivisible!Plus(Indivisible!RecoveredUsed, c.units)
        /\ FinishedNext' = Indivisible!TrackRecoveryAt(Indivisible!RecoveredNext, clock + ttl)
        /\ FinishedSpent' = Indivisible!RecoveredSpent
    BY <2>1, BetweenVars, LoopBetween, LoopOperators, LoopPending
  <2> QED BY <1>1, <1>2, <1>3, <2>1, <2>2 DEF Indivisible!Reserve, Indivisible!Admit
<1>4. CASE ~Admits(op, c, lim)
  <2>1. Indivisible!RecoverOnly
    BY <1>4, RecoverOnlyMaps DEF Reserve, Admit
  <2> QED BY <1>1, <1>2, <1>4, <2>1 DEF Indivisible!Reserve, Indivisible!Admit
<1> QED BY <1>3, <1>4

LEMMA MarkLiableMaps ==
  ASSUME LoopInv, LoopInv', frames = <<>>, frames' = <<>>, NEW op, MarkLiable(op)
  PROVE  Indivisible!MarkLiable(op)
<1>1. Indivisible!RecoverySafe /\ (Indivisible!Active(Indivisible!Recovered[op]) <=> Active(Recovered[op]))
  BY BetweenVars, LoopBetween, LoopOperators DEF MarkLiable
<1>2. CASE Active(Recovered[op])
  <2>1. /\ reservations' = [Recovered EXCEPT ![op] = [@ EXCEPT !.state = "liable"]]
        /\ used' = RecoveredUsed /\ nextRecoveryAt' = RecoveredNext /\ spent' = RecoveredSpent
        /\ issued' = issued /\ clock' = clock
    BY <1>2 DEF MarkLiable
  <2>2. /\ Finished' = [Indivisible!Recovered EXCEPT ![op] = [@ EXCEPT !.state = "liable"]]
        /\ FinishedUsed' = Indivisible!RecoveredUsed /\ FinishedNext' = Indivisible!RecoveredNext
        /\ FinishedSpent' = Indivisible!RecoveredSpent
    BY <2>1, BetweenVars, LoopBetween
  <2> QED BY <1>1, <1>2, <2>1, <2>2 DEF Indivisible!MarkLiable
<1>3. CASE ~Active(Recovered[op])
  <2>1. Indivisible!RecoverOnly
    BY <1>3, RecoverOnlyMaps DEF MarkLiable
  <2> QED BY <1>1, <1>3, <2>1 DEF Indivisible!MarkLiable
<1> QED BY <1>2, <1>3

LEMMA ClockMaps ==
  ASSUME LoopInv, LoopInv', frames = <<>>, frames' = <<>>, ClockStep
  PROVE  Indivisible!ClockStep
BY BetweenVars DEF ClockStep, Indivisible!ClockStep

LEMMA BetweenMaps ==
  ASSUME LoopInv, LoopInv', NEW op \in Operations, NEW c \in Charges, NEW lim \in Limits, NEW ttl \in Ttls,
         ReserveBetween(op, c, lim, ttl) \/ MarkLiableBetween(op) \/ ClockBetween
  PROVE  Indivisible!Next
<1>1. frames = <<>> /\ frames' = <<>>
  BY DEF ReserveBetween, MarkLiableBetween, ClockBetween
<1>2. CASE ReserveBetween(op, c, lim, ttl)
  <2>1. "scalar" \in Modes /\ Indivisible!Reserve(op, c, lim, ttl)
    BY <1>1, <1>2, ReserveMaps DEF ReserveBetween
  <2> QED BY <2>1 DEF Indivisible!Next
<1>3. CASE MarkLiableBetween(op)
  <2>1. Indivisible!MarkLiable(op)
    BY <1>1, <1>3, MarkLiableMaps DEF MarkLiableBetween
  <2> QED BY <2>1 DEF Indivisible!Next
<1>4. CASE ClockBetween
  <2>1. Indivisible!ClockStep
    BY <1>1, <1>4, ClockMaps DEF ClockBetween
  <2> QED BY <2>1 DEF Indivisible!Next
<1> QED BY <1>2, <1>3, <1>4
-----------------------------------------------------------------------------
(* The call of stats is the recovery, all that its loop does is silent.    *)

FinishedOf(f, op, r) ==
  IF op \in f.releasing THEN NoReservation
  ELSE IF inserted[op] <= f.position \/ ~Overdue(r) THEN r
  ELSE IF r.state = "liable" THEN Retain(r) ELSE NoReservation

LEMMA FinishedIs ==
  ASSUME NEW f
  PROVE  /\ frames = <<f>> => Finished = [op \in Operations |-> FinishedOf(f, op, reservations[op])]
         /\ frames' = <<f>> /\ inserted' = inserted /\ clock' = clock =>
              Finished' = [op \in Operations |-> FinishedOf(f, op, reservations'[op])]
<1>1. ASSUME frames = <<f>>
      PROVE  Finished = [op \in Operations |-> FinishedOf(f, op, reservations[op])]
  <2>1. frames # <<>> /\ Top = f
    BY <1>1, OneFrame
  <2> QED BY <2>1 DEF Finished, FinishedOf
<1>2. ASSUME frames' = <<f>>, inserted' = inserted, clock' = clock
      PROVE  Finished' = [op \in Operations |-> FinishedOf(f, op, reservations'[op])]
  <2>1. frames' # <<>> /\ Top' = f
    BY <1>2, OneFrameNext
  <2> QED BY <1>2, <2>1 DEF Finished, FinishedOf, Overdue, Retained, Deadline, Retain, Settlement
<1> QED BY <1>1, <1>2

StillOf(f, rs, state, b) ==
  [op \in Operations |->
    IF inserted[op] > f.position /\ Overdue(rs[op]) /\ rs[op].state = state
      THEN rs[op].reserved[b] ELSE 0]

LEMMA StillIs ==
  ASSUME NEW f, NEW state, NEW b
  PROVE  /\ frames = <<f>> => StillToExpire(state, b) = Total(StillOf(f, reservations, state, b))
         /\ frames' = <<f>> /\ inserted' = inserted /\ clock' = clock =>
              StillToExpire(state, b)' = Total(StillOf(f, reservations', state, b))
<1>1. ASSUME frames = <<f>>
      PROVE  StillToExpire(state, b) = Total(StillOf(f, reservations, state, b))
  <2>1. frames # <<>> /\ Top = f
    BY <1>1, OneFrame
  <2> QED BY <2>1 DEF StillToExpire, StillOf
<1>2. ASSUME frames' = <<f>>, inserted' = inserted, clock' = clock
      PROVE  StillToExpire(state, b)' = Total(StillOf(f, reservations', state, b))
  <2>1. frames' # <<>> /\ Top' = f
    BY <1>2, OneFrameNext
  <2> QED BY <1>2, <2>1 DEF StillToExpire, StillOf, Overdue, Retained, Deadline
<1> QED BY <1>1, <1>2

LEMMA CallStatsMaps ==
  ASSUME LoopInv, CallStats, MaxDepth = 0
  PROVE  Indivisible!Stats
<1>1. frames = <<>> /\ frames' = <<Frame>>
  BY CallStatsShape
<1>2. /\ GateOpen /\ RecoverySafe /\ used' = used /\ reservations' = reservations
      /\ issued' = issued /\ clock' = clock /\ spent' = spent /\ inserted' = inserted
  BY DEF CallStats, vars
<1>3. TypeOK /\ Conservation
  BY <1>1, LoopConserves DEF LoopInv
<1>4. \A op \in Operations : Retained(reservations[op]) => inserted[op] > 0 /\ ~(inserted[op] <= 0)
  BY DEF LoopInv, Queued
<1>5. Finished' = Recovered
  <2>1. Finished' = [op \in Operations |-> FinishedOf(Frame, op, reservations[op])]
    BY <1>1, <1>2, FinishedIs
  <2>2. ASSUME NEW op \in Operations
        PROVE  FinishedOf(Frame, op, reservations[op]) = Recovered[op]
    <3>1. reservations[op].state \in {"absent", "pending", "liable", "settled"}
      BY <1>3 DEF TypeOK, Reservation
    <3> QED
      BY <1>2, <1>4, <3>1, NoFrame DEF FinishedOf, Recovered, Expired, Overdue, Retained
  <2> QED BY <2>1, <2>2 DEF Recovered
<1>6. ASSUME NEW state \in {"pending", "liable"}, NEW b \in Budgets
      PROVE  StillToExpire(state, b)' = ExpiredUnits({state}, b)
  <2>1. StillToExpire(state, b)' = Total(StillOf(Frame, reservations, state, b))
    BY <1>1, <1>2, StillIs
  <2>2. StillOf(Frame, reservations, state, b) =
          [op \in Operations |-> IF Expired(op, {state}) THEN reservations[op].reserved[b] ELSE 0]
    BY <1>2, <1>4, NoFrame DEF StillOf, Expired, Overdue
  <2> QED BY <2>1, <2>2 DEF ExpiredUnits
<1>7. FinishedUsed' = RecoveredUsed
  <2>1. ASSUME NEW b \in Budgets
        PROVE  used[b] - ExpiredUnits({"pending"}, b) = ClampedSub(used[b], ExpiredUnits({"pending"}, b))
    <3>1. HeldIn(reservations, b) =
            HeldIn(Recovered, b) + ExpiredUnits({"pending"}, b) + ExpiredUnits({"liable"}, b)
      BY <1>3, HeldSplitsAtRecovery
    <3>2. used[b] = HeldIn(reservations, b) + spent[b]
      BY <1>3, HeldIsHeldIn DEF Conservation, UsageConserved
    <3>3. /\ HeldIn(Recovered, b) \in Nat /\ spent[b] \in Nat
          /\ ExpiredUnits({"pending"}, b) \in Nat /\ ExpiredUnits({"liable"}, b) \in Nat
      BY <1>3, HoldingType, RecoveredType, ExpiredUnitsType DEF TypeOK
    <3> QED BY <3>1, <3>2, <3>3 DEF ClampedSub
  <2> QED BY <1>2, <1>6, <2>1 DEF FinishedUsed, RecoveredUsed
<1>8. FinishedSpent' = RecoveredSpent
  BY <1>2, <1>6 DEF FinishedSpent, RecoveredSpent
<1>9. FinishedNext' = RecoveredNext
  <2>1. EarliestDeadline(Finished)' = EarliestDeadline(Recovered)
    BY <1>5 DEF EarliestDeadline, Deadline, Retained
  <2> QED BY <1>1, <1>2, <2>1 DEF FinishedNext, RecoveredNext
<1> QED
  BY <1>1, <1>2, <1>3, <1>5, <1>7, <1>8, <1>9, LoopBetween
  DEF Indivisible!Stats, Indivisible!RecoverOnly
-----------------------------------------------------------------------------
LEMMA SilentStep ==
  ASSUME Finished' = Finished, FinishedUsed' = FinishedUsed, FinishedSpent' = FinishedSpent,
         FinishedNext' = FinishedNext, issued' = issued, clock' = clock
  PROVE  UNCHANGED Indivisible!vars
BY DEF Indivisible!vars

(* The earliest deadline left, once the loop runs, is that of Finished.    *)
LEMMA FinishedNextIs ==
  /\ frames # <<>> => FinishedNext = EarliestDeadline(Finished)
  /\ frames' # <<>> /\ Finished' = Finished => FinishedNext' = EarliestDeadline(Finished)
BY DEF FinishedNext, EarliestDeadline, Deadline, Retained

LEMMA VisitStutters ==
  ASSUME LoopInv, NEW op \in Operations, Visit(op)
  PROVE  UNCHANGED Indivisible!vars
<1>1. PICK f \in FrameState, g \in FrameState : VisitAt(op, f, g)
  BY VisitShape
<1> DEFINE r == reservations[op]
<1>2. /\ reservations \in [Operations -> Reservation] /\ used \in [Budgets -> Nat]
      /\ spent \in [Budgets -> Nat] /\ r.reserved \in [Budgets -> Nat]
  BY DEF LoopInv, TypeOK, Reservation
<1>3. Remaining = reservations
  BY <1>1, VisitLeaves
<1>4. /\ frames = <<f>> /\ frames' = <<g>> /\ inserted' = inserted /\ clock' = clock /\ issued' = issued
      /\ f.releasing = {} /\ g.releasing \subseteq {op} /\ g.position = inserted[op]
      /\ f.position < inserted[op] /\ Retained(r)
      /\ \A o \in Operations \ {op} : reservations'[o] = reservations[o]
      /\ \A o \in Operations \ {op} : Retained(reservations[o]) =>
           (inserted[o] <= f.position <=> inserted[o] <= g.position)
  BY <1>1, <1>2 DEF VisitAt
<1>5. \A o \in Operations : inserted[o] \in Nat /\ f.position \in Nat /\ g.position \in Nat
  BY DEF LoopInv, Queued, FrameState
<1>6. Finished' = Finished
  <2>1. /\ Finished = [o \in Operations |-> FinishedOf(f, o, reservations[o])]
        /\ Finished' = [o \in Operations |-> FinishedOf(g, o, reservations'[o])]
    BY <1>4, FinishedIs
  <2>2. ASSUME NEW o \in Operations \ {op}
        PROVE  FinishedOf(g, o, reservations'[o]) = FinishedOf(f, o, reservations[o])
    <3>1. o \notin f.releasing /\ o \notin g.releasing /\ reservations'[o] = reservations[o]
      BY <1>4
    <3>2. CASE Retained(reservations[o])
      <4>1. inserted[o] <= f.position <=> inserted[o] <= g.position
        BY <1>4, <3>2
      <4> QED BY <3>1, <4>1 DEF FinishedOf
    <3>3. CASE ~Retained(reservations[o])
      BY <3>1, <3>3 DEF FinishedOf, Overdue
    <3> QED BY <3>2, <3>3
  <2>3. FinishedOf(g, op, reservations'[op]) = FinishedOf(f, op, r)
    <3>1. ~(inserted[op] <= f.position) /\ inserted[op] <= g.position
      BY <1>4, <1>5
    <3>2. FinishedOf(f, op, r) =
            IF ~Overdue(r) THEN r ELSE IF r.state = "liable" THEN Retain(r) ELSE NoReservation
      BY <1>4, <3>1 DEF FinishedOf
    <3>3. FinishedOf(g, op, reservations'[op]) =
            IF op \in g.releasing THEN NoReservation ELSE reservations'[op]
      BY <3>1 DEF FinishedOf
    <3> QED BY <1>1, <1>2, <3>2, <3>3 DEF VisitAt
  <2> QED BY <2>1, <2>2, <2>3
<1>7. ASSUME NEW state \in {"pending", "liable"}, NEW b \in Budgets
      PROVE  /\ StillToExpire(state, b) \in Nat /\ StillToExpire(state, b)' \in Nat
             /\ StillToExpire(state, b)' =
                  StillToExpire(state, b) - (IF Overdue(r) /\ r.state = state THEN r.reserved[b] ELSE 0)
  <2> DEFINE old == StillOf(f, reservations, state, b)
             new == StillOf(g, reservations', state, b)
  <2>1. StillToExpire(state, b) = Total(old) /\ StillToExpire(state, b)' = Total(new)
    BY <1>4, StillIs
  <2>2. \A o \in Operations : /\ reservations[o].reserved[b] \in Nat
                              /\ reservations'[o].reserved[b] \in Nat
    <3>1. TypeOK'
      BY VisitKeeps DEF LoopInv
    <3> QED BY <1>2, <3>1 DEF TypeOK, Reservation
  <2>3. old \in [Operations -> Nat] /\ new \in [Operations -> Nat]
    BY <2>2 DEF StillOf
  <2>4. ASSUME NEW o \in Operations \ {op} PROVE new[o] = old[o]
    <3>1. CASE Retained(reservations[o])
      <4>1. inserted[o] > f.position <=> inserted[o] > g.position
        BY <1>4, <1>5, <3>1
      <4> QED BY <1>4, <4>1 DEF StillOf
    <3>2. CASE ~Retained(reservations[o])
      BY <1>4, <3>2 DEF StillOf, Overdue
    <3> QED BY <3>1, <3>2
  <2>5. old[op] = IF Overdue(r) /\ r.state = state THEN r.reserved[b] ELSE 0
    BY <1>4, <1>5 DEF StillOf
  <2>6. new[op] = 0
    BY <1>4, <1>5 DEF StillOf
  <2> HIDE DEF old, new, r
  <2>7. Total(new) = Total(old) - old[op] + new[op]
    BY <2>3, <2>4, ConstantTypes, TotalChange
  <2>8. Total(old) \in Nat /\ Total(new) \in Nat /\ old[op] \in Nat
    BY <2>3, ConstantTypes, TotalType
  <2> QED BY <2>1, <2>5, <2>6, <2>7, <2>8
<1>8. ASSUME NEW b \in Budgets
      PROVE  /\ used'[b] - StillToExpire("pending", b)' = used[b] - StillToExpire("pending", b)
             /\ spent'[b] + StillToExpire("liable", b)' = spent[b] + StillToExpire("liable", b)
  <2>1. used[b] \in Nat /\ spent[b] \in Nat /\ r.reserved[b] \in Nat
    BY <1>2
  <2>2. Active(r) => r.reserved[b] <= used[b]
    <3>1. used[b] = HeldIn(reservations, b) + spent[b]
      BY <1>3 DEF LoopInv
    <3>2. /\ HeldIn(reservations, b) \in Nat
          /\ Holding(reservations, b)[op] <= HeldIn(reservations, b)
      BY <1>2, HoldingType, ConstantTypes, TotalBound DEF HeldIn
    <3>3. Active(r) => Holding(reservations, b)[op] = r.reserved[b]
      BY DEF Holding
    <3> QED BY <2>1, <3>1, <3>2, <3>3
  <2>3. /\ StillToExpire("pending", b)' =
             StillToExpire("pending", b) - (IF Overdue(r) /\ r.state = "pending" THEN r.reserved[b] ELSE 0)
        /\ StillToExpire("liable", b)' =
             StillToExpire("liable", b) - (IF Overdue(r) /\ r.state = "liable" THEN r.reserved[b] ELSE 0)
        /\ StillToExpire("pending", b) \in Nat /\ StillToExpire("liable", b) \in Nat
    BY <1>7
  <2>4. CASE ~Overdue(r) \/ r.state = "settled"
    <3>1. used' = used /\ spent' = spent
      BY <1>1, <2>4 DEF VisitAt
    <3> QED BY <2>1, <2>3, <2>4, <3>1
  <2>5. CASE Overdue(r) /\ r.state = "pending"
    <3>1. used'[b] = ClampedSub(used[b], r.reserved[b]) /\ spent' = spent
      BY <1>1, <2>5 DEF VisitAt, Minus
    <3>2. used'[b] = used[b] - r.reserved[b]
      BY <2>1, <2>2, <2>5, <3>1 DEF ClampedSub, Active
    <3> QED BY <2>1, <2>3, <2>5, <3>1, <3>2
  <2>6. CASE Overdue(r) /\ r.state = "liable"
    <3>1. spent'[b] = spent[b] + r.reserved[b] /\ used' = used
      BY <1>1, <2>6 DEF VisitAt, Plus
    <3> QED BY <2>1, <2>3, <2>6, <3>1
  <2>7. r.state \in {"pending", "liable", "settled"}
    BY <1>2, <1>4 DEF Reservation, Retained
  <2> QED BY <2>4, <2>5, <2>6, <2>7
<1>9. FinishedUsed' = FinishedUsed /\ FinishedSpent' = FinishedSpent
  BY <1>8 DEF FinishedUsed, FinishedSpent
<1>10. FinishedNext' = FinishedNext
  BY <1>4, <1>6, FinishedNextIs
<1> QED
  BY <1>4, <1>6, <1>9, <1>10, SilentStep

LEMMA ObservedStutters ==
  ASSUME LoopInv, Observed
  PROVE  UNCHANGED Indivisible!vars
<1>1. PICK f \in FrameState, g \in FrameState : ObservedAt(f, g)
  BY ObservedShape
<1>2. /\ frames = <<f>> /\ frames' = <<g>> /\ inserted' = inserted /\ clock' = clock /\ issued' = issued
      /\ used' = used /\ spent' = spent /\ g.position = f.position /\ g.releasing = {}
      /\ reservations \in [Operations -> Reservation]
      /\ \A o \in Operations :
           reservations'[o] = IF o \in f.releasing THEN NoReservation ELSE reservations[o]
      /\ \A o \in f.releasing : inserted[o] <= f.position
  BY <1>1 DEF ObservedAt, Remaining, LoopInv, TypeOK, Looped
<1>3. Finished' = Finished
  <2>1. /\ Finished = [o \in Operations |-> FinishedOf(f, o, reservations[o])]
        /\ Finished' = [o \in Operations |-> FinishedOf(g, o, reservations'[o])]
    BY <1>2, FinishedIs
  <2>2. ~Overdue(NoReservation)
    BY DEF Overdue, Retained, NoReservation
  <2>3. ASSUME NEW o \in Operations
        PROVE  FinishedOf(g, o, reservations'[o]) = FinishedOf(f, o, reservations[o])
    BY <1>2, <2>2 DEF FinishedOf
  <2> QED BY <2>1, <2>3
<1>4. ASSUME NEW state, NEW b \in Budgets
      PROVE  StillToExpire(state, b)' = StillToExpire(state, b)
  <2>1. /\ StillToExpire(state, b) = Total(StillOf(f, reservations, state, b))
        /\ StillToExpire(state, b)' = Total(StillOf(g, reservations', state, b))
    BY <1>2, StillIs
  <2>2. \A o \in f.releasing \cap Operations : ~(inserted[o] > f.position)
    BY <1>2 DEF LoopInv, Queued, FrameState
  <2>3. StillOf(g, reservations', state, b) = StillOf(f, reservations, state, b)
    BY <1>2, <2>2 DEF StillOf
  <2> QED BY <2>1, <2>3
<1>5. FinishedUsed' = FinishedUsed /\ FinishedSpent' = FinishedSpent
  BY <1>2, <1>4 DEF FinishedUsed, FinishedSpent
<1>6. FinishedNext' = FinishedNext
  BY <1>2, <1>3, FinishedNextIs
<1> QED
  BY <1>2, <1>3, <1>5, <1>6, SilentStep

LEMMA ReturnStutters ==
  ASSUME LoopInv, Return
  PROVE  UNCHANGED Indivisible!vars
<1>1. /\ frames # <<>> /\ frames' = <<>>
      /\ \A op \in Operations : Retained(reservations[op]) =>
           inserted[op] <= Top.position /\ ~Overdue(reservations[op])
      /\ nextRecoveryAt' = EarliestDeadline(reservations)
      /\ UNCHANGED <<used, reservations, issued, clock, spent, inserted, serial>>
  BY ReturnShape
<1>2. TypeOK /\ TypeOK'
  BY ReturnKeeps DEF LoopInv
<1>3. Finished = reservations
  <2>1. \A op \in Operations : ~Overdue(reservations[op])
    BY <1>1 DEF Overdue
  <2>2. PICK f \in FrameState : frames = <<f>>
    BY <1>1, FramesAre DEF LoopInv
  <2>3. f.releasing = {}
    BY <2>2, OneFrame DEF Return, Looping, LoopInv, Looped
  <2>4. Finished = [op \in Operations |-> FinishedOf(f, op, reservations[op])]
    BY <2>2, FinishedIs
  <2>5. \A op \in Operations : FinishedOf(f, op, reservations[op]) = reservations[op]
    BY <2>1, <2>3 DEF FinishedOf
  <2> QED BY <1>2, <2>4, <2>5 DEF TypeOK
<1>4. FinishedUsed = used /\ FinishedSpent = spent
  <2>1. PICK f \in FrameState : frames = <<f>>
    BY <1>1, FramesAre DEF LoopInv
  <2>2. Top = f
    BY <2>1, OneFrame
  <2>3. \A op \in Operations : Retained(reservations[op]) => ~(inserted[op] > Top.position)
    BY <1>1, <2>2 DEF LoopInv, Queued, FrameState
  <2>4. \A b \in Budgets : StillToExpire("pending", b) = 0 /\ StillToExpire("liable", b) = 0
    BY <1>2, <2>3, NothingStill
  <2> QED BY <1>2, <2>4 DEF FinishedUsed, FinishedSpent, TypeOK
<1>5. FinishedNext = EarliestDeadline(reservations)
  BY <1>1, <1>3, FinishedNextIs
<1>6. /\ Finished' = reservations' /\ FinishedUsed' = used'
      /\ FinishedSpent' = spent' /\ FinishedNext' = nextRecoveryAt'
  BY <1>1, <1>2, FinishedBetweenNext
<1> QED
  BY <1>1, <1>3, <1>4, <1>5, <1>6, SilentStep

LEMMA UnchangedStutters ==
  ASSUME UNCHANGED observerVars
  PROVE  UNCHANGED Indivisible!vars
<1>1. /\ frames' = frames /\ inserted' = inserted /\ reservations' = reservations /\ used' = used
      /\ spent' = spent /\ nextRecoveryAt' = nextRecoveryAt /\ issued' = issued /\ clock' = clock
  BY DEF observerVars, vars
<1>2. Top' = Top
  BY <1>1 DEF Top
<1>3. Finished' = Finished
  BY <1>1, <1>2 DEF Finished, Overdue, Retained, Deadline, Retain, Settlement
<1>4. \A state, b : StillToExpire(state, b)' = StillToExpire(state, b)
  BY <1>1, <1>2 DEF StillToExpire, Overdue, Retained, Deadline
<1>5. FinishedUsed' = FinishedUsed /\ FinishedSpent' = FinishedSpent
  BY <1>1, <1>4 DEF FinishedUsed, FinishedSpent
<1>6. FinishedNext' = FinishedNext
  BY <1>1, <1>3 DEF FinishedNext, EarliestDeadline, Deadline, Retained
<1> QED
  BY <1>1, <1>3, <1>5, <1>6, SilentStep

LEMMA LoopInit == ObserverInit => Indivisible!Init
<1> SUFFICES ASSUME ObserverInit PROVE Indivisible!Init
  OBVIOUS
<1>1. frames = <<>> /\ Init /\ TypeOK
  BY LoopStarts DEF ObserverInit, LoopInv
<1>2. /\ Finished = reservations /\ FinishedUsed = used
      /\ FinishedSpent = spent /\ FinishedNext = nextRecoveryAt
  BY <1>1, FinishedBetween
<1> QED
  BY <1>1, <1>2, LoopOperators DEF Init, Indivisible!Init

LEMMA LoopNext ==
  ASSUME LoopInv, MaxDepth = 0, [ObserverNext]_observerVars
  PROVE  [Indivisible!Next]_(Indivisible!vars)
<1>0. LoopInv'
  BY LoopStep
<1>1. CASE UNCHANGED observerVars
  BY <1>1, UnchangedStutters
<1>2. ASSUME NEW op \in Operations, NEW c \in Charges, NEW lim \in Limits, NEW ttl \in Ttls,
             ReserveBetween(op, c, lim, ttl)
      PROVE  Indivisible!Next
  BY <1>0, <1>2, BetweenMaps
<1>3. ASSUME NEW op \in Operations, MarkLiableBetween(op)
      PROVE  Indivisible!Next
  <2>1. Indivisible!MarkLiable(op)
    BY <1>0, <1>3, MarkLiableMaps DEF MarkLiableBetween
  <2> QED BY <2>1 DEF Indivisible!Next
<1>4. CASE ClockBetween
  <2>1. Indivisible!ClockStep
    BY <1>0, <1>4, ClockMaps DEF ClockBetween
  <2> QED BY <2>1 DEF Indivisible!Next
<1>5. CASE CallStats
  BY <1>5, CallStatsMaps DEF Indivisible!Next
<1>6. ASSUME NEW op \in Operations, Visit(op)
      PROVE  UNCHANGED Indivisible!vars
  BY <1>6, VisitStutters
<1> QED
  BY <1>1, <1>2, <1>3, <1>4, <1>5, <1>6, ObservedStutters, ReturnStutters DEF ObserverNext

(* Recovery visits the entries one by one, with a deadline minimum of its  *)
(* own, and calls the observer on the way (recoverExpired).  When the      *)
(* observer does not call the store, no caller can tell: every behaviour   *)
(* is one of the store whose methods recover in a single step.             *)
THEOREM LoopIsIndivisible == MaxDepth = 0 /\ ObserverSpec => RecoveryIsIndivisible
<1> SUFFICES ASSUME MaxDepth = 0 PROVE ObserverSpec => RecoveryIsIndivisible
  OBVIOUS
<1>1. ObserverInit => LoopInv /\ Indivisible!Init
  BY LoopStarts, LoopInit
<1>2. LoopInv /\ [ObserverNext]_observerVars => LoopInv' /\ [Indivisible!Next]_(Indivisible!vars)
  BY LoopStep, LoopNext
<1> QED
  BY <1>1, <1>2, PTL DEF ObserverSpec, RecoveryIsIndivisible, Indivisible!Spec
=============================================================================
