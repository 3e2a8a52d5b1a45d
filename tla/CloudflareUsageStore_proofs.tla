---------------------- MODULE CloudflareUsageStore_proofs ----------------------
(***************************************************************************)
(* Proofs about the Cloudflare store as it is deployed, in three parts.    *)
(*                                                                         *)
(* The object: the calls of CloudflareUsageStore on the database that      *)
(* VersionedUsageControl creates or adopts.  Every step has one of four    *)
(* shapes (lemma StepShape): it cleans up; it cleans up and admits one     *)
(* operation; it puts new rows for one active operation; or it prunes      *)
(* budgets.  Each property is shown of each shape.  The inductive          *)
(* invariant is that the tables agree (TablesAgree), that every budget row *)
(* is what the open reservations of all three tables hold plus what was    *)
(* charged (Balanced), and that an open reservation holds nothing of a     *)
(* budget it does not name (Names).  With the first, the last two say that *)
(* no UPDATE misses its row and that no MAX(0, ...) clamps.                *)
(*                                                                         *)
(* The schema: a transaction under way extends what it found and commits   *)
(* only what is whole (SchemaInv); what follows it finds nothing to do.    *)
(*                                                                         *)
(* The client: RemoteCloudflareUsageStore, whose requests the object       *)
(* executes when the network delivers them.  A step of the object moves    *)
(* the rows of every operation in one of a few ways (Drifts, Marks,        *)
(* Prolongs, ...), each of which keeps what a host believes and what it is *)
(* about to be told.  The inductive invariant is RemoteInv: for each host, *)
(* what it may await (Linked), that nothing precedes its admission         *)
(* (Clean), what the rows of its operation say of its work (RowTrue), and  *)
(* that its beliefs (HostTrue) and the answer it is about to read          *)
(* (AnswerTrue) are true of those rows.                                    *)
(***************************************************************************)
EXTENDS VersionedUsageControl, RemoteCloudflareUsageStore, UsageUnits_proofs

(* What the assumptions on the constants give.                             *)
LEMMA ConstantTypes ==
  /\ IsFiniteSet(Operations)
  /\ CleanupBatchSize \in Nat /\ IdempotencyTtl \in Nat /\ MaxClock \in Nat
  /\ \A ttl \in Ttls : ttl \in Nat
  /\ \A units \in Actuals \cup Limits : units \in [Budgets -> Nat]
BY CloudflareConstants

LEMMA ChargeTypes ==
  ASSUME NEW c \in Charges \cup Growths
  PROVE  /\ c.mode \in Modes /\ c.keys \in SUBSET Budgets /\ c.units \in [Budgets -> Nat]
         /\ \A b \in Budgets \ c.keys : c.units[b] = 0
<1>1. /\ c \in [mode : Modes, keys : SUBSET Budgets, units : [Budgets -> Nat]]
      /\ \A b \in Budgets \ c.keys : c.units[b] = 0
  BY CloudflareConstants
<1> QED
  BY <1>1
-----------------------------------------------------------------------------
(* Operators.                                                              *)

LEMMA PlusType ==
  ASSUME NEW u \in [Budgets -> Nat], NEW v \in [Budgets -> Nat]
  PROVE  /\ Plus(u, v) \in [Budgets -> Nat]
         /\ \A b \in Budgets : Plus(u, v)[b] = u[b] + v[b]
BY DEF Plus

LEMMA AddedType ==
  ASSUME NEW u \in [Budgets -> Nat], NEW v \in [Budgets -> Nat]
  PROVE  Added(u, v) \in [Budgets -> Nat]
BY DEF Added

LEMMA ReleasedType ==
  ASSUME NEW u \in [Budgets -> Nat], NEW v \in [Budgets -> Int]
  PROVE  (\A b \in Budgets : v[b] \in Nat) => Released(u, v) \in [Budgets -> Nat]
BY DEF Released, ClampedSub

(* The UPDATEs reach every unit that is on a budget with a row.            *)
LEMMA AddedIs ==
  ASSUME NEW u \in [Budgets -> Nat], NEW v \in [Budgets -> Nat],
         \A b \in Budgets \ budgets : v[b] = 0
  PROVE  \A b \in Budgets : Added(u, v)[b] = u[b] + v[b]
BY DEF Added

LEMMA ReleasedIs ==
  ASSUME NEW u \in [Budgets -> Nat], NEW v, NEW b \in Budgets, v[b] \in Nat,
         b \notin budgets => v[b] = 0, v[b] <= u[b]
  PROVE  Released(u, v)[b] = u[b] - v[b]
<1>1. u[b] \in Nat
  OBVIOUS
<1>2. Released(u, v)[b] = IF b \in budgets THEN ClampedSub(u[b], v[b]) ELSE u[b]
  BY DEF Released
<1> QED
  BY <1>1, <1>2 DEF ClampedSub

LEMMA RowFields ==
  ASSUME NEW r \in ReservationRow
  PROVE  /\ r.state \in {"absent", "pending", "liable", "settled"} /\ r.budgetIds \in SUBSET Budgets
         /\ r.reserved \in [Budgets -> Nat] /\ r.expiresAt \in Nat
         /\ r.actual \in [Budgets -> Nat] /\ r.outcome \in Outcomes \cup {NoOutcome, LeaseExpiredReason}
         /\ r.tombstoneExpiresAt \in Nat
BY DEF ReservationRow

LEMMA VectorFields ==
  ASSUME NEW v \in VectorRow
  PROVE  /\ v.exists \in BOOLEAN /\ v.budgetIds \in SUBSET Budgets
         /\ v.reserved \in [Budgets -> Nat] /\ v.actual \in [Budgets -> Nat]
         /\ v.last \in SUBSET Growth
BY DEF VectorRow

LEMMA GrowthFields ==
  ASSUME NEW g \in GrowthRow
  PROVE  g.cursor \in Nat /\ g.last \in SUBSET Growth
BY DEF GrowthRow

LEMMA NoRows ==
  /\ NoUnits \in [Budgets -> Nat] /\ NoReservation \in ReservationRow
  /\ NoGrowthRow \in GrowthRow /\ NoVectorRow \in VectorRow
  /\ NoReservation.state = "absent" /\ NoGrowthRow.cursor = 0 /\ NoVectorRow.exists = FALSE
<1>1. NoUnits \in [Budgets -> Nat]
  BY DEF NoUnits
<1> QED
  BY <1>1 DEF NoReservation, ReservationRow, NoGrowthRow, GrowthRow, NoVectorRow, VectorRow

(* A reservation whose lease ends.                                         *)
LEMMA SettledFields ==
  ASSUME NEW r \in ReservationRow, NEW actual \in [Budgets -> Nat],
         NEW outcome \in Outcomes \cup {NoOutcome, LeaseExpiredReason}, now \in Nat
  PROVE  LET s == SettledRow(r, actual, outcome)
         IN  /\ s \in ReservationRow /\ s.state = "settled" /\ s.actual = actual
             /\ s.budgetIds = r.budgetIds /\ s.reserved = r.reserved
<1>1. now + IdempotencyTtl \in Nat
  <2>1. IdempotencyTtl \in Nat
    BY ConstantTypes
  <2> QED BY <2>1
<1>2. ASSUME NEW m \in Nat
      PROVE  LET s == [r EXCEPT !.state = "settled", !.actual = actual, !.outcome = outcome,
                                !.tombstoneExpiresAt = m]
             IN  /\ s \in ReservationRow /\ s.state = "settled" /\ s.actual = actual
                 /\ s.budgetIds = r.budgetIds /\ s.reserved = r.reserved
  BY DEF ReservationRow
<1> QED
  BY <1>1, <1>2 DEF SettledRow
-----------------------------------------------------------------------------
(* The tables as one value.                                                *)

OpenRow(r) == r.state \in {"pending", "liable"}

(* What an operation with these two rows holds, names and has used.        *)
UnitsIn(r, v) == IF v.exists THEN v.reserved ELSE r.reserved
KeysIn(r, v) == IF v.exists THEN v.budgetIds ELSE r.budgetIds
ActualIn(r, v) == IF v.exists THEN v.actual ELSE r.actual

Now ==
  [reservations |-> reservations, growthRows |-> growthRows, vectorRows |-> vectorRows,
   used |-> used, spent |-> spent]

(* The rows of one operation agree, and those of the budgets rows are there.*)
RowsAgree(rows, r, g, v) ==
  /\ g.cursor # 0 => r.state # "absent"
  /\ v.exists => g.cursor # 0 /\ r.budgetIds = {}
  /\ OpenRow(r) => KeysIn(r, v) \subseteq rows

Consistent(rows, t) ==
  /\ rows \subseteq Budgets
  /\ t.used \in [Budgets -> Nat] /\ t.spent \in [Budgets -> Nat]
  /\ t.reservations \in [Operations -> ReservationRow]
  /\ t.growthRows \in [Operations -> GrowthRow]
  /\ t.vectorRows \in [Operations -> VectorRow]
  /\ \A op \in Operations : RowsAgree(rows, t.reservations[op], t.growthRows[op], t.vectorRows[op])

(* TablesAgree says that the tables are consistent.                        *)
LEMMA AgreeIsConsistent == TablesAgree <=> Consistent(budgets, Now) /\ now \in Nat
<1>1. \A op \in Operations :
        RowsAgree(budgets, reservations[op], growthRows[op], vectorRows[op]) <=>
          /\ growthRows[op].cursor # 0 => Exists(op)
          /\ IsVector(op) => growthRows[op].cursor # 0 /\ reservations[op].budgetIds = {}
          /\ Open(op) => BudgetIds(op) \subseteq budgets
  BY DEF RowsAgree, Exists, IsVector, Open, OpenRow, BudgetIds, KeysIn
<1> QED
  BY <1>1 DEF TablesAgree, CloudflareTypeOK, Consistent, Now

Become(rows, t) ==
  /\ budgets' = rows
  /\ reservations' = t.reservations /\ growthRows' = t.growthRows /\ vectorRows' = t.vectorRows
  /\ used' = t.used /\ spent' = t.spent

LEMMA BecomeAgrees ==
  ASSUME NEW rows, NEW t, Consistent(rows, t), Become(rows, t), now' \in Nat
  PROVE  TablesAgree'
<1>1. \A op \in Operations :
        RowsAgree(rows, t.reservations[op], t.growthRows[op], t.vectorRows[op])
  BY DEF Consistent
<1>2. \A op \in Operations :
        RowsAgree(budgets', reservations'[op], growthRows'[op], vectorRows'[op])
  BY <1>1 DEF Become
<1>3. CloudflareTypeOK'
  BY DEF Consistent, Become, CloudflareTypeOK
<1>4. \A op \in Operations :
        /\ growthRows'[op].cursor # 0 => reservations'[op].state # "absent"
        /\ vectorRows'[op].exists => growthRows'[op].cursor # 0 /\ reservations'[op].budgetIds = {}
        /\ reservations'[op].state \in {"pending", "liable"} =>
             (IF vectorRows'[op].exists THEN vectorRows'[op].budgetIds ELSE reservations'[op].budgetIds)
               \subseteq budgets'
  BY <1>2 DEF RowsAgree, KeysIn, OpenRow
<1> QED
  BY <1>3, <1>4 DEF TablesAgree, Exists, IsVector, Open, BudgetIds

(* The statements that write the rows of one operation.                    *)
Put(t, op, r, g, v, u, s) ==
  [reservations |-> [t.reservations EXCEPT ![op] = r], growthRows |-> [t.growthRows EXCEPT ![op] = g],
   vectorRows |-> [t.vectorRows EXCEPT ![op] = v], used |-> u, spent |-> s]

LEMMA PutIs ==
  ASSUME NEW rows, NEW t, Consistent(rows, t), NEW op \in Operations,
         NEW r, NEW g, NEW v, NEW u, NEW s
  PROVE  LET p == Put(t, op, r, g, v, u, s)
         IN  /\ p.reservations[op] = r /\ p.growthRows[op] = g /\ p.vectorRows[op] = v
             /\ p.used = u /\ p.spent = s
             /\ \A o \in Operations \ {op} :
                  /\ p.reservations[o] = t.reservations[o] /\ p.growthRows[o] = t.growthRows[o]
                  /\ p.vectorRows[o] = t.vectorRows[o]
BY DEF Put, Consistent

LEMMA PutConsistent ==
  ASSUME NEW rows, NEW more \in SUBSET Budgets, NEW t, Consistent(rows, t), rows \subseteq more,
         NEW op \in Operations, NEW r \in ReservationRow, NEW g \in GrowthRow, NEW v \in VectorRow,
         NEW u \in [Budgets -> Nat], NEW s \in [Budgets -> Nat], RowsAgree(more, r, g, v)
  PROVE  Consistent(more, Put(t, op, r, g, v, u, s))
<1> DEFINE p == Put(t, op, r, g, v, u, s)
<1>1. /\ p.used \in [Budgets -> Nat] /\ p.spent \in [Budgets -> Nat]
      /\ p.reservations \in [Operations -> ReservationRow]
      /\ p.growthRows \in [Operations -> GrowthRow]
      /\ p.vectorRows \in [Operations -> VectorRow]
  BY DEF Put, Consistent
<1>2. /\ p.reservations[op] = r /\ p.growthRows[op] = g /\ p.vectorRows[op] = v
      /\ \A o \in Operations \ {op} :
           /\ p.reservations[o] = t.reservations[o] /\ p.growthRows[o] = t.growthRows[o]
           /\ p.vectorRows[o] = t.vectorRows[o]
  BY PutIs
<1> HIDE DEF p
<1>3. ASSUME NEW o \in Operations
      PROVE  RowsAgree(more, p.reservations[o], p.growthRows[o], p.vectorRows[o])
  <2>1. CASE o = op
    BY <1>2, <2>1
  <2>2. CASE o # op
    <3>1. RowsAgree(rows, t.reservations[o], t.growthRows[o], t.vectorRows[o])
      BY DEF Consistent
    <3>2. RowsAgree(more, t.reservations[o], t.growthRows[o], t.vectorRows[o])
      BY <3>1 DEF RowsAgree
    <3> QED BY <1>2, <2>2, <3>2
  <2> QED BY <2>1, <2>2
<1>4. Consistent(more, p)
  BY <1>1, <1>3 DEF Consistent
<1> QED
  BY <1>4 DEF p
-----------------------------------------------------------------------------
(* Cleanup.                                                                *)

DueLeases == {op \in Operations : IsExpired(op)}
DueTombstones ==
  {op \in Operations : reservations[op].state = "settled" /\ reservations[op].tombstoneExpiresAt <= now}

ChargedOf(expired) == expired \ PendingOf(expired)

(* What cleanup does to the rows of each operation.                        *)
LEMMA RecoveredIs ==
  ASSUME TablesAgree, NEW E \in SUBSET DueLeases, NEW F \in SUBSET DueTombstones,
         NEW op \in Operations
  PROVE  LET t == Recovered(E, F)
         IN  /\ op \in PendingOf(E) \cup F =>
                  /\ t.reservations[op] = NoReservation /\ t.growthRows[op] = NoGrowthRow
                  /\ t.vectorRows[op] = NoVectorRow
             /\ op \in ChargedOf(E) =>
                  /\ t.reservations[op] = SettledInFull(op) /\ t.growthRows[op] = growthRows[op]
                  /\ t.vectorRows[op] = IF IsVector(op)
                       THEN [vectorRows[op] EXCEPT !.actual = vectorRows[op].reserved]
                       ELSE vectorRows[op]
             /\ op \notin E \cup F =>
                  /\ t.reservations[op] = reservations[op] /\ t.growthRows[op] = growthRows[op]
                  /\ t.vectorRows[op] = vectorRows[op]
<1>1. E \cap F = {}
  BY DEF DueLeases, DueTombstones, IsExpired, Open
<1>2. PendingOf(E) \cup ChargedOf(E) = E /\ PendingOf(E) \cap ChargedOf(E) = {}
  BY DEF PendingOf, ChargedOf
<1>3. op \in ChargedOf(E) => op \notin PendingOf(E) \cup F
  BY <1>1, <1>2
<1>4. op \notin E \cup F => op \notin PendingOf(E) \cup F /\ op \notin ChargedOf(E)
  BY <1>2
<1>5. Recovered(E, F).reservations[op] =
        CASE op \in PendingOf(E) \cup F -> NoReservation
          [] op \in ChargedOf(E) -> SettledInFull(op)
          [] OTHER -> reservations[op]
  BY DEF Recovered, ChargedOf
<1>6. Recovered(E, F).growthRows[op] =
        IF op \in PendingOf(E) \cup F THEN NoGrowthRow ELSE growthRows[op]
  BY DEF Recovered
<1>7. Recovered(E, F).vectorRows[op] =
        CASE op \in PendingOf(E) \cup F -> NoVectorRow
          [] op \in ChargedOf(E) /\ IsVector(op) -> [vectorRows[op] EXCEPT !.actual = vectorRows[op].reserved]
          [] OTHER -> vectorRows[op]
  BY DEF Recovered, ChargedOf, DimensionsDeleted
<1> QED
  BY <1>3, <1>4, <1>5, <1>6, <1>7
-----------------------------------------------------------------------------
(* Rows as they were, rows deleted, and rows charged in full: cleanup      *)
(* leaves nothing else.                                                    *)
IsKept(t, op) ==
  /\ t.reservations[op] = reservations[op] /\ t.growthRows[op] = growthRows[op]
  /\ t.vectorRows[op] = vectorRows[op]

IsGone(t, op) ==
  /\ t.reservations[op] = NoReservation /\ t.growthRows[op] = NoGrowthRow
  /\ t.vectorRows[op] = NoVectorRow

IsCharged(t, op) ==
  LET r == t.reservations[op]
      v == t.vectorRows[op]
  IN  /\ r \in ReservationRow /\ r.state = "settled" /\ r.budgetIds = reservations[op].budgetIds
      /\ r.reserved = reservations[op].reserved
      /\ t.growthRows[op] = growthRows[op]
      /\ v \in VectorRow /\ v.exists = IsVector(op) /\ v.budgetIds = vectorRows[op].budgetIds
      /\ v.reserved = vectorRows[op].reserved
      /\ ActualIn(r, v) = Reserved(op)

LEMMA RecoveredFates ==
  ASSUME TablesAgree, NEW E \in SUBSET DueLeases, NEW F \in SUBSET DueTombstones,
         NEW op \in Operations
  PROVE  /\ op \in PendingOf(E) \cup F => IsGone(Recovered(E, F), op)
         /\ op \in ChargedOf(E) => IsCharged(Recovered(E, F), op)
         /\ op \notin E \cup F => IsKept(Recovered(E, F), op)
<1> DEFINE t == Recovered(E, F)
<1>1. /\ op \in PendingOf(E) \cup F =>
           /\ t.reservations[op] = NoReservation /\ t.growthRows[op] = NoGrowthRow
           /\ t.vectorRows[op] = NoVectorRow
      /\ op \in ChargedOf(E) =>
           /\ t.reservations[op] = SettledInFull(op) /\ t.growthRows[op] = growthRows[op]
           /\ t.vectorRows[op] = IF IsVector(op)
                THEN [vectorRows[op] EXCEPT !.actual = vectorRows[op].reserved]
                ELSE vectorRows[op]
      /\ op \notin E \cup F =>
           /\ t.reservations[op] = reservations[op] /\ t.growthRows[op] = growthRows[op]
           /\ t.vectorRows[op] = vectorRows[op]
  BY RecoveredIs
<1> HIDE DEF t
<1>2. op \in PendingOf(E) \cup F => IsGone(t, op)
  BY <1>1 DEF IsGone
<1>3. op \notin E \cup F => IsKept(t, op)
  BY <1>1 DEF IsKept
<1>4. ASSUME op \in ChargedOf(E) PROVE IsCharged(t, op)
  <2> DEFINE r == reservations[op]
             v == vectorRows[op]
             actual == IF IsVector(op) THEN NoUnits ELSE r.reserved
             w == IF v.exists THEN [v EXCEPT !.actual = v.reserved] ELSE v
  <2>1. r \in ReservationRow /\ v \in VectorRow /\ now \in Nat
    BY DEF TablesAgree, CloudflareTypeOK
  <2>2. r.reserved \in [Budgets -> Nat] /\ v.reserved \in [Budgets -> Nat] /\ v.exists \in BOOLEAN
    BY <2>1, RowFields, VectorFields
  <2>3. actual \in [Budgets -> Nat]
    BY <2>2, NoRows
  <2>4. IsVector(op) = v.exists
    BY DEF IsVector
  <2> HIDE DEF r, v, actual
  <2>5. LET s == SettledRow(r, actual, LeaseExpiredReason)
        IN  /\ s \in ReservationRow /\ s.state = "settled" /\ s.actual = actual
            /\ s.budgetIds = r.budgetIds /\ s.reserved = r.reserved
    BY <2>1, <2>3, SettledFields
  <2>6. t.reservations[op] = SettledRow(r, actual, LeaseExpiredReason)
    BY <1>1, <1>4 DEF SettledInFull, actual, r
  <2>7. /\ w \in VectorRow /\ w.exists = v.exists /\ w.budgetIds = v.budgetIds
        /\ w.reserved = v.reserved
        /\ v.exists => w.actual = v.reserved
    BY <2>1, <2>2 DEF VectorRow
  <2>8. t.vectorRows[op] = w /\ t.growthRows[op] = growthRows[op]
    BY <1>1, <1>4, <2>4 DEF v
  <2> HIDE DEF w
  <2>9. ActualIn(t.reservations[op], t.vectorRows[op]) = Reserved(op)
    <3>1. Reserved(op) = IF v.exists THEN v.reserved ELSE r.reserved
      BY DEF Reserved, IsVector, v, r
    <3>2. ActualIn(t.reservations[op], w) = IF w.exists THEN w.actual ELSE t.reservations[op].actual
      BY DEF ActualIn
    <3>3. v.exists \/ actual = r.reserved
      BY <2>4 DEF actual
    <3> QED BY <2>5, <2>6, <2>7, <2>8, <3>1, <3>2, <3>3
  <2>10. w.exists = IsVector(op)
    BY <2>4, <2>7
  <2>11. /\ t.reservations[op].budgetIds = reservations[op].budgetIds
         /\ t.reservations[op].reserved = reservations[op].reserved
         /\ t.reservations[op] \in ReservationRow /\ t.reservations[op].state = "settled"
    BY <2>5, <2>6 DEF r
  <2>12. w.budgetIds = vectorRows[op].budgetIds /\ w.reserved = vectorRows[op].reserved
    BY <2>7 DEF v
  <2> QED BY <2>7, <2>8, <2>9, <2>10, <2>11, <2>12 DEF IsCharged
<1>5. /\ op \in PendingOf(E) \cup F => IsGone(t, op)
      /\ op \in ChargedOf(E) => IsCharged(t, op)
      /\ op \notin E \cup F => IsKept(t, op)
  BY <1>2, <1>3, <1>4
<1> QED
  BY <1>5 DEF t

(* An operation is kept, forgotten, released or charged by a cleanup, and  *)
(* all but the first only when it is due.                                  *)
Lapses(t, op) ==
  \/ IsKept(t, op)
  \/ IsGone(t, op) /\ (op \in DueTombstones \/ (op \in DueLeases /\ reservations[op].state = "pending"))
  \/ IsCharged(t, op) /\ op \in DueLeases /\ reservations[op].state = "liable"

LEMMA RecoveredLapses ==
  ASSUME TablesAgree, NEW E \in SUBSET DueLeases, NEW F \in SUBSET DueTombstones,
         NEW op \in Operations
  PROVE  Lapses(Recovered(E, F), op)
<1>1. E = PendingOf(E) \cup ChargedOf(E)
  BY DEF PendingOf, ChargedOf
<1>2. op \in ChargedOf(E) => reservations[op].state = "liable"
  BY DEF ChargedOf, PendingOf, DueLeases, IsExpired, Open
<1>3. op \in PendingOf(E) => reservations[op].state = "pending"
  BY DEF PendingOf
<1> QED
  BY <1>1, <1>2, <1>3, RecoveredFates DEF Lapses

(* What the open operations of ops hold is units.                          *)
LEMMA ReservedType ==
  ASSUME TablesAgree, NEW op \in Operations
  PROVE  /\ Reserved(op) \in [Budgets -> Nat] /\ \A b \in Budgets : Reserved(op)[b] \in Nat
         /\ BudgetIds(op) \in SUBSET Budgets
<1>1. reservations[op] \in ReservationRow /\ vectorRows[op] \in VectorRow
  BY DEF TablesAgree, CloudflareTypeOK
<1>2. Reserved(op) \in [Budgets -> Nat] /\ BudgetIds(op) \in SUBSET Budgets
  BY <1>1, RowFields, VectorFields DEF Reserved, BudgetIds
<1> QED
  BY <1>2

LEMMA ReservedByType ==
  ASSUME TablesAgree, NEW ops
  PROVE  /\ ReservedBy(ops) \in [Budgets -> Nat]
         /\ \A b \in Budgets :
              /\ ReservedBy(ops)[b] = Total([op \in Operations |-> IF op \in ops THEN Reserved(op)[b] ELSE 0])
              /\ ReservedBy(ops)[b] \in Nat
<1>1. ASSUME NEW b \in Budgets
      PROVE  Total([op \in Operations |-> IF op \in ops THEN Reserved(op)[b] ELSE 0]) \in Nat
  <2> DEFINE part == [op \in Operations |-> IF op \in ops THEN Reserved(op)[b] ELSE 0]
  <2>1. part \in [Operations -> Nat]
    BY ReservedType
  <2> HIDE DEF part
  <2>2. Total(part) \in Nat
    BY <2>1, ConstantTypes, TotalType
  <2> QED BY <2>2 DEF part
<1> QED
  BY <1>1 DEF ReservedBy

LEMMA RecoveredUsed ==
  ASSUME TablesAgree, NEW E \in SUBSET DueLeases, NEW F \in SUBSET DueTombstones
  PROVE  /\ Recovered(E, F).used = Released(used, ReservedBy(PendingOf(E)))
         /\ Recovered(E, F).spent = Plus(spent, ReservedBy(ChargedOf(E)))
BY DEF Recovered, ChargedOf

LEMMA RecoveredConsistent ==
  ASSUME TablesAgree, NEW E \in SUBSET DueLeases, NEW F \in SUBSET DueTombstones
  PROVE  Consistent(budgets, Recovered(E, F))
<1> DEFINE t == Recovered(E, F)
<1>1. /\ t.used \in [Budgets -> Nat] /\ t.spent \in [Budgets -> Nat] /\ budgets \subseteq Budgets
  <2>1. used \in [Budgets -> Nat] /\ spent \in [Budgets -> Nat] /\ budgets \subseteq Budgets
    BY DEF TablesAgree, CloudflareTypeOK
  <2>2. /\ t.used = Released(used, ReservedBy(PendingOf(E)))
        /\ t.spent = Plus(spent, ReservedBy(ChargedOf(E)))
    BY RecoveredUsed
  <2>3. /\ ReservedBy(PendingOf(E)) \in [Budgets -> Nat] /\ ReservedBy(ChargedOf(E)) \in [Budgets -> Nat]
    BY ReservedByType
  <2> HIDE DEF t
  <2>4. t.spent \in [Budgets -> Nat]
    BY <2>1, <2>2, <2>3, PlusType
  <2>5. t.used \in [Budgets -> Nat]
    BY <2>1, <2>2, <2>3, ReleasedType
  <2> QED BY <2>1, <2>4, <2>5
<1>2. /\ DOMAIN t.reservations = Operations /\ t.reservations = [op \in Operations |-> t.reservations[op]]
      /\ DOMAIN t.growthRows = Operations /\ t.growthRows = [op \in Operations |-> t.growthRows[op]]
      /\ DOMAIN t.vectorRows = Operations /\ t.vectorRows = [op \in Operations |-> t.vectorRows[op]]
  BY DEF Recovered
<1>3. ASSUME NEW op \in Operations PROVE Lapses(t, op)
  BY RecoveredLapses
<1> HIDE DEF t
<1>4. ASSUME NEW op \in Operations
      PROVE  /\ t.reservations[op] \in ReservationRow /\ t.growthRows[op] \in GrowthRow
             /\ t.vectorRows[op] \in VectorRow
             /\ RowsAgree(budgets, t.reservations[op], t.growthRows[op], t.vectorRows[op])
  <2>1. /\ reservations[op] \in ReservationRow /\ growthRows[op] \in GrowthRow
        /\ vectorRows[op] \in VectorRow
        /\ RowsAgree(budgets, reservations[op], growthRows[op], vectorRows[op])
    BY AgreeIsConsistent DEF Consistent, Now
  <2>2. CASE IsKept(t, op)
    BY <2>1, <2>2 DEF IsKept
  <2>3. CASE IsGone(t, op)
    BY <2>3, NoRows DEF IsGone, RowsAgree, OpenRow
  <2>4. CASE IsCharged(t, op)
    BY <2>1, <2>4 DEF IsCharged, RowsAgree, OpenRow, KeysIn, IsVector
  <2> QED BY <1>3, <2>2, <2>3, <2>4 DEF Lapses
<1>5. /\ t.reservations \in [Operations -> ReservationRow]
      /\ t.growthRows \in [Operations -> GrowthRow] /\ t.vectorRows \in [Operations -> VectorRow]
  BY <1>2, <1>4
<1>6. Consistent(budgets, t)
  BY <1>1, <1>4, <1>5 DEF Consistent
<1> QED
  BY <1>6 DEF t

(* A call that cleans nothing up starts from the tables as they are.       *)
LEMMA CurrentIsNow ==
  ASSUME TablesAgree
  PROVE  /\ Current.reservations = reservations /\ Current.growthRows = growthRows
         /\ Current.vectorRows = vectorRows /\ Current.used = used /\ Current.spent = spent
<1> DEFINE t == Recovered({}, {})
<1>1. /\ used \in [Budgets -> Nat] /\ spent \in [Budgets -> Nat]
      /\ reservations \in [Operations -> ReservationRow]
      /\ growthRows \in [Operations -> GrowthRow] /\ vectorRows \in [Operations -> VectorRow]
  BY DEF TablesAgree, CloudflareTypeOK
<1>2. \A op \in Operations : IsKept(t, op)
  BY RecoveredFates
<1>3. /\ t.reservations = [op \in Operations |-> t.reservations[op]]
      /\ t.growthRows = [op \in Operations |-> t.growthRows[op]]
      /\ t.vectorRows = [op \in Operations |-> t.vectorRows[op]]
  BY DEF Recovered
<1>4. /\ t.used = Released(used, ReservedBy({})) /\ t.spent = Plus(spent, ReservedBy({}))
  <2>1. PendingOf({}) = {} /\ ChargedOf({}) = {}
    BY DEF PendingOf, ChargedOf
  <2> QED BY <2>1, RecoveredUsed
<1> HIDE DEF t
<1>5. /\ t.reservations = reservations /\ t.growthRows = growthRows /\ t.vectorRows = vectorRows
  BY <1>1, <1>2, <1>3 DEF IsKept
<1>6. \A b \in Budgets : ReservedBy({})[b] = 0
  <2> SUFFICES ASSUME NEW b \in Budgets PROVE ReservedBy({})[b] = 0
    OBVIOUS
  <2> DEFINE part == [op \in Operations |-> IF op \in {} THEN Reserved(op)[b] ELSE 0]
  <2>1. ReservedBy({})[b] = Total(part)
    BY ReservedByType
  <2>2. part \in [Operations -> Nat] /\ \A op \in Operations : part[op] = 0
    OBVIOUS
  <2> HIDE DEF part
  <2> QED BY <2>1, <2>2, TotalZero
<1>7. t.spent = spent
  <2>1. \A b \in Budgets : t.spent[b] = spent[b]
    BY <1>1, <1>4, <1>6 DEF Plus
  <2>2. t.spent = [b \in Budgets |-> t.spent[b]]
    BY <1>4 DEF Plus
  <2> QED BY <1>1, <2>1, <2>2
<1>8. t.used = used
  <2>1. \A b \in Budgets : used[b] \in Nat
    BY <1>1
  <2>2. \A b \in Budgets : t.used[b] = used[b]
    BY <1>4, <1>6, <2>1 DEF Released, ClampedSub
  <2>3. t.used = [b \in Budgets |-> t.used[b]]
    BY <1>4 DEF Released
  <2> QED BY <1>1, <2>2, <2>3
<1> QED
  BY <1>5, <1>7, <1>8 DEF Current, t
-----------------------------------------------------------------------------
(* The steps of the store.                                                 *)

Cleans ==
  \E E \in SUBSET DueLeases, F \in SUBSET DueTombstones : Become(budgets, Recovered(E, F))

AdmittedRow(t, op, charge) == IF charge.mode = "vector" THEN Dimensions(charge) ELSE t.vectorRows[op]
FirstCursor == [cursor |-> 1, last |-> {}]

Admission(t, op, charge, ttl) ==
  Put(t, op, PendingReservation(charge, ttl), FirstCursor, AdmittedRow(t, op, charge),
      Plus(t.used, charge.units), t.spent)

Admits(E, F, op, charge, lim, ttl) ==
  LET t == Recovered(E, F)
  IN  /\ t.reservations[op].state = "absent"
      /\ WithinLimits(charge, lim, t.used)
      /\ Become(budgets \cup charge.keys, Admission(t, op, charge, ttl))

(* Liability or renewal, growth that is admitted or denied, and settlement *)
(* put a new reservation r, cursor g, dimensions v, and budgets u and s.   *)
Relabels(op, r, g, v, u, s) ==
  /\ r.state \in {reservations[op].state, "liable"}
  /\ r.budgetIds = reservations[op].budgetIds /\ r.reserved = reservations[op].reserved
  /\ g = growthRows[op] /\ v = vectorRows[op] /\ u = used /\ s = spent

Grows(op, r, g, v, u, s) ==
  /\ r.state = reservations[op].state /\ r.budgetIds = reservations[op].budgetIds
  /\ g.cursor # 0
  /\ v.exists = vectorRows[op].exists /\ v.budgetIds = vectorRows[op].budgetIds
  /\ s = spent
  /\ \/ UnitsIn(r, v) = Reserved(op) /\ u = used
     \/ \E add \in Growths, lim \in Limits :
          /\ add.keys = BudgetIds(op) /\ WithinLimits(add, lim, used)
          /\ UnitsIn(r, v) = Plus(Reserved(op), add.units) /\ u = Added(used, add.units)

Settles(op, r, g, v, u, s) ==
  /\ r.state = "settled" /\ r.budgetIds = reservations[op].budgetIds
  /\ g = growthRows[op]
  /\ v.exists = vectorRows[op].exists /\ v.budgetIds = vectorRows[op].budgetIds
  /\ UnitsIn(r, v) = Reserved(op)
  /\ \E actual \in Actuals :
       /\ \A b \in Budgets : actual[b] <= Reserved(op)[b]
       /\ ActualIn(r, v) = actual
       /\ u = Released(used, Minus(Reserved(op), actual)) /\ s = Plus(spent, actual)

Changes(op, r, g, v, u, s) ==
  /\ Active(op)
  /\ Become(budgets, Put(Now, op, r, g, v, u, s))
  /\ Relabels(op, r, g, v, u, s) \/ Grows(op, r, g, v, u, s) \/ Settles(op, r, g, v, u, s)

Step ==
  \/ Cleans
  \/ \E E \in SUBSET DueLeases, F \in SUBSET DueTombstones, op \in Operations,
        charge \in Charges, lim \in Limits, ttl \in Ttls : Admits(E, F, op, charge, lim, ttl)
  \/ \E op \in Operations, r \in ReservationRow, g \in GrowthRow, v \in VectorRow,
        u \in [Budgets -> Nat], s \in [Budgets -> Nat] : Changes(op, r, g, v, u, s)
  \/ \E candidates \in SUBSET Budgets : PruneBudgets(candidates)

LEMMA CurrentIs ==
  ASSUME TablesAgree
  PROVE  Current = Now
<1>1. Current = [reservations |-> Current.reservations, growthRows |-> Current.growthRows,
                 vectorRows |-> Current.vectorRows, used |-> Current.used, spent |-> Current.spent]
  BY DEF Current, Recovered
<1> QED
  BY <1>1, CurrentIsNow DEF Now

LEMMA WriteIsBecome ==
  ASSUME NEW t
  PROVE  Write(t) => Become(budgets, t) /\ now' = now
BY DEF Write, Become

(* A batch is of rows that are due.                                        *)
LEMMA BatchesAreDue ==
  /\ \A E \in ExpiredBatches : E \in SUBSET DueLeases
  /\ \A F \in TombstoneBatches : F \in SUBSET DueTombstones
BY DEF ExpiredBatches, TombstoneBatches, Batches, DueLeases, DueTombstones

LEMMA ReserveBecomes ==
  ASSUME NEW op \in Operations, NEW charge, NEW lim, NEW ttl, NEW E, NEW F,
         ReserveAfter(op, charge, lim, ttl, E, F)
  PROVE  /\ now' = now
         /\ \/ Refused(op, charge, lim, Recovered(E, F)) /\ Become(budgets, Recovered(E, F))
            \/ ~Refused(op, charge, lim, Recovered(E, F)) /\ Admits(E, F, op, charge, lim, ttl)
<1> DEFINE t == Recovered(E, F)
<1>1. CASE Refused(op, charge, lim, t)
  <2>1. Write(t)
    BY <1>1 DEF ReserveAfter
  <2> QED BY <1>1, <2>1, WriteIsBecome
<1>2. CASE ~Refused(op, charge, lim, t)
  <2>1. t.reservations[op].state = "absent" /\ WithinLimits(charge, lim, t.used)
    BY <1>2 DEF Refused, Duplicate
  <2>2. /\ budgets' = budgets \cup charge.keys
        /\ used' = Plus(t.used, charge.units)
        /\ reservations' = [t.reservations EXCEPT ![op] = PendingReservation(charge, ttl)]
        /\ growthRows' = [t.growthRows EXCEPT ![op] = [cursor |-> 1, last |-> {}]]
        /\ vectorRows' = [t.vectorRows EXCEPT ![op] =
                            IF charge.mode = "vector" THEN Dimensions(charge) ELSE t.vectorRows[op]]
        /\ spent' = t.spent
        /\ now' = now
    BY <1>2 DEF ReserveAfter
  <2> HIDE DEF t
  <2>3. Become(budgets \cup charge.keys, Admission(t, op, charge, ttl))
    BY <2>2 DEF Become, Admission, Put, AdmittedRow, FirstCursor
  <2>4. Admits(E, F, op, charge, lim, ttl)
    BY <2>1, <2>3 DEF Admits, t
  <2> QED BY <1>2, <2>2, <2>4 DEF t
<1> QED
  BY <1>1, <1>2

LEMMA ReserveShape ==
  ASSUME TablesAgree, NEW op \in Operations, NEW charge \in Charges, NEW lim \in Limits,
         NEW ttl \in Ttls, Reserve(op, charge, lim, ttl)
  PROVE  Step /\ now' = now
<1>1. PICK E \in ExpiredBatches, F \in TombstoneBatches : ReserveAfter(op, charge, lim, ttl, E, F)
  BY DEF Reserve
<1>2. E \in SUBSET DueLeases /\ F \in SUBSET DueTombstones
  BY BatchesAreDue
<1> QED
  BY <1>1, <1>2, ReserveBecomes DEF Cleans, Step

LEMMA SpecificShape ==
  ASSUME TablesAgree, NEW op \in Operations, RecoverSpecific(op)
  PROVE  Step /\ now' = now
<1>1. {op} \in SUBSET DueLeases /\ {} \in SUBSET DueTombstones
  BY DEF RecoverSpecific, DueLeases
<1>2. Become(budgets, Recovered({op}, {})) /\ now' = now
  BY WriteIsBecome DEF RecoverSpecific
<1> QED
  BY <1>1, <1>2 DEF Cleans, Step

(* The rows of an operation, and the units of budgets.                     *)
LEMMA RowTypes ==
  ASSUME TablesAgree, NEW op \in Operations
  PROVE  /\ reservations[op] \in ReservationRow /\ growthRows[op] \in GrowthRow
         /\ vectorRows[op] \in VectorRow
         /\ used \in [Budgets -> Nat] /\ spent \in [Budgets -> Nat] /\ now \in Nat
         /\ DOMAIN reservations = Operations /\ DOMAIN growthRows = Operations
         /\ DOMAIN vectorRows = Operations
BY DEF TablesAgree, CloudflareTypeOK

LEMMA MarkLiableShape ==
  ASSUME TablesAgree, NEW op \in Operations, MarkLiable(op)
  PROVE  Step /\ now' = now
<1>1. CASE RecoverSpecific(op)
  BY <1>1, SpecificShape
<1>2. CASE Active(op) /\ Write([Current EXCEPT !.reservations[op].state = "liable"])
  <2> DEFINE q == reservations[op]
             r == [q EXCEPT !.state = "liable"]
  <2>1. q \in ReservationRow /\ growthRows[op] \in GrowthRow /\ vectorRows[op] \in VectorRow
        /\ used \in [Budgets -> Nat] /\ spent \in [Budgets -> Nat]
    BY RowTypes
  <2>2. /\ reservations' = [reservations EXCEPT ![op] = r] /\ growthRows' = growthRows
        /\ vectorRows' = vectorRows /\ used' = used /\ spent' = spent
        /\ budgets' = budgets /\ now' = now
    BY <1>2, CurrentIs DEF Write, Now
  <2> HIDE DEF q
  <2>3. /\ r \in ReservationRow /\ r.state = "liable"
        /\ r.budgetIds = q.budgetIds /\ r.reserved = q.reserved
    BY <2>1 DEF ReservationRow
  <2> HIDE DEF r
  <2>4. Become(budgets, Put(Now, op, r, growthRows[op], vectorRows[op], used, spent))
    <3>1. /\ growthRows = [growthRows EXCEPT ![op] = growthRows[op]]
          /\ vectorRows = [vectorRows EXCEPT ![op] = vectorRows[op]]
      BY DEF TablesAgree, CloudflareTypeOK
    <3> QED BY <2>2, <3>1 DEF Become, Put, Now
  <2>5. Relabels(op, r, growthRows[op], vectorRows[op], used, spent)
    BY <2>3 DEF Relabels, q
  <2>6. Changes(op, r, growthRows[op], vectorRows[op], used, spent)
    BY <1>2, <2>4, <2>5 DEF Changes
  <2> QED BY <2>1, <2>2, <2>3, <2>6 DEF Step
<1> QED
  BY <1>1, <1>2 DEF MarkLiable

LEMMA RenewShape ==
  ASSUME TablesAgree, NEW op \in Operations, NEW ttl \in Ttls, Renew(op, ttl)
  PROVE  Step /\ now' = now
<1>1. CASE RecoverSpecific(op)
  BY <1>1, SpecificShape
<1>2. CASE Active(op) /\ Write([Current EXCEPT !.reservations[op].expiresAt = now + ttl])
  <2> DEFINE q == reservations[op]
  <2>1. q \in ReservationRow /\ growthRows[op] \in GrowthRow /\ vectorRows[op] \in VectorRow
        /\ used \in [Budgets -> Nat] /\ spent \in [Budgets -> Nat]
    BY RowTypes
  <2>2. PICK n \in Nat : n = now + ttl
    BY RowTypes, ConstantTypes
  <2> DEFINE r == [q EXCEPT !.expiresAt = n]
  <2>3. /\ reservations' = [reservations EXCEPT ![op] = r] /\ growthRows' = growthRows
        /\ vectorRows' = vectorRows /\ used' = used /\ spent' = spent
        /\ budgets' = budgets /\ now' = now
    BY <1>2, <2>2, CurrentIs DEF Write, Now
  <2> HIDE DEF q
  <2>4. /\ r \in ReservationRow /\ r.state = q.state
        /\ r.budgetIds = q.budgetIds /\ r.reserved = q.reserved
    BY <2>1 DEF ReservationRow
  <2> HIDE DEF r
  <2>5. Become(budgets, Put(Now, op, r, growthRows[op], vectorRows[op], used, spent))
    <3>1. /\ growthRows = [growthRows EXCEPT ![op] = growthRows[op]]
          /\ vectorRows = [vectorRows EXCEPT ![op] = vectorRows[op]]
      BY DEF TablesAgree, CloudflareTypeOK
    <3> QED BY <2>3, <3>1 DEF Become, Put, Now
  <2>6. Relabels(op, r, growthRows[op], vectorRows[op], used, spent)
    BY <2>4 DEF Relabels, q
  <2>7. Changes(op, r, growthRows[op], vectorRows[op], used, spent)
    BY <1>2, <2>5, <2>6 DEF Changes
  <2> QED BY <2>1, <2>3, <2>4, <2>7 DEF Step
<1> QED
  BY <1>1, <1>2 DEF Renew

LEMMA SettleShape ==
  ASSUME TablesAgree, NEW op \in Operations, NEW actual \in Actuals, NEW outcome \in Outcomes,
         Settle(op, actual, outcome)
  PROVE  Step /\ now' = now
<1> DEFINE q == reservations[op]
           w == vectorRows[op]
           stored == IF IsVector(op) THEN NoUnits ELSE actual
           r == SettledRow(q, stored, outcome)
           v == [w EXCEPT !.actual = IF IsVector(op) THEN actual ELSE w.actual]
           u == Released(used, Minus(Reserved(op), actual))
           s == Plus(spent, actual)
<1>1. CASE RecoverSpecific(op)
  BY <1>1, SpecificShape
<1>2. CASE ~RecoverSpecific(op)
  <2>1. /\ q \in ReservationRow /\ growthRows[op] \in GrowthRow /\ w \in VectorRow
        /\ used \in [Budgets -> Nat] /\ spent \in [Budgets -> Nat] /\ now \in Nat
        /\ actual \in [Budgets -> Nat] /\ DOMAIN vectorRows = Operations
        /\ DOMAIN reservations = Operations
    BY RowTypes, ConstantTypes
  <2>2. /\ Active(op) /\ \A b \in Budgets : actual[b] <= Reserved(op)[b]
        /\ reservations' = [reservations EXCEPT ![op] = r] /\ growthRows' = growthRows
        /\ vectorRows' = [vectorRows EXCEPT ![op] = v] /\ used' = u /\ spent' = s
        /\ budgets' = budgets /\ now' = now
    BY <1>2, <2>1, CurrentIs DEF Settle, Write, Now
  <2>3. stored \in [Budgets -> Nat]
    BY <2>1, NoRows
  <2>4. IsVector(op) = w.exists /\ w.exists \in BOOLEAN /\ w.actual \in [Budgets -> Nat]
    BY <2>1, VectorFields DEF IsVector
  <2> HIDE DEF q, w, stored
  <2>5. /\ r \in ReservationRow /\ r.state = "settled" /\ r.actual = stored
        /\ r.budgetIds = q.budgetIds /\ r.reserved = q.reserved
    BY <2>1, <2>3, SettledFields
  <2>6. /\ v \in VectorRow /\ v.exists = w.exists /\ v.budgetIds = w.budgetIds
        /\ v.reserved = w.reserved
        /\ v.actual = IF IsVector(op) THEN actual ELSE w.actual
    BY <2>1, <2>4 DEF VectorRow
  <2>7. u \in [Budgets -> Nat] /\ s \in [Budgets -> Nat]
    <3>1. Reserved(op) \in [Budgets -> Nat]
      BY ReservedType
    <3>2. Minus(Reserved(op), actual) \in [Budgets -> Int]
      BY <2>1, <3>1 DEF Minus
    <3>3. \A b \in Budgets : Minus(Reserved(op), actual)[b] \in Nat
      BY <2>1, <2>2, <3>1 DEF Minus
    <3> QED BY <2>1, <3>2, <3>3, ReleasedType, PlusType
  <2> HIDE DEF r, v, u, s
  <2>8. Become(budgets, Put(Now, op, r, growthRows[op], v, u, s))
    <3>1. growthRows = [growthRows EXCEPT ![op] = growthRows[op]]
      BY DEF TablesAgree, CloudflareTypeOK
    <3> QED BY <2>2, <3>1 DEF Become, Put, Now
  <2>9. UnitsIn(r, v) = Reserved(op)
    BY <2>5, <2>6 DEF UnitsIn, Reserved, IsVector, q, w
  <2>10. ActualIn(r, v) = actual
    BY <2>4, <2>5, <2>6 DEF ActualIn, stored
  <2>11. Settles(op, r, growthRows[op], v, u, s)
    BY <2>2, <2>5, <2>6, <2>9, <2>10 DEF Settles, u, s, q, w
  <2>12. Changes(op, r, growthRows[op], v, u, s)
    BY <2>2, <2>8, <2>11 DEF Changes
  <2> QED BY <2>1, <2>2, <2>5, <2>6, <2>7, <2>12 DEF Step
<1> QED
  BY <1>1, <1>2
-----------------------------------------------------------------------------
LEMMA GrowShape ==
  ASSUME TablesAgree, NEW op \in Operations, NEW inc \in Increments, NEW cursor \in 1..MaxCursor,
         NEW add \in Growths, NEW lim \in Limits, Grow(op, inc, cursor, add, lim)
  PROVE  Step /\ now' = now
<1> DEFINE q == reservations[op]
           h == growthRows[op]
           w == vectorRows[op]
           vector == add.mode = "vector"
           accepted == WithinLimits(add, lim, used)
           grown == IF accepted THEN Plus(Reserved(op), add.units) ELSE Reserved(op)
           last == {[increment |-> inc, fingerprint |-> <<add, lim>>, accepted |-> accepted,
                     previous |-> Reserved(op), reserved |-> grown]}
           r == [q EXCEPT !.reserved = IF vector THEN q.reserved ELSE grown]
           g == [cursor |-> cursor + 1, last |-> IF vector THEN h.last ELSE last]
           v == IF vector THEN [w EXCEPT !.reserved = grown, !.last = last] ELSE w
           u == IF accepted THEN Added(used, add.units) ELSE used
<1>1. CASE RecoverSpecific(op)
  BY <1>1, SpecificShape
<1>2. CASE ~RecoverSpecific(op)
  <2>1. /\ q \in ReservationRow /\ h \in GrowthRow /\ w \in VectorRow
        /\ used \in [Budgets -> Nat] /\ spent \in [Budgets -> Nat]
        /\ Reserved(op) \in [Budgets -> Nat] /\ add.units \in [Budgets -> Nat]
        /\ DOMAIN reservations = Operations /\ DOMAIN growthRows = Operations
        /\ DOMAIN vectorRows = Operations
    BY RowTypes, ReservedType, ChargeTypes
  <2>2. /\ Active(op) /\ IsVector(op) = vector /\ BudgetIds(op) = add.keys
        /\ reservations' = [reservations EXCEPT ![op] = r]
        /\ growthRows' = [growthRows EXCEPT ![op] = g]
        /\ vectorRows' = [vectorRows EXCEPT ![op] = v] /\ used' = u /\ spent' = spent
        /\ budgets' = budgets /\ now' = now
    BY <1>2, <2>1, CurrentIs DEF Grow, Write, Now
  <2>3. grown \in [Budgets -> Nat]
    BY <2>1, PlusType
  <2>4. last \in SUBSET Growth
    <3>1. <<add, lim>> \in Growths \X Limits /\ accepted \in BOOLEAN
      BY DEF WithinLimits
    <3> HIDE DEF accepted, grown
    <3> QED BY <2>1, <2>3, <3>1 DEF Growth
  <2>5. cursor + 1 \in Nat /\ cursor + 1 # 0
    OBVIOUS
  <2>6. h.last \in SUBSET Growth /\ w.exists \in BOOLEAN /\ w.exists = vector
    BY <2>1, <2>2, GrowthFields, VectorFields DEF IsVector
  <2> HIDE DEF q, h, w, vector, accepted, grown, last
  <2>7. g \in GrowthRow /\ g.cursor # 0
    <3> DEFINE n == cursor + 1
    <3> HIDE DEF n
    <3>1. n \in Nat /\ n # 0
      BY <2>5 DEF n
    <3>2. [cursor |-> n, last |-> IF vector THEN h.last ELSE last] \in GrowthRow
      BY <2>4, <2>6, <3>1 DEF GrowthRow
    <3> QED BY <3>1, <3>2 DEF n
  <2>8. /\ r \in ReservationRow /\ r.state = q.state /\ r.budgetIds = q.budgetIds
        /\ r.reserved = IF vector THEN q.reserved ELSE grown
    BY <2>1, <2>3, RowFields DEF ReservationRow
  <2>9. /\ v \in VectorRow /\ v.exists = w.exists /\ v.budgetIds = w.budgetIds
        /\ v.reserved = IF vector THEN grown ELSE w.reserved
    <3>1. CASE vector
      BY <2>1, <2>3, <2>4, <3>1 DEF VectorRow
    <3>2. CASE ~vector
      BY <2>1, <3>2
    <3> QED BY <3>1, <3>2
  <2>10. u \in [Budgets -> Nat]
    BY <2>1, AddedType
  <2> HIDE DEF r, g, v, u
  <2>11. Become(budgets, Put(Now, op, r, g, v, u, spent))
    BY <2>2 DEF Become, Put, Now
  <2>12. UnitsIn(r, v) = grown
    BY <2>6, <2>8, <2>9 DEF UnitsIn
  <2>13. Grows(op, r, g, v, u, spent)
    <3>1. CASE accepted
      BY <2>2, <2>7, <2>8, <2>9, <2>12, <3>1 DEF Grows, q, w, u, grown, accepted
    <3>2. CASE ~accepted
      BY <2>2, <2>7, <2>8, <2>9, <2>12, <3>2 DEF Grows, q, w, u, grown
    <3> QED BY <3>1, <3>2
  <2>14. Changes(op, r, g, v, u, spent)
    BY <2>2, <2>11, <2>13 DEF Changes
  <2> QED BY <2>1, <2>2, <2>7, <2>8, <2>9, <2>10, <2>14 DEF Step
<1> QED
  BY <1>1, <1>2

storeVars == <<budgets, used, reservations, growthRows, vectorRows, spent>>

(* A step of the store cleans up, or admits after cleaning up, or changes  *)
(* one active reservation, or prunes budgets.                              *)
LEMMA StepShape ==
  ASSUME TablesAgree, [Next]_vars
  PROVE  /\ now' \in Nat
         /\ \/ Step /\ now' = now
            \/ UNCHANGED storeVars
<1>0. now \in Nat
  BY DEF TablesAgree, CloudflareTypeOK
<1>1. ASSUME NEW op \in Operations, NEW charge \in Charges, NEW lim \in Limits, NEW ttl \in Ttls,
             Reserve(op, charge, lim, ttl)
      PROVE  Step /\ now' = now
  BY <1>1, ReserveShape
<1>2. ASSUME NEW op \in Operations, MarkLiable(op)
      PROVE  Step /\ now' = now
  BY <1>2, MarkLiableShape
<1>3. ASSUME NEW op \in Operations, NEW ttl \in Ttls, Renew(op, ttl)
      PROVE  Step /\ now' = now
  BY <1>3, RenewShape
<1>4. ASSUME NEW op \in Operations, NEW actual \in Actuals, NEW outcome \in Outcomes,
             Settle(op, actual, outcome)
      PROVE  Step /\ now' = now
  BY <1>4, SettleShape
<1>5. ASSUME NEW op \in Operations, NEW inc \in Increments, NEW cursor \in 1..MaxCursor,
             NEW add \in Growths, NEW lim \in Limits, Grow(op, inc, cursor, add, lim)
      PROVE  Step /\ now' = now
  BY <1>5, GrowShape
<1>6. ASSUME NEW candidates \in SUBSET Budgets, PruneBudgets(candidates)
      PROVE  Step /\ now' = now
  BY <1>6 DEF PruneBudgets, Step
<1>7. CASE Tick
  BY <1>0, <1>7 DEF Tick, storeVars
<1>8. CASE UNCHANGED vars
  BY <1>0, <1>8 DEF vars, storeVars
<1> QED
  BY <1>0, <1>1, <1>2, <1>3, <1>4, <1>5, <1>6, <1>7, <1>8 DEF Next, Call
-----------------------------------------------------------------------------
(* The tables agree.                                                       *)

LEMMA PendingRow ==
  ASSUME TablesAgree, NEW charge \in Charges, NEW ttl \in Ttls
  PROVE  LET r == PendingReservation(charge, ttl)
             scalar == charge.mode = "scalar"
         IN  /\ r \in ReservationRow /\ r.state = "pending"
             /\ r.budgetIds = IF scalar THEN charge.keys ELSE {}
             /\ r.reserved = IF scalar THEN charge.units ELSE NoUnits
<1> DEFINE keys == IF charge.mode = "scalar" THEN charge.keys ELSE {}
           units == IF charge.mode = "scalar" THEN charge.units ELSE NoUnits
<1>1. PICK n \in Nat : n = now + ttl
  BY ConstantTypes DEF TablesAgree, CloudflareTypeOK
<1>2. keys \in SUBSET Budgets /\ units \in [Budgets -> Nat]
  BY ChargeTypes, NoRows
<1>3. NoReservation \in ReservationRow
  BY NoRows
<1>4. PendingReservation(charge, ttl) =
        [NoReservation EXCEPT !.state = "pending", !.expiresAt = n, !.budgetIds = keys, !.reserved = units]
  BY <1>1 DEF PendingReservation, NoReservation
<1> HIDE DEF keys, units
<1>5. LET r == [NoReservation EXCEPT !.state = "pending", !.expiresAt = n, !.budgetIds = keys,
                                     !.reserved = units]
      IN  /\ r \in ReservationRow /\ r.state = "pending"
          /\ r.budgetIds = keys /\ r.reserved = units
  BY <1>2, <1>3 DEF ReservationRow
<1> QED
  BY <1>4, <1>5 DEF keys, units

LEMMA DimensionsRow ==
  ASSUME NEW charge \in Charges
  PROVE  /\ Dimensions(charge) \in VectorRow /\ Dimensions(charge).exists = TRUE
         /\ Dimensions(charge).budgetIds = charge.keys /\ Dimensions(charge).reserved = charge.units
<1>1. charge.keys \in SUBSET Budgets /\ charge.units \in [Budgets -> Nat] /\ NoVectorRow \in VectorRow
  BY ChargeTypes, NoRows
<1> QED
  BY <1>1 DEF Dimensions, VectorRow

(* The rows of an operation that is admitted.                              *)
LEMMA AdmissionRows ==
  ASSUME TablesAgree, NEW t, Consistent(budgets, t), NEW op \in Operations,
         t.reservations[op].state = "absent", NEW charge \in Charges, NEW ttl \in Ttls
  PROVE  LET r == PendingReservation(charge, ttl)
             v == AdmittedRow(t, op, charge)
         IN  /\ r \in ReservationRow /\ FirstCursor \in GrowthRow /\ v \in VectorRow
             /\ r.state = "pending"
             /\ UnitsIn(r, v) = charge.units /\ KeysIn(r, v) = charge.keys
             /\ RowsAgree(budgets \cup charge.keys, r, FirstCursor, v)
<1> DEFINE r == PendingReservation(charge, ttl)
           v == AdmittedRow(t, op, charge)
<1>1. /\ r \in ReservationRow /\ r.state = "pending"
      /\ r.budgetIds = IF charge.mode = "scalar" THEN charge.keys ELSE {}
      /\ r.reserved = IF charge.mode = "scalar" THEN charge.units ELSE NoUnits
  BY PendingRow
<1>2. FirstCursor \in GrowthRow /\ FirstCursor.cursor = 1
  BY DEF FirstCursor, GrowthRow
<1>3. charge.mode \in {"scalar", "vector"}
  BY ChargeTypes DEF Modes
<1>4. t.vectorRows[op] \in VectorRow /\ ~t.vectorRows[op].exists
  <2>1. RowsAgree(budgets, t.reservations[op], t.growthRows[op], t.vectorRows[op])
    BY DEF Consistent
  <2>2. t.vectorRows[op] \in VectorRow
    BY DEF Consistent
  <2> QED BY <2>1, <2>2, VectorFields DEF RowsAgree
<1>5. /\ v \in VectorRow
      /\ charge.mode = "vector" => v.exists = TRUE /\ v.budgetIds = charge.keys /\ v.reserved = charge.units
      /\ charge.mode = "scalar" => ~v.exists
  BY <1>3, <1>4, DimensionsRow DEF AdmittedRow
<1> HIDE DEF r, v
<1>6. UnitsIn(r, v) = charge.units /\ KeysIn(r, v) = charge.keys
  BY <1>1, <1>3, <1>5 DEF UnitsIn, KeysIn
<1>7. RowsAgree(budgets \cup charge.keys, r, FirstCursor, v)
  <2>1. FirstCursor.cursor # 0
    BY <1>2
  <2>2. v.exists => r.budgetIds = {}
    BY <1>1, <1>3, <1>5
  <2> QED BY <1>1, <1>6, <2>1, <2>2 DEF RowsAgree
<1> QED
  BY <1>1, <1>2, <1>5, <1>6, <1>7 DEF r, v

LEMMA AdmitsConsistent ==
  ASSUME TablesAgree, NEW E \in SUBSET DueLeases, NEW F \in SUBSET DueTombstones,
         NEW op \in Operations, NEW charge \in Charges, NEW lim, NEW ttl \in Ttls,
         Admits(E, F, op, charge, lim, ttl)
  PROVE  Consistent(budgets \cup charge.keys, Admission(Recovered(E, F), op, charge, ttl))
<1> DEFINE t == Recovered(E, F)
           r == PendingReservation(charge, ttl)
           v == AdmittedRow(t, op, charge)
           u == Plus(t.used, charge.units)
<1>1. Consistent(budgets, t)
  BY RecoveredConsistent
<1>2. t.reservations[op].state = "absent"
  BY DEF Admits
<1> HIDE DEF t
<1>3. /\ r \in ReservationRow /\ FirstCursor \in GrowthRow /\ v \in VectorRow
      /\ RowsAgree(budgets \cup charge.keys, r, FirstCursor, v)
  BY <1>1, <1>2, AdmissionRows
<1>4. charge.units \in [Budgets -> Nat] /\ charge.keys \in SUBSET Budgets
  BY ChargeTypes
<1>5. u \in [Budgets -> Nat] /\ t.spent \in [Budgets -> Nat] /\ budgets \cup charge.keys \in SUBSET Budgets
  BY <1>1, <1>4, PlusType DEF Consistent
<1> HIDE DEF r, v, u
<1>6. Consistent(budgets \cup charge.keys, Put(t, op, r, FirstCursor, v, u, t.spent))
  BY <1>1, <1>3, <1>5, PutConsistent
<1> QED
  BY <1>6 DEF Admission, t, r, v, u

LEMMA ActiveOpen ==
  ASSUME TablesAgree, NEW op \in Operations, Active(op)
  PROVE  /\ reservations[op].state \in {"pending", "liable"}
         /\ BudgetIds(op) \subseteq budgets /\ Consistent(budgets, Now)
BY AgreeIsConsistent DEF Active, Open, TablesAgree

LEMMA ChangesConsistent ==
  ASSUME TablesAgree, NEW op \in Operations, NEW r \in ReservationRow, NEW g \in GrowthRow,
         NEW v \in VectorRow, NEW u \in [Budgets -> Nat], NEW s \in [Budgets -> Nat],
         Changes(op, r, g, v, u, s)
  PROVE  Consistent(budgets, Put(Now, op, r, g, v, u, s))
<1>1. /\ Active(op) /\ budgets \in SUBSET Budgets
      /\ reservations[op].state \in {"pending", "liable"}
      /\ BudgetIds(op) \subseteq budgets /\ Consistent(budgets, Now)
  BY ActiveOpen DEF Changes, TablesAgree, CloudflareTypeOK
<1>2. RowsAgree(budgets, reservations[op], growthRows[op], vectorRows[op])
  BY <1>1 DEF Consistent, Now
<1>3. r.state # "absent"
  BY <1>1 DEF Changes, Relabels, Grows, Settles
<1>4. /\ r.budgetIds = reservations[op].budgetIds
      /\ v.exists = vectorRows[op].exists /\ v.budgetIds = vectorRows[op].budgetIds
  BY DEF Changes, Relabels, Grows, Settles
<1>5. g.cursor # 0 \/ g = growthRows[op]
  BY DEF Changes, Relabels, Grows, Settles
<1>6. KeysIn(r, v) = BudgetIds(op)
  BY <1>4 DEF KeysIn, BudgetIds, IsVector
<1>7. RowsAgree(budgets, r, g, v)
  BY <1>1, <1>2, <1>3, <1>4, <1>5, <1>6 DEF RowsAgree
<1> QED
  BY <1>1, <1>7, PutConsistent

(* Pruning takes no row that an open reservation names.                    *)
LEMMA PruneAgrees ==
  ASSUME TablesAgree, NEW candidates \in SUBSET Budgets, PruneBudgets(candidates)
  PROVE  TablesAgree' /\ now' = now
<1> DEFINE rows == budgets \ ((candidates \cap budgets) \ Named)
           u == [b \in Budgets |-> IF b \in (candidates \cap budgets) \ Named THEN 0 ELSE used[b]]
           s == [b \in Budgets |-> IF b \in (candidates \cap budgets) \ Named THEN 0 ELSE spent[b]]
           t == [Now EXCEPT !.used = u, !.spent = s]
<1>1. /\ budgets' = rows /\ used' = u /\ spent' = s /\ reservations' = reservations
      /\ growthRows' = growthRows /\ vectorRows' = vectorRows
  BY DEF PruneBudgets
<1>2. u \in [Budgets -> Nat] /\ s \in [Budgets -> Nat]
  BY DEF TablesAgree, CloudflareTypeOK
<1>3. \A op \in Operations : Open(op) => BudgetIds(op) \subseteq rows
  <2>1. \A op \in Operations : Open(op) => BudgetIds(op) \subseteq budgets
    BY DEF TablesAgree
  <2>2. \A op \in Operations : Open(op) => BudgetIds(op) \subseteq Budgets
    BY ReservedType
  <2> QED BY <2>1, <2>2 DEF Named
<1> HIDE DEF u, s, rows
<1>4. Consistent(budgets, Now) /\ rows \in SUBSET Budgets
  BY AgreeIsConsistent DEF rows, TablesAgree, CloudflareTypeOK
<1>5. ASSUME NEW op \in Operations
      PROVE  RowsAgree(rows, reservations[op], growthRows[op], vectorRows[op])
  <2>1. RowsAgree(budgets, reservations[op], growthRows[op], vectorRows[op])
    BY <1>4 DEF Consistent, Now
  <2>2. KeysIn(reservations[op], vectorRows[op]) = BudgetIds(op) /\ Open(op) <=> OpenRow(reservations[op])
    BY DEF KeysIn, BudgetIds, IsVector, Open, OpenRow
  <2> QED BY <1>3, <2>1, <2>2 DEF RowsAgree, KeysIn, BudgetIds, IsVector, Open, OpenRow
<1>6. t.reservations = reservations /\ t.growthRows = growthRows /\ t.vectorRows = vectorRows
      /\ t.used = u /\ t.spent = s
  BY DEF Now
<1> HIDE DEF t
<1>7. Consistent(rows, t)
  BY <1>2, <1>4, <1>5, <1>6 DEF Consistent, Now
<1>8. Become(rows, t)
  BY <1>1, <1>6 DEF Become
<1>9. now' = now /\ now' \in Nat
  BY DEF PruneBudgets, TablesAgree, CloudflareTypeOK
<1> QED
  BY <1>7, <1>8, <1>9, BecomeAgrees

(* The tables tell one story after every step.                             *)
LEMMA StepAgrees ==
  ASSUME TablesAgree, [Next]_vars
  PROVE  TablesAgree'
<1>1. now' \in Nat /\ (Step \/ UNCHANGED storeVars)
  BY StepShape
<1>2. CASE Cleans
  <2>1. PICK E \in SUBSET DueLeases, F \in SUBSET DueTombstones : Become(budgets, Recovered(E, F))
    BY <1>2 DEF Cleans
  <2>2. Consistent(budgets, Recovered(E, F))
    BY RecoveredConsistent
  <2> QED BY <1>1, <2>1, <2>2, BecomeAgrees
<1>3. ASSUME NEW E \in SUBSET DueLeases, NEW F \in SUBSET DueTombstones, NEW op \in Operations,
             NEW charge \in Charges, NEW lim \in Limits, NEW ttl \in Ttls,
             Admits(E, F, op, charge, lim, ttl)
      PROVE  TablesAgree'
  <2> DEFINE rows == budgets \cup charge.keys
             put == Admission(Recovered(E, F), op, charge, ttl)
  <2>1. Consistent(rows, put)
    BY <1>3, AdmitsConsistent
  <2>2. Become(rows, put)
    BY <1>3 DEF Admits
  <2> HIDE DEF rows, put
  <2> QED BY <1>1, <2>1, <2>2, BecomeAgrees
<1>4. ASSUME NEW op \in Operations, NEW r \in ReservationRow, NEW g \in GrowthRow,
             NEW v \in VectorRow, NEW u \in [Budgets -> Nat], NEW s \in [Budgets -> Nat],
             Changes(op, r, g, v, u, s)
      PROVE  TablesAgree'
  <2> DEFINE put == Put(Now, op, r, g, v, u, s)
  <2>1. Consistent(budgets, put)
    BY <1>4, ChangesConsistent
  <2>2. Become(budgets, put)
    BY <1>4 DEF Changes
  <2> HIDE DEF put
  <2> QED BY <1>1, <2>1, <2>2, BecomeAgrees
<1>5. ASSUME NEW candidates \in SUBSET Budgets, PruneBudgets(candidates)
      PROVE  TablesAgree'
  BY <1>5, PruneAgrees
<1>6. CASE UNCHANGED storeVars
  <2>1. Become(budgets, Now) /\ Consistent(budgets, Now)
    BY <1>6, AgreeIsConsistent DEF storeVars, Become, Now
  <2> QED BY <1>1, <2>1, BecomeAgrees
<1> QED
  BY <1>1, <1>2, <1>3, <1>4, <1>5, <1>6 DEF Step
-----------------------------------------------------------------------------
(* A new object, and one that adopts a database of an older version.       *)
LEMMA InitAgrees == Init => TablesAgree
<1> SUFFICES ASSUME Init PROVE TablesAgree
  OBVIOUS
<1>1. CloudflareTypeOK
  BY NoRows DEF Init, CloudflareTypeOK
<1>2. \A op \in Operations : growthRows[op].cursor = 0 /\ ~IsVector(op) /\ ~Open(op)
  BY NoRows DEF Init, IsVector, Open
<1> QED
  BY <1>1, <1>2 DEF TablesAgree

LEMMA AdoptedFields ==
  ASSUME NEW charge \in Charges, NEW ttl \in Ttls, NEW state \in {"pending", "liable"}
  PROVE  LET r == AdoptedRow(state, charge, ttl)
         IN  /\ r \in ReservationRow /\ r.state = state /\ r.budgetIds = charge.keys
             /\ r.reserved = charge.units
<1>1. /\ charge.keys \in SUBSET Budgets /\ charge.units \in [Budgets -> Nat] /\ ttl \in Nat
      /\ NoReservation \in ReservationRow
  BY ChargeTypes, ConstantTypes, NoRows
<1> QED
  BY <1>1 DEF AdoptedRow, ReservationRow

Adopts(op, charge, ttl, state) ==
  /\ budgets = charge.keys /\ used = charge.units /\ spent = NoUnits /\ now = 0
  /\ reservations = [o \in Operations |-> IF o # op THEN NoReservation ELSE AdoptedRow(state, charge, ttl)]
  /\ growthRows = [o \in Operations |-> NoGrowthRow]
  /\ vectorRows = [o \in Operations |-> NoVectorRow]

LEMMA AdoptedShape ==
  AdoptedInit => \E op \in Operations, charge \in Charges, ttl \in Ttls, state \in {"pending", "liable"} :
                   Adopts(op, charge, ttl, state)
BY DEF AdoptedInit, Adopts

LEMMA AdoptedAgrees ==
  ASSUME NEW op \in Operations, NEW charge \in Charges, NEW ttl \in Ttls,
         NEW state \in {"pending", "liable"}, Adopts(op, charge, ttl, state)
  PROVE  TablesAgree
<1>1. /\ AdoptedRow(state, charge, ttl) \in ReservationRow
      /\ AdoptedRow(state, charge, ttl).budgetIds = charge.keys
  BY AdoptedFields
<1>2. charge.keys \in SUBSET Budgets /\ charge.units \in [Budgets -> Nat]
  BY ChargeTypes
<1>3. CloudflareTypeOK
  BY <1>1, <1>2, NoRows DEF Adopts, CloudflareTypeOK
<1>4. ASSUME NEW o \in Operations
      PROVE  growthRows[o].cursor = 0 /\ ~IsVector(o) /\ (Open(o) => BudgetIds(o) \subseteq budgets)
  <2>1. growthRows[o].cursor = 0 /\ ~IsVector(o)
    BY NoRows DEF Adopts, IsVector
  <2>2. Open(o) => o = op
    BY NoRows DEF Adopts, Open
  <2>3. BudgetIds(op) = charge.keys
    BY <1>1, <2>1, NoRows DEF Adopts, BudgetIds, IsVector
  <2> QED BY <2>1, <2>2, <2>3 DEF Adopts
<1> QED
  BY <1>3, <1>4 DEF TablesAgree

(* The object takes only calls of the store, and only once constructed.    *)
LEMMA ObjectStep == [ObjectNext]_objectVars => [Next]_vars
BY DEF ObjectNext, objectVars

(* No call of any operation, and no bounded batch of cleanup, separates    *)
(* the tables of reserve, grow and settle (worker.ts), nor does pruning    *)
(* take a budget row that an UPDATE will look for; a database of an older  *)
(* version is adopted in one piece.                                        *)
THEOREM TablesAlwaysAgree == ObjectSpec => []TablesAgree
<1>1. ObjectInit => TablesAgree
  BY InitAgrees, AdoptedShape, AdoptedAgrees DEF ObjectInit
<1>2. TablesAgree /\ [ObjectNext]_objectVars => TablesAgree'
  BY ObjectStep, StepAgrees
<1> QED
  BY <1>1, <1>2, PTL DEF ObjectSpec
-----------------------------------------------------------------------------
(* Settled operations are left alone until their tombstones expire.        *)

LEMMA StepReplay ==
  ASSUME TablesAgree, [Next]_vars, NEW op \in Operations,
         reservations[op].state = "settled", now < reservations[op].tombstoneExpiresAt
  PROVE  reservations'[op] = reservations[op] /\ vectorRows'[op] = vectorRows[op]
<1>0. now \in Nat /\ reservations[op].tombstoneExpiresAt \in Nat
  BY RowTypes, RowFields
<1>1. Step \/ UNCHANGED storeVars
  BY StepShape
<1>2. ASSUME NEW E \in SUBSET DueLeases, NEW F \in SUBSET DueTombstones
      PROVE  IsKept(Recovered(E, F), op)
  <2>1. op \notin E \cup F
    BY <1>0 DEF DueLeases, DueTombstones, IsExpired, Open
  <2> QED BY <2>1, RecoveredFates
<1>3. CASE Cleans
  BY <1>2, <1>3 DEF Cleans, Become, IsKept
<1>4. ASSUME NEW E \in SUBSET DueLeases, NEW F \in SUBSET DueTombstones, NEW o \in Operations,
             NEW charge \in Charges, NEW lim \in Limits, NEW ttl \in Ttls,
             Admits(E, F, o, charge, lim, ttl)
      PROVE  reservations'[op] = reservations[op] /\ vectorRows'[op] = vectorRows[op]
  <2> DEFINE t == Recovered(E, F)
             put == Admission(t, o, charge, ttl)
  <2>1. /\ t.reservations[op] = reservations[op] /\ t.vectorRows[op] = vectorRows[op]
        /\ Consistent(budgets, t)
    BY <1>2, RecoveredConsistent DEF IsKept
  <2>2. op # o
    BY <1>4, <2>1 DEF Admits
  <2>3. reservations' = put.reservations /\ vectorRows' = put.vectorRows
    BY <1>4 DEF Admits, Become
  <2> HIDE DEF t
  <2>4. put.reservations[op] = t.reservations[op] /\ put.vectorRows[op] = t.vectorRows[op]
    BY <2>1, <2>2, PutIs DEF Admission
  <2> QED BY <2>1, <2>3, <2>4
<1>5. ASSUME NEW o \in Operations, NEW r \in ReservationRow, NEW g \in GrowthRow,
             NEW v \in VectorRow, NEW u \in [Budgets -> Nat], NEW s \in [Budgets -> Nat],
             Changes(o, r, g, v, u, s)
      PROVE  reservations'[op] = reservations[op] /\ vectorRows'[op] = vectorRows[op]
  <2>1. op # o /\ Consistent(budgets, Now)
    BY <1>5, ActiveOpen DEF Changes
  <2>2. /\ reservations' = Put(Now, o, r, g, v, u, s).reservations
        /\ vectorRows' = Put(Now, o, r, g, v, u, s).vectorRows
    BY <1>5 DEF Changes, Become
  <2> QED BY <2>1, <2>2, PutIs DEF Now
<1>6. ASSUME NEW candidates \in SUBSET Budgets, PruneBudgets(candidates)
      PROVE  reservations'[op] = reservations[op] /\ vectorRows'[op] = vectorRows[op]
  BY <1>6 DEF PruneBudgets
<1>7. CASE UNCHANGED storeVars
  BY <1>7 DEF storeVars
<1> QED
  BY <1>1, <1>3, <1>4, <1>5, <1>6, <1>7 DEF Step

(* A settlement that is repeated finds what it recorded, units of every    *)
(* dimension included, whatever calls of other operations clean up in      *)
(* between (settle, settleVector and recoverExpiredBatch, worker.ts).      *)
THEOREM ReplaysProtected == ObjectSpec => ReplayProtected
<1>1. TablesAgree /\ [ObjectNext]_objectVars =>
        [\A op \in Operations :
           reservations[op].state = "settled" /\ now < reservations[op].tombstoneExpiresAt
             => reservations'[op] = reservations[op] /\ vectorRows'[op] = vectorRows[op]]_vars
  BY ObjectStep, StepReplay
<1> QED
  BY <1>1, TablesAlwaysAgree, PTL DEF ObjectSpec, ReplayProtected
-----------------------------------------------------------------------------
(* Units.                                                                  *)

(* What each operation holds of a budget, and all of them together.        *)
Holding(t, b) ==
  [op \in Operations |->
     IF OpenRow(t.reservations[op]) THEN UnitsIn(t.reservations[op], t.vectorRows[op])[b] ELSE 0]
Held(t, b) == Total(Holding(t, b))

(* The budget rows are exact.                                              *)
Balanced(t) == \A b \in Budgets : t.used[b] = Held(t, b) + t.spent[b]

(* An open reservation holds nothing of a budget that it does not name.    *)
NamesUnits(r, v) == OpenRow(r) => \A b \in Budgets \ KeysIn(r, v) : UnitsIn(r, v)[b] = 0
Names(t) == \A op \in Operations : NamesUnits(t.reservations[op], t.vectorRows[op])

LEMMA RowUnits ==
  ASSUME NEW r \in ReservationRow, NEW v \in VectorRow
  PROVE  /\ UnitsIn(r, v) \in [Budgets -> Nat] /\ ActualIn(r, v) \in [Budgets -> Nat]
         /\ KeysIn(r, v) \in SUBSET Budgets
BY RowFields, VectorFields DEF UnitsIn, ActualIn, KeysIn

(* What operations hold are units, and so is what they hold together.      *)
LEMMA HoldingType ==
  ASSUME NEW rows, NEW t, Consistent(rows, t), NEW b \in Budgets
  PROVE  Holding(t, b) \in [Operations -> Nat] /\ Held(t, b) \in Nat
<1>1. ASSUME NEW op \in Operations
      PROVE  UnitsIn(t.reservations[op], t.vectorRows[op])[b] \in Nat
  <2>1. t.reservations[op] \in ReservationRow /\ t.vectorRows[op] \in VectorRow
    BY DEF Consistent
  <2>2. UnitsIn(t.reservations[op], t.vectorRows[op]) \in [Budgets -> Nat]
    BY <2>1, RowUnits
  <2> QED BY <2>2
<1>2. Holding(t, b) \in [Operations -> Nat]
  BY <1>1 DEF Holding
<1> QED
  BY <1>2, ConstantTypes, TotalType DEF Held

LEMMA HeldBounds ==
  ASSUME NEW rows, NEW t, Consistent(rows, t), NEW op \in Operations, NEW b \in Budgets
  PROVE  Holding(t, b)[op] <= Held(t, b) /\ Holding(t, b)[op] \in Nat /\ Held(t, b) \in Nat
<1>1. Holding(t, b) \in [Operations -> Nat] /\ Held(t, b) \in Nat
  BY HoldingType
<1>2. Holding(t, b)[op] <= Total(Holding(t, b))
  BY <1>1, ConstantTypes, TotalBound
<1> QED
  BY <1>1, <1>2 DEF Held

(* Writing the rows of one operation changes what is held by what they     *)
(* hold.                                                                   *)
LEMMA PutHeld ==
  ASSUME NEW rows, NEW t, Consistent(rows, t), NEW op \in Operations, NEW r \in ReservationRow,
         NEW g, NEW v \in VectorRow, NEW u, NEW s, NEW b \in Budgets
  PROVE  LET put == Put(t, op, r, g, v, u, s)
         IN  /\ Held(put, b) = Held(t, b) - Holding(t, b)[op] + (IF OpenRow(r) THEN UnitsIn(r, v)[b] ELSE 0)
             /\ put.used = u /\ put.spent = s
<1> DEFINE put == Put(t, op, r, g, v, u, s)
<1>1. Holding(t, b) \in [Operations -> Nat]
  BY HoldingType
<1>2. UnitsIn(r, v)[b] \in Nat
  <2>1. UnitsIn(r, v) \in [Budgets -> Nat]
    BY RowUnits
  <2> QED BY <2>1
<1>3. /\ put.reservations[op] = r /\ put.vectorRows[op] = v /\ put.used = u /\ put.spent = s
      /\ \A o \in Operations \ {op} :
           put.reservations[o] = t.reservations[o] /\ put.vectorRows[o] = t.vectorRows[o]
  BY PutIs
<1> HIDE DEF put
<1>4. Holding(put, b)[op] = IF OpenRow(r) THEN UnitsIn(r, v)[b] ELSE 0
  BY <1>3 DEF Holding
<1>5. \A o \in Operations \ {op} : Holding(put, b)[o] = Holding(t, b)[o]
  BY <1>3 DEF Holding
<1>6. \A o \in Operations : Holding(put, b)[o] \in Nat
  BY <1>1, <1>2, <1>4, <1>5
<1>7. Holding(put, b) \in [Operations -> Nat]
  BY <1>6 DEF Holding
<1>8. Total(Holding(put, b)) = Total(Holding(t, b)) - Holding(t, b)[op] + Holding(put, b)[op]
  BY <1>1, <1>5, <1>7, ConstantTypes, TotalChange
<1> QED
  BY <1>3, <1>4, <1>8 DEF Held, put

LEMMA PutNames ==
  ASSUME NEW rows, NEW t, Consistent(rows, t), Names(t), NEW op \in Operations, NEW r, NEW g, NEW v,
         NEW u, NEW s, NamesUnits(r, v)
  PROVE  Names(Put(t, op, r, g, v, u, s))
<1> DEFINE put == Put(t, op, r, g, v, u, s)
<1>1. /\ put.reservations[op] = r /\ put.vectorRows[op] = v
      /\ \A o \in Operations \ {op} :
           put.reservations[o] = t.reservations[o] /\ put.vectorRows[o] = t.vectorRows[o]
  BY PutIs
<1> HIDE DEF put
<1>2. ASSUME NEW o \in Operations PROVE NamesUnits(put.reservations[o], put.vectorRows[o])
  <2>1. CASE o = op
    BY <1>1, <2>1
  <2>2. CASE o # op
    BY <1>1, <2>2 DEF Names
  <2> QED BY <2>1, <2>2
<1>3. Names(put)
  BY <1>2 DEF Names
<1> QED
  BY <1>3 DEF put

(* Cleanup splits what is held into what remains, what it releases and     *)
(* what it charges.                                                        *)
LEMMA RecoveredHeld ==
  ASSUME TablesAgree, NEW E \in SUBSET DueLeases, NEW F \in SUBSET DueTombstones, NEW b \in Budgets
  PROVE  /\ Held(Now, b) = Held(Recovered(E, F), b)
                             + (ReservedBy(PendingOf(E))[b] + ReservedBy(ChargedOf(E))[b])
         /\ ReservedBy(PendingOf(E))[b] \in Nat /\ ReservedBy(ChargedOf(E))[b] \in Nat
         /\ Held(Recovered(E, F), b) \in Nat /\ Held(Now, b) \in Nat
<1> DEFINE t == Recovered(E, F)
           part(S) == [op \in Operations |-> IF op \in S THEN Reserved(op)[b] ELSE 0]
<1>1. Consistent(budgets, t) /\ Consistent(budgets, Now)
  BY RecoveredConsistent, AgreeIsConsistent
<1>2. /\ Holding(Now, b) \in [Operations -> Nat] /\ Holding(t, b) \in [Operations -> Nat]
      /\ Held(Now, b) \in Nat /\ Held(t, b) \in Nat
  BY <1>1, HoldingType
<1>3. \A S \in SUBSET Operations : part(S) \in [Operations -> Nat]
  BY ReservedType
<1>4. /\ E \in SUBSET Operations /\ PendingOf(E) \in SUBSET Operations /\ ChargedOf(E) \in SUBSET Operations
      /\ PendingOf(E) \cup ChargedOf(E) = E /\ PendingOf(E) \cap ChargedOf(E) = {}
  BY DEF DueLeases, PendingOf, ChargedOf
<1>5. ASSUME NEW op \in Operations
      PROVE  Holding(Now, b)[op] = IF Open(op) THEN Reserved(op)[b] ELSE 0
  BY DEF Holding, Now, OpenRow, Open, UnitsIn, Reserved, IsVector
<1>6. \A op \in E : Open(op)
  BY DEF DueLeases, IsExpired
<1>7. ASSUME NEW op \in Operations
      PROVE  Holding(t, b)[op] = IF Open(op) /\ op \notin E THEN Reserved(op)[b] ELSE 0
  <2>1. /\ op \in PendingOf(E) \cup F => IsGone(t, op)
        /\ op \in ChargedOf(E) => IsCharged(t, op)
        /\ op \notin E \cup F => IsKept(t, op)
    BY RecoveredFates
  <2>2. op \in F => ~Open(op)
    BY DEF DueTombstones, Open
  <2> HIDE DEF t
  <2>3. CASE op \in PendingOf(E) \cup F
    BY <1>4, <2>1, <2>2, <2>3, NoRows DEF IsGone, Holding, OpenRow
  <2>4. CASE op \in ChargedOf(E)
    BY <1>4, <2>1, <2>4 DEF IsCharged, Holding, OpenRow
  <2>5. CASE op \notin E \cup F
    BY <2>1, <2>5 DEF IsKept, Holding, OpenRow, Open, UnitsIn, Reserved, IsVector
  <2> QED BY <1>4, <2>3, <2>4, <2>5
<1>8. Total(Holding(Now, b)) = Total(Holding(t, b)) + Total(part(E))
  <2>1. part(E) \in [Operations -> Nat]
    BY <1>3, <1>4
  <2>2. ASSUME NEW op \in Operations
        PROVE  \/ Holding(t, b)[op] = Holding(Now, b)[op] /\ part(E)[op] = 0
               \/ part(E)[op] = Holding(Now, b)[op] /\ Holding(t, b)[op] = 0
    <3> HIDE DEF t
    <3> QED BY <1>5, <1>6, <1>7
  <2> HIDE DEF part, t
  <2> QED BY <1>2, <2>1, <2>2, ConstantTypes, TotalSplit
<1>9. Total(part(E)) = Total(part(PendingOf(E))) + Total(part(ChargedOf(E)))
  <2>1. /\ part(E) \in [Operations -> Nat] /\ part(PendingOf(E)) \in [Operations -> Nat]
        /\ part(ChargedOf(E)) \in [Operations -> Nat]
    BY <1>3, <1>4
  <2>2. ASSUME NEW op \in Operations
        PROVE  \/ part(PendingOf(E))[op] = part(E)[op] /\ part(ChargedOf(E))[op] = 0
               \/ part(ChargedOf(E))[op] = part(E)[op] /\ part(PendingOf(E))[op] = 0
    BY <1>4
  <2> HIDE DEF part
  <2> QED BY <2>1, <2>2, ConstantTypes, TotalSplit
<1>10. /\ ReservedBy(PendingOf(E))[b] = Total(part(PendingOf(E)))
       /\ ReservedBy(ChargedOf(E))[b] = Total(part(ChargedOf(E)))
       /\ ReservedBy(PendingOf(E))[b] \in Nat /\ ReservedBy(ChargedOf(E))[b] \in Nat
  BY ReservedByType
<1> HIDE DEF part
<1> QED
  BY <1>2, <1>8, <1>9, <1>10 DEF Held, t
-----------------------------------------------------------------------------
(* Nothing is held of a budget that no open reservation names, nor of one  *)
(* that has no row.                                                        *)
LEMMA UnnamedHeld ==
  ASSUME TablesAgree, Names(Now), NEW b \in Budgets, b \notin Named
  PROVE  Held(Now, b) = 0
<1>1. Holding(Now, b) \in [Operations -> Nat]
  BY AgreeIsConsistent, HoldingType
<1>2. ASSUME NEW op \in Operations PROVE Holding(Now, b)[op] = 0
  <2>1. /\ Now.reservations[op] = reservations[op] /\ Now.vectorRows[op] = vectorRows[op]
        /\ NamesUnits(Now.reservations[op], Now.vectorRows[op])
    BY DEF Names, Now
  <2>2. OpenRow(reservations[op]) => b \notin KeysIn(reservations[op], vectorRows[op])
    BY DEF Named, Open, OpenRow, BudgetIds, KeysIn, IsVector
  <2> QED BY <2>1, <2>2 DEF Holding, NamesUnits
<1> QED
  BY <1>1, <1>2, TotalZero DEF Held

LEMMA UnrowedHeld ==
  ASSUME TablesAgree, Names(Now), NEW b \in Budgets, b \notin budgets
  PROVE  Held(Now, b) = 0
<1>1. b \notin Named
  BY DEF Named, TablesAgree
<1> QED
  BY <1>1, UnnamedHeld

LEMMA NowIs ==
  ASSUME TablesAgree
  PROVE  /\ Now.used = used /\ Now.spent = spent
         /\ Now.reservations = reservations /\ Now.vectorRows = vectorRows
         /\ Now.growthRows = growthRows /\ Consistent(budgets, Now)
         /\ \A b \in Budgets : used[b] \in Nat /\ spent[b] \in Nat
BY AgreeIsConsistent DEF Now, TablesAgree, CloudflareTypeOK

(* Cleanup keeps the rows exact: no counter is clamped at zero, and no     *)
(* UPDATE misses its row.                                                  *)
LEMMA RecoveredBalanced ==
  ASSUME TablesAgree, Balanced(Now), Names(Now),
         NEW E \in SUBSET DueLeases, NEW F \in SUBSET DueTombstones
  PROVE  /\ Balanced(Recovered(E, F)) /\ Names(Recovered(E, F))
         /\ \A b \in Budgets : Recovered(E, F).used[b] <= used[b]
<1> DEFINE t == Recovered(E, F)
           freed == ReservedBy(PendingOf(E))
           charged == ReservedBy(ChargedOf(E))
<1>1. t.used = Released(used, freed) /\ t.spent = Plus(spent, charged)
  BY RecoveredUsed
<1>2. ASSUME NEW b \in Budgets
      PROVE  t.used[b] = Held(t, b) + t.spent[b] /\ t.used[b] <= used[b]
  <2>1. /\ Held(Now, b) = Held(t, b) + (freed[b] + charged[b])
        /\ freed[b] \in Nat /\ charged[b] \in Nat /\ Held(t, b) \in Nat
    BY RecoveredHeld
  <2>2. used[b] = Held(Now, b) + spent[b] /\ used[b] \in Nat /\ spent[b] \in Nat
    BY NowIs DEF Balanced
  <2>3. b \notin budgets => Held(Now, b) = 0
    BY UnrowedHeld
  <2>4. used \in [Budgets -> Nat]
    BY DEF TablesAgree, CloudflareTypeOK
  <2> HIDE DEF t, freed, charged
  <2>5. freed[b] <= used[b] /\ (b \notin budgets => freed[b] = 0)
    BY <2>1, <2>2, <2>3
  <2>6. t.used[b] = used[b] - freed[b]
    BY <1>1, <2>1, <2>4, <2>5, ReleasedIs
  <2>7. t.spent[b] = spent[b] + charged[b]
    BY <1>1 DEF Plus
  <2> QED BY <2>1, <2>2, <2>6, <2>7
<1>3. ASSUME NEW op \in Operations PROVE NamesUnits(t.reservations[op], t.vectorRows[op])
  <2>1. Lapses(t, op)
    BY RecoveredLapses
  <2>2. NamesUnits(reservations[op], vectorRows[op])
    BY NowIs DEF Names
  <2> HIDE DEF t
  <2> QED BY <2>1, <2>2, NoRows DEF Lapses, IsKept, IsGone, IsCharged, NamesUnits, OpenRow
<1> QED
  BY <1>2, <1>3 DEF Balanced, Names

(* Admission keeps them exact, and so does every request on an active      *)
(* reservation.                                                            *)
LEMMA AdmitsBalanced ==
  ASSUME TablesAgree, Balanced(Now), Names(Now),
         NEW E \in SUBSET DueLeases, NEW F \in SUBSET DueTombstones, NEW op \in Operations,
         NEW charge \in Charges, NEW lim \in Limits, NEW ttl \in Ttls,
         Admits(E, F, op, charge, lim, ttl)
  PROVE  LET put == Admission(Recovered(E, F), op, charge, ttl)
         IN  Balanced(put) /\ Names(put)
<1> DEFINE t == Recovered(E, F)
           r == PendingReservation(charge, ttl)
           v == AdmittedRow(t, op, charge)
           u == Plus(t.used, charge.units)
           put == Put(t, op, r, FirstCursor, v, u, t.spent)
<1>1. Consistent(budgets, t) /\ Balanced(t) /\ Names(t)
  BY RecoveredConsistent, RecoveredBalanced
<1>2. t.reservations[op].state = "absent"
  BY DEF Admits
<1>3. charge.units \in [Budgets -> Nat] /\ \A b \in Budgets \ charge.keys : charge.units[b] = 0
  BY ChargeTypes
<1> HIDE DEF t
<1>4. /\ r \in ReservationRow /\ FirstCursor \in GrowthRow /\ v \in VectorRow /\ r.state = "pending"
      /\ UnitsIn(r, v) = charge.units /\ KeysIn(r, v) = charge.keys
  BY <1>1, <1>2, AdmissionRows
<1> HIDE DEF r, v
<1>5. OpenRow(r) /\ NamesUnits(r, v)
  BY <1>3, <1>4 DEF OpenRow, NamesUnits
<1>6. Names(put)
  BY <1>1, <1>5, PutNames
<1>7. ASSUME NEW b \in Budgets PROVE put.used[b] = Held(put, b) + put.spent[b]
  <2>1. /\ Held(put, b) = Held(t, b) - Holding(t, b)[op] + charge.units[b]
        /\ put.used = u /\ put.spent = t.spent
    BY <1>1, <1>4, <1>5, PutHeld
  <2>2. Holding(t, b)[op] = 0
    BY <1>2 DEF Holding, OpenRow
  <2>3. /\ Held(t, b) \in Nat /\ charge.units[b] \in Nat /\ t.used[b] \in Nat /\ t.spent[b] \in Nat
        /\ t.used[b] = Held(t, b) + t.spent[b]
    BY <1>1, <1>3, HoldingType DEF Consistent, Balanced
  <2>4. u[b] = t.used[b] + charge.units[b]
    BY DEF Plus
  <2> HIDE DEF put, u
  <2> QED BY <2>1, <2>2, <2>3, <2>4
<1>8. Balanced(put)
  BY <1>7 DEF Balanced
<1> QED
  BY <1>6, <1>8 DEF Admission, t, r, v

LEMMA ChangesBalanced ==
  ASSUME TablesAgree, Balanced(Now), Names(Now),
         NEW op \in Operations, NEW r \in ReservationRow, NEW g \in GrowthRow,
         NEW v \in VectorRow, NEW u \in [Budgets -> Nat], NEW s \in [Budgets -> Nat],
         Changes(op, r, g, v, u, s)
  PROVE  Balanced(Put(Now, op, r, g, v, u, s)) /\ Names(Put(Now, op, r, g, v, u, s))
<1> DEFINE put == Put(Now, op, r, g, v, u, s)
           q == Reserved(op)
<1>1. /\ reservations[op].state \in {"pending", "liable"} /\ BudgetIds(op) \subseteq budgets
      /\ Relabels(op, r, g, v, u, s) \/ Grows(op, r, g, v, u, s) \/ Settles(op, r, g, v, u, s)
  BY ActiveOpen DEF Changes
<1>2. /\ Consistent(budgets, Now) /\ Now.used = used /\ Now.spent = spent
      /\ \A b \in Budgets : used[b] \in Nat /\ spent[b] \in Nat
  BY NowIs
<1>3. /\ q \in [Budgets -> Nat] /\ BudgetIds(op) \in SUBSET Budgets
      /\ used \in [Budgets -> Nat] /\ spent \in [Budgets -> Nat]
  BY ReservedType, RowTypes
<1>4. \A b \in Budgets \ BudgetIds(op) : q[b] = 0
  <2>1. NamesUnits(reservations[op], vectorRows[op])
    BY NowIs DEF Names
  <2> QED BY <1>1, <2>1 DEF NamesUnits, OpenRow, UnitsIn, KeysIn, Reserved, BudgetIds, IsVector
<1>5. ASSUME NEW b \in Budgets
      PROVE  /\ used[b] = Held(Now, b) + spent[b] /\ q[b] <= Held(Now, b) /\ Held(Now, b) \in Nat
             /\ put.used = u /\ put.spent = s
             /\ Held(put, b) = Held(Now, b) - q[b] + (IF OpenRow(r) THEN UnitsIn(r, v)[b] ELSE 0)
  <2>1. Holding(Now, b)[op] = q[b]
    BY <1>1, NowIs DEF Holding, OpenRow, UnitsIn, Reserved, IsVector
  <2>2. Holding(Now, b)[op] <= Held(Now, b) /\ Held(Now, b) \in Nat
    BY <1>2, HeldBounds
  <2>3. used[b] = Held(Now, b) + spent[b]
    BY <1>2 DEF Balanced
  <2> HIDE DEF q
  <2> QED BY <1>2, <2>1, <2>2, <2>3, PutHeld
<1>6. \A b \in Budgets : q[b] \in Nat /\ used[b] \in Nat /\ spent[b] \in Nat
  BY <1>3
<1>7. r.budgetIds = reservations[op].budgetIds /\ v.exists = vectorRows[op].exists
      /\ v.budgetIds = vectorRows[op].budgetIds
  BY <1>1 DEF Relabels, Grows, Settles
<1>8. KeysIn(r, v) = BudgetIds(op)
  BY <1>7 DEF KeysIn, BudgetIds, IsVector
<1> HIDE DEF q, put
<1>9. CASE Relabels(op, r, g, v, u, s)
  <2>1. OpenRow(r) /\ UnitsIn(r, v) = q /\ u = used /\ s = spent
    BY <1>1, <1>9 DEF Relabels, OpenRow, UnitsIn, Reserved, IsVector, q
  <2>2. NamesUnits(r, v)
    BY <1>4, <1>8, <2>1 DEF NamesUnits
  <2>3. Names(put)
    BY <1>2, <2>2, PutNames DEF put
  <2>4. \A b \in Budgets : put.used[b] = Held(put, b) + put.spent[b]
    BY <1>5, <1>6, <2>1
  <2> QED BY <2>3, <2>4 DEF Balanced, put
<1>10. CASE Grows(op, r, g, v, u, s)
  <2>1. OpenRow(r) /\ s = spent
    BY <1>1, <1>10 DEF Grows, OpenRow
  <2>2. CASE UnitsIn(r, v) = q /\ u = used
    <3>1. NamesUnits(r, v)
      BY <1>4, <1>8, <2>2 DEF NamesUnits
    <3>2. Names(put)
      BY <1>2, <3>1, PutNames DEF put
    <3>3. \A b \in Budgets : put.used[b] = Held(put, b) + put.spent[b]
      BY <1>5, <1>6, <2>1, <2>2
    <3> QED BY <3>2, <3>3 DEF Balanced, put
  <2>3. ASSUME NEW add \in Growths, add.keys = BudgetIds(op),
               UnitsIn(r, v) = Plus(q, add.units), u = Added(used, add.units)
        PROVE  Balanced(put) /\ Names(put)
    <3>1. add.units \in [Budgets -> Nat] /\ \A b \in Budgets \ BudgetIds(op) : add.units[b] = 0
      BY <2>3, ChargeTypes
    <3>2. \A b \in Budgets : UnitsIn(r, v)[b] = q[b] + add.units[b]
      BY <2>3 DEF Plus
    <3>3. \A b \in Budgets : u[b] = used[b] + add.units[b]
      BY <1>1, <1>3, <2>3, <3>1, AddedIs
    <3>4. \A b \in Budgets : add.units[b] \in Nat
      BY <3>1
    <3>5. NamesUnits(r, v)
      BY <1>4, <1>8, <3>1, <3>2 DEF NamesUnits
    <3>6. Names(put)
      BY <1>2, <3>5, PutNames DEF put
    <3>7. ASSUME NEW b \in Budgets PROVE put.used[b] = Held(put, b) + put.spent[b]
      BY <1>5, <1>6, <2>1, <3>2, <3>3, <3>4
    <3> QED BY <3>6, <3>7 DEF Balanced
  <2> QED BY <1>10, <2>2, <2>3 DEF Grows, put, q
<1>11. CASE Settles(op, r, g, v, u, s)
  <2>1. PICK actual \in Actuals :
          /\ \A b \in Budgets : actual[b] <= q[b]
          /\ u = Released(used, Minus(q, actual)) /\ s = Plus(spent, actual)
    BY <1>11 DEF Settles, q
  <2>2. ~OpenRow(r)
    BY <1>11 DEF Settles, OpenRow
  <2>3. Names(put)
    <3>1. NamesUnits(r, v)
      BY <2>2 DEF NamesUnits
    <3> QED BY <1>2, <3>1, PutNames DEF put
  <2>4. ASSUME NEW b \in Budgets PROVE put.used[b] = Held(put, b) + put.spent[b]
    <3> DEFINE rest == Minus(q, actual)
    <3>1. actual[b] \in Nat
      BY ConstantTypes
    <3>2. rest[b] = q[b] - actual[b] /\ s[b] = spent[b] + actual[b]
      BY <2>1 DEF Minus, Plus
    <3>3. b \notin budgets => q[b] = 0
      BY <1>1, <1>4
    <3> HIDE DEF rest
    <3>4. rest[b] \in Nat /\ rest[b] <= used[b] /\ (b \notin budgets => rest[b] = 0)
      BY <1>5, <1>6, <2>1, <3>1, <3>2, <3>3
    <3>5. u[b] = used[b] - rest[b]
      BY <1>3, <2>1, <3>4, ReleasedIs DEF rest
    <3> QED BY <1>5, <1>6, <2>2, <3>1, <3>2, <3>5
  <2> QED BY <2>3, <2>4 DEF Balanced, put
<1> QED
  BY <1>1, <1>9, <1>10, <1>11 DEF put
-----------------------------------------------------------------------------
(* Exact rows and named budgets, in the next state.                        *)
CountersExact == Balanced(Now) /\ Names(Now)

LEMMA BecomeExact ==
  ASSUME NEW rows, NEW t, Become(rows, t), Balanced(t), Names(t)
  PROVE  CountersExact'
<1>1. /\ Now'.used = t.used /\ Now'.spent = t.spent /\ Now'.reservations = t.reservations
      /\ Now'.vectorRows = t.vectorRows
  BY DEF Become, Now
<1>2. \A b \in Budgets : Held(Now', b) = Held(t, b)
  BY <1>1 DEF Held, Holding
<1> QED
  BY <1>1, <1>2 DEF CountersExact, Balanced, Names

(* A new object holds nothing, and an adopted one what its database does.  *)
LEMMA InitExact == Init => CountersExact
<1> SUFFICES ASSUME Init PROVE CountersExact
  OBVIOUS
<1>1. /\ Now.used = NoUnits /\ Now.spent = NoUnits
      /\ \A op \in Operations : ~OpenRow(Now.reservations[op])
  BY NoRows DEF Init, Now, OpenRow
<1>2. ASSUME NEW b \in Budgets PROVE Held(Now, b) = 0
  <2>1. Holding(Now, b) \in [Operations -> Nat] /\ \A op \in Operations : Holding(Now, b)[op] = 0
    BY <1>1 DEF Holding
  <2> QED BY <2>1, TotalZero DEF Held
<1> QED
  BY <1>1, <1>2 DEF CountersExact, Balanced, Names, NamesUnits, NoUnits

LEMMA AdoptedExact ==
  ASSUME NEW op \in Operations, NEW charge \in Charges, NEW ttl \in Ttls,
         NEW state \in {"pending", "liable"}, Adopts(op, charge, ttl, state)
  PROVE  CountersExact
<1> DEFINE r == AdoptedRow(state, charge, ttl)
<1>1. /\ r \in ReservationRow /\ r.state = state /\ r.budgetIds = charge.keys
      /\ r.reserved = charge.units
  BY AdoptedFields
<1>2. charge.units \in [Budgets -> Nat] /\ \A b \in Budgets \ charge.keys : charge.units[b] = 0
  BY ChargeTypes
<1> HIDE DEF r
<1>3. /\ Now.used = charge.units /\ Now.spent = NoUnits
      /\ Now.reservations[op] = r
      /\ \A o \in Operations \ {op} : Now.reservations[o] = NoReservation
      /\ \A o \in Operations : Now.vectorRows[o] = NoVectorRow
  BY DEF Adopts, Now, r
<1>4. /\ OpenRow(r) /\ UnitsIn(r, NoVectorRow) = charge.units /\ KeysIn(r, NoVectorRow) = charge.keys
      /\ ~OpenRow(NoReservation)
  BY <1>1, NoRows DEF OpenRow, UnitsIn, KeysIn
<1>5. ASSUME NEW b \in Budgets PROVE Held(Now, b) = charge.units[b]
  <2> DEFINE none == [o \in Operations |-> 0]
  <2>1. /\ Holding(Now, b)[op] = charge.units[b]
        /\ \A o \in Operations \ {op} : Holding(Now, b)[o] = 0
    BY <1>3, <1>4 DEF Holding
  <2>2. charge.units[b] \in Nat
    BY <1>2
  <2>3. Holding(Now, b) \in [Operations -> Nat]
    <3>1. \A o \in Operations : Holding(Now, b)[o] \in Nat
      BY <2>1, <2>2
    <3> QED BY <3>1 DEF Holding
  <2>4. /\ none \in [Operations -> Nat] /\ none[op] = 0 /\ \A o \in Operations : none[o] = 0
        /\ \A o \in Operations \ {op} : Holding(Now, b)[o] = none[o]
    BY <2>1
  <2> HIDE DEF none
  <2>5. Total(none) = 0
    BY <2>4, TotalZero
  <2>6. Total(Holding(Now, b)) = Total(none) - none[op] + Holding(Now, b)[op]
    BY <2>3, <2>4, ConstantTypes, TotalChange
  <2> QED BY <2>1, <2>2, <2>4, <2>5, <2>6 DEF Held
<1>6. Balanced(Now)
  <2>1. ASSUME NEW b \in Budgets PROVE Now.used[b] = Held(Now, b) + Now.spent[b]
    <3>1. Now.spent[b] = 0 /\ charge.units[b] \in Nat
      BY <1>2, <1>3 DEF NoUnits
    <3> QED BY <1>3, <1>5, <3>1
  <2> QED BY <2>1 DEF Balanced
<1>7. Names(Now)
  <2>1. NamesUnits(r, NoVectorRow) /\ NamesUnits(NoReservation, NoVectorRow)
    BY <1>2, <1>4 DEF NamesUnits
  <2> QED BY <1>3, <2>1 DEF Names
<1> QED
  BY <1>6, <1>7 DEF CountersExact

(* Pruning takes only rows of which nothing is held.                       *)
LEMMA PrunesExact ==
  ASSUME TablesAgree, CountersExact, NEW candidates \in SUBSET Budgets, PruneBudgets(candidates)
  PROVE  CountersExact'
<1> DEFINE pruned == (candidates \cap budgets) \ Named
<1>1. /\ used' = [b \in Budgets |-> IF b \in pruned THEN 0 ELSE used[b]]
      /\ spent' = [b \in Budgets |-> IF b \in pruned THEN 0 ELSE spent[b]]
      /\ reservations' = reservations /\ vectorRows' = vectorRows
  BY DEF PruneBudgets
<1>2. \A b \in pruned : b \notin Named
  OBVIOUS
<1> HIDE DEF pruned
<1>3. /\ Now'.used = used' /\ Now'.spent = spent' /\ Now'.reservations = Now.reservations
      /\ Now'.vectorRows = Now.vectorRows /\ Now.used = used /\ Now.spent = spent
  BY <1>1 DEF Now
<1>4. \A b \in Budgets : Held(Now', b) = Held(Now, b)
  BY <1>3 DEF Held, Holding
<1>5. ASSUME NEW b \in Budgets PROVE Now'.used[b] = Held(Now', b) + Now'.spent[b]
  <2>1. used[b] = Held(Now, b) + spent[b]
    BY <1>3 DEF CountersExact, Balanced
  <2>2. CASE b \in pruned
    <3>1. Held(Now, b) = 0
      BY <1>2, <2>2, UnnamedHeld DEF CountersExact
    <3>2. used'[b] = 0 /\ spent'[b] = 0
      BY <1>1, <2>2
    <3> QED BY <1>3, <1>4, <3>1, <3>2
  <2>3. CASE b \notin pruned
    <3>1. used'[b] = used[b] /\ spent'[b] = spent[b]
      BY <1>1, <2>3
    <3> QED BY <1>3, <1>4, <2>1, <3>1
  <2> QED BY <2>2, <2>3
<1>6. Names(Now')
  BY <1>3 DEF CountersExact, Names
<1> QED
  BY <1>5, <1>6 DEF CountersExact, Balanced

(* Every step keeps the rows exact.                                        *)
LEMMA StepExact ==
  ASSUME TablesAgree, CountersExact, [Next]_vars
  PROVE  CountersExact'
<1>0. Balanced(Now) /\ Names(Now)
  BY DEF CountersExact
<1>1. Step \/ UNCHANGED storeVars
  BY StepShape
<1>2. CASE Cleans
  <2>1. PICK E \in SUBSET DueLeases, F \in SUBSET DueTombstones : Become(budgets, Recovered(E, F))
    BY <1>2 DEF Cleans
  <2>2. Balanced(Recovered(E, F)) /\ Names(Recovered(E, F))
    BY <1>0, RecoveredBalanced
  <2> QED BY <2>1, <2>2, BecomeExact
<1>3. ASSUME NEW E \in SUBSET DueLeases, NEW F \in SUBSET DueTombstones, NEW op \in Operations,
             NEW charge \in Charges, NEW lim \in Limits, NEW ttl \in Ttls,
             Admits(E, F, op, charge, lim, ttl)
      PROVE  CountersExact'
  <2> DEFINE put == Admission(Recovered(E, F), op, charge, ttl)
  <2>1. Balanced(put) /\ Names(put)
    BY <1>0, <1>3, AdmitsBalanced
  <2>2. Become(budgets \cup charge.keys, put)
    BY <1>3 DEF Admits
  <2> HIDE DEF put
  <2> QED BY <2>1, <2>2, BecomeExact
<1>4. ASSUME NEW op \in Operations, NEW r \in ReservationRow, NEW g \in GrowthRow,
             NEW v \in VectorRow, NEW u \in [Budgets -> Nat], NEW s \in [Budgets -> Nat],
             Changes(op, r, g, v, u, s)
      PROVE  CountersExact'
  <2> DEFINE put == Put(Now, op, r, g, v, u, s)
  <2>1. Balanced(put) /\ Names(put)
    BY <1>0, <1>4, ChangesBalanced
  <2>2. Become(budgets, put)
    BY <1>4 DEF Changes
  <2> HIDE DEF put
  <2> QED BY <2>1, <2>2, BecomeExact
<1>5. ASSUME NEW candidates \in SUBSET Budgets, PruneBudgets(candidates)
      PROVE  CountersExact'
  BY <1>5, PrunesExact
<1>6. CASE UNCHANGED storeVars
  <2>1. Become(budgets, Now)
    BY <1>6 DEF storeVars, Become, Now
  <2> QED BY <1>0, <2>1, BecomeExact
<1> QED
  BY <1>1, <1>2, <1>3, <1>4, <1>5, <1>6 DEF Step

(* Every budget row stays exactly what the open reservations of all three  *)
(* tables hold of it and what was charged since the row was pruned: MAX(0, *)
(* used - ?) never takes effect, and no UPDATE misses its row.             *)
THEOREM RowsStayExact == ObjectSpec => [](TablesAgree /\ CountersExact)
<1>1. ObjectInit => TablesAgree /\ CountersExact
  BY InitAgrees, InitExact, AdoptedShape, AdoptedAgrees, AdoptedExact DEF ObjectInit
<1>2. TablesAgree /\ CountersExact /\ [ObjectNext]_objectVars => (TablesAgree /\ CountersExact)'
  BY ObjectStep, StepAgrees, StepExact
<1> QED
  BY <1>1, <1>2, PTL DEF ObjectSpec
-----------------------------------------------------------------------------
(* The calls implement the ledger.                                         *)

EntryOf(r, v) == [state |-> r.state, reserved |-> UnitsIn(r, v), actual |-> ActualIn(r, v)]
EntriesIn(t) == [op \in Operations |-> EntryOf(t.reservations[op], t.vectorRows[op])]

(* What a step that leaves the tables t charges of a budget.               *)
ChargedIn(t, b) ==
  [op \in Operations |->
     IF Open(op) /\ t.reservations[op].state = "settled"
       THEN ActualIn(t.reservations[op], t.vectorRows[op])[b] ELSE 0]

LEMMA LedgerTotal ==
  ASSUME NEW f
  PROVE  Ledger!Total(f) = Total(f)
BY DEF Ledger!Total, Ledger!UnitsOf, Ledger!Cardinality, Total, UnitsOf, Cardinality

LEMMA EntriesBefore == Entries = EntriesIn(Now)
BY DEF Entries, EntriesIn, EntryOf, Now, Reserved, IsVector, UnitsIn, ActualIn

LEMMA EntriesAfter ==
  ASSUME NEW rows, NEW t, Become(rows, t)
  PROVE  Entries' = EntriesIn(t)
BY DEF Become, Entries, EntriesIn, EntryOf, Reserved, IsVector, UnitsIn, ActualIn

LEMMA EntryIs ==
  ASSUME NEW t, NEW op \in Operations
  PROVE  LET e == EntriesIn(t)[op]
         IN  /\ e.state = t.reservations[op].state
             /\ e.reserved = UnitsIn(t.reservations[op], t.vectorRows[op])
             /\ e.actual = ActualIn(t.reservations[op], t.vectorRows[op])
             /\ Ledger!Open(e) <=> OpenRow(t.reservations[op])
BY DEF EntriesIn, EntryOf, Ledger!Open, OpenRow

LEMMA LedgerHeld ==
  ASSUME NEW t, NEW b \in Budgets
  PROVE  Ledger!HeldBy(EntriesIn(t), b) = Held(t, b)
<1> DEFINE held == [op \in Operations |->
             IF Ledger!Open(EntriesIn(t)[op]) THEN EntriesIn(t)[op].reserved[b] ELSE 0]
<1>1. Ledger!HeldBy(EntriesIn(t), b) = Total(held)
  BY LedgerTotal DEF Ledger!HeldBy
<1>2. ASSUME NEW op \in Operations PROVE held[op] = Holding(t, b)[op]
  BY EntryIs DEF Holding
<1>3. held = Holding(t, b)
  BY <1>2 DEF Holding
<1> QED
  BY <1>1, <1>3 DEF Held

LEMMA LedgerCharged ==
  ASSUME NEW t, Entries' = EntriesIn(t), NEW b \in Budgets
  PROVE  Ledger!Charged(b) = Total(ChargedIn(t, b))
<1> DEFINE charged == [op \in Operations |->
             IF Ledger!Open(Entries[op]) /\ Entries'[op].state = "settled"
               THEN Entries'[op].actual[b] ELSE 0]
<1>1. Ledger!Charged(b) = Total(charged)
  BY LedgerTotal DEF Ledger!Charged
<1>2. ASSUME NEW op \in Operations PROVE charged[op] = ChargedIn(t, b)[op]
  <2>1. Ledger!Open(Entries[op]) <=> Open(op)
    BY EntriesBefore, EntryIs DEF Now, Open, OpenRow
  <2>2. /\ Entries'[op].state = t.reservations[op].state
        /\ Entries'[op].actual = ActualIn(t.reservations[op], t.vectorRows[op])
    BY EntryIs
  <2> QED BY <2>1, <2>2 DEF ChargedIn
<1>3. charged = ChargedIn(t, b)
  BY <1>2 DEF ChargedIn
<1> QED
  BY <1>1, <1>3

LEMMA ChargedType ==
  ASSUME NEW rows, NEW t, Consistent(rows, t), NEW b \in Budgets
  PROVE  ChargedIn(t, b) \in [Operations -> Nat]
<1>1. ASSUME NEW op \in Operations
      PROVE  ActualIn(t.reservations[op], t.vectorRows[op])[b] \in Nat
  <2>1. t.reservations[op] \in ReservationRow /\ t.vectorRows[op] \in VectorRow
    BY DEF Consistent
  <2>2. ActualIn(t.reservations[op], t.vectorRows[op]) \in [Budgets -> Nat]
    BY <2>1, RowUnits
  <2> QED BY <2>2
<1> QED
  BY <1>1 DEF ChargedIn

(* The books of the ledger after a step that leaves the tables t.          *)
LEMMA LedgerBooks ==
  ASSUME NEW rows, NEW t, Consistent(rows, t), Balanced(t), Become(rows, t)
  PROVE  used' = [b \in Budgets |-> Ledger!HeldBy(Entries', b) + spent'[b]]
<1>1. Entries' = EntriesIn(t)
  BY EntriesAfter
<1>2. ASSUME NEW b \in Budgets
      PROVE  used'[b] = Ledger!HeldBy(EntriesIn(t), b) + spent'[b]
  BY LedgerHeld DEF Balanced, Become
<1>3. used' \in [Budgets -> Nat]
  BY DEF Become, Consistent
<1> QED
  BY <1>1, <1>2, <1>3

(* An operation that a step is not about expires or stays as it is.        *)
LEMMA LapseExpires ==
  ASSUME NEW t, NEW op \in Operations, Lapses(t, op)
  PROVE  Ledger!Expires(Entries[op], EntriesIn(t)[op])
<1>1. /\ Entries[op].state = reservations[op].state /\ Entries[op].reserved = Reserved(op)
  BY DEF Entries
<1>2. /\ EntriesIn(t)[op].state = t.reservations[op].state
      /\ EntriesIn(t)[op].actual = ActualIn(t.reservations[op], t.vectorRows[op])
  BY EntryIs
<1>3. CASE IsKept(t, op)
  <2>1. EntriesIn(t)[op] = Entries[op]
    BY <1>3, EntriesBefore DEF IsKept, EntriesIn, Now
  <2> QED BY <2>1 DEF Ledger!Expires
<1>4. ASSUME IsGone(t, op), reservations[op].state \in {"pending", "settled"}
      PROVE  Ledger!Expires(Entries[op], EntriesIn(t)[op])
  BY <1>1, <1>2, <1>4, NoRows DEF IsGone, Ledger!Expires
<1>5. ASSUME IsCharged(t, op), reservations[op].state = "liable"
      PROVE  Ledger!Expires(Entries[op], EntriesIn(t)[op])
  BY <1>1, <1>2, <1>5 DEF IsCharged, Ledger!Expires
<1> QED
  BY <1>3, <1>4, <1>5 DEF Lapses, DueTombstones

(* Cleanup charges exactly the liable leases that it settles.              *)
LEMMA RecoveredCharges ==
  ASSUME TablesAgree, NEW E \in SUBSET DueLeases, NEW F \in SUBSET DueTombstones, NEW b \in Budgets
  PROVE  Total(ChargedIn(Recovered(E, F), b)) = ReservedBy(ChargedOf(E))[b]
<1> DEFINE t == Recovered(E, F)
           part == [op \in Operations |-> IF op \in ChargedOf(E) THEN Reserved(op)[b] ELSE 0]
<1>1. ASSUME NEW op \in Operations PROVE ChargedIn(t, b)[op] = part[op]
  <2>1. /\ op \in PendingOf(E) \cup F => IsGone(t, op)
        /\ op \in ChargedOf(E) => IsCharged(t, op)
        /\ op \notin E \cup F => IsKept(t, op)
    BY RecoveredFates
  <2>2. /\ op \in E => Open(op)
        /\ op \in ChargedOf(E) => op \in E
        /\ op \in E => op \in PendingOf(E) \/ op \in ChargedOf(E)
        /\ op \in PendingOf(E) \cup F => op \notin ChargedOf(E)
    BY DEF DueLeases, DueTombstones, IsExpired, Open, PendingOf, ChargedOf
  <2> HIDE DEF t
  <2>3. CASE op \in ChargedOf(E)
    BY <2>1, <2>2, <2>3 DEF IsCharged, ChargedIn
  <2>4. CASE op \in PendingOf(E) \cup F
    BY <2>1, <2>2, <2>4, NoRows DEF IsGone, ChargedIn
  <2>5. CASE op \notin E \cup F
    BY <2>1, <2>2, <2>5 DEF IsKept, ChargedIn, Open
  <2> QED BY <2>2, <2>3, <2>4, <2>5
<1>2. ChargedIn(t, b) = part
  BY <1>1 DEF ChargedIn
<1> QED
  BY <1>2, ReservedByType

(* Cleanup alone is a ledger step that retires nothing.                    *)
LEMMA CleansLedger ==
  ASSUME TablesAgree, CountersExact, Cleans
  PROVE  Ledger!Retire({})
<1>1. PICK E \in SUBSET DueLeases, F \in SUBSET DueTombstones : Become(budgets, Recovered(E, F))
  BY DEF Cleans
<1> DEFINE t == Recovered(E, F)
<1>2. Consistent(budgets, t) /\ Balanced(t)
  BY RecoveredConsistent, RecoveredBalanced DEF CountersExact
<1>3. \A op \in Operations : Lapses(t, op)
  BY RecoveredLapses
<1>4. \A b \in Budgets : Total(ChargedIn(t, b)) = ReservedBy(ChargedOf(E))[b]
  BY RecoveredCharges
<1>5. t.spent = Plus(spent, ReservedBy(ChargedOf(E)))
  BY RecoveredUsed
<1> HIDE DEF t
<1>6. Become(budgets, t)
  BY <1>1 DEF t
<1>7. Entries' = EntriesIn(t)
  BY <1>6, EntriesAfter
<1>8. \A op \in Operations : Ledger!Expires(Entries[op], Entries'[op])
  BY <1>3, <1>7, LapseExpires
<1>9. spent' = [b \in Budgets |-> IF b \in {} THEN 0 ELSE spent[b] + Ledger!Charged(b)]
  <2>1. \A b \in Budgets : Ledger!Charged(b) = ReservedBy(ChargedOf(E))[b]
    BY <1>4, <1>7, LedgerCharged
  <2>2. spent' = Plus(spent, ReservedBy(ChargedOf(E)))
    BY <1>5, <1>6 DEF Become
  <2> QED BY <2>1, <2>2 DEF Plus
<1>10. used' = [b \in Budgets |-> Ledger!HeldBy(Entries', b) + spent'[b]]
  BY <1>2, <1>6, LedgerBooks
<1> QED
  BY <1>8, <1>9, <1>10 DEF Ledger!Retire

(* Admission within what a limit leaves stays within the limit.            *)
LEMMA QuoteKept ==
  ASSUME NEW c \in Charges \cup Growths, NEW lim \in Limits, NEW u \in [Budgets -> Nat],
         WithinLimits(c, lim, u), NEW b \in Budgets
  PROVE  u[b] + c.units[b] <= u[b] \/ u[b] + c.units[b] <= lim[b]
<1>1. /\ c.units \in [Budgets -> Nat] /\ lim \in [Budgets -> Nat]
      /\ \A d \in Budgets \ c.keys : c.units[d] = 0
  BY ChargeTypes, ConstantTypes
<1>2. c.units[b] \in Nat /\ lim[b] \in Nat /\ u[b] \in Nat
  BY <1>1
<1>3. CASE b \in c.keys
  <2>1. c.units[b] <= ClampedSub(lim[b], u[b])
    BY <1>3 DEF WithinLimits
  <2> QED BY <1>2, <2>1 DEF ClampedSub
<1>4. CASE b \notin c.keys
  BY <1>1, <1>2, <1>4
<1> QED
  BY <1>3, <1>4
-----------------------------------------------------------------------------
(* Cleanup and admission together are one ledger call, as is a request on  *)
(* an active reservation.                                                  *)
LEMMA AdmitsLedger ==
  ASSUME TablesAgree, CountersExact,
         NEW E \in SUBSET DueLeases, NEW F \in SUBSET DueTombstones, NEW op \in Operations,
         NEW charge \in Charges, NEW lim \in Limits, NEW ttl \in Ttls,
         Admits(E, F, op, charge, lim, ttl)
  PROVE  Ledger!Call
<1> DEFINE t == Recovered(E, F)
           r == PendingReservation(charge, ttl)
           v == AdmittedRow(t, op, charge)
           u == Plus(t.used, charge.units)
           put == Put(t, op, r, FirstCursor, v, u, t.spent)
           rows == budgets \cup charge.keys
<1>0. Balanced(Now) /\ Names(Now)
  BY DEF CountersExact
<1>1. Consistent(budgets, t) /\ \A b \in Budgets : t.used[b] <= used[b]
  BY <1>0, RecoveredConsistent, RecoveredBalanced
<1>2. \A o \in Operations : Lapses(t, o)
  BY RecoveredLapses
<1>3. \A b \in Budgets : Total(ChargedIn(t, b)) = ReservedBy(ChargedOf(E))[b]
  BY RecoveredCharges
<1>4. t.spent = Plus(spent, ReservedBy(ChargedOf(E)))
  BY RecoveredUsed
<1>5. t.reservations[op].state = "absent" /\ WithinLimits(charge, lim, t.used)
  BY DEF Admits
<1>6. Become(rows, put)
  BY DEF Admits, Admission
<1>7. Consistent(rows, put)
  BY AdmitsConsistent DEF Admission
<1>8. Balanced(put)
  BY <1>0, AdmitsBalanced DEF Admission
<1> HIDE DEF t, rows
<1>9. r.state = "pending"
  BY <1>1, <1>5, AdmissionRows
<1> HIDE DEF r, v
<1>10. /\ put.reservations[op] = r /\ put.used = u /\ put.spent = t.spent
       /\ \A o \in Operations \ {op} :
            put.reservations[o] = t.reservations[o] /\ put.vectorRows[o] = t.vectorRows[o]
  BY <1>1, PutIs
<1> HIDE DEF put
<1>11. Entries' = EntriesIn(put)
  BY <1>6, EntriesAfter
<1>12. used' = put.used /\ spent' = put.spent
  BY <1>6 DEF Become
<1>13. ASSUME NEW o \in Operations \ {op}
       PROVE  Ledger!Expires(Entries[o], Entries'[o])
  <2>1. EntriesIn(put)[o] = EntriesIn(t)[o]
    BY <1>10 DEF EntriesIn
  <2> QED BY <1>2, <1>11, <2>1, LapseExpires
<1>14. Ledger!Changes(Entries[op], Entries'[op])
  <2>1. Entries'[op].state = "pending"
    BY <1>9, <1>10, <1>11, EntryIs
  <2>2. /\ Entries[op].state = reservations[op].state
        /\ Ledger!Open(Entries[op]) <=> OpenRow(reservations[op])
    BY EntriesBefore, EntryIs DEF Now
  <2>3. reservations[op].state \notin {"liable"}
    BY <1>2, <1>5 DEF Lapses, IsKept, IsGone, IsCharged, DueTombstones
  <2> QED BY <2>1, <2>2, <2>3 DEF Ledger!Changes, OpenRow
<1>15. spent' = [b \in Budgets |-> spent[b] + Ledger!Charged(b)]
  <2>1. ASSUME NEW b \in Budgets PROVE Ledger!Charged(b) = ReservedBy(ChargedOf(E))[b]
    <3>1. ASSUME NEW o \in Operations PROVE ChargedIn(put, b)[o] = ChargedIn(t, b)[o]
      <4>1. CASE o = op
        BY <1>5, <1>9, <1>10, <4>1 DEF ChargedIn
      <4>2. CASE o # op
        BY <1>10, <4>2 DEF ChargedIn
      <4> QED BY <4>1, <4>2
    <3>2. ChargedIn(put, b) = ChargedIn(t, b)
      BY <3>1 DEF ChargedIn
    <3> QED BY <1>3, <1>11, <3>2, LedgerCharged
  <2> QED BY <1>4, <1>10, <1>12, <2>1 DEF Plus
<1>16. used' = [b \in Budgets |-> Ledger!HeldBy(Entries', b) + spent'[b]]
  BY <1>6, <1>7, <1>8, LedgerBooks
<1>17. Ledger!WithinQuote
  <2>1. ASSUME NEW b \in Budgets PROVE used'[b] > used[b] => used'[b] <= lim[b]
    <3>1. t.used \in [Budgets -> Nat] /\ charge.units \in [Budgets -> Nat] /\ lim \in [Budgets -> Nat]
      BY <1>1, ChargeTypes, ConstantTypes DEF Consistent
    <3>2. t.used[b] + charge.units[b] <= t.used[b] \/ t.used[b] + charge.units[b] <= lim[b]
      BY <1>5, <3>1, QuoteKept
    <3>3. used'[b] = t.used[b] + charge.units[b]
      BY <1>10, <1>12 DEF Plus
    <3>4. /\ used[b] \in Nat /\ t.used[b] \in Nat /\ charge.units[b] \in Nat /\ lim[b] \in Nat
      BY <3>1, NowIs
    <3> QED BY <1>1, <3>2, <3>3, <3>4
  <2> QED BY <2>1 DEF Ledger!WithinQuote
<1> QED
  BY <1>13, <1>14, <1>15, <1>16, <1>17 DEF Ledger!Call

LEMMA ChangesLedger ==
  ASSUME TablesAgree, CountersExact,
         NEW op \in Operations, NEW r \in ReservationRow, NEW g \in GrowthRow,
         NEW v \in VectorRow, NEW u \in [Budgets -> Nat], NEW s \in [Budgets -> Nat],
         Changes(op, r, g, v, u, s)
  PROVE  Ledger!Call
<1> DEFINE put == Put(Now, op, r, g, v, u, s)
           q == Reserved(op)
           state == reservations[op].state
           charged == IF r.state = "settled" THEN ActualIn(r, v) ELSE NoUnits
<1>1. /\ state \in {"pending", "liable"} /\ BudgetIds(op) \subseteq budgets /\ Become(budgets, put)
      /\ Relabels(op, r, g, v, u, s) \/ Grows(op, r, g, v, u, s) \/ Settles(op, r, g, v, u, s)
  BY ActiveOpen DEF Changes
<1>2. Consistent(budgets, Now) /\ \A b \in Budgets : used[b] \in Nat /\ spent[b] \in Nat
  BY NowIs
<1>3. Consistent(budgets, put) /\ Balanced(put)
  BY ChangesConsistent, ChangesBalanced DEF CountersExact
<1>4. /\ q \in [Budgets -> Nat] /\ used \in [Budgets -> Nat] /\ spent \in [Budgets -> Nat]
      /\ ActualIn(r, v) \in [Budgets -> Nat]
  BY ReservedType, RowTypes, RowUnits
<1>5. /\ put.reservations[op] = r /\ put.vectorRows[op] = v /\ put.used = u /\ put.spent = s
      /\ \A o \in Operations \ {op} :
           put.reservations[o] = Now.reservations[o] /\ put.vectorRows[o] = Now.vectorRows[o]
  BY <1>2, PutIs
<1> HIDE DEF put
<1>6. Entries' = EntriesIn(put) /\ used' = u /\ spent' = s
  BY <1>1, <1>5, EntriesAfter DEF Become
<1>7. ASSUME NEW o \in Operations \ {op} PROVE Ledger!Expires(Entries[o], Entries'[o])
  <2>1. EntriesIn(put)[o] = EntriesIn(Now)[o]
    BY <1>5 DEF EntriesIn
  <2> QED BY <1>6, <2>1, EntriesBefore DEF Ledger!Expires
<1>8. /\ Entries[op].state = state /\ Entries[op].reserved = q /\ Ledger!Open(Entries[op])
      /\ Entries'[op].state = r.state /\ Entries'[op].reserved = UnitsIn(r, v)
      /\ Entries'[op].actual = ActualIn(r, v)
  <2>1. Entries[op].state = state /\ Entries[op].reserved = q
    BY DEF Entries
  <2>2. Ledger!Open(Entries[op])
    BY <1>1, <2>1 DEF Ledger!Open
  <2>3. /\ Entries'[op].state = r.state /\ Entries'[op].reserved = UnitsIn(r, v)
        /\ Entries'[op].actual = ActualIn(r, v)
    BY <1>5, <1>6, EntryIs
  <2> QED BY <2>1, <2>2, <2>3
<1>9. ASSUME NEW b \in Budgets PROVE Ledger!Charged(b) = charged[b] /\ charged[b] \in Nat
  <2> DEFINE none == [o \in Operations |-> 0]
  <2>1. ChargedIn(put, b)[op] = charged[b]
    BY <1>1, <1>5 DEF ChargedIn, Open, NoUnits
  <2>2. \A o \in Operations \ {op} : ChargedIn(put, b)[o] = 0
    BY <1>5 DEF ChargedIn, Open, Now
  <2>3. ChargedIn(put, b) \in [Operations -> Nat]
    BY <1>3, ChargedType
  <2>4. /\ none \in [Operations -> Nat] /\ none[op] = 0 /\ \A o \in Operations : none[o] = 0
        /\ \A o \in Operations \ {op} : ChargedIn(put, b)[o] = none[o]
    BY <2>2
  <2> HIDE DEF none, charged
  <2>5. Total(none) = 0
    BY <2>4, TotalZero
  <2>6. Total(ChargedIn(put, b)) = Total(none) - none[op] + ChargedIn(put, b)[op]
    BY <2>3, <2>4, ConstantTypes, TotalChange
  <2>7. ChargedIn(put, b)[op] \in Nat
    BY <2>3
  <2>8. Ledger!Charged(b) = Total(ChargedIn(put, b))
    BY <1>6, LedgerCharged
  <2> QED BY <2>1, <2>4, <2>5, <2>6, <2>7, <2>8
<1>10. used' = [b \in Budgets |-> Ledger!HeldBy(Entries', b) + spent'[b]]
  BY <1>1, <1>3, LedgerBooks
<1>11. \A b \in Budgets : q[b] \in Nat
  BY <1>4
<1> HIDE DEF q, state
<1>12. ASSUME r.state # "settled", s = spent
       PROVE  spent' = [b \in Budgets |-> spent[b] + Ledger!Charged(b)]
  <2>1. \A b \in Budgets : Ledger!Charged(b) = 0
    BY <1>9, <1>12 DEF NoUnits
  <2> QED BY <1>2, <1>4, <1>6, <1>12, <2>1
<1>13. CASE Relabels(op, r, g, v, u, s)
  <2>1. r.state \in {state, "liable"} /\ UnitsIn(r, v) = q /\ u = used /\ s = spent
    BY <1>13 DEF Relabels, UnitsIn, Reserved, IsVector, q, state
  <2>2. Ledger!Changes(Entries[op], Entries'[op])
    BY <1>1, <1>8, <1>11, <2>1 DEF Ledger!Changes
  <2>3. Ledger!WithinQuote
    BY <1>2, <1>6, <2>1 DEF Ledger!WithinQuote
  <2>4. spent' = [b \in Budgets |-> spent[b] + Ledger!Charged(b)]
    BY <1>1, <1>12, <2>1
  <2> QED BY <1>7, <1>10, <2>2, <2>3, <2>4 DEF Ledger!Call
<1>14. CASE Grows(op, r, g, v, u, s)
  <2>1. r.state = state /\ s = spent
    BY <1>14 DEF Grows, state
  <2>2. spent' = [b \in Budgets |-> spent[b] + Ledger!Charged(b)]
    BY <1>1, <1>12, <2>1
  <2>3. CASE UnitsIn(r, v) = q /\ u = used
    <3>1. Ledger!Changes(Entries[op], Entries'[op])
      BY <1>1, <1>8, <1>11, <2>1, <2>3 DEF Ledger!Changes
    <3>2. Ledger!WithinQuote
      BY <1>2, <1>6, <2>3 DEF Ledger!WithinQuote
    <3> QED BY <1>7, <1>10, <2>2, <3>1, <3>2 DEF Ledger!Call
  <2>4. ASSUME NEW add \in Growths, NEW lim \in Limits,
               add.keys = BudgetIds(op), WithinLimits(add, lim, used),
               UnitsIn(r, v) = Plus(q, add.units), u = Added(used, add.units)
        PROVE  Ledger!Call
    <3>1. /\ add.units \in [Budgets -> Nat] /\ \A b \in Budgets \ BudgetIds(op) : add.units[b] = 0
          /\ lim \in [Budgets -> Nat]
      BY <2>4, ChargeTypes, ConstantTypes
    <3>2. \A b \in Budgets : u[b] = used[b] + add.units[b]
      BY <1>1, <1>4, <2>4, <3>1, AddedIs
    <3>3. \A b \in Budgets : add.units[b] \in Nat /\ lim[b] \in Nat
      BY <3>1
    <3>4. \A b \in Budgets : UnitsIn(r, v)[b] >= q[b]
      BY <1>11, <2>4, <3>3 DEF Plus
    <3>5. Ledger!Changes(Entries[op], Entries'[op])
      BY <1>1, <1>8, <2>1, <3>4 DEF Ledger!Changes
    <3>6. ASSUME NEW b \in Budgets PROVE used'[b] > used[b] => used'[b] <= lim[b]
      <4>1. used[b] + add.units[b] <= used[b] \/ used[b] + add.units[b] <= lim[b]
        BY <1>4, <2>4, QuoteKept
      <4> QED BY <1>2, <1>6, <3>2, <3>3, <4>1
    <3>7. Ledger!WithinQuote
      BY <3>6 DEF Ledger!WithinQuote
    <3> QED BY <1>7, <1>10, <2>2, <3>5, <3>7 DEF Ledger!Call
  <2> QED BY <1>14, <2>3, <2>4 DEF Grows, q
<1>15. CASE Settles(op, r, g, v, u, s)
  <2>1. PICK actual \in Actuals :
          /\ \A b \in Budgets : actual[b] <= q[b]
          /\ ActualIn(r, v) = actual
          /\ u = Released(used, Minus(q, actual)) /\ s = Plus(spent, actual)
    BY <1>15 DEF Settles, q
  <2>2. r.state = "settled" /\ UnitsIn(r, v) = q
    BY <1>15 DEF Settles, q
  <2>3. Ledger!Changes(Entries[op], Entries'[op])
    BY <1>8, <2>1, <2>2 DEF Ledger!Changes
  <2>4. spent' = [b \in Budgets |-> spent[b] + Ledger!Charged(b)]
    <3>1. \A b \in Budgets : Ledger!Charged(b) = actual[b]
      BY <1>9, <2>1, <2>2
    <3> QED BY <1>6, <2>1, <3>1 DEF Plus
  <2>5. ASSUME NEW b \in Budgets PROVE used'[b] <= used[b]
    <3>1. actual[b] \in Nat
      BY ConstantTypes
    <3>2. Minus(q, actual)[b] = q[b] - actual[b]
      BY DEF Minus
    <3>3. u[b] = IF b \in budgets THEN ClampedSub(used[b], Minus(q, actual)[b]) ELSE used[b]
      BY <2>1 DEF Released
    <3> QED BY <1>2, <1>6, <1>11, <2>1, <3>1, <3>2, <3>3 DEF ClampedSub
  <2>6. Ledger!WithinQuote
    BY <2>5 DEF Ledger!WithinQuote
  <2> QED BY <1>7, <1>10, <2>3, <2>4, <2>6 DEF Ledger!Call
<1> QED
  BY <1>1, <1>13, <1>14, <1>15

(* Pruning budgets retires them in the ledger.                             *)
LEMMA PrunesLedger ==
  ASSUME TablesAgree, CountersExact, CountersExact',
         NEW candidates \in SUBSET Budgets, PruneBudgets(candidates)
  PROVE  Ledger!Retire((candidates \cap budgets) \ Named)
<1> DEFINE pruned == (candidates \cap budgets) \ Named
<1>1. /\ used' = [b \in Budgets |-> IF b \in pruned THEN 0 ELSE used[b]]
      /\ spent' = [b \in Budgets |-> IF b \in pruned THEN 0 ELSE spent[b]]
      /\ reservations' = reservations /\ vectorRows' = vectorRows
  BY DEF PruneBudgets
<1>2. \A b \in pruned : b \notin Named /\ b \in Budgets
  OBVIOUS
<1>3. Consistent(budgets, Now) /\ \A b \in Budgets : used[b] \in Nat /\ spent[b] \in Nat
  BY NowIs
<1> HIDE DEF pruned
<1>4. Entries' = Entries
  BY <1>1 DEF Entries, Reserved, IsVector
<1>5. Entries' = EntriesIn(Now)
  BY <1>4, EntriesBefore
<1>6. \A op \in Operations : Ledger!Expires(Entries[op], Entries'[op])
  BY <1>4 DEF Ledger!Expires
<1>7. ASSUME NEW b \in Budgets PROVE Ledger!Charged(b) = 0
  <2>1. ChargedIn(Now, b) \in [Operations -> Nat]
    BY <1>3, ChargedType
  <2>2. \A op \in Operations : ChargedIn(Now, b)[op] = 0
    BY DEF ChargedIn, Now, Open
  <2> QED BY <1>5, <2>1, <2>2, LedgerCharged, TotalZero
<1>8. ASSUME NEW b \in Budgets
      PROVE  /\ Ledger!HeldBy(Entries', b) = Held(Now, b)
             /\ used[b] = Held(Now, b) + spent[b]
             /\ b \in pruned => Held(Now, b) = 0
  <2>1. used[b] = Held(Now, b) + spent[b]
    BY NowIs DEF CountersExact, Balanced
  <2>2. b \in pruned => Held(Now, b) = 0
    BY <1>2, UnnamedHeld DEF CountersExact
  <2> QED BY <1>5, <2>1, <2>2, LedgerHeld
<1>9. used' = [b \in Budgets |-> Ledger!HeldBy(Entries', b) + spent'[b]]
  <2>1. ASSUME NEW b \in Budgets PROVE used'[b] = Ledger!HeldBy(Entries', b) + spent'[b]
    BY <1>1, <1>8
  <2> QED BY <1>1, <2>1
<1>10. spent' = [b \in Budgets |-> IF b \in pruned THEN 0 ELSE spent[b] + Ledger!Charged(b)]
  <2>1. ASSUME NEW b \in Budgets
        PROVE  spent'[b] = IF b \in pruned THEN 0 ELSE spent[b] + Ledger!Charged(b)
    BY <1>1, <1>3, <1>7
  <2> QED BY <1>1, <2>1
<1>11. \A b \in pruned : Ledger!HeldBy(Entries', b) = 0
  BY <1>2, <1>8
<1> QED
  BY <1>6, <1>9, <1>10, <1>11 DEF Ledger!Retire, pruned

(* Every step is a ledger step or none.                                    *)
LEMMA LedgerStep ==
  ASSUME TablesAgree, CountersExact, CountersExact', [Next]_vars
  PROVE  [Ledger!LedgerNext]_(Ledger!ledgerVars)
<1>1. CASE UNCHANGED storeVars
  <2>1. Entries' = Entries
    BY <1>1 DEF storeVars, Entries, Reserved, IsVector
  <2> QED BY <1>1, <2>1 DEF storeVars, Ledger!ledgerVars
<1>2. CASE Cleans
  <2>1. Ledger!Retire({})
    BY <1>2, CleansLedger
  <2> QED BY <2>1 DEF Ledger!LedgerNext
<1>3. ASSUME NEW E \in SUBSET DueLeases, NEW F \in SUBSET DueTombstones, NEW op \in Operations,
             NEW charge \in Charges, NEW lim \in Limits, NEW ttl \in Ttls,
             Admits(E, F, op, charge, lim, ttl)
      PROVE  Ledger!LedgerNext
  BY <1>3, AdmitsLedger DEF Ledger!LedgerNext
<1>4. ASSUME NEW op \in Operations, NEW r \in ReservationRow, NEW g \in GrowthRow,
             NEW v \in VectorRow, NEW u \in [Budgets -> Nat], NEW s \in [Budgets -> Nat],
             Changes(op, r, g, v, u, s)
      PROVE  Ledger!LedgerNext
  BY <1>4, ChangesLedger DEF Ledger!LedgerNext
<1>5. ASSUME NEW candidates \in SUBSET Budgets, PruneBudgets(candidates)
      PROVE  Ledger!LedgerNext
  <2>1. Ledger!Retire((candidates \cap budgets) \ Named)
    BY <1>5, PrunesLedger
  <2>2. (candidates \cap budgets) \ Named \in SUBSET Budgets
    OBVIOUS
  <2> QED BY <2>1, <2>2 DEF Ledger!LedgerNext
<1> QED
  BY <1>1, <1>2, <1>3, <1>4, <1>5, StepShape DEF Step

(* What the tables hold at first, of an adopted database too, are books    *)
(* that balance.                                                           *)
LEMMA LedgerStarts ==
  ASSUME TablesAgree, CountersExact
  PROVE  \A b \in Budgets : used[b] = Ledger!HeldBy(Entries, b) + spent[b]
BY EntriesBefore, LedgerHeld, NowIs DEF CountersExact, Balanced

(* The calls of the object implement the ledger from the books that an     *)
(* adopted database brings: bounded cleanup with the admission after it,   *)
(* recovery by the call that meets an expired row, and pruning are each    *)
(* one exact ledger step or none.                                          *)
THEOREM CallsImplementLedger == ObjectSpec => ImplementsLedger
<1>1. ObjectInit => TablesAgree /\ CountersExact
  BY InitAgrees, InitExact, AdoptedShape, AdoptedAgrees, AdoptedExact DEF ObjectInit
<1>2. TablesAgree /\ CountersExact /\ [ObjectNext]_objectVars => (TablesAgree /\ CountersExact)'
  BY ObjectStep, StepAgrees, StepExact
<1>3. TablesAgree /\ CountersExact /\ (TablesAgree /\ CountersExact)' /\ [ObjectNext]_objectVars =>
        [Ledger!LedgerNext]_(Ledger!ledgerVars)
  BY ObjectStep, LedgerStep
<1>4. TablesAgree /\ CountersExact => \A b \in Budgets : used[b] = Ledger!HeldBy(Entries, b) + spent[b]
  BY LedgerStarts
<1> QED
  BY <1>1, <1>2, <1>3, <1>4, PTL DEF ObjectSpec, ImplementsLedger, Ledger!LedgerContinued

-----------------------------------------------------------------------------
(* The schema of the database.                                             *)

(* What statements that leave what is there may make of a database.        *)
Extends(db, t) ==
  /\ \A n \in Tables : db.tables[n] # "missing" => t.tables[n] = db.tables[n]
  /\ \A n \in Indexes : db.indexes[n] # "missing" => t.indexes[n] = db.indexes[n]

(* What adoptOrCreateV1 and the checks of versions 1 and 2 have let pass.  *)
Accepted(db) ==
  \/ db.version = 0 /\ \A t \in V1Tables : db.tables[t] = "missing"
  \/ db.version = 0 /\ ValidV1(db, TRUE)
  \/ db.version = 1 /\ ValidV1(db, FALSE)
  \/ db.version = 2 /\ ValidV2(db)
  \/ db.version = 3

(* A transaction under way extends what it found, and has come to its end  *)
(* only with the version recorded; what is committed after it is whole.    *)
SchemaInv ==
  /\ database \in Schema /\ trial \in Schema
  /\ phase = "reading" => trial = [database EXCEPT !.hasVersion = TRUE]
  /\ phase = "migrating" =>
       /\ Accepted(database) /\ Extends(database, trial) /\ trial.hasVersion
       /\ statement \in 1..8 /\ (statement = 8 => trial.version = 3)
       /\ database.version = 3 => statement = 8 /\ trial = [database EXCEPT !.hasVersion = TRUE]
  /\ phase = "compatibility" => statement \in 1..7
  /\ phase \in {"compatibility", "up"} => Whole(database)

LEMMA StatementExtends ==
  ASSUME NEW db \in Schema, NEW t \in Schema, Extends(db, t), NEW name
  PROVE  /\ Executed(t, name) \in Schema /\ Executed(t, name).hasVersion = t.hasVersion
         /\ Extends(db, Executed(t, name))
<1>1. CASE name \in Tables
  <2>1. Executed(t, name) = [t EXCEPT !.tables[name] = Created(@)]
    BY <1>1 DEF Executed, Tables, V1Tables, Indexes
  <2>2. Created(t.tables[name]) \in Forms
    BY <1>1 DEF Created, Forms, Schema
  <2> QED BY <1>1, <2>1, <2>2 DEF Extends, Schema, Created
<1>2. CASE name \notin Tables /\ name \in Indexes
  <2>1. Executed(t, name) = [t EXCEPT !.indexes[name] = Created(@)]
    BY <1>2 DEF Executed
  <2>2. Created(t.indexes[name]) \in Forms
    BY <1>2 DEF Created, Forms, Schema
  <2> QED BY <1>2, <2>1, <2>2 DEF Extends, Schema, Created
<1>3. CASE name \notin Tables /\ name \notin Indexes
  <2>1. Executed(t, name) = [t EXCEPT !.version = SchemaVersion]
    BY <1>3 DEF Executed
  <2> QED BY <2>1 DEF Extends, Schema, SchemaVersion
<1> QED
  BY <1>1, <1>2, <1>3

LEMMA WholeForms ==
  ASSUME NEW db \in Schema, ValidV3(db)
  PROVE  /\ \A n \in Tables : db.tables[n] = "exact"
         /\ \A n \in Indexes : db.indexes[n] = "exact"
BY DEF ValidV3, ValidV2, ValidV1, HasTables, HasIndexes, Tables

(* CREATE ... IF NOT EXISTS on the current schema does nothing.            *)
LEMMA WholeStays ==
  ASSUME NEW db \in Schema, Whole(db), NEW name
  PROVE  Executed(db, name) = db
<1>1. /\ \A n \in Tables : db.tables[n] = "exact"
      /\ \A n \in Indexes : db.indexes[n] = "exact"
      /\ db.version = SchemaVersion
  BY WholeForms DEF Whole
<1>2. CASE name \in Tables
  BY <1>1, <1>2 DEF Executed, Created, Schema
<1>3. CASE name \notin Tables /\ name \in Indexes
  BY <1>1, <1>3 DEF Executed, Created, Schema
<1>4. CASE name \notin Tables /\ name \notin Indexes
  BY <1>1, <1>4 DEF Executed, Schema
<1> QED
  BY <1>2, <1>3, <1>4

(* What passes the last check was a database of this runtime.              *)
LEMMA CommitsWhole ==
  ASSUME SchemaInv, Commit
  PROVE  Recognized(database) /\ Whole(trial)
<1>1. /\ database \in Schema /\ trial \in Schema
      /\ phase = "migrating" /\ statement = 8 /\ ValidV3(trial)
      /\ Accepted(database) /\ Extends(database, trial) /\ trial.hasVersion /\ trial.version = 3
  BY DEF SchemaInv, Commit, Migration
<1>2. Whole(trial)
  BY <1>1 DEF Whole, SchemaVersion
<1>3. /\ \A n \in Tables : database.tables[n] # "other"
      /\ \A n \in Indexes : database.indexes[n] # "other"
  BY <1>1, WholeForms DEF Extends
<1>4. CASE database.version = 3
  <2>1. database.tables = trial.tables /\ database.indexes = trial.indexes
    BY <1>1, <1>4 DEF SchemaInv, Schema
  <2>2. ValidV3(database)
    BY <1>1, <2>1 DEF ValidV3, ValidV2, ValidV1, HasTables, HasIndexes
  <2> QED
    BY <1>2, <1>3, <1>4, <2>2
       DEF Recognized, SchemaVersion, ValidV3, ValidV2, ValidV1, HasTables, HasIndexes, V1Tables
<1>5. CASE database.version # 3
  <2>1. database.version \in 0..2
    BY <1>1, <1>5 DEF Accepted, ValidV1, HasIndexes
  <2>2. database.tables["budgets"] = database.tables["reservations"]
    BY <1>1, <1>5 DEF Accepted, ValidV2, ValidV1, HasTables, HasIndexes, V1Tables
  <2>3. /\ database.version >= 1 => ValidV1(database, FALSE)
        /\ database.version >= 2 => database.tables["reservation_growth"] = "exact"
    BY <1>1, <1>5, <2>1 DEF Accepted, ValidV2, ValidV1, HasTables, HasIndexes
  <2> QED BY <1>2, <1>3, <2>1, <2>2, <2>3 DEF Recognized, SchemaVersion, ValidV1, HasIndexes
<1> QED
  BY <1>4, <1>5

LEMMA SchemaStep ==
  ASSUME SchemaInv, [ObjectNext]_objectVars
  PROVE  /\ SchemaInv'
         /\ database' # database => Recognized(database) /\ Whole(database')
         /\ phase' = "up" => Whole(database')
<1>0. database \in Schema /\ trial \in Schema
  BY DEF SchemaInv
<1>1. CASE UNCHANGED schemaVars
  BY <1>1 DEF SchemaInv, schemaVars
<1>2. CASE Begin
  <2>1. [database EXCEPT !.hasVersion = TRUE] \in Schema
    BY <1>0 DEF Schema
  <2> QED BY <1>0, <1>2, <2>1 DEF Begin, SchemaInv
<1>3. CASE ReadVersion
  <2>1. /\ database' = database /\ trial' = trial /\ phase = "reading" /\ phase' = "migrating"
        /\ trial = [database EXCEPT !.hasVersion = TRUE]
    BY <1>3 DEF ReadVersion, SchemaInv
  <2>2. /\ trial.version = database.version /\ trial.tables = database.tables
        /\ trial.indexes = database.indexes /\ trial.hasVersion
    BY <1>0, <2>1 DEF Schema
  <2>3. ValidV1(trial, TRUE) = ValidV1(database, TRUE) /\ ValidV1(trial, FALSE) = ValidV1(database, FALSE)
        /\ ValidV2(trial) = ValidV2(database)
    BY <2>2 DEF ValidV2, ValidV1, HasTables, HasIndexes
  <2>4. Accepted(database) /\ statement' \in 1..8
    BY <1>3, <2>2, <2>3 DEF ReadVersion, Accepted, ValidV2, ValidV1, HasIndexes
  <2>5. /\ statement' = 8 => trial.version = 3
        /\ database.version = 3 => statement' = 8
    BY <1>3, <2>2 DEF ReadVersion, ValidV1, HasIndexes
  <2>6. Extends(database, trial)
    BY <2>2 DEF Extends
  <2> QED BY <1>0, <2>1, <2>2, <2>4, <2>5, <2>6 DEF SchemaInv
<1>4. CASE Migrate
  <2> DEFINE name == Migration[statement]
  <2>1. /\ phase = "migrating" /\ statement \in 1..7 /\ statement' = statement + 1
        /\ trial' = Executed(trial, name) /\ database' = database /\ phase' = phase
        /\ Accepted(database) /\ Extends(database, trial) /\ trial.hasVersion /\ database.version # 3
    BY <1>4 DEF Migrate, SchemaInv, Migration
  <2>2. statement = 7 => name = "version"
    BY DEF Migration
  <2>3. statement' = 8 => trial'.version = 3
    BY <1>0, <2>1, <2>2 DEF Executed, Schema, SchemaVersion, Tables, V1Tables, Indexes
  <2> HIDE DEF name
  <2>4. trial' \in Schema /\ trial'.hasVersion /\ Extends(database, trial')
    BY <1>0, <2>1, StatementExtends
  <2> QED BY <1>0, <2>1, <2>3, <2>4 DEF SchemaInv
<1>5. CASE Commit
  <2>1. Recognized(database) /\ Whole(trial)
    BY <1>5, CommitsWhole
  <2>2. /\ database' = trial /\ trial' = trial /\ phase' = "compatibility" /\ statement' = 1
    BY <1>5 DEF Commit
  <2> QED BY <1>0, <2>1, <2>2 DEF SchemaInv
<1>6. CASE EnsureSchema
  <2>1. /\ phase = "compatibility" /\ Whole(database) /\ statement \in 1..6
        /\ statement' = statement + 1 /\ phase' = phase
        /\ database' = Executed(database, Compatibility[statement]) /\ trial' = database'
    BY <1>6 DEF EnsureSchema, SchemaInv, Compatibility
  <2>2. database' = database
    BY <1>0, <2>1, WholeStays
  <2> QED BY <1>0, <2>1, <2>2 DEF SchemaInv
<1>7. CASE Constructed
  BY <1>0, <1>7 DEF Constructed, SchemaInv
<1>8. CASE Stop
  BY <1>0, <1>8 DEF Stop, SchemaInv
<1> QED
  BY <1>1, <1>2, <1>3, <1>4, <1>5, <1>6, <1>7, <1>8 DEF ObjectNext, objectVars, SchemaNext

(* initializeCloudflareUsageSchema takes the database from what it finds   *)
(* to the current schema in one step, or not at all, at whatever statement *)
(* it throws or the object is evicted; it does so only with a database of  *)
(* this runtime's versions; and ensureSchema, whose statements commit one  *)
(* by one, finds nothing to do.                                            *)
THEOREM SchemaChangesWhole == ObjectSpec => ChangesWhole
<1>1. ObjectInit => SchemaInv
  BY DEF ObjectInit, SchemaInit, SchemaInv, Database
<1>2. SchemaInv /\ [ObjectNext]_objectVars => SchemaInv'
  BY SchemaStep
<1>3. SchemaInv /\ [ObjectNext]_objectVars =>
        [/\ database' # database => Recognized(database) /\ Whole(database')
         /\ phase' = "up" => Whole(database')]_schemaVars
  BY SchemaStep
<1> QED
  BY <1>1, <1>2, <1>3, PTL DEF ObjectSpec, ChangesWhole

-----------------------------------------------------------------------------
(* The client.  What follows is about RemoteSpec.                          *)

HostState ==
  [step : Steps, charge : SUBSET RequestCharges, expiresAt : Nat, cursor : 0..MaxCursor,
   pinned : SUBSET GrowthRequests, settlement : SUBSET [actual : [Budgets -> Nat], outcome : Outcomes],
   runs : Nat, restarts : 0..MaxRestarts]

(* What a host sends.                                                      *)
Requests(h) ==
  [method : {"reserve"}, op : {OpOf[h]}, charge : Charges, limits : Limits, ttl : {TtlOf[h]}]
    \cup [method : {"mark_liable", "lookup"}, op : {OpOf[h]}]
    \cup [method : {"renew"}, op : {OpOf[h]}, ttl : Ttls]
    \cup [method : {"grow"}, op : {OpOf[h]}, increment : Increments, cursor : 1..MaxCursor - 1,
          add : Growths, limits : Limits]
    \cup [method : {"settle"}, op : {OpOf[h]}, mode : Modes, actual : Actuals, outcome : Outcomes]

(* Where a host is while it awaits a call.                                 *)
Awaits(host, method) ==
  /\ method = "reserve" => host.step = "asked"
  /\ method = "lookup" => host.step = "unsure"
  /\ method = "mark_liable" => host.step = "leased" /\ host.settlement = {}
  /\ method \in {"renew", "grow", "settle"} => host.step \in {"leased", "working", "recovering"}

CallOK(h, host, call) ==
  /\ call.phase \in {"idle", "sent", "answered", "backoff"}
  /\ call.phase = "idle" => call = NoCall
  /\ call.phase # "idle" =>
       /\ call.request \in Requests(h) /\ call.attempt \in 1..MaxAttempts
       /\ call.phase = "backoff" => Replayable(call.request) /\ call.attempt < MaxAttempts
       /\ Awaits(host, call.request.method)

(* The requests of a host that are under way or awaited, of which own are  *)
(* those that nobody awaits.                                               *)
Own(h, set) == {q \in set : q.op = OpOf[h]}
Awaited(call) == IF call.phase = "idle" THEN {} ELSE {call.request}

(* An operation has one settlement, and at most one admission under way.   *)
Linked(h, host, call, own) ==
  /\ host \in HostState /\ CallOK(h, host, call) /\ own \subseteq Requests(h)
  /\ \A q \in own \cup Awaited(call) : q.method = "settle" =>
       host.settlement = {[actual |-> q.actual, outcome |-> q.outcome]}
  /\ \A s, z \in host.settlement : s = z
  /\ host.step = "new" => host = NewHost /\ call.phase = "idle"
  /\ host.step \in {"new", "asked"} => own = {}
  /\ \A p, q \in own : p.method = "reserve" /\ q.method = "reserve" => p = q

(* The admission has yet to be sent or executed: nothing else has begun.   *)
Unborn(host, call, own) ==
  \/ host.step = "new"
  \/ \E q \in own : q.method = "reserve"
  \/ call.phase = "sent" /\ call.request.method = "reserve"

Clean(host, call, own, r) ==
  Unborn(host, call, own) =>
    /\ r.state = "absent" /\ host.runs = 0 /\ host.settlement = {}
    /\ host.step \in {"new", "asked", "unsure", "stopped"}
    /\ \A q \in own \cup Awaited(call) : q.method \in {"reserve", "lookup"}
    /\ call.phase = "answered" => call.answer.status \notin {"ok", "active"}

(* A deadline that a host was told is no further away than some lifetime:  *)
(* a renewal cannot set one that does not cover it.                        *)
Told(t, e) == \E ttl \in Ttls : e <= t + ttl

(* Until the host settles, an operation that was told to be liable until e *)
(* is charged for, and stays on record for a while.                        *)
Kept(host, r, t, e) ==
  /\ Told(t, e)
  /\ host.settlement = {} =>
       \/ r.state = "liable" /\ Covers(r.expiresAt, e)
       \/ r.state = "settled" /\ Covers(r.tombstoneExpiresAt, e + IdempotencyTtl)
       \/ r.state = "absent" /\ Covers(t, e + IdempotencyTtl)

Lasts(r, t, e) == Told(t, e) /\ (OpenRow(r) => Covers(r.expiresAt, e))

Bears(host, r, v) == \E s \in host.settlement : ActualIn(r, v) = s.actual /\ r.outcome = s.outcome
Closed(host, r, v) == r.state = "absent" \/ (r.state = "settled" /\ Bears(host, r, v))

(* Growth on record is what the client's checks expect of it.              *)
GrowthTrue(k) ==
  k.accepted =>
    /\ k.reserved = Plus(k.previous, k.fingerprint[1].units)
    /\ \A b \in k.fingerprint[1].keys : Safe(k.reserved[b])

(* The rows of the operation of a host, and what the host has done.        *)
RowTrue(h, host, r, g, v, t) ==
  /\ r.state = "settled" =>
       /\ \A b \in Budgets : ActualIn(r, v)[b] <= UnitsIn(r, v)[b]
       /\ r.outcome = LeaseExpiredReason \/ Bears(host, r, v)
  /\ \A k \in g.last \cup v.last : GrowthTrue(k)
  /\ OpenRow(r) => Told(t, r.expiresAt)
  /\ host.runs <= 1
  /\ host.runs # 0 => r.state # "pending" /\ host.step \notin {"new", "asked", "leased"}

(* What the host believes.                                                 *)
HostTrue(host, r, v, t) ==
  /\ host.step = "working" => Kept(host, r, t, host.expiresAt)
  /\ host.step = "settled" => Closed(host, r, v)
  /\ host.step \in {"leased", "working", "recovering"} => Lasts(r, t, host.expiresAt)

(* What the host is about to be told.                                      *)
AnswerTrue(host, q, a, r, v, t) ==
  /\ a # Conflict
  /\ a.status = "ok" =>
       /\ q.method \in {"reserve", "mark_liable", "renew"} =>
            a.expiresAt \in Nat \ {0} /\ Lasts(r, t, a.expiresAt)
       /\ q.method = "mark_liable" => r.state # "pending" /\ Kept(host, r, t, a.expiresAt)
       /\ q.method = "renew" /\ host.step = "working" => Kept(host, r, t, a.expiresAt)
       /\ q.method = "settle" => SettlementFits(q, a) /\ Closed(host, r, v)
       /\ q.method = "grow" => GrowthFits(q, a) /\ a.cursor \in 0..MaxCursor /\ a.reserved \in [Budgets -> Nat]
       /\ q.method # "lookup"
  /\ q.method = "lookup" /\ a.status = "active" =>
       /\ a.expiresAt \in Nat /\ Lasts(r, t, a.expiresAt)
       /\ a.state = "pending" => host.runs = 0

HostInv(h, host, call, own, r, g, v, t) ==
  /\ Linked(h, host, call, own)
  /\ Clean(host, call, own, r)
  /\ RowTrue(h, host, r, g, v, t)
  /\ HostTrue(host, r, v, t)
  /\ call.phase = "answered" => AnswerTrue(host, call.request, call.answer, r, v, t)

(* The rows of the operation of a host.                                    *)
RowOf(h) == reservations[OpOf[h]]
CursorOf(h) == growthRows[OpOf[h]]
DimensionsOf(h) == vectorRows[OpOf[h]]

Believes(h) ==
  HostInv(h, hosts[h], calls[h], Own(h, strays), RowOf(h), CursorOf(h), DimensionsOf(h), now)

RemoteInv ==
  /\ TablesAgree
  /\ hosts \in [Hosts -> HostState] /\ DOMAIN calls = Hosts
  /\ \A q \in strays : \E h \in Hosts : q \in Requests(h)
  /\ \A h \in Hosts : Believes(h)

-----------------------------------------------------------------------------
(* What the client assumes of its constants.                               *)
LEMMA HostTypes ==
  ASSUME NEW h \in Hosts
  PROVE  /\ OpOf[h] \in Operations /\ TtlOf[h] \in Ttls /\ TtlOf[h] \in Nat \ {0}
         /\ \A k \in Hosts : OpOf[k] = OpOf[h] => k = h
BY RemoteConstants, CloudflareConstants

LEMMA RemoteTypes ==
  /\ MaxAttempts \in Nat /\ MaxAttempts >= 1 /\ MaxRestarts \in Nat /\ MaxStrays \in Nat
  /\ MaxCursor \in Nat \ {0} /\ NoUnits \in Actuals
  /\ OtherLimits \subseteq [Budgets -> Nat]
BY RemoteConstants

(* What a request carries, and whose it is.                                *)
LEMMA RequestFields ==
  ASSUME NEW h \in Hosts, NEW q \in Requests(h)
  PROVE  /\ q.op = OpOf[h] /\ q.method \in Methods
         /\ q.method = "reserve" => q.charge \in Charges /\ q.limits \in Limits /\ q.ttl = TtlOf[h]
         /\ q.method = "renew" => q.ttl \in Ttls
         /\ q.method = "grow" => /\ q.increment \in Increments /\ q.cursor \in 1..MaxCursor - 1
                                 /\ q.add \in Growths /\ q.limits \in Limits
         /\ q.method = "settle" => /\ q.mode \in Modes /\ q.actual \in Actuals
                                   /\ q.outcome \in Outcomes
BY DEF Requests, Methods

LEMMA RequestHosts ==
  ASSUME NEW h \in Hosts, NEW k \in Hosts, NEW q \in Requests(h), q.op = OpOf[k]
  PROVE  h = k
BY RequestFields, HostTypes
-----------------------------------------------------------------------------
(* What becomes of the rows of an operation in a cleanup.                  *)
Same(r, g, v, r2, g2, v2) == r2 = r /\ g2 = g /\ v2 = v

Forgets(t, r, r2, g2, v2) ==
  /\ r2 = NoReservation /\ g2 = NoGrowthRow /\ v2 = NoVectorRow
  /\ r.state = "pending" \/ (r.state = "settled" /\ r.tombstoneExpiresAt <= t)

ChargesInFull(t, r, g, v, r2, g2, v2) ==
  /\ r.state = "liable" /\ r.expiresAt <= t
  /\ r2.state = "settled" /\ r2.outcome = LeaseExpiredReason
  /\ r2.tombstoneExpiresAt = t + IdempotencyTtl
  /\ g2 = g /\ v2.last = v.last
  /\ \A b \in Budgets : ActualIn(r2, v2)[b] <= UnitsIn(r2, v2)[b]

Drifts(t, r, g, v, r2, g2, v2) ==
  \/ Same(r, g, v, r2, g2, v2)
  \/ Forgets(t, r, r2, g2, v2)
  \/ ChargesInFull(t, r, g, v, r2, g2, v2)

(* Cleanup takes only what is due.                                         *)
LEMMA RecoveredDrifts ==
  ASSUME TablesAgree, NEW E \in SUBSET DueLeases, NEW F \in SUBSET DueTombstones,
         NEW op \in Operations
  PROVE  LET z == Recovered(E, F)
         IN  Drifts(now, reservations[op], growthRows[op], vectorRows[op],
                    z.reservations[op], z.growthRows[op], z.vectorRows[op])
<1> DEFINE z == Recovered(E, F)
           r == reservations[op]
           g == growthRows[op]
           v == vectorRows[op]
           r2 == z.reservations[op]
           g2 == z.growthRows[op]
           v2 == z.vectorRows[op]
<1>1. /\ r \in ReservationRow /\ v \in VectorRow /\ now \in Nat
  BY RowTypes
<1>2. CASE op \notin E \cup F
  BY <1>2, RecoveredIs DEF Drifts, Same
<1>3. CASE op \in PendingOf(E) \cup F
  <2>1. r2 = NoReservation /\ g2 = NoGrowthRow /\ v2 = NoVectorRow
    BY <1>3, RecoveredIs
  <2>2. r.state = "pending" \/ (r.state = "settled" /\ r.tombstoneExpiresAt <= now)
    BY <1>3 DEF PendingOf, DueTombstones
  <2> QED BY <2>1, <2>2 DEF Drifts, Forgets
<1>4. CASE op \in ChargedOf(E)
  <2> DEFINE actual == IF IsVector(op) THEN NoUnits ELSE r.reserved
  <2>1. r.state = "liable" /\ r.expiresAt <= now
    BY <1>4 DEF ChargedOf, PendingOf, DueLeases, IsExpired, Open
  <2>2. /\ r2 = SettledRow(r, actual, LeaseExpiredReason) /\ g2 = g
        /\ v2 = IF IsVector(op) THEN [v EXCEPT !.actual = v.reserved] ELSE v
    BY <1>4, RecoveredIs DEF SettledInFull
  <2>3. now + IdempotencyTtl \in Nat
    BY <1>1, ConstantTypes
  <2>4. v.exists = IsVector(op) /\ v.reserved \in [Budgets -> Nat] /\ r.reserved \in [Budgets -> Nat]
    BY <1>1, RowFields, VectorFields DEF IsVector
  <2> HIDE DEF r, g, v, r2, g2, v2, actual
  <2>5. /\ r2.state = "settled" /\ r2.outcome = LeaseExpiredReason
        /\ r2.tombstoneExpiresAt = now + IdempotencyTtl
        /\ r2.reserved = r.reserved /\ r2.actual = actual
    BY <1>1, <2>2 DEF SettledRow, ReservationRow
  <2>6. /\ v2.last = v.last /\ v2.exists = v.exists /\ v2.reserved = v.reserved
        /\ v.exists => v2.actual = v.reserved
    BY <1>1, <2>2, <2>4 DEF VectorRow
  <2>7. ActualIn(r2, v2) = UnitsIn(r2, v2) /\ UnitsIn(r2, v2) \in [Budgets -> Nat]
    BY <2>4, <2>5, <2>6 DEF ActualIn, UnitsIn, actual
  <2>8. \A b \in Budgets : ActualIn(r2, v2)[b] <= UnitsIn(r2, v2)[b]
    BY <2>7
  <2>9. Drifts(now, r, g, v, r2, g2, v2)
    BY <2>1, <2>2, <2>5, <2>6, <2>8 DEF Drifts, ChargesInFull
  <2> QED BY <2>9 DEF r, g, v, r2, g2, v2
<1>5. op \in E \cup F => op \in PendingOf(E) \cup F \/ op \in ChargedOf(E)
  BY DEF ChargedOf
<1> QED
  BY <1>2, <1>3, <1>4, <1>5

-----------------------------------------------------------------------------
(* What a call may do to an open operation it names.                       *)
Marks(r, g, v, r2, g2, v2) ==
  OpenRow(r) /\ r2.state = "liable" /\ r2.expiresAt = r.expiresAt /\ g2 = g /\ v2 = v

Prolongs(t, ttl, r, g, v, r2, g2, v2) ==
  OpenRow(r) /\ r2.state = r.state /\ r2.expiresAt = t + ttl /\ g2 = g /\ v2 = v

Closes(host, r, g, v, r2, g2, v2) ==
  /\ OpenRow(r) /\ r2.state = "settled" /\ Bears(host, r2, v2) /\ g2 = g /\ v2.last = v.last
  /\ \A b \in Budgets : ActualIn(r2, v2)[b] <= UnitsIn(r2, v2)[b]

Enlarges(r, g, v, r2, g2, v2) ==
  /\ OpenRow(r) /\ r2.state = r.state /\ r2.expiresAt = r.expiresAt
  /\ \A k \in g2.last \cup v2.last : k \in g.last \cup v.last \/ GrowthTrue(k)

Moves(h, host, t, r, g, v, r2, g2, v2) ==
  \/ Drifts(t, r, g, v, r2, g2, v2)
  \/ Marks(r, g, v, r2, g2, v2)
  \/ \E ttl \in Ttls : Prolongs(t, ttl, r, g, v, r2, g2, v2)
  \/ Closes(host, r, g, v, r2, g2, v2)
  \/ Enlarges(r, g, v, r2, g2, v2)

(* Nothing that a host was told is undone.                                 *)
Steady(host, r, v, t, r2, v2, t2) ==
  /\ \A e \in Nat : Kept(host, r, t, e) => Kept(host, r2, t2, e)
  /\ \A e \in Nat : Lasts(r, t, e) => Lasts(r2, t2, e)
  /\ Closed(host, r, v) => Closed(host, r2, v2)
  /\ r2.state = "pending" => r.state = "pending"

(* Rows that stay steady keep what a host believes and was answered.       *)
LEMMA SteadyKeeps ==
  ASSUME NEW host \in HostState, NEW r, NEW v, NEW t, NEW r2, NEW v2, NEW t2,
         Steady(host, r, v, t, r2, v2, t2)
  PROVE  /\ HostTrue(host, r, v, t) => HostTrue(host, r2, v2, t2)
         /\ \A q, a : AnswerTrue(host, q, a, r, v, t) => AnswerTrue(host, q, a, r2, v2, t2)
<1>1. host.expiresAt \in Nat
  BY DEF HostState
<1>2. HostTrue(host, r, v, t) => HostTrue(host, r2, v2, t2)
  BY <1>1 DEF Steady, HostTrue
<1>3. ASSUME NEW q, NEW a, AnswerTrue(host, q, a, r, v, t)
      PROVE  AnswerTrue(host, q, a, r2, v2, t2)
  <2>1. a.status = "ok" =>
          /\ q.method \in {"reserve", "mark_liable", "renew"} =>
               a.expiresAt \in Nat \ {0} /\ Lasts(r2, t2, a.expiresAt)
          /\ q.method = "mark_liable" => r2.state # "pending" /\ Kept(host, r2, t2, a.expiresAt)
          /\ q.method = "renew" /\ host.step = "working" => Kept(host, r2, t2, a.expiresAt)
          /\ q.method = "settle" => SettlementFits(q, a) /\ Closed(host, r2, v2)
    BY <1>3 DEF Steady, AnswerTrue
  <2>2. q.method = "lookup" /\ a.status = "active" => a.expiresAt \in Nat /\ Lasts(r2, t2, a.expiresAt)
    BY <1>3 DEF Steady, AnswerTrue
  <2> QED BY <1>3, <2>1, <2>2 DEF AnswerTrue
<1> QED
  BY <1>2, <1>3

(* What covers a deadline.                                                 *)
LEMMA CoversMore ==
  ASSUME NEW x \in Nat, NEW y \in Nat, NEW e \in Nat, Covers(x, e), y >= x
  PROVE  Covers(y, e)
BY ConstantTypes DEF Covers

LEMMA CoversLonger ==
  ASSUME NEW x \in Nat, NEW e \in Nat, NEW d \in Nat, Covers(x, e)
  PROVE  Covers(x + d, e + d)
BY ConstantTypes DEF Covers

LEMMA CoversItself ==
  ASSUME NEW t \in Nat, NEW e \in Nat, Told(t, e)
  PROVE  Covers(e, e)
BY ConstantTypes DEF Covers, Told

LEMMA RenewalCovers ==
  ASSUME NEW t \in Nat, NEW e \in Nat, Told(t, e), NEW ttl \in Ttls
  PROVE  Covers(t + ttl, e) /\ Told(t, t + ttl)
BY ConstantTypes DEF Covers, Told

LEMMA ToldLater ==
  ASSUME NEW t \in Nat, NEW e \in Nat, Told(t, e)
  PROVE  Told(t + 1, e)
BY ConstantTypes DEF Told

(* Recovery and tombstone cleanup leave what a host relies on.             *)
LEMMA DriftSteady ==
  ASSUME NEW host \in HostState, NEW t \in Nat, NEW r \in ReservationRow, NEW g, NEW v,
         NEW r2, NEW g2, NEW v2, Drifts(t, r, g, v, r2, g2, v2)
  PROVE  /\ Steady(host, r, v, t, r2, v2, t) /\ (r.state = "absent" => r2.state = "absent")
<1>0. r.expiresAt \in Nat /\ r.tombstoneExpiresAt \in Nat /\ IdempotencyTtl \in Nat
  BY RowFields, ConstantTypes
<1>1. CASE Same(r, g, v, r2, g2, v2)
  BY <1>1 DEF Same, Steady
<1>2. CASE Forgets(t, r, r2, g2, v2)
  <2>1. r2.state = "absent" /\ ~OpenRow(r2)
    BY <1>2, NoRows DEF Forgets, OpenRow
  <2>2. ASSUME NEW e \in Nat, Kept(host, r, t, e)
        PROVE  Kept(host, r2, t, e)
    <3>1. CASE host.settlement # {}
      BY <2>2, <3>1 DEF Kept
    <3>2. CASE r.state = "settled" /\ Covers(r.tombstoneExpiresAt, e + IdempotencyTtl)
      <4>1. r.tombstoneExpiresAt <= t /\ e + IdempotencyTtl \in Nat
        BY <1>0, <1>2, <3>2 DEF Forgets
      <4>2. Covers(t, e + IdempotencyTtl)
        BY <1>0, <3>2, <4>1, CoversMore
      <4> QED BY <2>1, <2>2, <4>2 DEF Kept
    <3>3. CASE r.state = "absent" /\ Covers(t, e + IdempotencyTtl)
      BY <2>1, <2>2, <3>3 DEF Kept
    <3> QED BY <1>2, <2>2, <3>1, <3>2, <3>3 DEF Forgets, Kept
  <2> QED BY <2>1, <2>2 DEF Steady, Lasts, Closed
<1>3. CASE ChargesInFull(t, r, g, v, r2, g2, v2)
  <2>1. r.state = "liable" /\ r2.state = "settled" /\ ~OpenRow(r2) /\ r.expiresAt <= t
        /\ r2.tombstoneExpiresAt = t + IdempotencyTtl
    BY <1>3 DEF ChargesInFull, OpenRow
  <2>2. ASSUME NEW e \in Nat, Kept(host, r, t, e)
        PROVE  Kept(host, r2, t, e)
    <3>1. CASE host.settlement # {}
      BY <2>2, <3>1 DEF Kept
    <3>2. CASE Covers(r.expiresAt, e)
      <4>1. Covers(t, e)
        BY <1>0, <2>1, <3>2, CoversMore
      <4>2. Covers(r2.tombstoneExpiresAt, e + IdempotencyTtl)
        BY <1>0, <2>1, <4>1, CoversLonger
      <4> QED BY <2>1, <2>2, <4>2 DEF Kept
    <3> QED BY <2>1, <2>2, <3>1, <3>2 DEF Kept
  <2> QED BY <2>1, <2>2 DEF Steady, Lasts, Closed
<1> QED
  BY <1>1, <1>2, <1>3 DEF Drifts

(* So does every move of its rows.                                         *)
LEMMA MoveKeeps ==
  ASSUME NEW h \in Hosts, NEW host \in HostState, NEW t \in Nat, NEW r \in ReservationRow, NEW g, NEW v,
         NEW r2 \in ReservationRow, NEW g2, NEW v2, RowTrue(h, host, r, g, v, t),
         Moves(h, host, t, r, g, v, r2, g2, v2)
  PROVE  /\ RowTrue(h, host, r2, g2, v2, t)
         /\ Steady(host, r, v, t, r2, v2, t)
         /\ r.state = "absent" => r2.state = "absent"
<1>1. CASE Drifts(t, r, g, v, r2, g2, v2)
  <2>1. Steady(host, r, v, t, r2, v2, t) /\ (r.state = "absent" => r2.state = "absent")
    BY <1>1, DriftSteady
  <2>2. CASE Same(r, g, v, r2, g2, v2)
    BY <2>1, <2>2 DEF Same
  <2>3. CASE Forgets(t, r, r2, g2, v2)
    <3>1. r2.state = "absent" /\ g2.last = {} /\ v2.last = {}
      BY <2>3, NoRows DEF Forgets, NoGrowthRow, NoVectorRow
    <3> QED BY <2>1, <3>1 DEF RowTrue, OpenRow
  <2>4. CASE ChargesInFull(t, r, g, v, r2, g2, v2)
    BY <2>1, <2>4 DEF ChargesInFull, RowTrue, OpenRow
  <2> QED BY <1>1, <2>2, <2>3, <2>4 DEF Drifts
<1>2. CASE Marks(r, g, v, r2, g2, v2)
  BY <1>2 DEF Marks, RowTrue, Steady, Kept, Lasts, Closed, OpenRow
<1>3. ASSUME NEW ttl \in Ttls, Prolongs(t, ttl, r, g, v, r2, g2, v2)
      PROVE  /\ RowTrue(h, host, r2, g2, v2, t)
             /\ Steady(host, r, v, t, r2, v2, t)
             /\ r.state = "absent" => r2.state = "absent"
  <2>1. /\ OpenRow(r) /\ OpenRow(r2) /\ r2.state = r.state /\ g2 = g /\ v2 = v
        /\ r.state \notin {"absent", "settled"} /\ r2.expiresAt = t + ttl
    BY <1>3 DEF Prolongs, OpenRow
  <2>2. /\ Told(t, r.expiresAt) /\ r.expiresAt \in Nat
    BY <2>1, RowFields DEF RowTrue
  <2>3. Told(t, r2.expiresAt)
    BY <2>1, <2>2, RenewalCovers
  <2>4. \A e \in Nat : Told(t, e) => Covers(r2.expiresAt, e)
    BY <2>1, RenewalCovers
  <2>5. Steady(host, r, v, t, r2, v2, t)
    BY <2>1, <2>4 DEF Steady, Kept, Lasts, Closed
  <2> QED BY <2>1, <2>3, <2>5 DEF RowTrue
<1>4. CASE Closes(host, r, g, v, r2, g2, v2)
  <2>1. host.settlement # {}
    BY <1>4 DEF Closes, Bears
  <2> QED BY <1>4, <2>1 DEF Closes, RowTrue, Steady, Kept, Lasts, Closed, OpenRow
<1>5. CASE Enlarges(r, g, v, r2, g2, v2)
  BY <1>5 DEF Enlarges, RowTrue, Steady, Kept, Lasts, Closed, OpenRow
<1> QED
  BY <1>1, <1>2, <1>3, <1>4, <1>5 DEF Moves

(* Time passes.                                                            *)
LEMMA TimeKeeps ==
  ASSUME NEW h \in Hosts, NEW host \in HostState, NEW t \in Nat, NEW r \in ReservationRow, NEW g, NEW v,
         RowTrue(h, host, r, g, v, t)
  PROVE  RowTrue(h, host, r, g, v, t + 1) /\ Steady(host, r, v, t, r, v, t + 1)
<1>1. r.expiresAt \in Nat /\ IdempotencyTtl \in Nat
  BY RowFields, ConstantTypes
<1>2. RowTrue(h, host, r, g, v, t + 1)
  BY <1>1, ToldLater DEF RowTrue
<1>3. ASSUME NEW e \in Nat
      PROVE  /\ Kept(host, r, t, e) => Kept(host, r, t + 1, e)
             /\ Lasts(r, t, e) => Lasts(r, t + 1, e)
  <2>1. e + IdempotencyTtl \in Nat /\ t + 1 \in Nat /\ t + 1 >= t
    BY <1>1
  <2>2. Covers(t, e + IdempotencyTtl) => Covers(t + 1, e + IdempotencyTtl)
    BY <2>1, CoversMore
  <2>3. Told(t, e) => Told(t + 1, e)
    BY ToldLater
  <2> QED BY <2>2, <2>3 DEF Kept, Lasts
<1>4. Steady(host, r, v, t, r, v, t + 1)
  BY <1>3 DEF Steady
<1> QED
  BY <1>2, <1>4

-----------------------------------------------------------------------------
(* The calls, as moves of the rows of every operation.                     *)
DriftsAt(op) ==
  Drifts(now, reservations[op], growthRows[op], vectorRows[op],
         reservations'[op], growthRows'[op], vectorRows'[op])

(* The rows on both sides of a step.                                       *)
LEMMA AgreeTypes ==
  ASSUME TablesAgree, TablesAgree', NEW op \in Operations
  PROVE  /\ reservations[op] \in ReservationRow /\ reservations'[op] \in ReservationRow
         /\ growthRows[op] \in GrowthRow /\ growthRows'[op] \in GrowthRow
         /\ vectorRows[op] \in VectorRow /\ vectorRows'[op] \in VectorRow
         /\ now \in Nat
BY DEF TablesAgree, CloudflareTypeOK

LEMMA StillDrifts ==
  ASSUME UNCHANGED <<reservations, growthRows, vectorRows>>
  PROVE  \A op \in Operations : DriftsAt(op)
BY DEF DriftsAt, Drifts, Same

(* Recovery of a batch.                                                    *)
LEMMA BecomeDrifts ==
  ASSUME TablesAgree, NEW rows, NEW E \in SUBSET DueLeases, NEW F \in SUBSET DueTombstones,
         Become(rows, Recovered(E, F))
  PROVE  \A op \in Operations : DriftsAt(op)
BY RecoveredDrifts DEF Become, DriftsAt

(* Recovery by the call that names an expired row.                         *)
LEMMA SpecificMoves ==
  ASSUME TablesAgree, NEW op \in Operations, RecoverSpecific(op)
  PROVE  \A o \in Operations : DriftsAt(o)
<1>1. {op} \in SUBSET DueLeases /\ {} \in SUBSET DueTombstones
  BY DEF RecoverSpecific, DueLeases
<1>2. Become(budgets, Recovered({op}, {}))
  BY WriteIsBecome DEF RecoverSpecific
<1> QED
  BY <1>1, <1>2, BecomeDrifts

(* An admission begins a row, after its cleanup.                           *)
BeginsAt(op, ttl) ==
  /\ reservations'[op].state = "pending" /\ reservations'[op].expiresAt = now + ttl
  /\ growthRows'[op].last = {}
  /\ vectorRows'[op].last = {} \/ vectorRows'[op].last = vectorRows[op].last

(* An admission, which cleans up first.                                    *)
LEMMA ReserveMoves ==
  ASSUME TablesAgree, NEW op \in Operations, NEW charge \in Charges, NEW lim,
         NEW ttl \in Ttls, NEW E \in ExpiredBatches, NEW F \in TombstoneBatches,
         ReserveAfter(op, charge, lim, ttl, E, F)
  PROVE  /\ TablesAgree' /\ now' = now
         /\ \A o \in Operations \ {op} : DriftsAt(o)
         /\ IF Refused(op, charge, lim, Recovered(E, F)) THEN DriftsAt(op) ELSE BeginsAt(op, ttl)
<1> DEFINE z == Recovered(E, F)
<1>1. E \in SUBSET DueLeases /\ F \in SUBSET DueTombstones
  BY BatchesAreDue
<1>2. now' = now /\ now' \in Nat
  BY ReserveBecomes, RowTypes
<1>3. Consistent(budgets, z)
  BY <1>1, RecoveredConsistent
<1>4. CASE Refused(op, charge, lim, z)
  <2>1. Become(budgets, z)
    BY <1>4, ReserveBecomes
  <2>2. \A o \in Operations : DriftsAt(o)
    BY <1>1, <2>1, BecomeDrifts
  <2>3. TablesAgree'
    BY <1>2, <1>3, <2>1, BecomeAgrees
  <2> QED BY <1>2, <1>4, <2>2, <2>3
<1>5. CASE ~Refused(op, charge, lim, z)
  <2>1. Admits(E, F, op, charge, lim, ttl)
    BY <1>5, ReserveBecomes
  <2>2. TablesAgree'
    <3>1. Consistent(budgets \cup charge.keys, Admission(z, op, charge, ttl))
      BY <1>1, <2>1, AdmitsConsistent
    <3>2. Become(budgets \cup charge.keys, Admission(z, op, charge, ttl))
      BY <2>1 DEF Admits
    <3> QED BY <1>2, <3>1, <3>2, BecomeAgrees
  <2>3. /\ reservations'[op] = PendingReservation(charge, ttl) /\ growthRows'[op] = FirstCursor
        /\ vectorRows'[op] = AdmittedRow(z, op, charge)
        /\ \A o \in Operations \ {op} :
             /\ reservations'[o] = z.reservations[o] /\ growthRows'[o] = z.growthRows[o]
             /\ vectorRows'[o] = z.vectorRows[o]
    <3>1. Become(budgets \cup charge.keys, Admission(z, op, charge, ttl))
      BY <2>1 DEF Admits
    <3> HIDE DEF z
    <3> QED BY <1>3, <3>1, PutIs DEF Become, Admission
  <2>4. \A o \in Operations \ {op} : DriftsAt(o)
    BY <1>1, <2>3, RecoveredDrifts DEF DriftsAt
  <2>5. BeginsAt(op, ttl)
    <3>1. PICK n : n = now + ttl
      OBVIOUS
    <3>2. PendingReservation(charge, ttl).state = "pending" /\ PendingReservation(charge, ttl).expiresAt = n
      BY <3>1 DEF PendingReservation, NoReservation
    <3>3. FirstCursor.last = {} /\ Dimensions(charge).last = {} /\ NoVectorRow.last = {}
      BY DEF FirstCursor, Dimensions, NoVectorRow
    <3>4. z.vectorRows[op].last = {} \/ z.vectorRows[op].last = vectorRows[op].last
      BY <1>1, <3>3, RecoveredDrifts DEF Drifts, Same, Forgets, ChargesInFull
    <3> HIDE DEF z
    <3> QED BY <2>3, <3>1, <3>2, <3>3, <3>4 DEF BeginsAt, AdmittedRow
  <2> QED BY <1>2, <1>5, <2>2, <2>4, <2>5
<1> QED
  BY <1>4, <1>5

-----------------------------------------------------------------------------
(* Only the rows of one operation are written.                             *)
LEMMA PutDrifts ==
  ASSUME TablesAgree, NEW op \in Operations, NEW r, NEW g, NEW v,
         reservations' = [reservations EXCEPT ![op] = r],
         growthRows' = [growthRows EXCEPT ![op] = g],
         vectorRows' = [vectorRows EXCEPT ![op] = v]
  PROVE  /\ reservations'[op] = r /\ growthRows'[op] = g /\ vectorRows'[op] = v
         /\ \A o \in Operations \ {op} : DriftsAt(o)
<1>1. /\ DOMAIN reservations = Operations /\ DOMAIN growthRows = Operations
      /\ DOMAIN vectorRows = Operations
  BY RowTypes
<1> QED
  BY <1>1 DEF DriftsAt, Drifts, Same

(* The calls of an admitted operation.                                     *)
LEMMA MarkLiableMoves ==
  ASSUME TablesAgree, NEW op \in Operations, MarkLiable(op)
  PROVE  /\ TablesAgree' /\ now' = now
         /\ \A o \in Operations \ {op} : DriftsAt(o)
         /\ \/ IsExpired(op) /\ DriftsAt(op)
            \/ Active(op) /\ Marks(reservations[op], growthRows[op], vectorRows[op],
                                   reservations'[op], growthRows'[op], vectorRows'[op])
<1>1. TablesAgree' /\ now' = now
  BY StepAgrees, MarkLiableShape DEF Next, Call
<1>2. CASE RecoverSpecific(op)
  BY <1>1, <1>2, SpecificMoves DEF RecoverSpecific
<1>3. CASE Active(op) /\ Write([Current EXCEPT !.reservations[op].state = "liable"])
  <2> DEFINE q == reservations[op]
             r == [q EXCEPT !.state = "liable"]
  <2>1. q \in ReservationRow /\ OpenRow(q)
    BY <1>3, RowTypes DEF Active, Open, OpenRow
  <2>2. /\ reservations' = [reservations EXCEPT ![op] = r] /\ growthRows' = growthRows
        /\ vectorRows' = vectorRows
    BY <1>3, CurrentIs DEF Write, Now
  <2>3. /\ growthRows = [growthRows EXCEPT ![op] = growthRows[op]]
        /\ vectorRows = [vectorRows EXCEPT ![op] = vectorRows[op]]
    BY DEF TablesAgree, CloudflareTypeOK
  <2> HIDE DEF q
  <2>4. r.state = "liable" /\ r.expiresAt = q.expiresAt
    BY <2>1 DEF ReservationRow
  <2> HIDE DEF r
  <2>5. /\ reservations'[op] = r /\ growthRows'[op] = growthRows[op] /\ vectorRows'[op] = vectorRows[op]
        /\ \A o \in Operations \ {op} : DriftsAt(o)
    BY <2>2, <2>3, PutDrifts
  <2> QED BY <1>1, <1>3, <2>1, <2>4, <2>5 DEF Marks, q
<1> QED
  BY <1>2, <1>3 DEF MarkLiable

LEMMA RenewMoves ==
  ASSUME TablesAgree, NEW op \in Operations, NEW ttl \in Ttls, Renew(op, ttl)
  PROVE  /\ TablesAgree' /\ now' = now
         /\ \A o \in Operations \ {op} : DriftsAt(o)
         /\ \/ IsExpired(op) /\ DriftsAt(op)
            \/ Active(op) /\ Prolongs(now, ttl, reservations[op], growthRows[op], vectorRows[op],
                                      reservations'[op], growthRows'[op], vectorRows'[op])
<1>1. TablesAgree' /\ now' = now
  BY StepAgrees, RenewShape DEF Next, Call
<1>2. CASE RecoverSpecific(op)
  BY <1>1, <1>2, SpecificMoves DEF RecoverSpecific
<1>3. CASE Active(op) /\ Write([Current EXCEPT !.reservations[op].expiresAt = now + ttl])
  <2> DEFINE q == reservations[op]
  <2>0. PICK n : n = now + ttl
    OBVIOUS
  <2> DEFINE r == [q EXCEPT !.expiresAt = n]
  <2>1. q \in ReservationRow /\ OpenRow(q)
    BY <1>3, RowTypes DEF Active, Open, OpenRow
  <2>2. /\ reservations' = [reservations EXCEPT ![op] = r] /\ growthRows' = growthRows
        /\ vectorRows' = vectorRows
    BY <1>3, <2>0, CurrentIs DEF Write, Now
  <2>3. /\ growthRows = [growthRows EXCEPT ![op] = growthRows[op]]
        /\ vectorRows = [vectorRows EXCEPT ![op] = vectorRows[op]]
    BY DEF TablesAgree, CloudflareTypeOK
  <2> HIDE DEF q
  <2>4. r.expiresAt = n /\ r.state = q.state
    BY <2>1 DEF ReservationRow
  <2> HIDE DEF r
  <2>5. /\ reservations'[op] = r /\ growthRows'[op] = growthRows[op] /\ vectorRows'[op] = vectorRows[op]
        /\ \A o \in Operations \ {op} : DriftsAt(o)
    BY <2>2, <2>3, PutDrifts
  <2> QED BY <1>1, <1>3, <2>0, <2>1, <2>4, <2>5 DEF Prolongs, q
<1> QED
  BY <1>2, <1>3 DEF Renew

SettlesAt(op, actual, outcome) ==
  LET r == reservations'[op]
      v == vectorRows'[op]
  IN  /\ OpenRow(reservations[op]) /\ r.state = "settled"
      /\ ActualIn(r, v) = actual /\ r.outcome = outcome
      /\ growthRows'[op] = growthRows[op] /\ v.last = vectorRows[op].last
      /\ \A b \in Budgets : actual[b] <= UnitsIn(r, v)[b]

LEMMA SettleMoves ==
  ASSUME TablesAgree, NEW op \in Operations, NEW actual \in Actuals, NEW outcome \in Outcomes,
         Settle(op, actual, outcome)
  PROVE  /\ TablesAgree' /\ now' = now
         /\ \A o \in Operations \ {op} : DriftsAt(o)
         /\ \/ IsExpired(op) /\ DriftsAt(op)
            \/ Active(op) /\ SettlesAt(op, actual, outcome)
<1> DEFINE q == reservations[op]
           w == vectorRows[op]
           stored == IF IsVector(op) THEN NoUnits ELSE actual
           r == SettledRow(q, stored, outcome)
           v == [w EXCEPT !.actual = IF IsVector(op) THEN actual ELSE w.actual]
<1>1. TablesAgree' /\ now' = now
  BY StepAgrees, SettleShape DEF Next, Call
<1>2. CASE RecoverSpecific(op)
  BY <1>1, <1>2, SpecificMoves DEF RecoverSpecific
<1>3. CASE ~RecoverSpecific(op)
  <2>1. /\ q \in ReservationRow /\ w \in VectorRow /\ now \in Nat /\ actual \in [Budgets -> Nat]
        /\ DOMAIN vectorRows = Operations /\ DOMAIN reservations = Operations
    BY RowTypes, ConstantTypes
  <2>2. /\ Active(op) /\ \A b \in Budgets : actual[b] <= Reserved(op)[b]
        /\ reservations' = [reservations EXCEPT ![op] = r] /\ growthRows' = growthRows
        /\ vectorRows' = [vectorRows EXCEPT ![op] = v]
    BY <1>3, <2>1, CurrentIs DEF Settle, Write, Now
  <2>3. OpenRow(q) /\ stored \in [Budgets -> Nat]
    BY <2>1, <2>2, NoRows DEF Active, Open, OpenRow
  <2>4. IsVector(op) = w.exists /\ w.exists \in BOOLEAN /\ w.actual \in [Budgets -> Nat]
    BY <2>1, VectorFields DEF IsVector
  <2>5. growthRows = [growthRows EXCEPT ![op] = growthRows[op]]
    BY DEF TablesAgree, CloudflareTypeOK
  <2>6. r.outcome = outcome
    BY <2>1 DEF SettledRow, ReservationRow
  <2> HIDE DEF q, w, stored
  <2>7. /\ r \in ReservationRow /\ r.state = "settled" /\ r.actual = stored /\ r.reserved = q.reserved
    BY <2>1, <2>3, SettledFields
  <2>8. /\ v.exists = w.exists /\ v.reserved = w.reserved /\ v.last = w.last
        /\ v.actual = IF IsVector(op) THEN actual ELSE w.actual
    BY <2>1, <2>4 DEF VectorRow
  <2> HIDE DEF r, v
  <2>9. /\ reservations'[op] = r /\ growthRows'[op] = growthRows[op] /\ vectorRows'[op] = v
        /\ \A o \in Operations \ {op} : DriftsAt(o)
    BY <2>2, <2>5, PutDrifts
  <2>10. UnitsIn(r, v) = Reserved(op)
    BY <2>7, <2>8 DEF UnitsIn, Reserved, IsVector, q, w
  <2>11. ActualIn(r, v) = actual
    BY <2>4, <2>7, <2>8 DEF ActualIn, stored
  <2>12. SettlesAt(op, actual, outcome)
    BY <2>2, <2>3, <2>6, <2>7, <2>8, <2>9, <2>10, <2>11 DEF SettlesAt, q, w
  <2> QED BY <1>1, <2>2, <2>9, <2>12
<1> QED
  BY <1>2, <1>3

LEMMA GrowMoves ==
  ASSUME TablesAgree, NEW op \in Operations, NEW inc \in Increments, NEW cursor \in 1..MaxCursor,
         NEW add \in Growths, NEW lim \in Limits, Grow(op, inc, cursor, add, lim)
  PROVE  /\ TablesAgree' /\ now' = now
         /\ \A o \in Operations \ {op} : DriftsAt(o)
         /\ \/ IsExpired(op) /\ DriftsAt(op)
            \/ Active(op) /\ Enlarges(reservations[op], growthRows[op], vectorRows[op],
                                      reservations'[op], growthRows'[op], vectorRows'[op])
<1> DEFINE q == reservations[op]
           h == growthRows[op]
           w == vectorRows[op]
           vector == add.mode = "vector"
           accepted == WithinLimits(add, lim, used)
           grown == IF accepted THEN Plus(Reserved(op), add.units) ELSE Reserved(op)
           k == [increment |-> inc, fingerprint |-> <<add, lim>>, accepted |-> accepted,
                 previous |-> Reserved(op), reserved |-> grown]
           r == [q EXCEPT !.reserved = IF vector THEN q.reserved ELSE grown]
           g == [cursor |-> cursor + 1, last |-> IF vector THEN h.last ELSE {k}]
           v == IF vector THEN [w EXCEPT !.reserved = grown, !.last = {k}] ELSE w
<1>1. TablesAgree' /\ now' = now
  BY StepAgrees, GrowShape DEF Next, Call
<1>2. CASE RecoverSpecific(op)
  BY <1>1, <1>2, SpecificMoves DEF RecoverSpecific
<1>3. CASE ~RecoverSpecific(op)
  <2>1. /\ q \in ReservationRow /\ w \in VectorRow
        /\ Reserved(op) \in [Budgets -> Nat] /\ add.units \in [Budgets -> Nat]
        /\ add.keys \in SUBSET Budgets
        /\ DOMAIN reservations = Operations /\ DOMAIN growthRows = Operations
        /\ DOMAIN vectorRows = Operations
    BY RowTypes, ReservedType, ChargeTypes
  <2>2. /\ Active(op)
        /\ accepted => \A b \in add.keys : Safe(Reserved(op)[b] + add.units[b])
        /\ reservations' = [reservations EXCEPT ![op] = r]
        /\ growthRows' = [growthRows EXCEPT ![op] = g]
        /\ vectorRows' = [vectorRows EXCEPT ![op] = v]
    BY <1>3, <2>1, CurrentIs DEF Grow, Write, Now
  <2>3. OpenRow(q)
    BY <2>2 DEF Active, Open, OpenRow
  <2>4. GrowthTrue(k)
    <3>1. accepted => \A b \in add.keys : Safe(grown[b])
      BY <2>1, <2>2, PlusType
    <3>2. k.fingerprint[1] = add /\ k.accepted = accepted /\ k.previous = Reserved(op) /\ k.reserved = grown
      OBVIOUS
    <3> HIDE DEF k
    <3> QED BY <3>1, <3>2 DEF GrowthTrue
  <2> HIDE DEF q, h, w, vector, accepted, grown, k
  <2>5. r.state = q.state /\ r.expiresAt = q.expiresAt
    BY <2>1 DEF ReservationRow
  <2>6. g.last = IF vector THEN h.last ELSE {k}
    OBVIOUS
  <2>7. v.last = IF vector THEN {k} ELSE w.last
    BY <2>1 DEF VectorRow
  <2> HIDE DEF r, g, v
  <2>8. /\ reservations'[op] = r /\ growthRows'[op] = g /\ vectorRows'[op] = v
        /\ \A o \in Operations \ {op} : DriftsAt(o)
    BY <2>2, PutDrifts
  <2>9. Enlarges(q, h, w, r, g, v)
    BY <2>3, <2>4, <2>5, <2>6, <2>7 DEF Enlarges
  <2> QED BY <1>1, <2>2, <2>8, <2>9 DEF q, h, w
<1> QED
  BY <1>2, <1>3

-----------------------------------------------------------------------------
(* What the object does with a request, and what it answers.               *)
LEMMA QuietMoves ==
  ASSUME TablesAgree, UNCHANGED vars
  PROVE  /\ TablesAgree' /\ now' = now
         /\ reservations' = reservations /\ growthRows' = growthRows /\ vectorRows' = vectorRows
         /\ \A o \in Operations : DriftsAt(o)
BY StepAgrees, StillDrifts DEF vars

(* A refusal tells a host nothing to rely on.                              *)
LEMMA RefusalTrue ==
  ASSUME NEW host, NEW q, NEW a, NEW r, NEW v, NEW t,
         a.status \notin {"ok", "active", "settlement_conflict"}
  PROVE  AnswerTrue(host, q, a, r, v, t)
BY DEF AnswerTrue, Conflict

MovesAt(h, host) ==
  Moves(h, host, now, RowOf(h), CursorOf(h), DimensionsOf(h), RowOf(h)', CursorOf(h)', DimensionsOf(h)')

(* The rows of a host, before and after a step.                            *)
LEMMA OwnRows ==
  ASSUME NEW h \in Hosts
  PROVE  /\ RowOf(h) = reservations[OpOf[h]] /\ RowOf(h)' = reservations'[OpOf[h]]
         /\ CursorOf(h) = growthRows[OpOf[h]] /\ CursorOf(h)' = growthRows'[OpOf[h]]
         /\ DimensionsOf(h) = vectorRows[OpOf[h]] /\ DimensionsOf(h)' = vectorRows'[OpOf[h]]
         /\ \A host : DriftsAt(OpOf[h]) => MovesAt(h, host)
BY DEF RowOf, CursorOf, DimensionsOf, MovesAt, Moves, DriftsAt

(* A call that names a reservation does nothing, or recovers it and is     *)
(* refused, or has its effect and is answered so.                          *)
LEMMA NamedCalls ==
  ASSUME TablesAgree, NEW q, NEW E, NEW F, NEW answer, NEW op, op = q.op,
         Answer(q, E, F) = OnActive(op, answer), Execute(q, E, F),
         q.method \in {"mark_liable", "renew", "settle", "grow"},
         answer.status \in {"ok", "state_error", "threw"}, answer.status = "threw" => answer = Threw
  PROVE  \/ UNCHANGED vars /\ Answer(q, E, F).status \in {"state_error", "threw"}
         \/ IsExpired(op) /\ Effect(q, E, F) /\ Answer(q, E, F) = StateError
         \/ /\ Active(op) /\ answer.status = "ok" /\ Answer(q, E, F) = answer
            /\ IF q.method = "grow" /\ Recorded(op, q.increment) # {} THEN UNCHANGED vars
               ELSE Effect(q, E, F)
<1> DEFINE a == Answer(q, E, F)
<1>1. StateError.status = "state_error" /\ Threw.status = "threw"
  BY DEF StateError, Threw
<1>2. IsExpired(op) => ~Active(op)
  BY DEF Active
<1>3. /\ IsExpired(op) => a \in {StateError, Threw}
      /\ Active(op) => a = answer
      /\ ~IsExpired(op) /\ ~Active(op) => a = StateError
  BY <1>2 DEF OnActive
<1>4. /\ HasEffect(q, a) => Effect(q, E, F)
      /\ ~HasEffect(q, a) => UNCHANGED vars
  BY DEF Execute
<1> HIDE DEF a
<1>5. HasEffect(q, a) <=>
        /\ a # Threw
        /\ \/ IsExpired(op)
           \/ Active(op) /\ a.status = "ok" /\ ~(q.method = "grow" /\ Recorded(op, q.increment) # {})
  BY DEF HasEffect
<1>6. CASE IsExpired(op)
  BY <1>1, <1>3, <1>4, <1>5, <1>6 DEF a
<1>7. CASE Active(op)
  BY <1>1, <1>2, <1>3, <1>4, <1>5, <1>7 DEF a
<1>8. CASE ~IsExpired(op) /\ ~Active(op)
  BY <1>1, <1>3, <1>4, <1>5, <1>8 DEF a
<1> QED
  BY <1>6, <1>7, <1>8

(* Each request: what it does to the rows, and the truth of its answer.    *)
LEMMA ReserveExecutes ==
  ASSUME TablesAgree, NEW h \in Hosts, NEW q \in Requests(h), q.method = "reserve",
         NEW E \in ExpiredFor(q), NEW F \in ForgottenFor(q), Execute(q, E, F)
  PROVE  LET a == Answer(q, E, F)
         IN  /\ TablesAgree' /\ now' = now
             /\ \A o \in Operations \ {OpOf[h]} : DriftsAt(o)
             /\ \/ /\ a.status = "ok" /\ a.expiresAt = now + TtlOf[h]
                   /\ BeginsAt(OpOf[h], TtlOf[h])
                \/ /\ a.status \notin {"ok", "active", "settlement_conflict"}
                   /\ DriftsAt(OpOf[h])
<1> DEFINE a == Answer(q, E, F)
           op == OpOf[h]
           z == Recovered(E, F)
<1>1. /\ q.op = op /\ q.charge \in Charges /\ q.ttl = TtlOf[h]
      /\ op \in Operations /\ TtlOf[h] \in Ttls
  BY RequestFields, HostTypes
<1>2. E \in ExpiredBatches /\ F \in TombstoneBatches
  BY DEF ExpiredFor, ForgottenFor
<1>3. a = ReserveAnswer(q, E, F)
  BY DEF Answer
<1>4. HasEffect(q, a) <=> a # Threw
  BY DEF HasEffect
<1>5. CASE a = Threw
  <2>1. UNCHANGED vars
    BY <1>4, <1>5 DEF Execute
  <2>2. a.status = "threw"
    BY <1>5 DEF Threw
  <2> QED BY <1>1, <2>1, <2>2, QuietMoves
<1>6. CASE a # Threw
  <2>1. ReserveAfter(op, q.charge, q.limits, TtlOf[h], E, F)
    BY <1>1, <1>4, <1>6 DEF Execute, Effect
  <2>2. /\ TablesAgree' /\ now' = now
        /\ \A o \in Operations \ {op} : DriftsAt(o)
        /\ IF Refused(op, q.charge, q.limits, z) THEN DriftsAt(op) ELSE BeginsAt(op, TtlOf[h])
    BY <1>1, <1>2, <2>1, ReserveMoves
  <2>3. CASE Refused(op, q.charge, q.limits, z)
    <3>1. a.status \in {"duplicate_operation", "quota_exceeded"}
      BY <1>1, <1>3, <1>6, <2>3 DEF ReserveAnswer
    <3> QED BY <2>2, <2>3, <3>1
  <2>4. CASE ~Refused(op, q.charge, q.limits, z)
    <3> DEFINE m == now + TtlOf[h]
    <3>1. a = [status |-> "ok", expiresAt |-> m]
      BY <1>1, <1>3, <1>6, <2>4 DEF ReserveAnswer, Until
    <3> HIDE DEF a, m
    <3>2. a.status = "ok" /\ a.expiresAt = m
      BY <3>1
    <3> QED BY <2>2, <2>4, <3>2 DEF a, m
  <2> QED BY <2>3, <2>4
<1> QED
  BY <1>5, <1>6

LEMMA MarkLiableExecutes ==
  ASSUME TablesAgree, NEW h \in Hosts, NEW q \in Requests(h), q.method = "mark_liable",
         NEW E, NEW F, Execute(q, E, F), NEW host,
         RowTrue(h, host, RowOf(h), CursorOf(h), DimensionsOf(h), now)
  PROVE  /\ TablesAgree' /\ now' = now
         /\ \A o \in Operations \ {OpOf[h]} : DriftsAt(o)
         /\ MovesAt(h, host)
         /\ AnswerTrue(host, q, Answer(q, E, F), RowOf(h)', DimensionsOf(h)', now)
<1> DEFINE a == Answer(q, E, F)
           op == OpOf[h]
           answer == [status |-> "ok", expiresAt |-> reservations[op].expiresAt]
<1>1. q.op = op /\ op \in Operations
  BY RequestFields, HostTypes
<1>2. a = OnActive(op, answer)
  BY <1>1 DEF Answer, MarkLiableAnswer
<1>3. answer.status = "ok" /\ answer.expiresAt = reservations[op].expiresAt
  OBVIOUS
<1>4. Effect(q, E, F) => MarkLiable(op)
  BY <1>1 DEF Effect
<1> HIDE DEF answer, a
<1>5. \/ UNCHANGED vars /\ a.status \in {"state_error", "threw"}
      \/ IsExpired(op) /\ MarkLiable(op) /\ a = StateError
      \/ Active(op) /\ a = answer /\ MarkLiable(op)
  BY <1>1, <1>2, <1>3, <1>4, NamedCalls DEF a
<1>6. CASE UNCHANGED vars /\ a.status \in {"state_error", "threw"}
  BY <1>1, <1>6, QuietMoves, OwnRows, RefusalTrue DEF a
<1>7. CASE IsExpired(op) /\ MarkLiable(op) /\ a = StateError
  <2>1. a.status = "state_error"
    BY <1>7 DEF StateError
  <2>2. ~Active(op)
    BY <1>7 DEF Active
  <2> QED BY <1>1, <1>7, <2>1, <2>2, MarkLiableMoves, OwnRows, RefusalTrue DEF a
<1>8. CASE Active(op) /\ a = answer /\ MarkLiable(op)
  <2>1. ~IsExpired(op) /\ Open(op) /\ RowOf(h) \in ReservationRow /\ now \in Nat
    BY <1>1, <1>8, RowTypes, OwnRows DEF Active
  <2>2. /\ TablesAgree' /\ now' = now /\ \A o \in Operations \ {op} : DriftsAt(o)
        /\ Marks(RowOf(h), CursorOf(h), DimensionsOf(h), RowOf(h)', CursorOf(h)', DimensionsOf(h)')
    BY <1>1, <1>8, <2>1, MarkLiableMoves, OwnRows
  <2>3. a.expiresAt = RowOf(h).expiresAt /\ RowOf(h).expiresAt \in Nat \ {0} /\ a.status = "ok"
    BY <1>1, <1>3, <1>8, <2>1, OwnRows, RowFields DEF IsExpired
  <2>4. Told(now, a.expiresAt) /\ Covers(a.expiresAt, a.expiresAt)
    <3>1. Told(now, a.expiresAt)
      BY <2>2, <2>3 DEF RowTrue, Marks
    <3> QED BY <2>1, <2>3, <3>1, CoversItself
  <2>5. AnswerTrue(host, q, a, RowOf(h)', DimensionsOf(h)', now)
    BY <2>2, <2>3, <2>4 DEF AnswerTrue, Marks, Lasts, Kept, Conflict
  <2> QED BY <2>2, <2>5 DEF MovesAt, Moves, a
<1> QED
  BY <1>5, <1>6, <1>7, <1>8

LEMMA RenewExecutes ==
  ASSUME TablesAgree, NEW h \in Hosts, NEW q \in Requests(h), q.method = "renew",
         NEW E, NEW F, Execute(q, E, F), NEW host,
         RowTrue(h, host, RowOf(h), CursorOf(h), DimensionsOf(h), now),
         HostTrue(host, RowOf(h), DimensionsOf(h), now)
  PROVE  /\ TablesAgree' /\ now' = now
         /\ \A o \in Operations \ {OpOf[h]} : DriftsAt(o)
         /\ MovesAt(h, host)
         /\ AnswerTrue(host, q, Answer(q, E, F), RowOf(h)', DimensionsOf(h)', now)
<1> DEFINE a == Answer(q, E, F)
           op == OpOf[h]
           m == now + q.ttl
           answer == Until(m)
<1>1. q.op = op /\ op \in Operations /\ q.ttl \in Ttls /\ q.ttl \in Nat \ {0}
  BY RequestFields, HostTypes, CloudflareConstants
<1>2. a = OnActive(op, answer)
  BY <1>1 DEF Answer, RenewAnswer
<1>3. /\ answer.status \in {"ok", "threw"}
      /\ answer.status = "threw" => answer = Threw
      /\ answer.status = "ok" => answer.expiresAt = m
  <2> HIDE DEF m
  <2> QED BY DEF Until, Threw
<1>4. Effect(q, E, F) => Renew(op, q.ttl)
  BY <1>1 DEF Effect
<1> HIDE DEF answer, a
<1>5. \/ UNCHANGED vars /\ a.status \in {"state_error", "threw"}
      \/ IsExpired(op) /\ Renew(op, q.ttl) /\ a = StateError
      \/ Active(op) /\ a = answer /\ answer.status = "ok" /\ Renew(op, q.ttl)
  BY <1>1, <1>2, <1>3, <1>4, NamedCalls DEF a
<1>6. CASE UNCHANGED vars /\ a.status \in {"state_error", "threw"}
  BY <1>1, <1>6, QuietMoves, OwnRows, RefusalTrue DEF a
<1>7. CASE IsExpired(op) /\ Renew(op, q.ttl) /\ a = StateError
  <2>1. a.status = "state_error"
    BY <1>7 DEF StateError
  <2>2. ~Active(op)
    BY <1>7 DEF Active
  <2> QED BY <1>1, <1>7, <2>1, <2>2, RenewMoves, OwnRows, RefusalTrue DEF a
<1>8. CASE Active(op) /\ a = answer /\ answer.status = "ok" /\ Renew(op, q.ttl)
  <2>1. ~IsExpired(op) /\ OpenRow(RowOf(h)) /\ RowOf(h) \in ReservationRow /\ now \in Nat
    BY <1>1, <1>8, RowTypes, OwnRows DEF Active, Open, OpenRow
  <2>2. /\ TablesAgree' /\ now' = now /\ \A o \in Operations \ {op} : DriftsAt(o)
        /\ Prolongs(now, q.ttl, RowOf(h), CursorOf(h), DimensionsOf(h),
                    RowOf(h)', CursorOf(h)', DimensionsOf(h)')
    BY <1>1, <1>8, <2>1, RenewMoves, OwnRows
  <2>3. a.expiresAt = m /\ m \in Nat \ {0} /\ a.status = "ok"
    BY <1>1, <1>3, <1>8, <2>1
  <2>4. RowOf(h)'.expiresAt = m /\ RowOf(h)'.state = RowOf(h).state
    BY <2>2 DEF Prolongs
  <2>9. Told(now, m) /\ Covers(m, m)
    <3>1. Told(now, m)
      BY <1>1, <2>1 DEF Told
    <3> QED BY <2>1, <2>3, <3>1, CoversItself
  <2>5. host.step = "working" => Kept(host, RowOf(h)', now, m)
    <3>1. host.step = "working" /\ host.settlement = {} => RowOf(h).state = "liable"
      BY <2>1 DEF HostTrue, Kept, OpenRow
    <3> QED BY <2>4, <2>9, <3>1 DEF Kept
  <2>6. Lasts(RowOf(h)', now, m)
    BY <2>4, <2>9 DEF Lasts
  <2> HIDE DEF m
  <2>7. AnswerTrue(host, q, a, RowOf(h)', DimensionsOf(h)', now)
    BY <2>3, <2>5, <2>6 DEF AnswerTrue, Conflict
  <2> QED BY <1>1, <2>2, <2>7 DEF MovesAt, Moves, a
<1> QED
  BY <1>5, <1>6, <1>7, <1>8

-----------------------------------------------------------------------------
(* The settlement that is answered is the one of the host.                 *)
LEMMA SettleExecutes ==
  ASSUME TablesAgree, NEW h \in Hosts, NEW q \in Requests(h), q.method = "settle",
         NEW E, NEW F, Execute(q, E, F), NEW host,
         host.settlement = {[actual |-> q.actual, outcome |-> q.outcome]},
         RowTrue(h, host, RowOf(h), CursorOf(h), DimensionsOf(h), now)
  PROVE  /\ TablesAgree' /\ now' = now
         /\ \A o \in Operations \ {OpOf[h]} : DriftsAt(o)
         /\ MovesAt(h, host)
         /\ AnswerTrue(host, q, Answer(q, E, F), RowOf(h)', DimensionsOf(h)', now)
<1> DEFINE a == Answer(q, E, F)
           op == OpOf[h]
           r == reservations[op]
           held == Reserved(op)
           reply == [status |-> "ok", reserved |-> held, actual |-> q.actual]
           answer == IF \/ IsVector(op) # (q.mode = "vector")
                        \/ \E b \in Budgets : q.actual[b] > held[b] THEN StateError
                     ELSE IF CanSettle THEN SettlementReply(op, q.actual) ELSE Threw
           replayed == Exists(op) /\ r.state = "settled" /\ IsVector(op) = (q.mode = "vector")
<1>1. /\ q.op = op /\ op \in Operations /\ q.actual \in Actuals /\ q.outcome \in Outcomes
      /\ q.actual \in [Budgets -> Nat]
  BY RequestFields, HostTypes, ConstantTypes
<1>2. a = IF replayed THEN
            IF r.outcome = LeaseExpiredReason THEN StateError
            ELSE IF RecordedActual(op) = q.actual /\ r.outcome = q.outcome THEN SettlementReply(op, q.actual)
            ELSE Conflict
          ELSE OnActive(op, answer)
  BY <1>1 DEF Answer, SettleAnswer
<1>3. /\ RowOf(h) = r /\ r \in ReservationRow /\ DimensionsOf(h) = vectorRows[op]
      /\ held = UnitsIn(RowOf(h), DimensionsOf(h)) /\ held \in [Budgets -> Nat]
      /\ RecordedActual(op) = ActualIn(RowOf(h), DimensionsOf(h))
  BY <1>1, RowTypes, OwnRows, ReservedType DEF Reserved, UnitsIn, RecordedActual, ActualIn, IsVector
<1>4. /\ reply = SettlementReply(op, q.actual)
      /\ reply.status = "ok" /\ reply.reserved = held /\ reply.actual = q.actual
  BY DEF SettlementReply
<1>5. ASSUME NEW rr, NEW vv, a = reply, \A b \in Budgets : q.actual[b] <= held[b], Closed(host, rr, vv)
      PROVE  AnswerTrue(host, q, a, rr, vv, now)
  <2>1. a.status = "ok" /\ a # Conflict
    BY <1>4, <1>5 DEF Conflict
  <2>2. SettlementFits(q, a)
    BY <1>1, <1>3, <1>4, <1>5 DEF SettlementFits
  <2> QED BY <1>5, <2>1, <2>2 DEF AnswerTrue
<1>6. CASE replayed
  <2>1. ~IsExpired(op) /\ ~Active(op)
    BY <1>6 DEF IsExpired, Active, Open
  <2>2. ~HasEffect(q, a)
    BY <1>1, <2>1 DEF HasEffect
  <2>3. UNCHANGED vars
    BY <2>2 DEF Execute
  <2>4. /\ TablesAgree' /\ now' = now /\ \A o \in Operations : DriftsAt(o) /\ MovesAt(h, host)
        /\ RowOf(h)' = RowOf(h) /\ DimensionsOf(h)' = DimensionsOf(h)
    BY <1>1, <2>3, QuietMoves, OwnRows
  <2>5. CASE r.outcome = LeaseExpiredReason
    <3>1. a.status = "state_error"
      BY <1>2, <1>6, <2>5 DEF StateError
    <3> QED BY <1>1, <2>4, <3>1, RefusalTrue DEF a
  <2>6. CASE r.outcome # LeaseExpiredReason
    <3> HIDE DEF reply, a, answer
    <3>1. Bears(host, RowOf(h), DimensionsOf(h)) /\ \A b \in Budgets :
            ActualIn(RowOf(h), DimensionsOf(h))[b] <= UnitsIn(RowOf(h), DimensionsOf(h))[b]
      BY <1>3, <1>6, <2>6 DEF RowTrue
    <3>2. ActualIn(RowOf(h), DimensionsOf(h)) = q.actual /\ r.outcome = q.outcome
      BY <1>3, <3>1 DEF Bears
    <3>3. a = reply
      BY <1>2, <1>3, <1>4, <1>6, <2>6, <3>2
    <3>4. Closed(host, RowOf(h), DimensionsOf(h))
      BY <1>3, <1>6, <3>1 DEF Closed
    <3>5. \A b \in Budgets : q.actual[b] <= held[b]
      BY <1>3, <3>1, <3>2
    <3> QED BY <1>1, <1>5, <2>4, <3>3, <3>4, <3>5 DEF a
  <2> QED BY <2>5, <2>6
<1>7. CASE ~replayed
  <2>1. /\ answer.status \in {"ok", "state_error", "threw"}
        /\ answer.status = "threw" => answer = Threw
        /\ answer.status = "ok" => answer = reply /\ \A b \in Budgets : ~(q.actual[b] > held[b])
    <3>1. Threw.status = "threw" /\ StateError.status = "state_error"
      BY DEF Threw, StateError
    <3> HIDE DEF reply, held
    <3> QED BY <1>4, <3>1
  <2>2. Effect(q, E, F) => Settle(op, q.actual, q.outcome)
    BY <1>1 DEF Effect
  <2>3. a = OnActive(op, answer)
    BY <1>2, <1>7
  <2> HIDE DEF answer, a, reply, held
  <2>4. \/ UNCHANGED vars /\ a.status \in {"state_error", "threw"}
        \/ IsExpired(op) /\ Settle(op, q.actual, q.outcome) /\ a = StateError
        \/ Active(op) /\ a = reply /\ answer.status = "ok" /\ Settle(op, q.actual, q.outcome)
    BY <1>1, <2>1, <2>2, <2>3, NamedCalls DEF a
  <2>5. CASE UNCHANGED vars /\ a.status \in {"state_error", "threw"}
    BY <1>1, <2>5, QuietMoves, OwnRows, RefusalTrue DEF a
  <2>6. CASE IsExpired(op) /\ Settle(op, q.actual, q.outcome) /\ a = StateError
    <3>1. a.status = "state_error"
      BY <2>6 DEF StateError
    <3>2. ~Active(op)
      BY <2>6 DEF Active
    <3> QED BY <1>1, <2>6, <3>1, <3>2, SettleMoves, OwnRows, RefusalTrue DEF a
  <2>7. CASE Active(op) /\ a = reply /\ answer.status = "ok" /\ Settle(op, q.actual, q.outcome)
    <3>1. ~IsExpired(op)
      BY <2>7 DEF Active
    <3>2. /\ TablesAgree' /\ now' = now /\ \A o \in Operations \ {op} : DriftsAt(o)
          /\ SettlesAt(op, q.actual, q.outcome)
      BY <1>1, <2>7, <3>1, SettleMoves
    <3>3. /\ OpenRow(RowOf(h)) /\ RowOf(h)'.state = "settled"
          /\ ActualIn(RowOf(h)', DimensionsOf(h)') = q.actual /\ RowOf(h)'.outcome = q.outcome
          /\ CursorOf(h)' = CursorOf(h) /\ DimensionsOf(h)'.last = DimensionsOf(h).last
          /\ \A b \in Budgets : q.actual[b] <= UnitsIn(RowOf(h)', DimensionsOf(h)')[b]
      BY <3>2, OwnRows DEF SettlesAt
    <3>4. Bears(host, RowOf(h)', DimensionsOf(h)')
      BY <3>3 DEF Bears
    <3>5. Closes(host, RowOf(h), CursorOf(h), DimensionsOf(h), RowOf(h)', CursorOf(h)', DimensionsOf(h)')
      BY <3>3, <3>4 DEF Closes
    <3>6. \A b \in Budgets : q.actual[b] <= held[b]
      BY <1>1, <1>3, <2>1, <2>7
    <3>7. AnswerTrue(host, q, a, RowOf(h)', DimensionsOf(h)', now)
      BY <1>5, <2>7, <3>3, <3>4, <3>6 DEF Closed
    <3> QED BY <3>2, <3>5, <3>7 DEF MovesAt, Moves, a
  <2> QED BY <2>4, <2>5, <2>6, <2>7
<1> QED
  BY <1>6, <1>7

(* A growth is answered from the rows, the first time and on replay.       *)
LEMMA GrowExecutes ==
  ASSUME TablesAgree, NEW h \in Hosts, NEW q \in Requests(h), q.method = "grow",
         NEW E, NEW F, Execute(q, E, F), NEW host,
         RowTrue(h, host, RowOf(h), CursorOf(h), DimensionsOf(h), now)
  PROVE  /\ TablesAgree' /\ now' = now
         /\ \A o \in Operations \ {OpOf[h]} : DriftsAt(o)
         /\ MovesAt(h, host)
         /\ AnswerTrue(host, q, Answer(q, E, F), RowOf(h)', DimensionsOf(h)', now)
<1> DEFINE a == Answer(q, E, F)
           op == OpOf[h]
           held == Reserved(op)
           accepted == WithinLimits(q.add, q.limits, used)
           grown == IF accepted THEN Plus(held, q.add.units) ELSE held
           k == [accepted |-> accepted, previous |-> held, reserved |-> grown]
           old == CHOOSE g \in Recorded(op, q.increment) : TRUE
           answer == IF IsVector(op) # (q.add.mode = "vector") THEN StateError
                     ELSE IF Recorded(op, q.increment) # {} THEN
                       IF growthRows[op].cursor = q.cursor + 1 /\ old.fingerprint = <<q.add, q.limits>>
                         THEN GrowthReply(growthRows[op].cursor, old) ELSE StateError
                     ELSE IF growthRows[op].cursor # q.cursor \/ BudgetIds(op) # q.add.keys THEN StateError
                     ELSE IF \E b \in q.add.keys : ~Safe(grown[b]) THEN Threw
                     ELSE GrowthReply(q.cursor + 1, k)
<1>1. /\ q.op = op /\ op \in Operations /\ q.increment \in Increments /\ q.cursor \in 1..MaxCursor - 1
      /\ q.cursor \in 1..MaxCursor /\ q.cursor + 1 \in 0..MaxCursor
      /\ q.add \in Growths /\ q.limits \in Limits
  BY RequestFields, HostTypes, RemoteTypes
<1>2. a = OnActive(op, answer)
  BY <1>1 DEF Answer, GrowAnswer
<1>3. held \in [Budgets -> Nat] /\ q.add.units \in [Budgets -> Nat] /\ q.add.keys \in SUBSET Budgets
  BY <1>1, ReservedType, ChargeTypes
<1>4. k.accepted = accepted /\ k.previous = held /\ k.reserved = grown /\ grown \in [Budgets -> Nat]
  BY <1>3, PlusType
<1>5. ASSUME NEW n \in 0..MaxCursor, NEW g, answer = GrowthReply(n, g), g.reserved \in [Budgets -> Nat],
             g.accepted => /\ g.reserved = Plus(g.previous, q.add.units)
                           /\ \A b \in q.add.keys : Safe(g.reserved[b])
      PROVE  answer.status = "ok" /\ \A r, v : AnswerTrue(host, q, answer, r, v, now)
  <2>1. /\ answer.status = "ok" /\ answer.cursor = n /\ answer.accepted = g.accepted
        /\ answer.previous = g.previous /\ answer.reserved = g.reserved
    BY <1>5 DEF GrowthReply
  <2> HIDE DEF answer
  <2>2. GrowthFits(q, answer) /\ answer # Conflict
    BY <1>5, <2>1 DEF GrowthFits, Conflict
  <2> QED BY <1>5, <2>1, <2>2 DEF AnswerTrue
<1>6. Recorded(op, q.increment) # {} => /\ old \in CursorOf(h).last \cup DimensionsOf(h).last
                                         /\ old.reserved \in [Budgets -> Nat] /\ GrowthTrue(old)
  <2> SUFFICES ASSUME Recorded(op, q.increment) # {}
               PROVE  /\ old \in CursorOf(h).last \cup DimensionsOf(h).last
                      /\ old.reserved \in [Budgets -> Nat] /\ GrowthTrue(old)
    OBVIOUS
  <2>1. old \in Recorded(op, q.increment)
    OBVIOUS
  <2> HIDE DEF old
  <2>2. old \in CursorOf(h).last \cup DimensionsOf(h).last
    BY <2>1, OwnRows DEF Recorded, LastGrowth
  <2>3. CursorOf(h).last \in SUBSET Growth /\ DimensionsOf(h).last \in SUBSET Growth
    BY <1>1, OwnRows, RowTypes, GrowthFields, VectorFields
  <2>4. old.reserved \in [Budgets -> Nat]
    BY <2>2, <2>3 DEF Growth
  <2> QED BY <2>2, <2>4 DEF RowTrue
<1>7. Threw.status = "threw" /\ StateError.status = "state_error"
  BY DEF Threw, StateError
<1>8. CASE answer \in {StateError, Threw}
  <2>1. answer.status \in {"state_error", "threw"} /\ (answer.status = "threw" => answer = Threw)
    BY <1>7, <1>8
  <2> HIDE DEF answer, a
  <2>2. \/ UNCHANGED vars /\ a.status \in {"state_error", "threw"}
        \/ IsExpired(op) /\ Effect(q, E, F) /\ a = StateError
    BY <1>1, <1>2, <2>1, NamedCalls DEF a
  <2>3. CASE UNCHANGED vars /\ a.status \in {"state_error", "threw"}
    BY <1>1, <2>3, QuietMoves, OwnRows, RefusalTrue DEF a
  <2>4. CASE IsExpired(op) /\ Effect(q, E, F) /\ a = StateError
    <3>1. a.status = "state_error" /\ ~Active(op)
      BY <1>7, <2>4 DEF Active
    <3>2. Grow(op, q.increment, q.cursor, q.add, q.limits)
      BY <1>1, <2>4 DEF Effect
    <3> QED BY <1>1, <3>1, <3>2, GrowMoves, OwnRows, RefusalTrue DEF a
  <2> QED BY <2>2, <2>3, <2>4
<1>9. CASE answer \notin {StateError, Threw}
  <2>1. answer.status = "ok" /\ \A r, v : AnswerTrue(host, q, answer, r, v, now)
    <3>1. CASE Recorded(op, q.increment) # {}
      <4>1. /\ answer = GrowthReply(q.cursor + 1, old) /\ old.fingerprint = <<q.add, q.limits>>
        BY <1>9, <3>1
      <4>2. old.fingerprint[1] = q.add
        BY <4>1
      <4> HIDE DEF old, answer
      <4> QED BY <1>1, <1>5, <1>6, <3>1, <4>1, <4>2 DEF GrowthTrue
    <3>2. CASE Recorded(op, q.increment) = {}
      <4>1. answer = GrowthReply(q.cursor + 1, k) /\ \A b \in q.add.keys : Safe(grown[b])
        BY <1>9, <3>2
      <4>2. k.accepted => k.reserved = Plus(k.previous, q.add.units)
        BY <1>4
      <4> HIDE DEF k, answer, grown, accepted, held
      <4> QED BY <1>1, <1>4, <1>5, <4>1, <4>2
    <3> QED BY <3>1, <3>2
  <2> HIDE DEF answer, a, old, k, grown, accepted, held
  <2>2. \/ UNCHANGED vars /\ a.status \in {"state_error", "threw"}
        \/ IsExpired(op) /\ Effect(q, E, F) /\ a = StateError
        \/ Active(op) /\ a = answer /\ (UNCHANGED vars \/ Effect(q, E, F))
    BY <1>1, <1>2, <2>1, NamedCalls DEF a
  <2>3. CASE UNCHANGED vars
    <3>1. a.status \in {"state_error", "threw"} \/ a = answer \/ a = StateError
      BY <2>2
    <3>2. AnswerTrue(host, q, a, RowOf(h)', DimensionsOf(h)', now)
      BY <1>7, <2>1, <3>1, RefusalTrue
    <3> QED BY <1>1, <2>3, <3>2, QuietMoves, OwnRows DEF a
  <2>4. CASE Effect(q, E, F) /\ ((IsExpired(op) /\ a = StateError) \/ (Active(op) /\ a = answer))
    <3>1. Grow(op, q.increment, q.cursor, q.add, q.limits)
      BY <1>1, <2>4 DEF Effect
    <3>2. AnswerTrue(host, q, a, RowOf(h)', DimensionsOf(h)', now)
      BY <1>7, <2>1, <2>4, RefusalTrue
    <3>3. /\ TablesAgree' /\ now' = now /\ \A o \in Operations \ {op} : DriftsAt(o)
          /\ MovesAt(h, host)
      BY <1>1, <3>1, GrowMoves, OwnRows DEF MovesAt, Moves
    <3> QED BY <3>2, <3>3 DEF a
  <2> QED BY <2>2, <2>3, <2>4
<1> QED
  BY <1>8, <1>9

(* A lookup writes nothing but the recovery of an expired row.             *)
LEMMA LookupExecutes ==
  ASSUME TablesAgree, NEW h \in Hosts, NEW q \in Requests(h), q.method = "lookup",
         NEW E, NEW F, Execute(q, E, F), NEW host,
         RowTrue(h, host, RowOf(h), CursorOf(h), DimensionsOf(h), now)
  PROVE  /\ TablesAgree' /\ now' = now
         /\ \A o \in Operations \ {OpOf[h]} : DriftsAt(o)
         /\ MovesAt(h, host)
         /\ AnswerTrue(host, q, Answer(q, E, F), RowOf(h)', DimensionsOf(h)', now)
         /\ Answer(q, E, F).status = "active" => RowOf(h).state # "absent"
         /\ Answer(q, E, F).status # "ok"
<1> DEFINE a == Answer(q, E, F)
           op == OpOf[h]
           r == reservations[op]
<1>1. q.op = op /\ op \in Operations
  BY RequestFields, HostTypes
<1>2. a = LookupAnswer(q)
  BY DEF Answer
<1>3. UNCHANGED vars
  BY DEF Execute, HasEffect
<1>4. /\ TablesAgree' /\ now' = now /\ \A o \in Operations : DriftsAt(o) /\ MovesAt(h, host)
      /\ RowOf(h)' = RowOf(h) /\ DimensionsOf(h)' = DimensionsOf(h)
  BY <1>1, <1>3, QuietMoves, OwnRows
<1>5. RowOf(h) = r /\ r \in ReservationRow /\ r.expiresAt \in Nat
  BY <1>1, OwnRows, RowTypes, RowFields
<1>6. /\ a.status \in {"absent", "threw", "expired", "active", "settled"}
      /\ a.status = "active" => Open(op) /\ a.expiresAt = r.expiresAt /\ a.state = r.state
  <2>1. CASE ~Exists(op)
    BY <1>1, <1>2, <2>1 DEF LookupAnswer
  <2>2. CASE Exists(op) /\ r.budgetIds = {}
    BY <1>1, <1>2, <2>2 DEF LookupAnswer, Threw
  <2>3. CASE Exists(op) /\ r.budgetIds # {} /\ Open(op)
    BY <1>1, <1>2, <2>3 DEF LookupAnswer
  <2>4. CASE Exists(op) /\ r.budgetIds # {} /\ ~Open(op)
    BY <1>1, <1>2, <2>4 DEF LookupAnswer
  <2> QED BY <2>1, <2>2, <2>3, <2>4
<1> HIDE DEF a
<1>7. a.status = "active" => RowOf(h).state # "absent" /\ (a.state = "pending" => host.runs = 0)
  BY <1>5, <1>6 DEF Open, RowTrue
<1>8. a.status = "active" => Lasts(RowOf(h)', now, a.expiresAt)
  <2>1. SUFFICES ASSUME a.status = "active" PROVE Lasts(r, now, r.expiresAt)
    BY <1>4, <1>5, <1>6
  <2>2. Told(now, r.expiresAt)
    BY <1>5, <1>6, <2>1 DEF Open, OpenRow, RowTrue
  <2> QED BY <1>1, <1>5, <2>2, RowTypes, CoversItself DEF Lasts
<1>9. AnswerTrue(host, q, a, RowOf(h)', DimensionsOf(h)', now)
  BY <1>4, <1>5, <1>6, <1>7, <1>8 DEF AnswerTrue, Conflict
<1> QED
  BY <1>1, <1>4, <1>6, <1>7, <1>9 DEF a

-----------------------------------------------------------------------------
(* All requests but the admission.                                         *)
LEMMA CallExecutes ==
  ASSUME TablesAgree, NEW h \in Hosts, NEW q \in Requests(h), q.method # "reserve",
         NEW E, NEW F, Execute(q, E, F), NEW host,
         q.method = "settle" => host.settlement = {[actual |-> q.actual, outcome |-> q.outcome]},
         RowTrue(h, host, RowOf(h), CursorOf(h), DimensionsOf(h), now),
         HostTrue(host, RowOf(h), DimensionsOf(h), now)
  PROVE  /\ TablesAgree' /\ now' = now
         /\ \A o \in Operations \ {OpOf[h]} : DriftsAt(o)
         /\ MovesAt(h, host)
         /\ AnswerTrue(host, q, Answer(q, E, F), RowOf(h)', DimensionsOf(h)', now)
         /\ q.method = "lookup" => /\ Answer(q, E, F).status # "ok"
                                   /\ Answer(q, E, F).status = "active" => RowOf(h).state # "absent"
<1>1. q.method \in Methods
  BY RequestFields
<1>2. CASE q.method = "mark_liable"
  BY <1>2, MarkLiableExecutes
<1>3. CASE q.method = "renew"
  BY <1>3, RenewExecutes
<1>4. CASE q.method = "settle"
  BY <1>4, SettleExecutes
<1>5. CASE q.method = "grow"
  BY <1>5, GrowExecutes
<1>6. CASE q.method = "lookup"
  BY <1>6, LookupExecutes
<1> QED
  BY <1>1, <1>2, <1>3, <1>4, <1>5, <1>6 DEF Methods

(* A host that a step leaves alone, except perhaps for a request of its    *)
(* own that is no longer under way.                                        *)
LEMMA MoveKeepsHost ==
  ASSUME TablesAgree, TablesAgree', now' = now, NEW h \in Hosts, NEW host, NEW call, NEW own,
         HostInv(h, host, call, own, RowOf(h), CursorOf(h), DimensionsOf(h), now),
         NEW left \in SUBSET own, MovesAt(h, host)
  PROVE  HostInv(h, host, call, left, RowOf(h)', CursorOf(h)', DimensionsOf(h)', now')
<1> DEFINE r == RowOf(h)
           r2 == RowOf(h)'
           v == DimensionsOf(h)
           v2 == DimensionsOf(h)'
<1>1. OpOf[h] \in Operations /\ host \in HostState
  BY HostTypes DEF HostInv, Linked
<1>2. r \in ReservationRow /\ r2 \in ReservationRow /\ now \in Nat
  BY <1>1, AgreeTypes, OwnRows
<1>3. /\ RowTrue(h, host, r2, CursorOf(h)', v2, now)
      /\ Steady(host, r, v, now, r2, v2, now)
      /\ r.state = "absent" => r2.state = "absent"
  BY <1>1, <1>2, MoveKeeps DEF HostInv, MovesAt
<1>4. /\ HostTrue(host, r2, v2, now)
      /\ call.phase = "answered" => AnswerTrue(host, call.request, call.answer, r2, v2, now)
  BY <1>1, <1>3, SteadyKeeps DEF HostInv
<1>5. Linked(h, host, call, left)
  <2>1. Linked(h, host, call, own)
    BY DEF HostInv
  <2> QED BY <2>1 DEF Linked
<1>6. Clean(host, call, left, r2)
  <2>1. Clean(host, call, own, r) /\ (Unborn(host, call, left) => Unborn(host, call, own))
    BY DEF HostInv, Unborn
  <2> QED BY <1>3, <2>1 DEF Clean
<1> QED
  BY <1>3, <1>4, <1>5, <1>6 DEF HostInv

(* Time.                                                                   *)
LEMMA TickKeepsHost ==
  ASSUME TablesAgree, now' = now + 1, UNCHANGED <<reservations, growthRows, vectorRows>>,
         NEW h \in Hosts, NEW host, NEW call, NEW own,
         HostInv(h, host, call, own, RowOf(h), CursorOf(h), DimensionsOf(h), now)
  PROVE  HostInv(h, host, call, own, RowOf(h)', CursorOf(h)', DimensionsOf(h)', now')
<1> DEFINE r == RowOf(h)
           v == DimensionsOf(h)
<1>1. OpOf[h] \in Operations /\ host \in HostState
  BY HostTypes DEF HostInv, Linked
<1>2. r \in ReservationRow /\ now \in Nat
  BY <1>1, RowTypes, OwnRows
<1>3. RowOf(h)' = r /\ CursorOf(h)' = CursorOf(h) /\ DimensionsOf(h)' = v
  BY OwnRows
<1>4. /\ RowTrue(h, host, r, CursorOf(h), v, now + 1)
      /\ Steady(host, r, v, now, r, v, now + 1)
  BY <1>1, <1>2, TimeKeeps DEF HostInv
<1>5. /\ HostTrue(host, r, v, now + 1)
      /\ call.phase = "answered" => AnswerTrue(host, call.request, call.answer, r, v, now + 1)
  BY <1>1, <1>4, SteadyKeeps DEF HostInv
<1> QED
  BY <1>3, <1>4, <1>5 DEF HostInv

(* What the host knows after the admission that it sent is executed.       *)
LEMMA AdmissionKeeps ==
  ASSUME TablesAgree, TablesAgree', now' = now, NEW h \in Hosts, NEW host, NEW call, NEW own,
         HostInv(h, host, call, own, RowOf(h), CursorOf(h), DimensionsOf(h), now),
         Unborn(host, call, own), MovesAt(h, host) \/ BeginsAt(OpOf[h], TtlOf[h])
  PROVE  /\ RowTrue(h, host, RowOf(h)', CursorOf(h)', DimensionsOf(h)', now)
         /\ HostTrue(host, RowOf(h)', DimensionsOf(h)', now)
<1>1. OpOf[h] \in Operations /\ host \in HostState /\ TtlOf[h] \in Nat
  BY HostTypes DEF HostInv, Linked
<1>2. RowOf(h) \in ReservationRow /\ RowOf(h)' \in ReservationRow /\ now \in Nat
  BY <1>1, AgreeTypes, OwnRows
<1>3. host.runs = 0 /\ host.step \in {"new", "asked", "unsure", "stopped"}
  BY DEF HostInv, Clean
<1>4. CASE MovesAt(h, host)
  BY <1>1, <1>2, <1>4, MoveKeeps, SteadyKeeps DEF HostInv, MovesAt
<1>5. CASE BeginsAt(OpOf[h], TtlOf[h])
  <2>1. /\ RowOf(h)'.state = "pending" /\ RowOf(h)'.expiresAt = now + TtlOf[h]
        /\ CursorOf(h)'.last = {}
        /\ DimensionsOf(h)'.last = {} \/ DimensionsOf(h)'.last = DimensionsOf(h).last
    BY <1>5, OwnRows DEF BeginsAt
  <2>2. \A k \in CursorOf(h)'.last \cup DimensionsOf(h)'.last : GrowthTrue(k)
    BY <2>1 DEF HostInv, RowTrue
  <2>3. Told(now, RowOf(h)'.expiresAt)
    BY <1>1, <1>2, <2>1, HostTypes, RenewalCovers DEF Told
  <2> QED BY <1>3, <2>1, <2>2, <2>3 DEF RowTrue, HostTrue
<1> QED
  BY <1>4, <1>5

Answered(call, a) == [phase |-> "answered", request |-> call.request, attempt |-> call.attempt, answer |-> a]

(* A request that the host awaits is executed.                             *)
LEMMA DeliverKeeps ==
  ASSUME TablesAgree, NEW h \in Hosts, NEW host, NEW call, NEW own,
         HostInv(h, host, call, own, RowOf(h), CursorOf(h), DimensionsOf(h), now),
         call.phase = "sent", NEW E \in ExpiredFor(call.request), NEW F \in ForgottenFor(call.request),
         Execute(call.request, E, F)
  PROVE  /\ TablesAgree' /\ now' = now
         /\ \A o \in Operations \ {OpOf[h]} : DriftsAt(o)
         /\ HostInv(h, host, Answered(call, Answer(call.request, E, F)), own,
                    RowOf(h)', CursorOf(h)', DimensionsOf(h)', now')
<1> DEFINE q == call.request
           a == Answer(q, E, F)
           done == Answered(call, a)
<1>1. /\ Linked(h, host, call, own) /\ Clean(host, call, own, RowOf(h))
      /\ RowTrue(h, host, RowOf(h), CursorOf(h), DimensionsOf(h), now)
      /\ HostTrue(host, RowOf(h), DimensionsOf(h), now)
  BY DEF HostInv
<1>2. /\ host \in HostState /\ q \in Requests(h) /\ call.attempt \in 1..MaxAttempts
      /\ Awaits(host, q.method) /\ host.step # "new"
      /\ q.method = "settle" => host.settlement = {[actual |-> q.actual, outcome |-> q.outcome]}
  <2>1. call.phase # "idle" /\ q \in own \cup Awaited(call)
    BY DEF Awaited
  <2> QED BY <1>1, <2>1 DEF Linked, CallOK
<1>3. done.phase = "answered" /\ done.request = q /\ done.attempt = call.attempt /\ done.answer = a
  BY DEF Answered
<1> HIDE DEF done, a
<1>4. Linked(h, host, done, own)
  <2>1. CallOK(h, host, done)
    BY <1>2, <1>3 DEF CallOK
  <2>2. Awaited(done) = Awaited(call)
    BY <1>3 DEF Awaited
  <2> QED BY <1>1, <1>2, <2>1, <2>2 DEF Linked
<1>5. CASE q.method # "reserve"
  <2>1. /\ TablesAgree' /\ now' = now
        /\ \A o \in Operations \ {OpOf[h]} : DriftsAt(o)
        /\ MovesAt(h, host)
        /\ AnswerTrue(host, q, a, RowOf(h)', DimensionsOf(h)', now)
        /\ q.method = "lookup" => /\ a.status # "ok"
                                  /\ a.status = "active" => RowOf(h).state # "absent"
    BY <1>1, <1>2, <1>5, CallExecutes DEF a
  <2>2. HostInv(h, host, call, own, RowOf(h)', CursorOf(h)', DimensionsOf(h)', now')
    BY <2>1, MoveKeepsHost
  <2>3. Clean(host, done, own, RowOf(h)')
    <3>1. Unborn(host, done, own) => Unborn(host, call, own)
      BY <1>3 DEF Unborn
    <3>2. Unborn(host, call, own) => /\ RowOf(h).state = "absent" /\ q.method \in {"reserve", "lookup"}
      BY <1>1 DEF Clean, Awaited
    <3>3. Clean(host, call, own, RowOf(h)') /\ Awaited(done) = Awaited(call)
      BY <1>3, <2>2 DEF HostInv, Awaited
    <3> QED BY <1>3, <1>5, <2>1, <3>1, <3>2, <3>3 DEF Clean
  <2> QED BY <1>3, <1>4, <2>1, <2>2, <2>3 DEF HostInv, a, done
<1>6. CASE q.method = "reserve"
  <2>1. /\ TablesAgree' /\ now' = now
        /\ \A o \in Operations \ {OpOf[h]} : DriftsAt(o)
        /\ \/ a.status = "ok" /\ a.expiresAt = now + TtlOf[h] /\ BeginsAt(OpOf[h], TtlOf[h])
           \/ a.status \notin {"ok", "active", "settlement_conflict"} /\ DriftsAt(OpOf[h])
    BY <1>2, <1>6, ReserveExecutes DEF a
  <2>2. Unborn(host, call, own) /\ host.step = "asked" /\ own = {}
    BY <1>1, <1>2, <1>6 DEF Unborn, Awaits, Linked
  <2>3. RowTrue(h, host, RowOf(h)', CursorOf(h)', DimensionsOf(h)', now)
        /\ HostTrue(host, RowOf(h)', DimensionsOf(h)', now)
    BY <2>1, <2>2, OwnRows, AdmissionKeeps
  <2>4. Clean(host, done, own, RowOf(h)')
    BY <1>3, <2>2 DEF Clean, Unborn
  <2>5. AnswerTrue(host, q, a, RowOf(h)', DimensionsOf(h)', now)
    <3>1. CASE a.status = "ok"
      <4>1. RowOf(h)'.expiresAt = now + TtlOf[h] /\ a.expiresAt = now + TtlOf[h]
        BY <2>1, <3>1, OwnRows DEF BeginsAt
      <4>2. now + TtlOf[h] \in Nat \ {0} /\ now \in Nat /\ TtlOf[h] \in Ttls
        BY HostTypes, RowTypes
      <4>3. Told(now, a.expiresAt)
        BY <4>1, <4>2 DEF Told
      <4>4. Covers(a.expiresAt, a.expiresAt)
        BY <4>1, <4>2, <4>3, CoversItself
      <4> QED BY <1>6, <3>1, <4>1, <4>2, <4>3, <4>4 DEF AnswerTrue, Lasts, Conflict
    <3>2. CASE a.status # "ok"
      BY <2>1, <3>2, RefusalTrue
    <3> QED BY <3>1, <3>2
  <2> QED BY <1>3, <1>4, <2>1, <2>3, <2>4, <2>5 DEF HostInv, a, done
<1> QED
  BY <1>5, <1>6

(* A request that nobody awaits is executed.                               *)
LEMMA StrayKeeps ==
  ASSUME TablesAgree, NEW h \in Hosts, NEW host, NEW call, NEW own,
         HostInv(h, host, call, own, RowOf(h), CursorOf(h), DimensionsOf(h), now),
         NEW q \in own, NEW E \in ExpiredFor(q), NEW F \in ForgottenFor(q), Execute(q, E, F)
  PROVE  /\ TablesAgree' /\ now' = now
         /\ \A o \in Operations \ {OpOf[h]} : DriftsAt(o)
         /\ HostInv(h, host, call, own \ {q}, RowOf(h)', CursorOf(h)', DimensionsOf(h)', now')
<1> DEFINE left == own \ {q}
<1>1. /\ Linked(h, host, call, own) /\ Clean(host, call, own, RowOf(h))
      /\ RowTrue(h, host, RowOf(h), CursorOf(h), DimensionsOf(h), now)
      /\ HostTrue(host, RowOf(h), DimensionsOf(h), now)
  BY DEF HostInv
<1>2. /\ host \in HostState /\ q \in Requests(h)
      /\ q.method = "settle" => host.settlement = {[actual |-> q.actual, outcome |-> q.outcome]}
  BY <1>1 DEF Linked
<1>3. left \in SUBSET own
  OBVIOUS
<1>4. CASE q.method # "reserve"
  BY <1>1, <1>2, <1>3, <1>4, CallExecutes, MoveKeepsHost
<1>5. CASE q.method = "reserve"
  <2>1. /\ TablesAgree' /\ now' = now
        /\ \A o \in Operations \ {OpOf[h]} : DriftsAt(o)
        /\ BeginsAt(OpOf[h], TtlOf[h]) \/ DriftsAt(OpOf[h])
    BY <1>2, <1>5, ReserveExecutes
  <2>2. Unborn(host, call, own) /\ host.step \in {"unsure", "stopped"}
    BY <1>1, <1>5 DEF Unborn, Linked, Clean
  <2>3. RowTrue(h, host, RowOf(h)', CursorOf(h)', DimensionsOf(h)', now)
        /\ HostTrue(host, RowOf(h)', DimensionsOf(h)', now)
    BY <2>1, <2>2, OwnRows, AdmissionKeeps
  <2>4. Linked(h, host, call, left)
    BY <1>1 DEF Linked
  <2>5. ~Unborn(host, call, left)
    <3>1. ~\E p \in left : p.method = "reserve"
      BY <1>1, <1>5 DEF Linked
    <3>2. ~(call.phase = "sent" /\ call.request.method = "reserve")
      BY <1>1, <2>2 DEF Linked, CallOK, Awaits
    <3> QED BY <2>2, <3>1, <3>2 DEF Unborn
  <2>6. call.phase = "answered" => AnswerTrue(host, call.request, call.answer, RowOf(h)', DimensionsOf(h)', now)
    <3> SUFFICES ASSUME call.phase = "answered"
                 PROVE  AnswerTrue(host, call.request, call.answer, RowOf(h)', DimensionsOf(h)', now)
      OBVIOUS
    <3>1. call.answer.status \notin {"ok", "active"} /\ call.answer # Conflict
      BY <1>1, <2>2 DEF Clean, HostInv, AnswerTrue
    <3> QED BY <3>1 DEF AnswerTrue
  <2> QED BY <2>1, <2>3, <2>4, <2>5, <2>6 DEF HostInv, Clean
<1> QED
  BY <1>4, <1>5

-----------------------------------------------------------------------------
(* What a host does and learns, while the tables stay as they are.         *)

(* The first call.                                                         *)
LEMMA AdmitKeeps ==
  ASSUME NEW h \in Hosts, NEW host, NEW call, NEW own, NEW r, NEW g, NEW v, NEW t,
         HostInv(h, host, call, own, r, g, v, t), host.step = "new",
         NEW charge \in Charges, NEW lim \in Limits
  PROVE  HostInv(h, [host EXCEPT !.step = "asked", !.charge = {charge}],
                 Sent(AdmissionRequest(h, charge, lim), 1), own, r, g, v, t)
<1> DEFINE host2 == [host EXCEPT !.step = "asked", !.charge = {charge}]
           q == AdmissionRequest(h, charge, lim)
           call2 == Sent(q, 1)
<1>1. /\ Linked(h, host, call, own) /\ Clean(host, call, own, r) /\ RowTrue(h, host, r, g, v, t)
      /\ host \in HostState /\ own = {}
  BY DEF HostInv, Linked
<1>2. charge \in RequestCharges
  BY ChargeTypes, CloudflareConstants DEF RequestCharges
<1>3. /\ host2 \in HostState /\ host2.step = "asked" /\ host2.settlement = host.settlement
      /\ host2.runs = host.runs
  BY <1>1, <1>2 DEF HostState, Steps
<1>4. q \in Requests(h) /\ q.method = "reserve"
  BY DEF AdmissionRequest, Requests
<1>5. call2.phase = "sent" /\ call2.request = q /\ call2.attempt = 1
  BY DEF Sent
<1> HIDE DEF host2, q, call2
<1>6. /\ r.state = "absent" /\ host.runs = 0 /\ host.settlement = {}
  BY <1>1 DEF Clean, Unborn
<1>7. Linked(h, host2, call2, own)
  <2>1. CallOK(h, host2, call2)
    BY <1>3, <1>4, <1>5, RemoteTypes DEF CallOK, Awaits
  <2>2. Awaited(call2) = {q}
    BY <1>5 DEF Awaited
  <2> QED BY <1>1, <1>3, <1>4, <1>5, <1>6, <2>1, <2>2 DEF Linked
<1>8. Clean(host2, call2, own, r)
  <2>1. Awaited(call2) = {q}
    BY <1>5 DEF Awaited
  <2> QED BY <1>1, <1>3, <1>4, <1>5, <1>6, <2>1 DEF Clean
<1>9. RowTrue(h, host2, r, g, v, t) /\ HostTrue(host2, r, v, t)
  BY <1>1, <1>3, <1>6 DEF RowTrue, HostTrue
<1> QED
  BY <1>5, <1>7, <1>8, <1>9 DEF HostInv, host2, call2, q

(* Every other call, for which the host may pin growth or decide to settle.*)
LEMMA PostKeeps ==
  ASSUME NEW h \in Hosts, NEW host, NEW call, NEW own, NEW r, NEW g, NEW v, NEW t,
         HostInv(h, host, call, own, r, g, v, t),
         NEW q \in Requests(h), q.method # "reserve", Awaits(host, q.method), NEW host2 \in HostState,
         host2.step = host.step, host2.runs = host.runs, host2.expiresAt = host.expiresAt,
         IF q.method = "settle"
           THEN /\ host2.settlement = {[actual |-> q.actual, outcome |-> q.outcome]}
                /\ host.settlement \subseteq host2.settlement
           ELSE host2.settlement = host.settlement
  PROVE  HostInv(h, host2, Sent(q, 1), own, r, g, v, t)
<1> DEFINE call2 == Sent(q, 1)
<1>1. /\ Linked(h, host, call, own) /\ Clean(host, call, own, r) /\ RowTrue(h, host, r, g, v, t)
      /\ HostTrue(host, r, v, t)
  BY DEF HostInv
<1>2. call2.phase = "sent" /\ call2.request = q /\ call2.attempt = 1 /\ Awaited(call2) = {q}
  BY DEF Sent, Awaited
<1> HIDE DEF call2
<1>3. /\ host.step \in {"unsure", "leased", "working", "recovering"}
      /\ q.method # "lookup" => host.step \in {"leased", "working", "recovering"}
  BY RequestFields DEF Awaits, Methods
<1>4. Linked(h, host2, call2, own)
  <2>1. CallOK(h, host2, call2)
    BY <1>2, RemoteTypes DEF CallOK, Awaits
  <2>2. ASSUME NEW p \in own \cup {q}, p.method = "settle"
        PROVE  host2.settlement = {[actual |-> p.actual, outcome |-> p.outcome]}
    <3>1. CASE p = q
      BY <2>2, <3>1
    <3>2. CASE p # q
      <4>1. host.settlement = {[actual |-> p.actual, outcome |-> p.outcome]}
        BY <1>1, <2>2, <3>2 DEF Linked
      <4> QED BY <4>1
    <3> QED BY <3>1, <3>2
  <2>3. \A s, z \in host2.settlement : s = z
    BY <1>1 DEF Linked
  <2> QED BY <1>1, <1>2, <1>3, <2>1, <2>2, <2>3 DEF Linked
<1>5. Clean(host2, call2, own, r)
  <2>1. Unborn(host2, call2, own) => Unborn(host, call, own)
    BY <1>2, <1>3 DEF Unborn
  <2>2. Unborn(host, call, own) => q.method = "lookup"
    BY <1>1, <1>3 DEF Clean
  <2> QED BY <1>1, <1>2, <2>1, <2>2 DEF Clean
<1>6. RowTrue(h, host2, r, g, v, t)
  BY <1>1 DEF RowTrue, Bears
<1>7. HostTrue(host2, r, v, t)
  BY <1>1 DEF HostTrue, Kept, Closed, Bears
<1> QED
  BY <1>2, <1>4, <1>5, <1>6, <1>7 DEF HostInv, call2

UnderWay(call) == IF call.phase = "sent" THEN {call.request} ELSE {}

(* The host gives up a call, or its attempt, and goes on believing what it *)
(* did or nothing.                                                         *)
LEMMA LeaveKeeps ==
  ASSUME NEW h \in Hosts, NEW host, NEW call, NEW own, NEW r, NEW g, NEW v, NEW t,
         HostInv(h, host, call, own, r, g, v, t),
         NEW host2 \in HostState, host2.step \notin {"new", "asked"},
         host2.step \in {"unsure", "stopped"} \/ (host2.step = host.step /\ host2.expiresAt = host.expiresAt),
         host2.runs = host.runs, host2.settlement = host.settlement,
         NEW call2, CallOK(h, host2, call2), Awaited(call2) \subseteq Awaited(call),
         call2.phase # "answered", call2.phase = "sent" => call2.request.method # "reserve",
         NEW own2, own \subseteq own2, own2 \subseteq own \cup UnderWay(call)
  PROVE  HostInv(h, host2, call2, own2, r, g, v, t)
<1>1. /\ Linked(h, host, call, own) /\ Clean(host, call, own, r) /\ RowTrue(h, host, r, g, v, t)
      /\ HostTrue(host, r, v, t) /\ CallOK(h, host, call)
  BY DEF HostInv, Linked
<1>2. UnderWay(call) \subseteq Awaited(call) /\ own2 \cup Awaited(call2) \subseteq own \cup Awaited(call)
  BY DEF UnderWay, Awaited
<1>3. Linked(h, host2, call2, own2)
  <2>1. own2 \subseteq Requests(h)
    BY <1>1 DEF Linked, CallOK, UnderWay
  <2>2. ASSUME NEW p \in own2, NEW q \in own2, p.method = "reserve", q.method = "reserve"
        PROVE  p = q
    <3>1. CASE call.phase = "sent" /\ call.request.method = "reserve"
      <4>1. own = {}
        BY <1>1, <3>1 DEF Linked, CallOK, Awaits
      <4> QED BY <3>1, <4>1 DEF UnderWay
    <3>2. CASE ~(call.phase = "sent" /\ call.request.method = "reserve")
      <4>1. p \in own /\ q \in own
        BY <2>2, <3>2 DEF UnderWay
      <4> QED BY <1>1, <2>2, <4>1 DEF Linked
    <3> QED BY <3>1, <3>2
  <2>3. \A q \in own2 \cup Awaited(call2) : q.method = "settle" =>
          host2.settlement = {[actual |-> q.actual, outcome |-> q.outcome]}
    BY <1>1, <1>2 DEF Linked
  <2> QED BY <1>1, <2>1, <2>2, <2>3 DEF Linked
<1>4. Clean(host2, call2, own2, r)
  <2>1. Unborn(host2, call2, own2) => Unborn(host, call, own)
    BY DEF Unborn, UnderWay
  <2> QED BY <1>1, <1>2, <2>1 DEF Clean
<1>5. RowTrue(h, host2, r, g, v, t)
  BY <1>1 DEF RowTrue, Bears
<1>6. HostTrue(host2, r, v, t)
  BY <1>1 DEF HostTrue, Kept, Closed, Bears
<1> QED
  BY <1>3, <1>4, <1>5, <1>6 DEF HostInv

-----------------------------------------------------------------------------
(* An answer reaches the host.                                             *)

(* It passes the client's checks.                                          *)
LEMMA AnswerFits ==
  ASSUME NEW h \in Hosts, NEW q \in Requests(h), NEW host, NEW a, NEW r, NEW v, NEW t,
         AnswerTrue(host, q, a, r, v, t)
  PROVE  Fits(q, a)
<1> SUFFICES ASSUME a.status = "ok" PROVE Fits(q, a)
  BY DEF Fits
<1>1. CASE q.method = "settle"
  BY <1>1 DEF AnswerTrue, Fits
<1>2. CASE q.method = "grow"
  BY <1>2 DEF AnswerTrue, Fits
<1>3. CASE q.method \in {"reserve", "mark_liable", "renew"}
  <2>1. a.expiresAt > 0
    BY <1>3 DEF AnswerTrue
  <2> QED BY <1>3, <2>1 DEF Fits
<1>4. q.method \in Methods /\ q.method # "lookup"
  BY RequestFields DEF AnswerTrue
<1> QED
  BY <1>1, <1>2, <1>3, <1>4 DEF Methods

(* A host without a call.                                                  *)
LEMMA NoCallIs ==
  /\ NoCall.phase = "idle" /\ Awaited(NoCall) = {}
  /\ \A h, host : CallOK(h, host, NoCall)
  /\ \A h, host, own, r : (\A q \in own : q.method # "reserve") /\ host.step # "new"
                            => Clean(host, NoCall, own, r)
BY DEF NoCall, Awaited, CallOK, Clean, Unborn

(* A host that has its lease learns from a call it made under it.          *)
LEMMA LearnKeeps ==
  ASSUME NEW h \in Hosts, NEW host, NEW call, NEW own, NEW r, NEW g, NEW v, NEW t,
         HostInv(h, host, call, own, r, g, v, t),
         host.step \in {"leased", "working", "recovering"},
         NEW host2 \in HostState, host2.step \in {"leased", "working", "recovering", "settled"},
         host2.settlement = host.settlement,
         RowTrue(h, host2, r, g, v, t), HostTrue(host2, r, v, t)
  PROVE  HostInv(h, host2, NoCall, own, r, g, v, t)
<1>1. Linked(h, host, call, own) /\ Clean(host, call, own, r)
  BY DEF HostInv
<1>2. \A q \in own : q.method # "reserve"
  BY <1>1 DEF Clean, Unborn
<1>3. Clean(host2, NoCall, own, r)
  BY <1>2, NoCallIs
<1>4. Linked(h, host2, NoCall, own)
  BY <1>1, NoCallIs DEF Linked
<1> QED
  BY <1>3, <1>4, NoCallIs DEF HostInv

(* A host that gives up.                                                   *)
LEMMA StoppedKeeps ==
  ASSUME NEW h \in Hosts, NEW host, NEW call, NEW own, NEW r, NEW g, NEW v, NEW t,
         HostInv(h, host, call, own, r, g, v, t)
  PROVE  HostInv(h, [host EXCEPT !.step = "stopped"], NoCall, own, r, g, v, t)
<1> DEFINE host2 == [host EXCEPT !.step = "stopped"]
<1>1. host \in HostState
  BY DEF HostInv, Linked
<1>2. /\ host2 \in HostState /\ host2.step = "stopped" /\ host2.runs = host.runs
      /\ host2.settlement = host.settlement
  BY <1>1 DEF HostState, Steps
<1> HIDE DEF host2
<1>3. HostInv(h, host2, NoCall, own, r, g, v, t)
  BY <1>2, NoCallIs, LeaveKeeps
<1> QED
  BY <1>3 DEF host2

(* One lemma per kind of answer.                                           *)
LEMMA AdmittedKeeps ==
  ASSUME NEW h \in Hosts, NEW host, NEW call, NEW own, NEW r, NEW g, NEW v, NEW t,
         HostInv(h, host, call, own, r, g, v, t), call.phase = "answered", call.request.method = "reserve"
  PROVE  HostInv(h, Admitted(host, call.answer), NoCall, own, r, g, v, t)
<1> DEFINE a == call.answer
           host2 == [host EXCEPT !.step = "leased", !.expiresAt = a.expiresAt, !.cursor = 1]
<1>1. /\ Linked(h, host, call, own) /\ RowTrue(h, host, r, g, v, t)
      /\ AnswerTrue(host, call.request, a, r, v, t)
      /\ host \in HostState /\ host.step = "asked" /\ own = {}
  BY DEF HostInv, Linked, CallOK, Awaits
<1>2. CASE a.status # "ok"
  BY <1>2, StoppedKeeps DEF Admitted
<1>3. CASE a.status = "ok"
  <2>1. a.expiresAt \in Nat /\ Lasts(r, t, a.expiresAt)
    BY <1>1, <1>3 DEF AnswerTrue
  <2>2. 1 \in 0..MaxCursor
    BY RemoteTypes
  <2>3. /\ host2 \in HostState /\ host2.step = "leased" /\ host2.runs = host.runs
        /\ host2.settlement = host.settlement /\ host2.expiresAt = a.expiresAt
    <3> DEFINE e == a.expiresAt
    <3>1. e \in Nat
      BY <2>1
    <3> HIDE DEF e
    <3>2. LET x == [host EXCEPT !.step = "leased", !.expiresAt = e, !.cursor = 1]
          IN  /\ x \in HostState /\ x.step = "leased" /\ x.runs = host.runs
              /\ x.settlement = host.settlement /\ x.expiresAt = e
      BY <1>1, <2>2, <3>1 DEF HostState, Steps
    <3> QED BY <3>2 DEF e
  <2> HIDE DEF host2
  <2>4. Linked(h, host2, NoCall, own)
    BY <1>1, <2>3, NoCallIs DEF Linked
  <2>5. Clean(host2, NoCall, own, r)
    BY <1>1, <2>3, NoCallIs
  <2>6. RowTrue(h, host2, r, g, v, t)
    BY <1>1, <2>3 DEF RowTrue, Bears
  <2>7. HostTrue(host2, r, v, t)
    BY <2>1, <2>3 DEF HostTrue
  <2>8. HostInv(h, host2, NoCall, own, r, g, v, t)
    BY <2>4, <2>5, <2>6, <2>7, NoCallIs DEF HostInv
  <2> QED BY <1>3, <2>8 DEF Admitted, host2
<1> QED
  BY <1>2, <1>3

LEMMA LookedUpKeeps ==
  ASSUME NEW h \in Hosts, NEW host, NEW call, NEW own, NEW r, NEW g, NEW v, NEW t,
         HostInv(h, host, call, own, r, g, v, t), call.phase = "answered", call.request.method = "lookup"
  PROVE  HostInv(h, LookedUp(host, call.answer), NoCall, own, r, g, v, t)
<1> DEFINE a == call.answer
           step == Resumed(host, a)
           e == IF step = "stopped" THEN host.expiresAt ELSE a.expiresAt
           host2 == [host EXCEPT !.step = step, !.expiresAt = e]
<1>1. /\ Linked(h, host, call, own) /\ RowTrue(h, host, r, g, v, t) /\ Clean(host, call, own, r)
      /\ AnswerTrue(host, call.request, a, r, v, t)
      /\ host \in HostState /\ host.step = "unsure"
  BY DEF HostInv, Linked, CallOK, Awaits
<1>2. LookedUp(host, a) = host2
  BY <1>1 DEF LookedUp, HostState
<1>3. /\ step \in {"leased", "recovering", "stopped"}
      /\ step # "stopped" => a.status = "active"
      /\ step = "leased" => a.state = "pending"
  BY DEF Resumed
<1>4. /\ host.expiresAt \in Nat
      /\ a.status = "active" => a.expiresAt \in Nat /\ Lasts(r, t, a.expiresAt)
                                 /\ (a.state = "pending" => host.runs = 0)
  BY <1>1 DEF HostState, AnswerTrue
<1>5. e \in Nat /\ (step # "stopped" => Lasts(r, t, e))
  BY <1>3, <1>4
<1> HIDE DEF step, e
<1>6. /\ host2 \in HostState /\ host2.step = step /\ host2.expiresAt = e /\ host2.runs = host.runs
      /\ host2.settlement = host.settlement
  BY <1>1, <1>3, <1>5 DEF HostState, Steps
<1> HIDE DEF host2, a
<1>7. Linked(h, host2, NoCall, own)
  BY <1>1, <1>3, <1>6, NoCallIs DEF Linked
<1>8. Clean(host2, NoCall, own, r)
  <2>1. Unborn(host2, NoCall, own) => Unborn(host, call, own)
    BY <1>3, <1>6, NoCallIs DEF Unborn
  <2>2. Unborn(host, call, own) => step = "stopped"
    BY <1>1, <1>3 DEF Clean, a
  <2> QED BY <1>1, <1>6, <2>1, <2>2, NoCallIs DEF Clean
<1>9. RowTrue(h, host2, r, g, v, t)
  BY <1>1, <1>3, <1>4, <1>6 DEF RowTrue, Bears
<1>10. HostTrue(host2, r, v, t)
  BY <1>3, <1>5, <1>6 DEF HostTrue
<1> QED
  BY <1>2, <1>7, <1>8, <1>9, <1>10, NoCallIs DEF HostInv, a

LEMMA GrownKeeps ==
  ASSUME NEW h \in Hosts, NEW host, NEW call, NEW own, NEW r, NEW g, NEW v, NEW t,
         HostInv(h, host, call, own, r, g, v, t), call.phase = "answered", call.request.method = "grow"
  PROVE  HostInv(h, Grown(host, call.answer), NoCall, own, r, g, v, t)
<1> DEFINE a == call.answer
           host2 == Grown(host, a)
<1>1. /\ Linked(h, host, call, own) /\ RowTrue(h, host, r, g, v, t) /\ HostTrue(host, r, v, t)
      /\ AnswerTrue(host, call.request, a, r, v, t)
      /\ host \in HostState /\ host.step \in {"leased", "working", "recovering"}
  BY DEF HostInv, Linked, CallOK, Awaits
<1>2. /\ host2 \in HostState /\ host2.step = host.step /\ host2.expiresAt = host.expiresAt
      /\ host2.runs = host.runs /\ host2.settlement = host.settlement
  <2>1. CASE a.status = "ok"
    <3>1. a.cursor \in 0..MaxCursor /\ a.reserved \in [Budgets -> Nat]
      BY <1>1, <2>1 DEF AnswerTrue
    <3> DEFINE charge2 == {[kept EXCEPT !.units = IF a.accepted THEN a.reserved ELSE kept.units] : kept \in host.charge}
               n == a.cursor
    <3>2. charge2 \in SUBSET RequestCharges
      <4>1. host.charge \in SUBSET RequestCharges
        BY <1>1 DEF HostState
      <4>2. ASSUME NEW kept \in RequestCharges
            PROVE  [kept EXCEPT !.units = IF a.accepted THEN a.reserved ELSE kept.units] \in RequestCharges
        BY <3>1 DEF RequestCharges
      <4> QED BY <4>1, <4>2
    <3>3. host2 = [host EXCEPT !.cursor = n, !.pinned = {}, !.charge = charge2]
      BY <1>1, <2>1 DEF Grown, HostState
    <3>4. n \in 0..MaxCursor
      BY <3>1
    <3> HIDE DEF host2, charge2, n
    <3> QED BY <1>1, <3>2, <3>3, <3>4 DEF HostState
  <2>2. CASE a.status # "ok"
    <3>1. host2 = [host EXCEPT !.pinned = {}]
      BY <2>2 DEF Grown
    <3> HIDE DEF host2
    <3> QED BY <1>1, <3>1 DEF HostState
  <2> QED BY <2>1, <2>2
<1> HIDE DEF host2
<1>3. RowTrue(h, host2, r, g, v, t) /\ HostTrue(host2, r, v, t)
  BY <1>1, <1>2 DEF RowTrue, HostTrue, Bears, Kept, Closed
<1>4. HostInv(h, host2, NoCall, own, r, g, v, t)
  BY <1>1, <1>2, <1>3, LearnKeeps
<1> QED
  BY <1>4 DEF host2

(* All of them.                                                            *)
LEMMA ReturnKeeps ==
  ASSUME NEW h \in Hosts, NEW host, NEW call, NEW own, NEW r, NEW g, NEW v, NEW t,
         HostInv(h, host, call, own, r, g, v, t), call.phase = "answered"
  PROVE  HostInv(h, Learned(host, call.request, call.answer), NoCall, own, r, g, v, t)
<1> DEFINE q == call.request
           a == call.answer
           e == a.expiresAt
<1>1. /\ Linked(h, host, call, own) /\ RowTrue(h, host, r, g, v, t) /\ HostTrue(host, r, v, t)
      /\ AnswerTrue(host, q, a, r, v, t) /\ host \in HostState
      /\ q \in Requests(h) /\ Awaits(host, q.method)
  BY DEF HostInv, Linked, CallOK
<1>2. q.method \in Methods
  BY <1>1, RequestFields
<1>3. CASE q.method = "reserve"
  BY <1>3, AdmittedKeeps DEF Learned
<1>4. CASE q.method = "lookup"
  BY <1>4, LookedUpKeeps DEF Learned
<1>5. CASE q.method = "grow"
  BY <1>5, GrownKeeps DEF Learned
<1>6. CASE q.method \in {"mark_liable", "renew", "settle"} /\ a.status # "ok"
  <2>1. Learned(host, q, a) = [host EXCEPT !.step = "stopped"]
    BY <1>6 DEF Learned
  <2> QED BY <2>1, StoppedKeeps
<1>7. CASE q.method = "mark_liable" /\ a.status = "ok"
  <2> DEFINE n == host.runs + 1
             host2 == [host EXCEPT !.step = "working", !.expiresAt = e, !.runs = n]
  <2>1. /\ e \in Nat /\ Lasts(r, t, e) /\ r.state # "pending" /\ Kept(host, r, t, e)
        /\ host.step = "leased" /\ host.settlement = {}
    BY <1>1, <1>7 DEF AnswerTrue, Awaits
  <2>2. host.runs \in Nat /\ n \in Nat /\ n <= 1
    BY <1>1, <2>1 DEF HostState, RowTrue
  <2>3. Learned(host, q, a) = host2
    BY <1>1, <1>7 DEF Learned, Done, HostState
  <2> HIDE DEF n, e
  <2>4. /\ host2 \in HostState /\ host2.step = "working" /\ host2.expiresAt = e /\ host2.runs = n
        /\ host2.settlement = host.settlement
    BY <1>1, <2>1, <2>2 DEF HostState, Steps
  <2> HIDE DEF host2
  <2>5. RowTrue(h, host2, r, g, v, t)
    BY <1>1, <2>1, <2>2, <2>4 DEF RowTrue, Bears
  <2>6. HostTrue(host2, r, v, t)
    BY <2>1, <2>4 DEF HostTrue, Kept
  <2> QED BY <2>1, <2>3, <2>4, <2>5, <2>6, LearnKeeps
<1>8. CASE q.method = "renew" /\ a.status = "ok"
  <2> DEFINE host2 == [host EXCEPT !.expiresAt = e]
  <2>1. /\ e \in Nat /\ Lasts(r, t, e)
        /\ host.step = "working" => Kept(host, r, t, e)
        /\ host.step \in {"leased", "working", "recovering"}
    BY <1>1, <1>8 DEF AnswerTrue, Awaits
  <2>2. Learned(host, q, a) = host2
    BY <1>8 DEF Learned, Done
  <2> HIDE DEF e
  <2>3. /\ host2 \in HostState /\ host2.step = host.step /\ host2.expiresAt = e
        /\ host2.runs = host.runs /\ host2.settlement = host.settlement
    BY <1>1, <2>1 DEF HostState
  <2> HIDE DEF host2
  <2>4. RowTrue(h, host2, r, g, v, t)
    BY <1>1, <2>3 DEF RowTrue, Bears
  <2>5. HostTrue(host2, r, v, t)
    BY <2>1, <2>3 DEF HostTrue, Kept
  <2> QED BY <2>1, <2>2, <2>3, <2>4, <2>5, LearnKeeps
<1>9. CASE q.method = "settle" /\ a.status = "ok"
  <2> DEFINE host2 == [host EXCEPT !.step = "settled"]
  <2>1. Closed(host, r, v) /\ host.step \in {"leased", "working", "recovering"}
    BY <1>1, <1>9 DEF AnswerTrue, Awaits
  <2>2. Learned(host, q, a) = host2
    BY <1>9 DEF Learned, Done
  <2>3. /\ host2 \in HostState /\ host2.step = "settled"
        /\ host2.runs = host.runs /\ host2.settlement = host.settlement
    BY <1>1 DEF HostState, Steps
  <2> HIDE DEF host2
  <2>4. RowTrue(h, host2, r, g, v, t)
    BY <1>1, <2>3 DEF RowTrue, Bears
  <2>5. HostTrue(host2, r, v, t)
    BY <2>1, <2>3 DEF HostTrue, Closed, Bears
  <2> QED BY <2>1, <2>2, <2>3, <2>4, <2>5, LearnKeeps
<1> QED
  BY <1>2, <1>3, <1>4, <1>5, <1>6, <1>7, <1>8, <1>9 DEF Methods

-----------------------------------------------------------------------------
(* Every step keeps the invariant.                                         *)
LEMMA OwnIs ==
  ASSUME NEW h \in Hosts, NEW q \in Requests(h), NEW set
  PROVE  Own(h, set \cup {q}) = Own(h, set) \cup {q} /\ Own(h, set \ {q}) = Own(h, set) \ {q}
BY RequestFields DEF Own

(* A step of one host leaves the requests of the others.                   *)
LEMMA NotOwn ==
  ASSUME NEW h \in Hosts, NEW q \in Requests(h), NEW set, NEW k \in Hosts, k # h
  PROVE  Own(k, set \cup {q}) = Own(k, set) /\ Own(k, set \ {q}) = Own(k, set)
<1>1. q.op # OpOf[k]
  BY RequestFields, HostTypes
<1> QED
  BY <1>1 DEF Own

(* One host acts, and the tables stay as they are.                         *)
LEMMA ClientStep ==
  ASSUME RemoteInv, UNCHANGED vars, NEW h \in Hosts, NEW host2, NEW call2, NEW more,
         hosts' = [hosts EXCEPT ![h] = host2], calls' = [calls EXCEPT ![h] = call2],
         more = {} \/ \E q \in Requests(h) : more = {q}, strays' = strays \cup more,
         HostInv(h, host2, call2, Own(h, strays) \cup more, RowOf(h), CursorOf(h), DimensionsOf(h), now)
  PROVE  RemoteInv'
<1>1. TablesAgree'
  BY StepAgrees DEF RemoteInv
<1>2. host2 \in HostState
  BY DEF HostInv, Linked
<1>3. hosts' \in [Hosts -> HostState] /\ DOMAIN calls' = Hosts
  BY <1>2 DEF RemoteInv
<1>4. \A q \in strays' : \E k \in Hosts : q \in Requests(k)
  BY DEF RemoteInv
<1>5. ASSUME NEW k \in Hosts
      PROVE  Believes(k)'
  <2>1. RowOf(k)' = RowOf(k) /\ CursorOf(k)' = CursorOf(k) /\ DimensionsOf(k)' = DimensionsOf(k) /\ now' = now
    BY DEF vars, RowOf, CursorOf, DimensionsOf
  <2>2. CASE k = h
    <3>1. Own(h, strays') = Own(h, strays) \cup more
      <4>1. CASE more = {}
        BY <4>1
      <4>2. CASE \E q \in Requests(h) : more = {q}
        <5>1. PICK q \in Requests(h) : more = {q}
          BY <4>2
        <5>2. Own(h, strays \cup {q}) = Own(h, strays) \cup {q}
          BY OwnIs
        <5> QED BY <5>1, <5>2
      <4> QED BY <4>1, <4>2
    <3>2. hosts'[h] = host2 /\ calls'[h] = call2
      BY DEF RemoteInv
    <3> QED BY <2>1, <2>2, <3>1, <3>2 DEF Believes
  <2>3. CASE k # h
    <3>1. Own(k, strays') = Own(k, strays)
      <4>1. CASE more = {}
        BY <4>1
      <4>2. CASE \E q \in Requests(h) : more = {q}
        BY <2>3, <4>2, NotOwn
      <4> QED BY <4>1, <4>2
    <3>2. hosts'[k] = hosts[k] /\ calls'[k] = calls[k] /\ Believes(k)
      BY <2>3 DEF RemoteInv
    <3> QED BY <2>1, <3>1, <3>2 DEF Believes
  <2> QED BY <2>2, <2>3
<1> QED
  BY <1>1, <1>3, <1>4, <1>5 DEF RemoteInv

(* The object acts, and only the host that it acts for notices.            *)
LEMMA StoreStep ==
  ASSUME RemoteInv, TablesAgree', now' = now, hosts' = hosts,
         NEW k \in Hosts, calls'[k] = calls[k], Own(k, strays') = Own(k, strays), DriftsAt(OpOf[k])
  PROVE  Believes(k)'
<1>1. Believes(k) /\ MovesAt(k, hosts[k]) /\ TablesAgree
  BY OwnRows DEF RemoteInv
<1>2. HostInv(k, hosts[k], calls[k], Own(k, strays), RowOf(k)', CursorOf(k)', DimensionsOf(k)', now')
  BY <1>1, MoveKeepsHost DEF Believes
<1> QED
  BY <1>2 DEF Believes

(* One lemma per action: first those of the object and of the network.     *)
LEMMA DeliverStep ==
  ASSUME RemoteInv, NEW h \in Hosts, Deliver(h)
  PROVE  RemoteInv'
<1> DEFINE q == calls[h].request
<1>1. PICK E \in ExpiredFor(q), F \in ForgottenFor(q) :
        /\ Execute(q, E, F)
        /\ calls' = [calls EXCEPT ![h] =
             [phase |-> "answered", request |-> q, attempt |-> calls[h].attempt, answer |-> Answer(q, E, F)]]
  BY DEF Deliver, RemoteInv
<1>2. hosts' = hosts /\ strays' = strays /\ calls[h].phase = "sent"
  BY DEF Deliver
<1>3. Believes(h) /\ TablesAgree /\ DOMAIN calls = Hosts
  BY DEF RemoteInv
<1>4. /\ TablesAgree' /\ now' = now
      /\ \A o \in Operations \ {OpOf[h]} : DriftsAt(o)
      /\ HostInv(h, hosts[h], Answered(calls[h], Answer(q, E, F)), Own(h, strays),
                 RowOf(h)', CursorOf(h)', DimensionsOf(h)', now')
  BY <1>1, <1>2, <1>3, DeliverKeeps DEF Believes
<1>5. calls'[h] = Answered(calls[h], Answer(q, E, F)) /\ DOMAIN calls' = Hosts
  BY <1>1, <1>3 DEF Answered
<1>6. Believes(h)'
  BY <1>2, <1>4, <1>5 DEF Believes
<1>7. ASSUME NEW k \in Hosts \ {h}
      PROVE  Believes(k)'
  <2>1. OpOf[k] \in Operations \ {OpOf[h]}
    BY HostTypes
  <2>2. calls'[k] = calls[k] /\ Own(k, strays') = Own(k, strays)
    BY <1>1, <1>2, <1>3
  <2> QED BY <1>2, <1>4, <2>1, <2>2, StoreStep
<1> QED
  BY <1>2, <1>4, <1>5, <1>6, <1>7 DEF RemoteInv

LEMMA StrayStep ==
  ASSUME RemoteInv, NEW q \in strays, StrayArrives(q)
  PROVE  RemoteInv'
<1>1. PICK E \in ExpiredFor(q), F \in ForgottenFor(q) : Execute(q, E, F)
  BY DEF StrayArrives
<1>2. hosts' = hosts /\ calls' = calls /\ strays' = strays \ {q}
  BY DEF StrayArrives
<1>3. PICK h \in Hosts : q \in Requests(h)
  BY DEF RemoteInv
<1>4. Believes(h) /\ TablesAgree /\ q \in Own(h, strays)
  BY <1>3, RequestFields DEF RemoteInv, Own
<1>5. /\ TablesAgree' /\ now' = now
      /\ \A o \in Operations \ {OpOf[h]} : DriftsAt(o)
      /\ HostInv(h, hosts[h], calls[h], Own(h, strays) \ {q},
                 RowOf(h)', CursorOf(h)', DimensionsOf(h)', now')
  BY <1>1, <1>4, StrayKeeps DEF Believes
<1>6. Believes(h)'
  <2>1. Own(h, strays') = Own(h, strays) \ {q}
    BY <1>2, <1>3, OwnIs
  <2> QED BY <1>2, <1>5, <2>1 DEF Believes
<1>7. ASSUME NEW k \in Hosts \ {h}
      PROVE  Believes(k)'
  <2>1. OpOf[k] \in Operations \ {OpOf[h]}
    BY HostTypes
  <2>2. calls'[k] = calls[k] /\ Own(k, strays') = Own(k, strays)
    <3>1. Own(k, strays \ {q}) = Own(k, strays)
      BY <1>3, NotOwn
    <3> QED BY <1>2, <3>1
  <2> QED BY <1>2, <1>5, <2>1, <2>2, StoreStep
<1> QED
  BY <1>2, <1>5, <1>6, <1>7 DEF RemoteInv

LEMMA MaintainStep ==
  ASSUME RemoteInv, Maintain
  PROVE  RemoteInv'
<1>1. PICK p \in Prunes : PruneBudgets(p.candidates \ p.protected)
  BY DEF Maintain
<1>2. hosts' = hosts /\ calls' = calls /\ strays' = strays
  BY DEF Maintain, clientVars
<1>3. p.candidates \ p.protected \in SUBSET Budgets
  BY RemoteConstants
<1>4. now' = now /\ \A o \in Operations : DriftsAt(o)
  BY <1>1, StillDrifts DEF PruneBudgets
<1>5. TablesAgree'
  BY <1>1, <1>3, PruneAgrees DEF RemoteInv
<1>6. \A k \in Hosts : Believes(k)'
  BY <1>2, <1>4, <1>5, HostTypes, StoreStep
<1> QED
  BY <1>2, <1>5, <1>6 DEF RemoteInv

LEMMA OtherStep ==
  ASSUME RemoteInv, OtherAdmission
  PROVE  RemoteInv'
<1>1. PICK op \in Operations \ {OpOf[h] : h \in Hosts}, charge \in Charges, lim \in OtherLimits,
           ttl \in Ttls : Reserve(op, charge, lim, ttl)
  BY DEF OtherAdmission
<1>2. PICK E \in ExpiredBatches, F \in TombstoneBatches : ReserveAfter(op, charge, lim, ttl, E, F)
  BY <1>1 DEF Reserve
<1>3. hosts' = hosts /\ calls' = calls /\ strays' = strays
  BY DEF OtherAdmission, clientVars
<1>4. TablesAgree' /\ now' = now /\ \A o \in Operations \ {op} : DriftsAt(o)
  BY <1>2, ReserveMoves DEF RemoteInv
<1>5. \A k \in Hosts : Believes(k)'
  BY <1>3, <1>4, HostTypes, StoreStep
<1> QED
  BY <1>3, <1>4, <1>5 DEF RemoteInv

LEMMA TickStep ==
  ASSUME RemoteInv, Tick, UNCHANGED clientVars
  PROVE  RemoteInv'
<1>1. TablesAgree'
  BY StepAgrees DEF RemoteInv, Next
<1>2. ASSUME NEW k \in Hosts
      PROVE  Believes(k)'
  <2>1. HostInv(k, hosts[k], calls[k], Own(k, strays), RowOf(k)', CursorOf(k)', DimensionsOf(k)', now')
    BY TickKeepsHost DEF RemoteInv, Believes, Tick
  <2> QED BY <2>1 DEF Believes, clientVars
<1> QED
  BY <1>1, <1>2 DEF RemoteInv, clientVars

-----------------------------------------------------------------------------
(* Then those of the hosts.                                                *)
LEMMA AdmitStep ==
  ASSUME RemoteInv, NEW h \in Hosts, Admit(h)
  PROVE  RemoteInv'
<1>1. PICK charge \in Charges, lim \in Limits :
        /\ hosts[h].step = "new"
        /\ HostPosts(h, AdmissionRequest(h, charge, lim),
                     [hosts[h] EXCEPT !.step = "asked", !.charge = {charge}])
  BY DEF Admit
<1> DEFINE host2 == [hosts[h] EXCEPT !.step = "asked", !.charge = {charge}]
           call2 == Sent(AdmissionRequest(h, charge, lim), 1)
<1>2. /\ UNCHANGED vars /\ strays' = strays
      /\ hosts' = [hosts EXCEPT ![h] = host2] /\ calls' = [calls EXCEPT ![h] = call2]
  BY <1>1 DEF HostPosts, Post
<1>3. HostInv(h, host2, call2, Own(h, strays), RowOf(h), CursorOf(h), DimensionsOf(h), now)
  BY <1>1, AdmitKeeps DEF RemoteInv, Believes
<1> HIDE DEF host2, call2
<1>4. strays' = strays \cup {} /\ Own(h, strays) \cup {} = Own(h, strays)
  BY <1>2
<1> QED
  BY <1>2, <1>3, <1>4, ClientStep

(* Every other call that a host starts.                                    *)
LEMMA PostStep ==
  ASSUME RemoteInv, NEW h \in Hosts, NEW q \in Requests(h), q.method # "reserve",
         Awaits(hosts[h], q.method), NEW host2 \in HostState, HostPosts(h, q, host2),
         host2.step = hosts[h].step, host2.runs = hosts[h].runs, host2.expiresAt = hosts[h].expiresAt,
         IF q.method = "settle"
           THEN /\ host2.settlement = {[actual |-> q.actual, outcome |-> q.outcome]}
                /\ hosts[h].settlement \subseteq host2.settlement
           ELSE host2.settlement = hosts[h].settlement
  PROVE  RemoteInv'
<1>1. /\ UNCHANGED vars /\ strays' = strays
      /\ hosts' = [hosts EXCEPT ![h] = host2] /\ calls' = [calls EXCEPT ![h] = Sent(q, 1)]
  BY DEF HostPosts, Post
<1>2. HostInv(h, host2, Sent(q, 1), Own(h, strays), RowOf(h), CursorOf(h), DimensionsOf(h), now)
  BY PostKeeps DEF RemoteInv, Believes
<1>3. strays' = strays \cup {} /\ Own(h, strays) \cup {} = Own(h, strays)
  BY <1>1
<1> QED
  BY <1>1, <1>2, <1>3, ClientStep

LEMMA LookUpStep ==
  ASSUME RemoteInv, NEW h \in Hosts, LookUp(h)
  PROVE  RemoteInv'
<1> DEFINE q == LookupRequest(h)
<1>1. q \in Requests(h) /\ q.method = "lookup"
  BY DEF LookupRequest, Requests
<1> HIDE DEF q
<1>2. hosts[h] \in HostState /\ Awaits(hosts[h], "lookup") /\ HostPosts(h, q, hosts[h])
  BY DEF RemoteInv, LookUp, Awaits, q
<1> QED
  BY <1>1, <1>2, PostStep

LEMMA BecomeLiableStep ==
  ASSUME RemoteInv, NEW h \in Hosts, BecomeLiable(h)
  PROVE  RemoteInv'
<1> DEFINE q == [method |-> "mark_liable", op |-> OpOf[h]]
<1>1. q \in Requests(h) /\ q.method = "mark_liable"
  BY DEF Requests
<1> HIDE DEF q
<1>2. hosts[h] \in HostState /\ Awaits(hosts[h], "mark_liable") /\ HostPosts(h, q, hosts[h])
  BY DEF RemoteInv, BecomeLiable, Awaits, q
<1> QED
  BY <1>1, <1>2, PostStep

LEMMA KeepAliveStep ==
  ASSUME RemoteInv, NEW h \in Hosts, KeepAlive(h)
  PROVE  RemoteInv'
<1>1. PICK ttl \in Ttls :
        /\ hosts[h].step \in {"leased", "working", "recovering"}
        /\ HostPosts(h, [method |-> "renew", op |-> OpOf[h], ttl |-> ttl], hosts[h])
  BY DEF KeepAlive
<1> DEFINE q == [method |-> "renew", op |-> OpOf[h], ttl |-> ttl]
<1>2. q \in Requests(h) /\ q.method = "renew"
  BY DEF Requests
<1>3. HostPosts(h, q, hosts[h])
  BY <1>1
<1> HIDE DEF q
<1>4. hosts[h] \in HostState /\ Awaits(hosts[h], "renew")
  BY <1>1 DEF RemoteInv, Awaits
<1> QED
  BY <1>2, <1>3, <1>4, PostStep

LEMMA ExtendStep ==
  ASSUME RemoteInv, NEW h \in Hosts, Extend(h)
  PROVE  RemoteInv'
<1>1. /\ hosts[h].step \in {"leased", "working"} /\ hosts[h].cursor \in 1..MaxCursor - 1
      /\ hosts[h] \in HostState
  BY DEF Extend, RemoteInv
<1>2. PICK inc \in Increments, add \in Growths, lim \in Limits :
        HostPosts(h, GrowthRequest(h, inc, add, lim),
                  [hosts[h] EXCEPT !.pinned = {GrowthRequest(h, inc, add, lim)}])
  BY DEF Extend
<1> DEFINE q == GrowthRequest(h, inc, add, lim)
           host2 == [hosts[h] EXCEPT !.pinned = {q}]
<1>3. q \in Requests(h) /\ q.method = "grow"
  BY <1>1 DEF GrowthRequest, Requests
<1>4. q \in GrowthRequests
  <2>1. add \in RequestCharges /\ lim \in [Budgets -> Nat] /\ OpOf[h] \in Operations
    BY ChargeTypes, CloudflareConstants, ConstantTypes, HostTypes DEF RequestCharges
  <2>2. hosts[h].cursor \in 0..MaxCursor
    BY <1>1, RemoteTypes
  <2> QED BY <2>1, <2>2 DEF GrowthRequest, GrowthRequests
<1>5. HostPosts(h, q, host2)
  BY <1>2
<1> HIDE DEF q
<1>6. /\ host2 \in HostState /\ host2.step = hosts[h].step /\ host2.runs = hosts[h].runs
      /\ host2.expiresAt = hosts[h].expiresAt /\ host2.settlement = hosts[h].settlement
  BY <1>1, <1>4 DEF HostState
<1>7. Awaits(hosts[h], "grow")
  BY <1>1 DEF Awaits
<1> HIDE DEF host2
<1> QED
  BY <1>3, <1>5, <1>6, <1>7, PostStep

LEMMA FinishStep ==
  ASSUME RemoteInv, NEW h \in Hosts, Finish(h)
  PROVE  RemoteInv'
<1>1. hosts[h].step \in {"leased", "working", "recovering"} /\ hosts[h] \in HostState
  BY DEF Finish, RemoteInv
<1>2. PICK actual \in Actuals, outcome \in Outcomes, charge \in hosts[h].charge :
        /\ hosts[h].settlement \subseteq {[actual |-> actual, outcome |-> outcome]}
        /\ HostPosts(h, SettlementRequest(h, charge.mode, [actual |-> actual, outcome |-> outcome]),
                     [hosts[h] EXCEPT !.settlement = {[actual |-> actual, outcome |-> outcome]}])
  BY DEF Finish
<1> DEFINE s == [actual |-> actual, outcome |-> outcome]
           q == SettlementRequest(h, charge.mode, s)
           host2 == [hosts[h] EXCEPT !.settlement = {s}]
<1>3. charge.mode \in Modes
  BY <1>1 DEF HostState, RequestCharges
<1>4. /\ q \in Requests(h) /\ q.method = "settle" /\ q.actual = actual /\ q.outcome = outcome
  BY <1>3 DEF SettlementRequest, Requests
<1>5. s \in [actual : [Budgets -> Nat], outcome : Outcomes] /\ s = [actual |-> q.actual, outcome |-> q.outcome]
  BY <1>4, ConstantTypes
<1>6. HostPosts(h, q, host2) /\ hosts[h].settlement \subseteq {s}
  BY <1>2
<1> HIDE DEF q, s
<1>7. /\ host2 \in HostState /\ host2.step = hosts[h].step /\ host2.runs = hosts[h].runs
      /\ host2.expiresAt = hosts[h].expiresAt /\ host2.settlement = {s}
  BY <1>1, <1>5 DEF HostState
<1>8. Awaits(hosts[h], "settle")
  BY <1>1 DEF Awaits
<1> HIDE DEF host2
<1> QED
  BY <1>4, <1>5, <1>6, <1>7, <1>8, PostStep

(* A call, or an attempt of it, comes to nothing for the host.             *)
LEMMA LeaveStep ==
  ASSUME RemoteInv, UNCHANGED vars, NEW h \in Hosts, NEW host2 \in HostState, NEW call2,
         hosts' = [hosts EXCEPT ![h] = host2], calls' = [calls EXCEPT ![h] = call2],
         strays' \in {strays, strays \cup UnderWay(calls[h])},
         host2.step \notin {"new", "asked"},
         \/ host2.step \in {"unsure", "stopped"}
         \/ host2.step = hosts[h].step /\ host2.expiresAt = hosts[h].expiresAt,
         host2.runs = hosts[h].runs, host2.settlement = hosts[h].settlement,
         CallOK(h, host2, call2), Awaited(call2) \subseteq Awaited(calls[h]),
         call2.phase # "answered", call2.phase = "sent" => call2.request.method # "reserve"
  PROVE  RemoteInv'
<1>1. PICK more \in {{}, UnderWay(calls[h])} : strays' = strays \cup more
  OBVIOUS
<1>2. Believes(h)
  BY DEF RemoteInv
<1>3. more = {} \/ \E q \in Requests(h) : more = {q}
  <2>1. calls[h].phase = "sent" => calls[h].request \in Requests(h)
    BY <1>2 DEF Believes, HostInv, Linked, CallOK
  <2> QED BY <2>1 DEF UnderWay
<1> DEFINE own2 == Own(h, strays) \cup more
<1>4. Own(h, strays) \subseteq own2 /\ own2 \subseteq Own(h, strays) \cup UnderWay(calls[h])
  OBVIOUS
<1> HIDE DEF own2
<1>5. HostInv(h, host2, call2, own2, RowOf(h), CursorOf(h), DimensionsOf(h), now)
  BY <1>2, <1>4, LeaveKeeps DEF Believes
<1> QED
  BY <1>1, <1>3, <1>5, ClientStep DEF own2

(* A host that restarts leaves its call; one whose call fails may.         *)
LEMMA RestartStep ==
  ASSUME RemoteInv, NEW h \in Hosts, Restart(h)
  PROVE  RemoteInv'
<1> DEFINE n == hosts[h].restarts + 1
           host2 == [hosts[h] EXCEPT !.step = "unsure", !.expiresAt = 0, !.cursor = 0,
                                     !.pinned = {}, !.restarts = n]
<1>1. /\ hosts[h] \in HostState /\ hosts \in [Hosts -> HostState] /\ hosts[h].restarts < MaxRestarts
      /\ hosts[h].restarts \in 0..MaxRestarts
  BY DEF RemoteInv, Restart, HostState
<1>2. n \in 0..MaxRestarts /\ 0 \in 0..MaxCursor
  BY <1>1, RemoteTypes
<1>3. /\ UNCHANGED vars /\ hosts' = [hosts EXCEPT ![h] = host2]
      /\ calls' = [calls EXCEPT ![h] = NoCall]
  BY DEF Restart
<1>4. strays' \in {strays, strays \cup UnderWay(calls[h])}
  BY DEF Restart, Strayed, UnderWay
<1> HIDE DEF n
<1>5. /\ host2 \in HostState /\ host2.step = "unsure" /\ host2.runs = hosts[h].runs
      /\ host2.settlement = hosts[h].settlement
  BY <1>1, <1>2 DEF HostState, Steps
<1> HIDE DEF host2
<1> QED
  BY <1>3, <1>4, <1>5, NoCallIs, LeaveStep

LEMMA UnlearnedIs ==
  ASSUME NEW host \in HostState, NEW q, NEW class
  PROVE  LET x == Unlearned(host, q, class)
         IN  /\ x \in HostState /\ x.runs = host.runs /\ x.settlement = host.settlement
             /\ \/ x.step \in {"unsure", "stopped"}
                \/ x = host /\ q.method \notin {"reserve", "lookup"}
<1> DEFINE x == Unlearned(host, q, class)
<1>1. ASSUME NEW step \in {"unsure", "stopped"}
      PROVE  LET y == [host EXCEPT !.step = step]
             IN  /\ y \in HostState /\ y.runs = host.runs /\ y.settlement = host.settlement
                 /\ y.step = step
  BY DEF HostState, Steps
<1>2. \/ \E step \in {"unsure", "stopped"} : x = [host EXCEPT !.step = step]
      \/ x = host /\ q.method \notin {"reserve", "lookup"}
  <2>1. CASE q.method = "lookup"
    BY <2>1 DEF Unlearned
  <2>2. CASE q.method = "reserve"
    BY <2>2 DEF Unlearned
  <2>3. CASE q.method \notin {"reserve", "lookup"} /\ q.method = "mark_liable" /\ class \in Retryable
    BY <2>3 DEF Unlearned
  <2>4. CASE q.method \notin {"reserve", "lookup"} /\ ~(q.method = "mark_liable" /\ class \in Retryable)
    BY <2>4 DEF Unlearned
  <2> QED BY <2>1, <2>2, <2>3, <2>4
<1> HIDE DEF x
<1>3. /\ x \in HostState /\ x.runs = host.runs /\ x.settlement = host.settlement
      /\ \/ x.step \in {"unsure", "stopped"}
         \/ x = host /\ q.method \notin {"reserve", "lookup"}
  BY <1>1, <1>2
<1> QED
  BY <1>3 DEF x

LEMMA FailStep ==
  ASSUME RemoteInv, NEW h \in Hosts, NEW class \in Classes, Fail(h, class)
  PROVE  RemoteInv'
<1> DEFINE host == hosts[h]
           call == calls[h]
           q == call.request
           again == Replayable(q) /\ class \in Retryable /\ call.attempt < MaxAttempts
           call2 == IF again THEN [phase |-> "backoff", request |-> q, attempt |-> call.attempt] ELSE NoCall
           host2 == IF again THEN host ELSE Unlearned(host, q, class)
<1>1. /\ call.phase \in {"sent", "answered"} /\ UNCHANGED vars
      /\ calls' = [calls EXCEPT ![h] = call2] /\ hosts' = [hosts EXCEPT ![h] = host2]
  BY DEF Fail, RemoteInv
<1>2. strays' \in {strays, strays \cup UnderWay(call)}
  BY DEF Fail, Strayed, UnderWay
<1>3. /\ host \in HostState /\ q \in Requests(h) /\ call.attempt \in 1..MaxAttempts
      /\ Awaits(host, q.method) /\ q.method \in Methods
  BY <1>1, RequestFields DEF RemoteInv, Believes, HostInv, Linked, CallOK
<1>4. CASE again
  <2>1. host.step \notin {"new", "asked"} /\ q.method \in {"mark_liable", "renew", "settle"}
    BY <1>3, <1>4 DEF Replayable, Awaits
  <2>2. call2.phase = "backoff" /\ call2.request = q /\ call2.attempt = call.attempt /\ host2 = host
    BY <1>4
  <2>3. Replayable(q) /\ call.attempt < MaxAttempts
    BY <1>4
  <2> HIDE DEF call2, host2, again
  <2>4. CallOK(h, host2, call2) /\ Awaited(call2) \subseteq Awaited(call)
    BY <1>1, <1>3, <2>2, <2>3 DEF CallOK, Awaited
  <2> QED BY <1>1, <1>2, <1>3, <2>1, <2>2, <2>4, LeaveStep
<1>5. CASE ~again
  <2>1. call2 = NoCall /\ host2 = Unlearned(host, q, class)
    BY <1>5
  <2> HIDE DEF call2, host2, again
  <2>2. /\ host2 \in HostState /\ host2.runs = host.runs /\ host2.settlement = host.settlement
        /\ \/ host2.step \in {"unsure", "stopped"}
           \/ host2 = host /\ q.method \notin {"reserve", "lookup"}
    BY <1>3, <2>1, UnlearnedIs
  <2>3. host2.step \notin {"new", "asked"}
    BY <1>3, <2>2 DEF Awaits, Methods
  <2> QED BY <1>1, <1>2, <2>1, <2>2, <2>3, NoCallIs, LeaveStep
<1> QED
  BY <1>4, <1>5

LEMMA ResendStep ==
  ASSUME RemoteInv, NEW h \in Hosts, Resend(h)
  PROVE  RemoteInv'
<1> DEFINE host == hosts[h]
           call == calls[h]
           q == call.request
           n == call.attempt + 1
           call2 == Sent(q, n)
<1>1. /\ call.phase = "backoff" /\ UNCHANGED vars /\ strays' = strays
      /\ calls' = [calls EXCEPT ![h] = call2] /\ hosts' = [hosts EXCEPT ![h] = host]
  BY DEF Resend, RemoteInv, ExactInput, NextAttempt
<1>2. /\ host \in HostState /\ q \in Requests(h) /\ call.attempt \in 1..MaxAttempts
      /\ Awaits(host, q.method) /\ Replayable(q) /\ call.attempt < MaxAttempts
  BY <1>1 DEF RemoteInv, Believes, HostInv, Linked, CallOK
<1>3. host.step \notin {"new", "asked"} /\ q.method # "reserve" /\ n \in 1..MaxAttempts
  BY <1>2, RemoteTypes DEF Replayable, Awaits
<1>4. call2.phase = "sent" /\ call2.request = q /\ call2.attempt = n
  BY DEF Sent
<1> HIDE DEF call2, n
<1>5. CallOK(h, host, call2) /\ Awaited(call2) \subseteq Awaited(call)
  BY <1>1, <1>2, <1>3, <1>4 DEF CallOK, Awaited
<1> QED
  BY <1>1, <1>2, <1>3, <1>4, <1>5, LeaveStep

LEMMA ReturnStep ==
  ASSUME RemoteInv, NEW h \in Hosts, Return(h)
  PROVE  RemoteInv'
<1> DEFINE host == hosts[h]
           call == calls[h]
           host2 == Learned(host, call.request, call.answer)
<1>1. Believes(h) /\ call.phase = "answered"
  BY DEF RemoteInv, Return
<1>2. Fits(call.request, call.answer)
  BY <1>1, AnswerFits DEF Believes, HostInv, Linked, CallOK
<1>3. /\ UNCHANGED vars /\ strays' = strays
      /\ calls' = [calls EXCEPT ![h] = NoCall] /\ hosts' = [hosts EXCEPT ![h] = host2]
  BY <1>2 DEF Return
<1>4. HostInv(h, host2, NoCall, Own(h, strays), RowOf(h), CursorOf(h), DimensionsOf(h), now)
  BY <1>1, ReturnKeeps DEF Believes
<1> HIDE DEF host2
<1>5. strays' = strays \cup {} /\ Own(h, strays) \cup {} = Own(h, strays)
  BY <1>3
<1> QED
  BY <1>3, <1>4, <1>5, ClientStep

(* The start, and every step.                                              *)
LEMMA RemoteStarts == RemoteInit => RemoteInv
<1> SUFFICES ASSUME RemoteInit PROVE RemoteInv
  OBVIOUS
<1>1. TablesAgree
  BY InitAgrees DEF RemoteInit
<1>2. /\ NewHost \in HostState /\ NewHost.step = "new" /\ NewHost.runs = 0 /\ NewHost.settlement = {}
  BY RemoteTypes DEF NewHost, HostState, Steps
<1>3. hosts \in [Hosts -> HostState] /\ DOMAIN calls = Hosts /\ strays = {}
  BY <1>2 DEF RemoteInit
<1>4. ASSUME NEW h \in Hosts
      PROVE  Believes(h)
  <2>1. hosts[h] = NewHost /\ calls[h] = NoCall /\ Own(h, strays) = {}
    BY <1>3 DEF RemoteInit, Own
  <2>2. RowOf(h) = NoReservation /\ CursorOf(h) = NoGrowthRow /\ DimensionsOf(h) = NoVectorRow
    BY HostTypes DEF RemoteInit, Init, RowOf, CursorOf, DimensionsOf
  <2>3. /\ NoReservation.state = "absent" /\ NoGrowthRow.last = {} /\ NoVectorRow.last = {}
    BY NoRows DEF NoGrowthRow, NoVectorRow
  <2>4. Linked(h, NewHost, NoCall, {})
    BY <1>2, NoCallIs DEF Linked
  <2>5. Clean(NewHost, NoCall, {}, NoReservation)
    BY <1>2, <2>3, NoCallIs DEF Clean
  <2>6. RowTrue(h, NewHost, NoReservation, NoGrowthRow, NoVectorRow, now)
    BY <1>2, <2>3 DEF RowTrue, OpenRow
  <2>7. HostTrue(NewHost, NoReservation, NoVectorRow, now)
    BY <1>2 DEF HostTrue
  <2> QED BY <2>1, <2>2, <2>4, <2>5, <2>6, <2>7, NoCallIs DEF Believes, HostInv
<1> QED
  BY <1>1, <1>3, <1>4 DEF RemoteInv

LEMMA RemoteSteps ==
  ASSUME RemoteInv, [RemoteNext]_remoteVars
  PROVE  RemoteInv'
<1>1. ASSUME NEW h \in Hosts,
             Admit(h) \/ LookUp(h) \/ BecomeLiable(h) \/ KeepAlive(h) \/ Extend(h) \/ Finish(h) \/ Restart(h)
      PROVE  RemoteInv'
  BY <1>1, AdmitStep, LookUpStep, BecomeLiableStep, KeepAliveStep, ExtendStep, FinishStep, RestartStep
<1>2. ASSUME NEW h \in Hosts, Deliver(h) \/ Return(h) \/ Resend(h) \/ \E class \in Classes : Fail(h, class)
      PROVE  RemoteInv'
  BY <1>2, DeliverStep, ReturnStep, ResendStep, FailStep
<1>3. ASSUME NEW q \in strays, StrayArrives(q)
      PROVE  RemoteInv'
  BY <1>3, StrayStep
<1>4. CASE Maintain \/ OtherAdmission \/ (Tick /\ UNCHANGED clientVars)
  BY <1>4, MaintainStep, OtherStep, TickStep
<1>5. CASE UNCHANGED remoteVars
  <2>1. TablesAgree'
    BY <1>5, StepAgrees DEF RemoteInv, remoteVars
  <2>2. ASSUME NEW h \in Hosts
        PROVE  Believes(h)'
    BY <1>5 DEF RemoteInv, remoteVars, vars, clientVars, Believes, RowOf, CursorOf, DimensionsOf
  <2> QED BY <1>5, <2>1, <2>2 DEF RemoteInv, remoteVars, clientVars
<1> QED
  BY <1>1, <1>2, <1>3, <1>4, <1>5 DEF RemoteNext

(* The inductive invariant of RemoteCloudflareUsageStore and the store     *)
(* behind it: the tables agree, every host is where its calls and the rows *)
(* put it, and every answer under way is still true of the rows when it is *)
(* returned, whatever was delayed, repeated or executed after a restart.   *)
THEOREM ClientsInvariant == RemoteSpec => []RemoteInv
<1>1. RemoteInit => RemoteInv
  BY RemoteStarts
<1>2. RemoteInv /\ [RemoteNext]_remoteVars => RemoteInv'
  BY RemoteSteps
<1> QED
  BY <1>1, <1>2, PTL DEF RemoteSpec

(* However often an admission or a state change is lost, resent or executed *)
(* late, the paid handler of an operation runs at most once: only an answer *)
(* of markLiable lets it run, and a restarted host asks for the state first. *)
THEOREM WorkDoneOnce == RemoteSpec => []ExecutedOnce
<1>1. RemoteInv => ExecutedOnce
  BY DEF RemoteInv, Believes, HostInv, RowTrue, ExecutedOnce
<1> QED
  BY <1>1, ClientsInvariant, PTL

(* What a host was told stays so on the database: an operation that works   *)
(* unpaid is charged for until its tombstone expires, a settlement that was *)
(* acknowledged is the one on record, and a lease ends before it was said   *)
(* only by a late renewal, and by no more than two lifetimes differ.        *)
THEOREM AcknowledgementsStand == RemoteSpec => []AcknowledgedStands
<1>1. RemoteInv => AcknowledgedStands
  <2> SUFFICES ASSUME RemoteInv, NEW h \in Hosts
               PROVE  LET host == hosts[h]
                          row == reservations[OpOf[h]]
                      IN  /\ host.step = "working" /\ host.settlement = {} =>
                               \/ row.state \in {"liable", "settled"}
                               \/ row.state = "absent" /\ Covers(now, host.expiresAt + IdempotencyTtl)
                          /\ host.step = "settled" =>
                               \/ row.state = "absent"
                               \/ /\ row.state = "settled"
                                  /\ \A s \in host.settlement :
                                       RecordedActual(OpOf[h]) = s.actual /\ row.outcome = s.outcome
                          /\ host.step \in {"leased", "working", "recovering"} /\ Open(OpOf[h]) =>
                               Covers(row.expiresAt, host.expiresAt)
    BY DEF AcknowledgedStands
  <2> DEFINE host == hosts[h]
             row == RowOf(h)
  <2>1. HostTrue(host, row, DimensionsOf(h), now) /\ \A s, z \in host.settlement : s = z
    BY DEF RemoteInv, Believes, HostInv, Linked
  <2>2. host.step = "working" /\ host.settlement = {} =>
          \/ row.state \in {"liable", "settled"}
          \/ row.state = "absent" /\ Covers(now, host.expiresAt + IdempotencyTtl)
    BY <2>1 DEF HostTrue, Kept
  <2>3. host.step = "settled" =>
          \/ row.state = "absent"
          \/ /\ row.state = "settled"
             /\ \A s \in host.settlement :
                  ActualIn(row, DimensionsOf(h)) = s.actual /\ row.outcome = s.outcome
    BY <2>1 DEF HostTrue, Closed, Bears
  <2>4. host.step \in {"leased", "working", "recovering"} /\ OpenRow(row) =>
          Covers(row.expiresAt, host.expiresAt)
    BY <2>1 DEF HostTrue, Lasts
  <2>5. RecordedActual(OpOf[h]) = ActualIn(row, DimensionsOf(h)) /\ (Open(OpOf[h]) <=> OpenRow(row))
    BY DEF RecordedActual, ActualIn, IsVector, Open, OpenRow, RowOf, DimensionsOf
  <2> QED BY <2>2, <2>3, <2>4, <2>5 DEF RowOf
<1> QED
  BY <1>1, ClientsInvariant, PTL

(* No answer of the store fails the checks of the client                   *)
(* (assertSettlementResult, parseGrowth) and no exact retry of its own     *)
(* settlement is refused as a conflicting one.                             *)
THEOREM AnswersAreUsable == RemoteSpec => []AnswersUsable
<1>1. RemoteInv => RemoteTypeOK
  <2> SUFFICES ASSUME RemoteInv PROVE RemoteTypeOK
    OBVIOUS
  <2>1. ASSUME NEW h \in Hosts
        PROVE  /\ calls[h].phase \in {"idle", "sent", "answered", "backoff"}
               /\ calls[h] # NoCall => calls[h].request.method \in Methods /\ calls[h].attempt \in 1..MaxAttempts
    BY RequestFields DEF RemoteInv, Believes, HostInv, Linked, CallOK
  <2>2. \A q \in strays : q.method \in Methods
    BY RequestFields DEF RemoteInv
  <2> QED BY <2>1, <2>2 DEF RemoteInv, RemoteTypeOK, HostState
<1>2. ASSUME RemoteInv, NEW h \in Hosts, calls[h].phase = "answered"
      PROVE  calls[h].answer # Conflict /\ Fits(calls[h].request, calls[h].answer)
  <2>1. AnswerTrue(hosts[h], calls[h].request, calls[h].answer, RowOf(h), DimensionsOf(h), now)
        /\ calls[h].request \in Requests(h)
    BY <1>2 DEF RemoteInv, Believes, HostInv, Linked, CallOK
  <2> QED BY <2>1, AnswerFits DEF AnswerTrue
<1>3. RemoteInv => AnswersUsable
  BY <1>1, <1>2 DEF AnswersUsable
<1> QED
  BY <1>3, ClientsInvariant, PTL
=============================================================================
