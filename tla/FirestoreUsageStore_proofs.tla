--------------------- MODULE FirestoreUsageStore_proofs ---------------------
(***************************************************************************)
(* Theorems about the Firestore store, for all operations, budgets, hosts, *)
(* charges and lifetimes, and every grace that covers the skew.            *)
(*                                                                         *)
(* Every transaction writes one reservation document and some budgets, so  *)
(* the invariant is proved once for such a write (WriteKeeps): it is kept  *)
(* if what the document held and what it holds next account for the change *)
(* of every budget.  Each action is then shown to be balanced.             *)
(***************************************************************************)
EXTENDS FirestoreUsageStore, UsageUnits_proofs

LEMMA ConstantTypes ==
  /\ IsFiniteSet(Operations)
  /\ IdempotencyTtl \in Nat /\ ExpiryGrace \in Nat /\ MaxSkew \in Nat /\ MaxClock \in Nat
  /\ MaxSkew <= ExpiryGrace
BY FirestoreConstants

LEMMA RequestTypes ==
  /\ \A c \in Charges \cup Growths :
       /\ c.mode \in Modes /\ c.keys \in SUBSET Budgets /\ c.units \in [Budgets -> Nat]
       /\ \A b \in Budgets \ c.keys : c.units[b] = 0
  /\ \A units \in Actuals : units \in [Budgets -> Nat]
  /\ \A ttl \in Ttls : ttl \in Nat
<1>1. \A c \in Charges \cup Growths :
        c \in [mode : Modes, keys : SUBSET Budgets, units : [Budgets -> Nat]]
  BY FirestoreConstants
<1>2. \A c \in Charges \cup Growths : \A b \in Budgets \ c.keys : c.units[b] = 0
  BY FirestoreConstants
<1>3. \A units \in Actuals : units \in [Budgets -> Nat]
  BY FirestoreConstants
<1>4. \A ttl \in Ttls : ttl \in Nat
  BY FirestoreConstants
<1> QED
  BY <1>1, <1>2, <1>3, <1>4

LEMMA PlusType ==
  ASSUME NEW u \in [Budgets -> Nat], NEW v \in [Budgets -> Nat]
  PROVE  /\ Plus(u, v) \in [Budgets -> Nat]
         /\ \A b \in Budgets : Plus(u, v)[b] = u[b] + v[b]
BY DEF Plus

LEMMA MinusType ==
  ASSUME NEW u \in [Budgets -> Nat], NEW v \in [Budgets -> Nat]
  PROVE  /\ Minus(u, v) \in [Budgets -> Nat]
         /\ \A b \in Budgets : v[b] <= u[b] => Minus(u, v)[b] = u[b] - v[b]
BY DEF Minus, ClampedSub

LEMMA InstantType == Instants \subseteq Nat
BY ConstantTypes DEF Instants
-----------------------------------------------------------------------------
(* The invariant.                                                          *)

(* What a document holds of budget b.                                      *)
Share(document, b) == IF document.state \in {"pending", "liable"} THEN document.reserved[b] ELSE 0

(* A document puts units only on the budgets it names, or a transaction    *)
(* that writes those back would miss some; only recovery and settlement    *)
(* give it an outcome; and of a deleted one nothing is left.               *)
WellFormed(document) ==
  /\ \A b \in Budgets \ document.budgetKeys : document.reserved[b] = 0
  /\ document.state # "settled" => document.outcome = ""
  /\ document.state = "absent" => document = NoDocument

Accounted ==
  /\ FirestoreTypeOK
  /\ \A op \in Operations : WellFormed(reservations[op])
  /\ UsageConserved

CleanupsType == [Cleaners -> [now : Nat, found : SUBSET Operations]]

LEMMA ShareType ==
  ASSUME NEW document \in Reservation, NEW b \in Budgets
  PROVE  Share(document, b) \in Nat
BY DEF Share, Reservation

LEMMA DocumentType ==
  ASSUME NEW document \in Reservation
  PROVE  /\ document.mode \in Modes \cup {""}
         /\ document.state \in {"absent", "pending", "liable", "settled"}
         /\ document.budgetKeys \in SUBSET Budgets
         /\ document.reserved \in [Budgets -> Nat]
         /\ document.expiresAt \in Nat /\ document.growthCursor \in Nat
BY DEF Reservation

LEMMA NoDocumentType == NoDocument \in Reservation /\ WellFormed(NoDocument)
BY DEF NoDocument, NoUnits, Reservation, WellFormed

(* What is held of a budget is the total of the shares in it.              *)
LEMMA HeldIsTotal ==
  ASSUME FirestoreTypeOK, NEW b \in Budgets
  PROVE  /\ [op \in Operations |-> Share(reservations[op], b)] \in [Operations -> Nat]
         /\ Held(b) = Total([op \in Operations |-> Share(reservations[op], b)])
<1>1. \A op \in Operations : Share(reservations[op], b) \in Nat
  BY ShareType DEF FirestoreTypeOK
<1>2. [op \in Operations |-> Share(reservations[op], b)]
        = [op \in Operations |-> IF Open(op) THEN reservations[op].reserved[b] ELSE 0]
  BY DEF Share, Open
<1> QED
  BY <1>1, <1>2 DEF Held

(* No document holds more of a budget than is used of it.                  *)
LEMMA ShareIsUsed ==
  ASSUME Accounted, NEW op \in Operations, NEW b \in Budgets
  PROVE  Share(reservations[op], b) <= used[b]
<1> DEFINE f == [o \in Operations |-> Share(reservations[o], b)]
<1>1. f \in [Operations -> Nat] /\ Held(b) = Total(f)
  BY HeldIsTotal DEF Accounted
<1>2. f[op] = Share(reservations[op], b)
  OBVIOUS
<1> HIDE DEF f
<1>3. f[op] <= Total(f) /\ Total(f) \in Nat
  BY <1>1, ConstantTypes, TotalBound, TotalType
<1>4. used[b] = Held(b) + spent[b] /\ spent[b] \in Nat /\ f[op] \in Nat
  BY <1>1 DEF Accounted, UsageConserved, FirestoreTypeOK
<1> QED
  BY <1>1, <1>2, <1>3, <1>4

(* A balanced write keeps the accounts.                                    *)
LEMMA WriteKeeps ==
  ASSUME Accounted, NEW op \in Operations, NEW next \in Reservation, WellFormed(next),
         NEW u \in [Budgets -> Nat], NEW touched, Write(op, next, u, touched),
         spent' \in [Budgets -> Nat], cleanups' \in CleanupsType,
         \A b \in Budgets :
           (IF b \in touched THEN u[b] ELSE used[b])
             = used[b] - Share(reservations[op], b) + Share(next, b) + spent'[b] - spent[b]
  PROVE  Accounted'
<1>1. /\ reservations' = [reservations EXCEPT ![op] = next]
      /\ used' = [b \in Budgets |-> IF b \in touched THEN u[b] ELSE used[b]]
      /\ clocks' = clocks
  BY DEF Write
<1>2. FirestoreTypeOK'
  BY <1>1 DEF Accounted, FirestoreTypeOK, CleanupsType
<1>3. \A o \in Operations : WellFormed(reservations'[o])
  <2>1. \A o \in Operations : reservations'[o] = IF o = op THEN next ELSE reservations[o]
    BY <1>1 DEF Accounted, FirestoreTypeOK
  <2> QED BY <2>1 DEF Accounted
<1>4. ASSUME NEW b \in Budgets PROVE used'[b] = Held(b)' + spent'[b]
  <2> DEFINE f == [o \in Operations |-> Share(reservations[o], b)]
             g == [o \in Operations |-> Share(reservations'[o], b)]
  <2>1. f \in [Operations -> Nat] /\ Held(b) = Total(f)
    BY HeldIsTotal DEF Accounted
  <2>2. g \in [Operations -> Nat] /\ Held(b)' = Total(g)
    <3>1. \A o \in Operations : Share(reservations'[o], b) \in Nat
      BY <1>2, ShareType DEF FirestoreTypeOK
    <3>2. g = [o \in Operations |-> IF Open(o)' THEN reservations'[o].reserved[b] ELSE 0]
      BY DEF Share, Open
    <3> QED BY <3>1, <3>2 DEF Held
  <2>3. /\ f[op] = Share(reservations[op], b) /\ g[op] = Share(next, b)
        /\ \A o \in Operations \ {op} : g[o] = f[o]
    BY <1>1 DEF Accounted, FirestoreTypeOK
  <2> HIDE DEF f, g
  <2>4. Total(g) = Total(f) - f[op] + g[op] /\ Total(f) \in Nat
    BY <2>1, <2>2, <2>3, ConstantTypes, TotalChange, TotalType
  <2>5. used[b] = Total(f) + spent[b]
    BY <2>1 DEF Accounted, UsageConserved
  <2>6. used'[b] = used[b] - f[op] + g[op] + spent'[b] - spent[b]
    BY <1>1, <2>3
  <2>7. /\ f[op] \in Nat /\ g[op] \in Nat
        /\ spent[b] \in Nat /\ spent'[b] \in Nat
    BY <2>1, <2>2 DEF Accounted, FirestoreTypeOK
  <2> QED BY <2>2, <2>4, <2>5, <2>6, <2>7
<1> QED
  BY <1>2, <1>3, <1>4 DEF Accounted, UsageConserved
-----------------------------------------------------------------------------
(* Every transaction is balanced.                                          *)

LEMMA SettledType ==
  ASSUME NEW document \in Reservation, NEW now \in Nat, NEW actual \in [Budgets -> Nat],
         NEW outcome \in Outcomes \cup {LeaseExpired}, WellFormed(document)
  PROVE  /\ Settled(document, now, actual, outcome) \in Reservation
         /\ WellFormed(Settled(document, now, actual, outcome))
         /\ \A b \in Budgets : Share(Settled(document, now, actual, outcome), b) = 0
<1>1. now + IdempotencyTtl \in Nat
  BY ConstantTypes
<1>2. Settled(document, now, actual, outcome) \in Reservation
  BY <1>1 DEF Settled, Reservation
<1>3. /\ Settled(document, now, actual, outcome).state = "settled"
      /\ Settled(document, now, actual, outcome).budgetKeys = document.budgetKeys
      /\ Settled(document, now, actual, outcome).reserved = document.reserved
  BY DEF Settled, Reservation
<1> QED
  BY <1>2, <1>3 DEF WellFormed, Share

LEMMA RecoveryKeeps ==
  ASSUME Accounted, NEW op \in Operations, NEW now \in Nat,
         RecoverExpiredReservation(op, now), cleanups' \in CleanupsType
  PROVE  Accounted'
<1> DEFINE document == reservations[op]
<1>1. document \in Reservation /\ WellFormed(document)
      /\ used \in [Budgets -> Nat] /\ spent \in [Budgets -> Nat]
  BY DEF Accounted, FirestoreTypeOK
<1>2. \A b \in Budgets : Share(document, b) <= used[b]
  BY ShareIsUsed
<1>3. /\ document.reserved \in [Budgets -> Nat]
      /\ \A b \in Budgets \ document.budgetKeys : document.reserved[b] = 0
  BY <1>1, DocumentType DEF WellFormed
<1>4. \A b \in Budgets : Share(NoDocument, b) = 0
  BY DEF NoDocument, Share
<1>5. CASE /\ document.state = "pending"
           /\ Write(op, NoDocument, Minus(used, document.reserved), document.budgetKeys)
           /\ UNCHANGED spent
  <2>1. \A b \in Budgets : Share(document, b) = document.reserved[b]
    BY <1>5 DEF Share
  <2>2. /\ Minus(used, document.reserved) \in [Budgets -> Nat]
        /\ \A b \in Budgets : Minus(used, document.reserved)[b] = used[b] - document.reserved[b]
    BY <1>1, <1>2, <1>3, <2>1, MinusType
  <2>3. spent' \in [Budgets -> Nat]
    BY <1>1, <1>5
  <2> HIDE DEF document
  <2>4. \A b \in Budgets :
          (IF b \in document.budgetKeys THEN Minus(used, document.reserved)[b] ELSE used[b])
            = used[b] - Share(document, b) + Share(NoDocument, b) + spent'[b] - spent[b]
    BY <1>1, <1>3, <1>4, <1>5, <2>1, <2>2
  <2> QED BY <1>5, <2>2, <2>3, <2>4, NoDocumentType, WriteKeeps DEF document
<1>6. CASE /\ document.state = "liable"
           /\ Write(op, Settled(document, now, document.reserved, LeaseExpired), used, {})
           /\ spent' = Plus(spent, document.reserved)
  <2> DEFINE next == Settled(document, now, document.reserved, LeaseExpired)
  <2>1. \A b \in Budgets : Share(document, b) = document.reserved[b]
    BY <1>6 DEF Share
  <2>2. next \in Reservation /\ WellFormed(next) /\ \A b \in Budgets : Share(next, b) = 0
    BY <1>1, <1>3, SettledType
  <2>3. /\ spent' \in [Budgets -> Nat]
        /\ \A b \in Budgets : spent'[b] = spent[b] + document.reserved[b]
    BY <1>1, <1>3, <1>6, PlusType
  <2>4. Write(op, next, used, {})
    BY <1>6
  <2> HIDE DEF document, next
  <2>5. \A b \in Budgets :
          (IF b \in {} THEN used[b] ELSE used[b])
            = used[b] - Share(document, b) + Share(next, b) + spent'[b] - spent[b]
    BY <1>1, <1>3, <2>1, <2>2, <2>3
  <2> QED BY <1>1, <2>2, <2>3, <2>4, <2>5, WriteKeeps DEF document
<1>7. CASE document.state = "settled" /\ Write(op, NoDocument, used, {}) /\ UNCHANGED spent
  <2>1. \A b \in Budgets : Share(document, b) = 0
    BY <1>7 DEF Share
  <2>2. \A b \in Budgets :
          (IF b \in {} THEN used[b] ELSE used[b])
            = used[b] - Share(document, b) + Share(NoDocument, b) + spent'[b] - spent[b]
    BY <1>1, <1>4, <1>7, <2>1
  <2> HIDE DEF document
  <2> QED BY <1>1, <1>7, <2>2, NoDocumentType, WriteKeeps DEF document
<1> QED
  BY <1>5, <1>6, <1>7 DEF RecoverExpiredReservation

LEMMA PendingType ==
  ASSUME NEW c \in Charges, NEW at \in Nat, NEW cursor \in Nat
  PROVE  /\ Pending(c, at, cursor) \in Reservation
         /\ WellFormed(Pending(c, at, cursor))
         /\ \A b \in Budgets : Share(Pending(c, at, cursor), b) = c.units[b]
<1>1. /\ c.mode \in Modes /\ c.keys \in SUBSET Budgets /\ c.units \in [Budgets -> Nat]
      /\ \A b \in Budgets \ c.keys : c.units[b] = 0
  BY RequestTypes
<1>2. NoUnits \in [Budgets -> Nat]
  BY DEF NoUnits
<1> QED
  BY <1>1, <1>2 DEF Pending, Reservation, WellFormed, Share

LEMMA ReserveKeeps ==
  ASSUME Accounted, NEW op \in Operations, NEW charge \in Charges, NEW lim \in Limits,
         NEW ttl \in Ttls, NEW now \in Nat, Reserve(op, charge, lim, ttl, now)
  PROVE  Accounted'
<1> DEFINE existing == reservations[op]
           released == IF existing.state = "pending" THEN Minus(used, existing.reserved) ELSE used
           freed == IF existing.state = "pending" THEN existing.budgetKeys ELSE {}
           next == Pending(charge, now + ttl, existing.growthCursor + 1)
<1>1. /\ existing \in Reservation /\ WellFormed(existing)
      /\ used \in [Budgets -> Nat] /\ spent \in [Budgets -> Nat]
      /\ cleanups' \in CleanupsType
  BY DEF Accounted, FirestoreTypeOK, Reserve, CleanupsType
<1>2. /\ existing.reserved \in [Budgets -> Nat] /\ existing.growthCursor \in Nat
      /\ \A b \in Budgets \ existing.budgetKeys : existing.reserved[b] = 0
      /\ existing.state \in {"absent", "pending", "liable", "settled"}
  BY <1>1, DocumentType DEF WellFormed
<1>3. CASE existing.state = "liable" /\ RecoverExpiredReservation(op, now)
  BY <1>1, <1>3, RecoveryKeeps
<1>4. ASSUME existing.state # "liable"
      PROVE  /\ released \in [Budgets -> Nat]
             /\ \A b \in Budgets : released[b] = used[b] - Share(existing, b)
             /\ \A b \in Budgets \ freed : Share(existing, b) = 0
  <2>1. CASE existing.state = "pending"
    <3>1. \A b \in Budgets : Share(existing, b) = existing.reserved[b]
      BY <2>1 DEF Share
    <3>2. \A b \in Budgets : Share(existing, b) <= used[b]
      BY ShareIsUsed
    <3>3. released = Minus(used, existing.reserved) /\ freed = existing.budgetKeys
      BY <2>1
    <3> HIDE DEF existing, released, freed
    <3> QED BY <1>1, <1>2, <3>1, <3>2, <3>3, MinusType
  <2>2. CASE existing.state # "pending"
    <3>1. \A b \in Budgets : Share(existing, b) = 0
      BY <1>4, <2>2 DEF Share
    <3>2. released = used
      BY <2>2
    <3> HIDE DEF existing, released, freed
    <3> QED BY <1>1, <3>1, <3>2
  <2> QED BY <2>1, <2>2
<1>5. CASE existing.state # "liable" /\ Write(op, NoDocument, released, freed) /\ UNCHANGED spent
  <2>1. \A b \in Budgets : Share(NoDocument, b) = 0
    BY DEF NoDocument, Share
  <2>2. spent' \in [Budgets -> Nat] /\ released \in [Budgets -> Nat]
    BY <1>1, <1>4, <1>5
  <2>3. /\ \A b \in Budgets : released[b] = used[b] - Share(existing, b) /\ Share(existing, b) \in Nat
        /\ \A b \in Budgets \ freed : Share(existing, b) = 0
    BY <1>1, <1>4, <1>5, ShareType
  <2>4. Write(op, NoDocument, released, freed) /\ spent' = spent
    BY <1>5
  <2> HIDE DEF existing, released, freed
  <2>5. \A b \in Budgets :
          (IF b \in freed THEN released[b] ELSE used[b])
            = used[b] - Share(existing, b) + Share(NoDocument, b) + spent'[b] - spent[b]
    BY <1>1, <2>1, <2>3, <2>4
  <2> QED BY <1>1, <2>2, <2>4, <2>5, NoDocumentType, WriteKeeps DEF existing
<1>6. CASE /\ existing.state # "liable"
           /\ Write(op, next, Plus(released, charge.units), charge.keys \cup freed)
           /\ UNCHANGED spent
  <2>1. now + ttl \in Nat /\ existing.growthCursor + 1 \in Nat
    BY <1>2, RequestTypes
  <2>2. /\ next \in Reservation /\ WellFormed(next)
        /\ \A b \in Budgets : Share(next, b) = charge.units[b]
    BY <2>1, PendingType
  <2>3. /\ released \in [Budgets -> Nat]
        /\ \A b \in Budgets : released[b] = used[b] - Share(existing, b) /\ Share(existing, b) \in Nat
        /\ \A b \in Budgets \ freed : Share(existing, b) = 0
    BY <1>1, <1>4, <1>6, ShareType
  <2>4. /\ charge.units \in [Budgets -> Nat]
        /\ \A b \in Budgets \ charge.keys : charge.units[b] = 0
    BY RequestTypes
  <2>5. /\ Write(op, next, Plus(released, charge.units), charge.keys \cup freed)
        /\ spent' = spent
    BY <1>6
  <2> HIDE DEF existing, released, freed, next
  <2>6. /\ Plus(released, charge.units) \in [Budgets -> Nat]
        /\ \A b \in Budgets : Plus(released, charge.units)[b] = released[b] + charge.units[b]
    BY <2>3, <2>4, PlusType
  <2>7. \A b \in Budgets :
          (IF b \in charge.keys \cup freed THEN Plus(released, charge.units)[b] ELSE used[b])
            = used[b] - Share(existing, b) + Share(next, b) + spent'[b] - spent[b]
    BY <1>1, <2>2, <2>3, <2>4, <2>5, <2>6
  <2> QED BY <1>1, <2>2, <2>5, <2>6, <2>7, WriteKeeps DEF existing
<1> QED
  BY <1>3, <1>5, <1>6 DEF Reserve

LEMMA DirectExpiryKeeps ==
  ASSUME Accounted, NEW op \in Operations, NEW now \in Nat, DirectExpiry(op, now)
  PROVE  Accounted'
<1>1. cleanups' \in CleanupsType /\ RecoverExpiredReservation(op, now)
  BY DEF Accounted, FirestoreTypeOK, DirectExpiry, CleanupsType
<1> QED
  BY <1>1, RecoveryKeeps

(* A write of the document alone that changes neither what it holds nor    *)
(* what it names.                                                          *)
LEMMA DocumentWriteKeeps ==
  ASSUME Accounted, NEW op \in Operations, NEW next \in Reservation, WellFormed(next),
         \A b \in Budgets : Share(next, b) = Share(reservations[op], b),
         Write(op, next, used, {}), UNCHANGED <<cleanups, spent>>
  PROVE  Accounted'
<1>1. /\ used \in [Budgets -> Nat] /\ spent \in [Budgets -> Nat]
      /\ reservations[op] \in Reservation
      /\ cleanups' \in CleanupsType /\ spent' = spent
  BY DEF Accounted, FirestoreTypeOK, CleanupsType
<1>2. \A b \in Budgets : Share(reservations[op], b) \in Nat
  BY <1>1, ShareType
<1>3. \A b \in Budgets :
        (IF b \in {} THEN used[b] ELSE used[b])
          = used[b] - Share(reservations[op], b) + Share(next, b) + spent'[b] - spent[b]
  BY <1>1, <1>2
<1> QED
  BY <1>1, <1>3, WriteKeeps

LEMMA MarkLiableKeeps ==
  ASSUME Accounted, NEW op \in Operations, NEW now \in Nat, MarkLiable(op, now)
  PROVE  Accounted'
<1>1. CASE DirectExpiry(op, now)
  BY <1>1, DirectExpiryKeeps
<1>2. CASE /\ Active(op, now)
           /\ Write(op, [reservations[op] EXCEPT !.state = "liable"], used, {})
           /\ UNCHANGED <<cleanups, spent>>
  <2> DEFINE document == reservations[op]
             next == [document EXCEPT !.state = "liable"]
  <2>1. /\ document \in Reservation /\ WellFormed(document)
        /\ document.state \in {"pending", "liable"}
    BY <1>2 DEF Active, Open, Accounted, FirestoreTypeOK
  <2>2. next \in Reservation
    BY <2>1 DEF Reservation
  <2>3. /\ next.state = "liable" /\ next.outcome = document.outcome
        /\ next.budgetKeys = document.budgetKeys /\ next.reserved = document.reserved
    BY <2>1 DEF Reservation
  <2>4. Write(op, next, used, {}) /\ UNCHANGED <<cleanups, spent>>
    BY <1>2
  <2> HIDE DEF next
  <2>5. WellFormed(next) /\ \A b \in Budgets : Share(next, b) = Share(document, b)
    BY <2>1, <2>3 DEF WellFormed, Share
  <2> QED BY <2>2, <2>4, <2>5, DocumentWriteKeeps
<1> QED
  BY <1>1, <1>2 DEF MarkLiable

LEMMA RenewKeeps ==
  ASSUME Accounted, NEW op \in Operations, NEW ttl \in Ttls, NEW now \in Nat,
         Renew(op, ttl, now)
  PROVE  Accounted'
<1>1. CASE DirectExpiry(op, now)
  BY <1>1, DirectExpiryKeeps
<1>2. CASE /\ Active(op, now)
           /\ Write(op, [reservations[op] EXCEPT !.expiresAt = now + ttl], used, {})
           /\ UNCHANGED <<cleanups, spent>>
  <2> DEFINE document == reservations[op]
             next == [document EXCEPT !.expiresAt = now + ttl]
  <2>1. /\ document \in Reservation /\ WellFormed(document) /\ now + ttl \in Nat
        /\ document.state # "absent"
    BY <1>2, RequestTypes DEF Active, Open, Accounted, FirestoreTypeOK
  <2>2. next \in Reservation
    BY <2>1 DEF Reservation
  <2>3. /\ next.state = document.state /\ next.outcome = document.outcome
        /\ next.budgetKeys = document.budgetKeys /\ next.reserved = document.reserved
    BY <2>1 DEF Reservation
  <2>4. Write(op, next, used, {}) /\ UNCHANGED <<cleanups, spent>>
    BY <1>2
  <2> HIDE DEF next
  <2>5. WellFormed(next) /\ \A b \in Budgets : Share(next, b) = Share(document, b)
    BY <2>1, <2>3 DEF WellFormed, Share
  <2> QED BY <2>2, <2>4, <2>5, DocumentWriteKeeps
<1> QED
  BY <1>1, <1>2 DEF Renew

LEMMA SettleKeeps ==
  ASSUME Accounted, NEW op \in Operations, NEW actual \in Actuals, NEW outcome \in Outcomes,
         NEW now \in Nat, Settle(op, actual, outcome, now)
  PROVE  Accounted'
<1> DEFINE document == reservations[op]
           next == Settled(document, now, actual, outcome)
           left == Minus(document.reserved, actual)
<1>1. CASE DirectExpiry(op, now)
  BY <1>1, DirectExpiryKeeps
<1>2. CASE /\ Active(op, now)
           /\ \A b \in Budgets : actual[b] <= document.reserved[b]
           /\ Write(op, next, Minus(used, left), document.budgetKeys)
           /\ spent' = Plus(spent, actual)
           /\ UNCHANGED cleanups
  <2>1. /\ document \in Reservation /\ WellFormed(document)
        /\ document.state \in {"pending", "liable"}
        /\ used \in [Budgets -> Nat] /\ spent \in [Budgets -> Nat]
        /\ cleanups' \in CleanupsType
    BY <1>2 DEF Active, Open, Accounted, FirestoreTypeOK, CleanupsType
  <2>2. /\ document.reserved \in [Budgets -> Nat]
        /\ \A b \in Budgets \ document.budgetKeys : document.reserved[b] = 0
        /\ \A b \in Budgets : Share(document, b) = document.reserved[b]
    BY <2>1, DocumentType DEF WellFormed, Share
  <2>3. actual \in [Budgets -> Nat]
    BY RequestTypes
  <2>4. next \in Reservation /\ WellFormed(next) /\ \A b \in Budgets : Share(next, b) = 0
    BY <2>1, <2>3, SettledType
  <2>5. \A b \in Budgets : Share(document, b) <= used[b]
    BY ShareIsUsed
  <2>6. Write(op, next, Minus(used, left), document.budgetKeys) /\ spent' = Plus(spent, actual)
    BY <1>2
  <2>7. \A b \in Budgets : actual[b] <= document.reserved[b]
    BY <1>2
  <2> HIDE DEF document, next
  <2>8. left \in [Budgets -> Nat] /\ \A b \in Budgets : left[b] = document.reserved[b] - actual[b]
    BY <2>2, <2>3, <2>7, MinusType
  <2> HIDE DEF left
  <2>9. \A b \in Budgets : left[b] <= used[b]
    BY <2>1, <2>2, <2>3, <2>5, <2>8
  <2>10. /\ Minus(used, left) \in [Budgets -> Nat]
         /\ \A b \in Budgets : Minus(used, left)[b] = used[b] - left[b]
    BY <2>1, <2>8, <2>9, MinusType
  <2>11. /\ spent' \in [Budgets -> Nat]
         /\ \A b \in Budgets : spent'[b] = spent[b] + actual[b]
    BY <2>1, <2>3, <2>6, PlusType
  <2>12. \A b \in Budgets :
           (IF b \in document.budgetKeys THEN Minus(used, left)[b] ELSE used[b])
             = used[b] - Share(document, b) + Share(next, b) + spent'[b] - spent[b]
    BY <2>1, <2>2, <2>3, <2>4, <2>7, <2>8, <2>10, <2>11
  <2> QED BY <2>1, <2>4, <2>6, <2>10, <2>11, <2>12, WriteKeeps DEF document
<1> QED
  BY <1>1, <1>2 DEF Settle

LEMMA GrownType ==
  ASSUME NEW document \in Reservation, WellFormed(document), NEW inc \in Increments,
         document.state \in {"pending", "liable"}, NEW units \in [Budgets -> Nat],
         \A b \in Budgets \ document.budgetKeys : units[b] = 0
  PROVE  LET next == [document EXCEPT !.reserved = units, !.growthCursor = @ + 1,
                                      !.lastGrowth = {inc}]
         IN  /\ next \in Reservation /\ WellFormed(next)
             /\ \A b \in Budgets : Share(next, b) = units[b]
<1> DEFINE next == [document EXCEPT !.reserved = units, !.growthCursor = @ + 1,
                                    !.lastGrowth = {inc}]
<1>1. next \in Reservation
  <2>1. document.growthCursor + 1 \in Nat
    <3>1. document.growthCursor \in Nat
      BY DEF Reservation
    <3> QED BY <3>1
  <2>2. ASSUME NEW cursor \in Nat
        PROVE  [document EXCEPT !.reserved = units, !.growthCursor = cursor,
                                !.lastGrowth = {inc}] \in Reservation
    BY DEF Reservation
  <2> QED BY <2>1, <2>2
<1>2. /\ next.state = document.state /\ next.outcome = document.outcome
      /\ next.budgetKeys = document.budgetKeys /\ next.reserved = units
  BY DEF Reservation
<1> HIDE DEF next
<1>3. WellFormed(next) /\ \A b \in Budgets : Share(next, b) = units[b]
  BY <1>2 DEF WellFormed, Share
<1> QED
  BY <1>1, <1>3 DEF next

LEMMA GrowKeeps ==
  ASSUME Accounted, NEW op \in Operations, NEW inc \in Increments, NEW cursor \in 0..MaxCursor,
         NEW add \in Growths, NEW lim \in Limits, NEW now \in Nat,
         Grow(op, inc, cursor, add, lim, now)
  PROVE  Accounted'
<1> DEFINE document == reservations[op]
           accepted == WithinLimits(add, lim, used)
           units == IF accepted THEN Plus(document.reserved, add.units) ELSE document.reserved
           next == [document EXCEPT !.reserved = units, !.growthCursor = @ + 1,
                                    !.lastGrowth = {inc}]
           touched == IF accepted THEN add.keys ELSE {}
<1>1. CASE DirectExpiry(op, now)
  BY <1>1, DirectExpiryKeeps
<1>2. CASE /\ Active(op, now)
           /\ document.budgetKeys = add.keys
           /\ Write(op, next, Plus(used, add.units), touched)
           /\ UNCHANGED <<cleanups, spent>>
  <2>1. /\ document \in Reservation /\ WellFormed(document)
        /\ document.state \in {"pending", "liable"}
        /\ used \in [Budgets -> Nat] /\ spent \in [Budgets -> Nat]
        /\ cleanups' \in CleanupsType /\ spent' = spent
    BY <1>2 DEF Active, Open, Accounted, FirestoreTypeOK, CleanupsType
  <2>2. /\ document.reserved \in [Budgets -> Nat]
        /\ \A b \in Budgets \ document.budgetKeys : document.reserved[b] = 0
        /\ \A b \in Budgets : Share(document, b) = document.reserved[b]
    BY <2>1, DocumentType DEF WellFormed, Share
  <2>3. /\ add.units \in [Budgets -> Nat]
        /\ \A b \in Budgets \ document.budgetKeys : add.units[b] = 0
    BY <1>2, RequestTypes
  <2>4. Write(op, next, Plus(used, add.units), touched)
    BY <1>2
  <2>5. touched = IF accepted THEN document.budgetKeys ELSE {}
    BY <1>2
  <2>6. /\ Plus(used, add.units) \in [Budgets -> Nat]
        /\ \A b \in Budgets : Plus(used, add.units)[b] = used[b] + add.units[b]
        /\ Plus(document.reserved, add.units) \in [Budgets -> Nat]
        /\ \A b \in Budgets :
             Plus(document.reserved, add.units)[b] = document.reserved[b] + add.units[b]
    BY <2>1, <2>2, <2>3, PlusType
  <2> HIDE DEF document, accepted, touched
  <2>7. /\ units \in [Budgets -> Nat]
        /\ \A b \in Budgets :
             units[b] = IF accepted THEN document.reserved[b] + add.units[b] ELSE document.reserved[b]
    BY <2>2, <2>6
  <2> HIDE DEF units
  <2>8. \A b \in Budgets \ document.budgetKeys : units[b] = 0
    BY <2>2, <2>3, <2>7
  <2>9. next \in Reservation /\ WellFormed(next) /\ \A b \in Budgets : Share(next, b) = units[b]
    BY <2>1, <2>7, <2>8, GrownType
  <2> HIDE DEF next
  <2>10. \A b \in Budgets :
           (IF b \in touched THEN Plus(used, add.units)[b] ELSE used[b])
             = used[b] - Share(document, b) + Share(next, b) + spent'[b] - spent[b]
    BY <2>1, <2>2, <2>3, <2>5, <2>6, <2>7, <2>9
  <2> QED BY <2>1, <2>4, <2>6, <2>9, <2>10, WriteKeeps DEF document
<1> QED
  BY <1>1, <1>2 DEF Grow

LEMMA CleanupKeeps ==
  ASSUME Accounted, NEW c \in Cleaners, Cleanup(c)
  PROVE  Accounted'
<1>1. /\ reservations \in [Operations -> Reservation]
      /\ cleanups \in CleanupsType /\ cleanups[c] \in [now : Nat, found : SUBSET Operations]
  BY DEF Accounted, FirestoreTypeOK, CleanupsType
<1>2. ASSUME UNCHANGED <<used, reservations, clocks, spent>>, cleanups' \in CleanupsType
      PROVE  Accounted'
  <2>1. FirestoreTypeOK'
    BY <1>2 DEF Accounted, FirestoreTypeOK, CleanupsType
  <2>2. \A b \in Budgets : used'[b] = Held(b)' + spent'[b]
    BY <1>2 DEF Accounted, UsageConserved, Held, Open
  <2> QED BY <1>2, <2>1, <2>2 DEF Accounted, UsageConserved
<1>3. ASSUME NEW now \in Instants, QueryExpired(c, now)
      PROVE  Accounted'
  <2>1. PICK batch \in Batches(now) : cleanups' = [cleanups EXCEPT ![c] = [now |-> now, found |-> batch]]
    BY <1>3 DEF QueryExpired
  <2>2. batch \in SUBSET Operations /\ now \in Nat
    BY InstantType DEF Batches
  <2>3. [now |-> now, found |-> batch] \in [now : Nat, found : SUBSET Operations]
    BY <2>2
  <2> QED BY <1>1, <1>2, <1>3, <2>1, <2>3 DEF QueryExpired, CleanupsType
<1>4. ASSUME NEW op \in Operations, RecoverReservation(c, op)
      PROVE  Accounted'
  <2>1. Looked(c, op) \in [now : Nat, found : SUBSET Operations]
    BY <1>1 DEF Looked, NotRunning
  <2>2. cleanups' \in CleanupsType
    BY <1>1, <1>4, <2>1 DEF RecoverReservation, CleanupsType
  <2>3. cleanups[c].now \in Nat
    BY <1>1
  <2>4. CASE RecoverExpiredReservation(op, cleanups[c].now)
    BY <2>2, <2>3, <2>4, RecoveryKeeps
  <2>5. CASE UNCHANGED <<used, reservations, clocks, spent>>
    BY <1>2, <2>2, <2>5
  <2> QED BY <1>4, <2>4, <2>5 DEF RecoverReservation
<1>5. ASSUME CleanupFails(c)
      PROVE  Accounted'
  <2>1. NotRunning \in [now : Nat, found : SUBSET Operations]
    BY DEF NotRunning
  <2> QED BY <1>1, <1>2, <1>5, <2>1 DEF CleanupFails, CleanupsType
<1> QED
  BY <1>3, <1>4, <1>5 DEF Cleanup

LEMMA RetireKeeps ==
  ASSUME Accounted, NEW candidates \in SUBSET Budgets, RetireHistoricalBudgets(candidates)
  PROVE  Accounted'
<1>1. /\ used' = [b \in Budgets |-> IF b \in candidates THEN 0 ELSE used[b]]
      /\ spent' = [b \in Budgets |-> IF b \in candidates THEN 0 ELSE spent[b]]
      /\ reservations' = reservations /\ clocks' = clocks /\ cleanups' = cleanups
  BY DEF RetireHistoricalBudgets
<1>2. FirestoreTypeOK'
  BY <1>1 DEF Accounted, FirestoreTypeOK
<1>3. ASSUME NEW b \in Budgets
      PROVE  used'[b] = Held(b)' + spent'[b]
  <2>1. Held(b)' = Held(b)
    BY <1>1 DEF Held, Open
  <2>2. CASE b \notin candidates
    BY <1>1, <2>1, <2>2 DEF Accounted, UsageConserved
  <2>3. CASE b \in candidates
    <3> DEFINE f == [op \in Operations |-> Share(reservations[op], b)]
    <3>1. f \in [Operations -> Nat] /\ Held(b) = Total(f)
      BY HeldIsTotal DEF Accounted
    <3>2. \A op \in Operations : f[op] = 0
      <4>1. \A op \in Operations : WellFormed(reservations[op])
        BY DEF Accounted
      <4>2. \A op \in Operations : Open(op) => b \notin reservations[op].budgetKeys
        BY <2>3 DEF RetireHistoricalBudgets
      <4> QED BY <4>1, <4>2 DEF Share, Open, WellFormed
    <3> HIDE DEF f
    <3>3. Held(b) = 0
      BY <3>1, <3>2, TotalZero
    <3> QED BY <1>1, <2>1, <2>3, <3>3
  <2> QED BY <2>2, <2>3
<1> QED
  BY <1>1, <1>2, <1>3 DEF Accounted, UsageConserved

LEMMA RequestKeeps ==
  ASSUME Accounted, NEW op \in Operations, NEW now \in Nat, Request(op, now)
  PROVE  Accounted'
BY ReserveKeeps, MarkLiableKeeps, RenewKeeps, SettleKeeps, GrowKeeps DEF Request

LEMMA AccountedInit == Init => Accounted
<1> SUFFICES ASSUME Init PROVE Accounted
  OBVIOUS
<1>1. NotRunning \in [now : Nat, found : SUBSET Operations] /\ NoUnits \in [Budgets -> Nat]
  BY DEF NotRunning, NoUnits
<1>2. FirestoreTypeOK
  BY <1>1, NoDocumentType DEF Init, FirestoreTypeOK
<1>3. \A op \in Operations : reservations[op] = NoDocument
  BY DEF Init
<1>4. ASSUME NEW b \in Budgets
      PROVE  used[b] = Held(b) + spent[b]
  <2> DEFINE f == [op \in Operations |-> Share(reservations[op], b)]
  <2>1. f \in [Operations -> Nat] /\ Held(b) = Total(f)
    BY <1>2, HeldIsTotal
  <2>2. \A op \in Operations : f[op] = 0
    <3>1. Share(NoDocument, b) = 0
      BY DEF Share, NoDocument
    <3> QED BY <1>3, <3>1
  <2> HIDE DEF f
  <2>3. Held(b) = 0
    BY <2>1, <2>2, TotalZero
  <2>4. used[b] = 0 /\ spent[b] = 0
    BY DEF Init, NoUnits
  <2> QED BY <2>3, <2>4
<1> QED
  BY <1>2, <1>3, <1>4, NoDocumentType DEF Accounted, UsageConserved

LEMMA AccountedStep ==
  ASSUME Accounted, [Next]_vars
  PROVE  Accounted'
<1>1. ASSUME NEW op \in Operations, NEW now \in Instants, Request(op, now)
      PROVE  Accounted'
  BY <1>1, InstantType, RequestKeeps
<1>2. ASSUME NEW h \in Hosts, Tick(h)
      PROVE  Accounted'
  <2>1. FirestoreTypeOK'
    BY <1>2 DEF Accounted, FirestoreTypeOK, Tick
  <2>2. /\ \A op \in Operations : WellFormed(reservations'[op])
        /\ \A b \in Budgets : used'[b] = Held(b)' + spent'[b]
    BY <1>2 DEF Accounted, UsageConserved, Tick, Held, Open
  <2> QED BY <2>1, <2>2 DEF Accounted, UsageConserved
<1>3. CASE UNCHANGED vars
  <2>1. FirestoreTypeOK'
    BY <1>3 DEF Accounted, FirestoreTypeOK, vars
  <2>2. /\ \A op \in Operations : WellFormed(reservations'[op])
        /\ \A b \in Budgets : used'[b] = Held(b)' + spent'[b]
    BY <1>3 DEF Accounted, UsageConserved, vars, Held, Open
  <2> QED BY <2>1, <2>2 DEF Accounted, UsageConserved
<1> QED
  BY <1>1, <1>2, <1>3, CleanupKeeps, RetireKeeps DEF Next

(* The documents are well typed in every reachable state, and no budget    *)
(* document is ever off by a unit: for any number of hosts and any mixture *)
(* of admissions over expired documents, growth, settlement, direct expiry *)
(* and cleanups working from stale queries, what is used of a budget is    *)
(* what open reservations hold of it and what was charged to it.           *)
THEOREM FirestoreConserved == Spec => [](FirestoreTypeOK /\ UsageConserved)
<1>1. Spec => []Accounted
  BY AccountedInit, AccountedStep, PTL DEF Spec
<1>2. Accounted => FirestoreTypeOK /\ UsageConserved
  BY DEF Accounted
<1> QED
  BY <1>1, <1>2, PTL

(* Types are kept: no refund takes a budget document below zero, and a     *)
(* cleanup looks only at documents that its query can have returned.       *)
THEOREM FirestoreTyped == Spec => []FirestoreTypeOK
BY FirestoreConserved, PTL
-----------------------------------------------------------------------------
(* Time.  The clocks stay within the skew, and a cleanup works with an     *)
(* instant that some clock has shown.                                      *)

Synchronized ==
  /\ \A g, h \in Hosts : clocks[g] <= clocks[h] + MaxSkew
  /\ \A c \in Cleaners : cleanups[c].found # {} => cleanups[c].now \in Instants

(* What is expired at some host's instant has its deadline behind it on    *)
(* every host's clock.                                                     *)
LEMMA ExpiredEverywhere ==
  ASSUME FirestoreTypeOK, Synchronized, NEW op \in Operations, NEW now \in Instants,
         IsExpired(op, now), NEW h \in Hosts
  PROVE  reservations[op].expiresAt <= clocks[h]
<1>1. PICK g \in Hosts : now <= clocks[g]
  BY DEF Instants
<1>2. clocks[g] <= clocks[h] + MaxSkew
  BY DEF Synchronized
<1>3. clocks[g] \in Nat /\ clocks[h] \in Nat /\ now \in Nat
  BY InstantType DEF FirestoreTypeOK
<1>4. reservations[op].expiresAt \in Nat
  BY DocumentType DEF FirestoreTypeOK
<1>5. reservations[op].expiresAt <= now - ExpiryGrace
  BY DEF IsExpired
<1> QED
  BY <1>1, <1>2, <1>3, <1>4, <1>5, ConstantTypes

(* A document that keeps its cursor, or has grown, was not ended unless it *)
(* was deleted or given the outcome of recovery.                           *)
LEMMA NotEnded ==
  ASSUME NEW document, NEW next, next.state # "absent", next.outcome # LeaseExpired,
         next.growthCursor = document.growthCursor \/ next.lastGrowth # {}
  PROVE  ~EndedByExpiry(document, next)
BY DEF EndedByExpiry

LEMMA UnchangedNotEnded ==
  ASSUME NEW document, WellFormed(document)
  PROVE  ~EndedByExpiry(document, document)
BY DEF EndedByExpiry, WellFormed, LeaseExpired

(* A transaction touches no other document.                                *)
LEMMA WriteChanges ==
  ASSUME FirestoreTypeOK, NEW op \in Operations, NEW next, NEW u, NEW touched,
         Write(op, next, u, touched)
  PROVE  /\ reservations'[op] = next
         /\ \A o \in Operations \ {op} : reservations'[o] = reservations[o]
         /\ clocks' = clocks
BY DEF Write, FirestoreTypeOK

LEMMA RecoveryChanges ==
  ASSUME FirestoreTypeOK, NEW op \in Operations, NEW now, RecoverExpiredReservation(op, now)
  PROVE  /\ \A o \in Operations \ {op} : reservations'[o] = reservations[o]
         /\ clocks' = clocks
BY WriteChanges DEF RecoverExpiredReservation

(* A call leaves the other documents alone, and ends the one it names only *)
(* if that has expired at the call's instant.                              *)
LEMMA RequestEndsExpired ==
  ASSUME Accounted, NEW op \in Operations, NEW now, Request(op, now)
  PROVE  /\ \A o \in Operations \ {op} : reservations'[o] = reservations[o]
         /\ clocks' = clocks /\ cleanups' = cleanups
         /\ EndedByExpiry(reservations[op], reservations'[op]) => IsExpired(op, now)
<1> DEFINE document == reservations[op]
<1>1. FirestoreTypeOK /\ document \in Reservation /\ WellFormed(document)
  BY DEF Accounted, FirestoreTypeOK
<1>2. document.state \in {"pending", "liable"} => document.outcome # LeaseExpired
  BY <1>1 DEF WellFormed, LeaseExpired
<1>3. CASE DirectExpiry(op, now)
  BY <1>1, <1>3, RecoveryChanges DEF DirectExpiry
<1>4. ASSUME NEW charge \in Charges, NEW lim \in Limits, NEW ttl \in Ttls,
             Reserve(op, charge, lim, ttl, now)
      PROVE  /\ \A o \in Operations \ {op} : reservations'[o] = reservations[o]
             /\ clocks' = clocks /\ cleanups' = cleanups
             /\ EndedByExpiry(reservations[op], reservations'[op]) => IsExpired(op, now)
  <2>1. EndedByExpiry(reservations[op], reservations'[op]) => IsExpired(op, now)
    BY <1>4 DEF Reserve, EndedByExpiry, Exists
  <2> QED BY <1>1, <1>4, <2>1, RecoveryChanges, WriteChanges DEF Reserve
<1>5. ASSUME Active(op, now), Write(op, [document EXCEPT !.state = "liable"], used, {}),
             UNCHANGED cleanups
      PROVE  /\ \A o \in Operations \ {op} : reservations'[o] = reservations[o]
             /\ clocks' = clocks /\ cleanups' = cleanups
             /\ ~EndedByExpiry(reservations[op], reservations'[op])
  <2> DEFINE next == [document EXCEPT !.state = "liable"]
  <2>1. /\ next.state = "liable" /\ next.outcome = document.outcome
        /\ next.growthCursor = document.growthCursor
    BY <1>1 DEF Reservation
  <2>2. document.outcome # LeaseExpired
    BY <1>2, <1>5 DEF Active, Open
  <2>3. Write(op, next, used, {})
    BY <1>5
  <2> HIDE DEF next
  <2> QED BY <1>1, <1>5, <2>1, <2>2, <2>3, NotEnded, WriteChanges
<1>6. ASSUME NEW ttl \in Ttls, Active(op, now),
             Write(op, [document EXCEPT !.expiresAt = now + ttl], used, {}), UNCHANGED cleanups
      PROVE  /\ \A o \in Operations \ {op} : reservations'[o] = reservations[o]
             /\ clocks' = clocks /\ cleanups' = cleanups
             /\ ~EndedByExpiry(reservations[op], reservations'[op])
  <2> DEFINE next == [document EXCEPT !.expiresAt = now + ttl]
  <2>1. /\ next.state = document.state /\ next.outcome = document.outcome
        /\ next.growthCursor = document.growthCursor
    BY <1>1 DEF Reservation
  <2>2. document.outcome # LeaseExpired /\ document.state # "absent"
    BY <1>2, <1>6 DEF Active, Open
  <2>3. Write(op, next, used, {})
    BY <1>6
  <2> HIDE DEF next
  <2> QED BY <1>1, <1>6, <2>1, <2>2, <2>3, NotEnded, WriteChanges
<1>7. ASSUME NEW actual \in Actuals, NEW outcome \in Outcomes, NEW u, NEW touched,
             Active(op, now), Write(op, Settled(document, now, actual, outcome), u, touched),
             UNCHANGED cleanups
      PROVE  /\ \A o \in Operations \ {op} : reservations'[o] = reservations[o]
             /\ clocks' = clocks /\ cleanups' = cleanups
             /\ ~EndedByExpiry(reservations[op], reservations'[op])
  <2> DEFINE next == Settled(document, now, actual, outcome)
  <2>1. /\ next.state = "settled" /\ next.outcome = outcome
        /\ next.growthCursor = document.growthCursor
    BY <1>1 DEF Reservation, Settled
  <2>2. outcome # LeaseExpired
    BY FirestoreConstants
  <2>3. Write(op, next, u, touched)
    BY <1>7
  <2> HIDE DEF next
  <2> QED BY <1>1, <1>7, <2>1, <2>2, <2>3, NotEnded, WriteChanges
<1>8. ASSUME NEW inc \in Increments, NEW units, NEW u, NEW touched, Active(op, now),
             Write(op, [document EXCEPT !.reserved = units, !.growthCursor = @ + 1,
                                        !.lastGrowth = {inc}], u, touched),
             UNCHANGED cleanups
      PROVE  /\ \A o \in Operations \ {op} : reservations'[o] = reservations[o]
             /\ clocks' = clocks /\ cleanups' = cleanups
             /\ ~EndedByExpiry(reservations[op], reservations'[op])
  <2> DEFINE next == [document EXCEPT !.reserved = units, !.growthCursor = @ + 1,
                                      !.lastGrowth = {inc}]
  <2>1. /\ next.state = document.state /\ next.outcome = document.outcome
        /\ next.lastGrowth = {inc}
    BY <1>1 DEF Reservation
  <2>2. document.outcome # LeaseExpired /\ document.state # "absent"
    BY <1>2, <1>8 DEF Active, Open
  <2>3. Write(op, next, u, touched)
    BY <1>8
  <2> HIDE DEF next
  <2> QED BY <1>1, <1>8, <2>1, <2>2, <2>3, NotEnded, WriteChanges
<1> HIDE DEF document
<1>9. ASSUME MarkLiable(op, now) \/ \E ttl \in Ttls : Renew(op, ttl, now)
      PROVE  /\ \A o \in Operations \ {op} : reservations'[o] = reservations[o]
             /\ clocks' = clocks /\ cleanups' = cleanups
             /\ EndedByExpiry(reservations[op], reservations'[op]) => IsExpired(op, now)
  BY <1>3, <1>5, <1>6, <1>9 DEF MarkLiable, Renew, document
<1>10. ASSUME NEW actual \in Actuals, NEW outcome \in Outcomes, Settle(op, actual, outcome, now)
       PROVE  /\ \A o \in Operations \ {op} : reservations'[o] = reservations[o]
              /\ clocks' = clocks /\ cleanups' = cleanups
              /\ EndedByExpiry(reservations[op], reservations'[op]) => IsExpired(op, now)
  BY <1>3, <1>7, <1>10 DEF Settle, document
<1>11. ASSUME NEW inc \in Increments, NEW cursor \in 0..MaxCursor, NEW add \in Growths,
              NEW lim \in Limits, Grow(op, inc, cursor, add, lim, now)
       PROVE  /\ \A o \in Operations \ {op} : reservations'[o] = reservations[o]
              /\ clocks' = clocks /\ cleanups' = cleanups
              /\ EndedByExpiry(reservations[op], reservations'[op]) => IsExpired(op, now)
  BY <1>3, <1>8, <1>11 DEF Grow, document
<1> QED
  BY <1>4, <1>9, <1>10, <1>11 DEF Request

LEMMA CleanupEndsExpired ==
  ASSUME Accounted, Synchronized, NEW c \in Cleaners, Cleanup(c)
  PROVE  /\ clocks' = clocks
         /\ \A d \in Cleaners : cleanups'[d].found # {} => cleanups'[d].now \in Instants
         /\ \A o \in Operations : EndedByExpiry(reservations[o], reservations'[o]) =>
              \E now \in Instants : IsExpired(o, now)
<1>1. /\ FirestoreTypeOK /\ cleanups \in CleanupsType
      /\ \A o \in Operations : WellFormed(reservations[o])
      /\ \A d \in Cleaners : cleanups[d].found # {} => cleanups[d].now \in Instants
  BY DEF Accounted, FirestoreTypeOK, CleanupsType, Synchronized
<1>2. \A o \in Operations : ~EndedByExpiry(reservations[o], reservations[o])
  BY <1>1, UnchangedNotEnded
<1>3. ASSUME NEW now \in Instants, QueryExpired(c, now)
      PROVE  /\ clocks' = clocks /\ reservations' = reservations
             /\ \A d \in Cleaners : cleanups'[d].found # {} => cleanups'[d].now \in Instants
  <2>1. PICK batch \in Batches(now) :
          /\ cleanups' = [cleanups EXCEPT ![c] = [now |-> now, found |-> batch]]
          /\ clocks' = clocks /\ reservations' = reservations
    BY <1>3 DEF QueryExpired
  <2>2. \A d \in Cleaners : cleanups'[d] = IF d = c THEN [now |-> now, found |-> batch] ELSE cleanups[d]
    BY <1>1, <2>1 DEF CleanupsType
  <2> QED BY <1>1, <2>1, <2>2
<1>4. ASSUME NEW op \in Operations, RecoverReservation(c, op)
      PROVE  /\ clocks' = clocks
             /\ \A d \in Cleaners : cleanups'[d].found # {} => cleanups'[d].now \in Instants
             /\ \A o \in Operations : EndedByExpiry(reservations[o], reservations'[o]) =>
                  IsExpired(o, cleanups[c].now) /\ cleanups[c].now \in Instants
  <2>1. op \in cleanups[c].found /\ cleanups' = [cleanups EXCEPT ![c] = Looked(c, op)]
    BY <1>4 DEF RecoverReservation
  <2>2. cleanups[c].now \in Instants
    BY <1>1, <2>1
  <2>3. Looked(c, op).found # {} => Looked(c, op).now = cleanups[c].now
    <3>1. cleanups[c] \in [now : Nat, found : SUBSET Operations]
      BY <1>1 DEF CleanupsType
    <3> QED BY <3>1 DEF Looked, NotRunning
  <2>4. \A d \in Cleaners : cleanups'[d] = IF d = c THEN Looked(c, op) ELSE cleanups[d]
    BY <1>1, <2>1 DEF CleanupsType
  <2>5. CASE IsExpired(op, cleanups[c].now) /\ RecoverExpiredReservation(op, cleanups[c].now)
    <3>1. clocks' = clocks /\ \A o \in Operations \ {op} : reservations'[o] = reservations[o]
      BY <1>1, <2>5, RecoveryChanges
    <3> QED BY <1>1, <1>2, <2>2, <2>3, <2>4, <2>5, <3>1
  <2>6. CASE UNCHANGED <<reservations, clocks>>
    BY <1>1, <1>2, <2>2, <2>3, <2>4, <2>6
  <2> QED BY <1>4, <2>5, <2>6 DEF RecoverReservation
<1>5. ASSUME CleanupFails(c)
      PROVE  /\ clocks' = clocks /\ reservations' = reservations
             /\ \A d \in Cleaners : cleanups'[d].found # {} => cleanups'[d].now \in Instants
  <2>1. \A d \in Cleaners : cleanups'[d] = IF d = c THEN NotRunning ELSE cleanups[d]
    BY <1>1, <1>5 DEF CleanupFails, CleanupsType
  <2> QED BY <1>1, <1>5, <2>1 DEF CleanupFails, NotRunning
<1> QED
  BY <1>2, <1>3, <1>4, <1>5 DEF Cleanup

LEMMA SynchronizedInit == Init => Synchronized
<1> SUFFICES ASSUME Init PROVE Synchronized
  OBVIOUS
<1>1. \A h \in Hosts : clocks[h] = 0
  BY DEF Init
<1>2. \A g, h \in Hosts : clocks[g] <= clocks[h] + MaxSkew
  BY <1>1, ConstantTypes
<1>3. \A c \in Cleaners : cleanups[c].found = {}
  BY DEF Init, NotRunning
<1> QED
  BY <1>2, <1>3 DEF Synchronized

(* One step: the clocks stay synchronized, and what expiry ends was        *)
(* expired at an instant.                                                  *)
LEMMA TimeStep ==
  ASSUME Accounted, Synchronized, [Next]_vars
  PROVE  /\ Synchronized'
         /\ \A o \in Operations : EndedByExpiry(reservations[o], reservations'[o]) =>
              \E now \in Instants : IsExpired(o, now)
<1>1. /\ clocks \in [Hosts -> Nat]
      /\ \A o \in Operations : ~EndedByExpiry(reservations[o], reservations[o])
  BY UnchangedNotEnded DEF Accounted, FirestoreTypeOK
<1>2. ASSUME clocks' = clocks,
             \A d \in Cleaners : cleanups'[d].found # {} => cleanups'[d].now \in Instants
      PROVE  Synchronized'
  <2>1. Instants' = Instants
    BY <1>2 DEF Instants
  <2>2. \A g, h \in Hosts : clocks'[g] <= clocks'[h] + MaxSkew
    BY <1>2 DEF Synchronized
  <2> QED BY <1>2, <2>1, <2>2 DEF Synchronized
<1>3. ASSUME NEW op \in Operations, NEW now \in Instants, Request(op, now)
      PROVE  /\ Synchronized'
             /\ \A o \in Operations : EndedByExpiry(reservations[o], reservations'[o]) =>
                  \E t \in Instants : IsExpired(o, t)
  <2>1. /\ \A o \in Operations \ {op} : reservations'[o] = reservations[o]
        /\ clocks' = clocks /\ cleanups' = cleanups
        /\ EndedByExpiry(reservations[op], reservations'[op]) => IsExpired(op, now)
    BY <1>3, RequestEndsExpired
  <2>2. Synchronized'
    BY <1>2, <2>1 DEF Synchronized
  <2>3. \A o \in Operations : EndedByExpiry(reservations[o], reservations'[o]) =>
          \E t \in Instants : IsExpired(o, t)
    BY <1>1, <2>1
  <2> QED BY <2>2, <2>3
<1>4. ASSUME NEW c \in Cleaners, Cleanup(c)
      PROVE  /\ Synchronized'
             /\ \A o \in Operations : EndedByExpiry(reservations[o], reservations'[o]) =>
                  \E t \in Instants : IsExpired(o, t)
  BY <1>2, <1>4, CleanupEndsExpired
<1>5. CASE \/ UNCHANGED vars
           \/ \E candidates \in (SUBSET Budgets) \ {{}} : RetireHistoricalBudgets(candidates)
  <2>1. UNCHANGED <<reservations, clocks, cleanups>>
    BY <1>5 DEF RetireHistoricalBudgets, vars
  <2> QED BY <1>1, <1>2, <2>1 DEF Synchronized
<1>6. ASSUME NEW h \in Hosts, Tick(h)
      PROVE  /\ Synchronized'
             /\ \A o \in Operations : EndedByExpiry(reservations[o], reservations'[o]) =>
                  \E t \in Instants : IsExpired(o, t)
  <2>1. /\ \A g \in Hosts : clocks'[g] = IF g = h THEN clocks[h] + 1 ELSE clocks[g]
        /\ \A g \in Hosts : clocks[h] + 1 <= clocks[g] + MaxSkew
        /\ UNCHANGED <<used, reservations, cleanups, spent>>
    BY <1>1, <1>6 DEF Tick
  <2>2. \A f, g \in Hosts : clocks'[f] <= clocks'[g] + MaxSkew
    <3>1. \A f, g \in Hosts : clocks[f] <= clocks[g] + MaxSkew
      BY DEF Synchronized
    <3> QED BY <1>1, <2>1, <3>1, ConstantTypes
  <2>3. Instants \subseteq Instants'
    <3>1. \A g \in Hosts : clocks[g] \in Nat /\ clocks'[g] \in Nat /\ clocks[g] <= clocks'[g]
      BY <1>1, <2>1
    <3>2. ASSUME NEW now \in Instants PROVE now \in Instants'
      <4>1. PICK g \in Hosts : now <= clocks[g]
        BY DEF Instants
      <4>2. now \in Nat
        BY InstantType
      <4>3. now <= clocks'[g]
        BY <3>1, <4>1, <4>2
      <4> QED BY <4>3 DEF Instants
    <3> QED BY <3>2
  <2>4. Synchronized'
    BY <2>1, <2>2, <2>3 DEF Synchronized
  <2> QED BY <1>1, <2>1, <2>4
<1> QED
  BY <1>3, <1>4, <1>5, <1>6 DEF Next

(* No host gives up a lease, or forgets a settled operation, before its    *)
(* deadline has passed on every host's clock: for any number of hosts and  *)
(* of calls that commit arbitrarily late, whatever a cleanup found when it *)
(* queried, provided the expiry grace covers the skew.                     *)
THEOREM FirestoreNoEarlyRecovery == Spec => NoEarlyRecovery
<1>1. Accounted /\ Synchronized /\ [Next]_vars => (Accounted /\ Synchronized)'
  BY AccountedStep, TimeStep
<1>2. Init => Accounted /\ Synchronized
  BY AccountedInit, SynchronizedInit
<1>3. Accounted /\ Synchronized /\ [Next]_vars =>
        [\A op \in Operations : EndedByExpiry(reservations[op], reservations'[op]) =>
           \A h \in Hosts : reservations[op].expiresAt <= clocks[h]]_vars
  <2> SUFFICES ASSUME Accounted, Synchronized, [Next]_vars, NEW op \in Operations,
                      EndedByExpiry(reservations[op], reservations'[op]), NEW h \in Hosts
               PROVE  reservations[op].expiresAt <= clocks[h]
    OBVIOUS
  <2>1. PICK now \in Instants : IsExpired(op, now)
    BY TimeStep
  <2> QED BY <2>1, ExpiredEverywhere DEF Accounted
<1> QED
  BY <1>1, <1>2, <1>3, PTL DEF Spec, NoEarlyRecovery
-----------------------------------------------------------------------------
(* The transactions implement the ledger.                                  *)

(* The ledger's totals and held units are the store's.                     *)
LEMMA LedgerTotal ==
  ASSUME NEW f
  PROVE  Ledger!Total(f) = Total(f)
BY DEF Ledger!Total, Ledger!UnitsOf, Ledger!Cardinality, Total, UnitsOf, Cardinality

LEMMA LedgerHeld ==
  ASSUME NEW b \in Budgets
  PROVE  Ledger!HeldBy(reservations, b) = Held(b)
<1>1. [op \in Operations |-> IF Ledger!Open(reservations[op]) THEN reservations[op].reserved[b] ELSE 0]
        = [op \in Operations |-> IF Open(op) THEN reservations[op].reserved[b] ELSE 0]
  BY DEF Ledger!Open, Open
<1> QED
  BY <1>1, LedgerTotal DEF Ledger!HeldBy, Held

LEMMA LedgerHeldNext ==
  ASSUME NEW b \in Budgets
  PROVE  Ledger!HeldBy(reservations', b) = Held(b)'
<1>1. [op \in Operations |-> IF Ledger!Open(reservations'[op]) THEN reservations'[op].reserved[b] ELSE 0]
        = [op \in Operations |-> IF Open(op)' THEN reservations'[op].reserved[b] ELSE 0]
  BY DEF Ledger!Open, Open
<1> QED
  BY <1>1, LedgerTotal DEF Ledger!HeldBy, Held

(* The budgets are exact after every transaction, as the ledger asks.      *)
LEMMA LedgerBooks ==
  ASSUME Accounted'
  PROVE  used' = [b \in Budgets |-> Ledger!HeldBy(reservations', b) + spent'[b]]
<1>1. used' \in [Budgets -> Nat] /\ \A b \in Budgets : used'[b] = Held(b)' + spent'[b]
  BY DEF Accounted, FirestoreTypeOK, UsageConserved
<1>2. \A b \in Budgets : used'[b] = Ledger!HeldBy(reservations', b) + spent'[b]
  BY <1>1, LedgerHeldNext
<1> QED
  BY <1>1, <1>2

(* What a transaction charges is the actual usage of the document it       *)
(* settles, if any.                                                        *)
Settles(document, next, b) ==
  IF document.state \in {"pending", "liable"} /\ next.state = "settled" THEN next.actual[b] ELSE 0

LEMMA LedgerCharged ==
  ASSUME NEW op \in Operations, NEW next \in Reservation, reservations'[op] = next,
         \A o \in Operations \ {op} : reservations'[o] = reservations[o], NEW b \in Budgets
  PROVE  Ledger!Charged(b) = Settles(reservations[op], next, b)
<1> DEFINE charged == [o \in Operations |->
             IF Ledger!Open(reservations[o]) /\ reservations'[o].state = "settled"
               THEN reservations'[o].actual[b] ELSE 0]
           none == [o \in Operations |-> 0]
<1>1. Ledger!Charged(b) = Total(charged)
  BY LedgerTotal DEF Ledger!Charged
<1>2. charged[op] = Settles(reservations[op], next, b)
  BY DEF Settles, Ledger!Open
<1>3. \A o \in Operations \ {op} : charged[o] = 0
  BY DEF Ledger!Open
<1>4. Settles(reservations[op], next, b) \in Nat
  BY DEF Settles, Reservation
<1>5. charged \in [Operations -> Nat] /\ none \in [Operations -> Nat]
  <2>1. \A o \in Operations : charged[o] \in Nat
    BY <1>2, <1>3, <1>4
  <2> QED BY <2>1
<1>6. \A o \in Operations : none[o] = 0
  OBVIOUS
<1> HIDE DEF charged, none
<1>7. Total(none) = 0
  BY <1>5, <1>6, TotalZero
<1>8. Total(charged) = Total(none) - none[op] + charged[op]
  BY <1>3, <1>5, <1>6, ConstantTypes, TotalChange
<1> QED
  BY <1>1, <1>2, <1>4, <1>6, <1>7, <1>8

(* A transaction that writes one document is a ledger call on it.          *)
LEMMA WriteLedger ==
  ASSUME Accounted, Accounted', NEW op \in Operations, NEW next \in Reservation, NEW u, NEW touched,
         Write(op, next, u, touched),
         Ledger!Expires(reservations[op], next) \/ Ledger!Changes(reservations[op], next),
         \A b \in Budgets : spent'[b] = spent[b] + Settles(reservations[op], next, b),
         \/ \A b \in Budgets : used'[b] <= used[b]
         \/ \E lim \in Limits : \A b \in Budgets : used'[b] > used[b] => used'[b] <= lim[b]
  PROVE  Ledger!Call
<1>1. /\ reservations'[op] = next
      /\ \A o \in Operations \ {op} : reservations'[o] = reservations[o]
  BY WriteChanges DEF Accounted
<1>2. spent' = [b \in Budgets |-> spent[b] + Ledger!Charged(b)]
  <2>1. \A b \in Budgets : spent'[b] = spent[b] + Ledger!Charged(b)
    BY <1>1, LedgerCharged
  <2>2. spent' \in [Budgets -> Nat]
    BY DEF Accounted, FirestoreTypeOK
  <2> QED BY <2>1, <2>2
<1>3. used' = [b \in Budgets |-> Ledger!HeldBy(reservations', b) + spent'[b]]
  BY LedgerBooks
<1>4. Ledger!WithinQuote
  BY DEF Ledger!WithinQuote
<1>5. \A o \in Operations \ {op} : Ledger!Expires(reservations[o], reservations'[o])
  BY <1>1 DEF Ledger!Expires
<1> QED
  BY <1>1, <1>2, <1>3, <1>4, <1>5 DEF Ledger!Call

LEMMA MinusLess ==
  ASSUME NEW u \in [Budgets -> Nat], NEW v \in [Budgets -> Nat], NEW b \in Budgets
  PROVE  Minus(u, v)[b] <= u[b]
BY DEF Minus, ClampedSub

(* Recovery releases, charges in full or forgets, as the ledger expires.   *)
LEMMA RecoveryLedger ==
  ASSUME Accounted, Accounted', NEW op \in Operations, NEW now \in Nat,
         RecoverExpiredReservation(op, now)
  PROVE  Ledger!Call
<1> DEFINE document == reservations[op]
<1>1. /\ document \in Reservation /\ WellFormed(document)
      /\ used \in [Budgets -> Nat] /\ spent \in [Budgets -> Nat]
      /\ document.reserved \in [Budgets -> Nat]
  BY DocumentType DEF Accounted, FirestoreTypeOK
<1>2. NoDocument \in Reservation /\ NoDocument.state = "absent"
  BY NoDocumentType DEF NoDocument
<1>3. CASE /\ document.state = "pending"
           /\ Write(op, NoDocument, Minus(used, document.reserved), document.budgetKeys)
           /\ UNCHANGED spent
  <2>1. \A b \in Budgets : spent'[b] = spent[b] + Settles(document, NoDocument, b)
    BY <1>1, <1>2, <1>3 DEF Settles
  <2>2. \A b \in Budgets : used'[b] <= used[b]
    BY <1>1, <1>3, MinusLess DEF Write
  <2>3. Ledger!Expires(document, NoDocument)
    BY <1>2, <1>3 DEF Ledger!Expires
  <2> QED BY <1>2, <1>3, <2>1, <2>2, <2>3, WriteLedger
<1>4. CASE /\ document.state = "liable"
           /\ Write(op, Settled(document, now, document.reserved, LeaseExpired), used, {})
           /\ spent' = Plus(spent, document.reserved)
  <2> DEFINE next == Settled(document, now, document.reserved, LeaseExpired)
  <2>1. next \in Reservation /\ next.state = "settled" /\ next.actual = document.reserved
    BY <1>1, SettledType DEF Settled, Reservation
  <2>2. Write(op, next, used, {})
    BY <1>4
  <2> HIDE DEF next
  <2>3. \A b \in Budgets : spent'[b] = spent[b] + Settles(document, next, b)
    BY <1>1, <1>4, <2>1, PlusType DEF Settles
  <2>4. \A b \in Budgets : used'[b] <= used[b]
    BY <1>1, <2>2 DEF Write
  <2>5. Ledger!Expires(document, next)
    BY <1>4, <2>1 DEF Ledger!Expires
  <2> QED BY <2>1, <2>2, <2>3, <2>4, <2>5, WriteLedger
<1>5. CASE document.state = "settled" /\ Write(op, NoDocument, used, {}) /\ UNCHANGED spent
  <2>1. \A b \in Budgets : spent'[b] = spent[b] + Settles(document, NoDocument, b)
    BY <1>1, <1>2, <1>5 DEF Settles
  <2>2. \A b \in Budgets : used'[b] <= used[b]
    BY <1>1, <1>5 DEF Write
  <2>3. Ledger!Expires(document, NoDocument)
    BY <1>2, <1>5 DEF Ledger!Expires
  <2> QED BY <1>2, <1>5, <2>1, <2>2, <2>3, WriteLedger
<1> QED
  BY <1>3, <1>4, <1>5 DEF RecoverExpiredReservation

(* Units added within what a limit leaves stay within the limit.           *)
LEMMA QuoteKept ==
  ASSUME NEW c \in Charges \cup Growths, NEW lim \in Limits, NEW u \in [Budgets -> Nat],
         WithinLimits(c, lim, u), NEW b \in Budgets
  PROVE  Plus(u, c.units)[b] <= u[b] \/ Plus(u, c.units)[b] <= lim[b]
<1>1. /\ c.units \in [Budgets -> Nat] /\ \A d \in Budgets \ c.keys : c.units[d] = 0
  BY RequestTypes
<1>2. lim \in [Budgets -> Nat]
  BY FirestoreConstants
<1>3. c.units[b] \in Nat /\ lim[b] \in Nat /\ u[b] \in Nat
  BY <1>1, <1>2
<1>4. Plus(u, c.units)[b] = u[b] + c.units[b]
  BY DEF Plus
<1>5. CASE b \in c.keys
  <2>1. c.units[b] <= ClampedSub(lim[b], u[b])
    BY <1>5 DEF WithinLimits
  <2> QED BY <1>3, <1>4, <2>1 DEF ClampedSub
<1>6. CASE b \notin c.keys
  BY <1>1, <1>3, <1>4, <1>6
<1> QED
  BY <1>5, <1>6

LEMMA ReserveLedger ==
  ASSUME Accounted, Accounted', NEW op \in Operations, NEW charge \in Charges, NEW lim \in Limits,
         NEW ttl \in Ttls, NEW now \in Nat, Reserve(op, charge, lim, ttl, now)
  PROVE  Ledger!Call
<1> DEFINE existing == reservations[op]
           released == IF existing.state = "pending" THEN Minus(used, existing.reserved) ELSE used
           freed == IF existing.state = "pending" THEN existing.budgetKeys ELSE {}
           next == Pending(charge, now + ttl, existing.growthCursor + 1)
<1>1. /\ existing \in Reservation /\ used \in [Budgets -> Nat] /\ spent \in [Budgets -> Nat]
      /\ existing.state \in {"absent", "pending", "liable", "settled"}
      /\ existing.reserved \in [Budgets -> Nat] /\ existing.growthCursor \in Nat
  BY DocumentType DEF Accounted, FirestoreTypeOK
<1>2. released \in [Budgets -> Nat] /\ \A b \in Budgets : released[b] <= used[b]
  <2>1. CASE existing.state = "pending"
    BY <1>1, <2>1, MinusType, MinusLess
  <2>2. CASE existing.state # "pending"
    BY <1>1, <2>2
  <2> QED BY <2>1, <2>2
<1>3. CASE existing.state = "liable" /\ RecoverExpiredReservation(op, now)
  BY <1>3, RecoveryLedger
<1>4. CASE existing.state # "liable" /\ Write(op, NoDocument, released, freed) /\ UNCHANGED spent
  <2>1. NoDocument \in Reservation /\ NoDocument.state = "absent"
    BY NoDocumentType DEF NoDocument
  <2>2. Ledger!Expires(existing, NoDocument)
    <3>1. existing.state = "absent" => existing = NoDocument
      BY DEF Accounted, WellFormed
    <3> QED BY <1>1, <1>4, <2>1, <3>1 DEF Ledger!Expires
  <2>3. \A b \in Budgets : spent'[b] = spent[b] + Settles(existing, NoDocument, b)
    BY <1>1, <1>4, <2>1 DEF Settles
  <2>4. \A b \in Budgets : used'[b] <= used[b]
    BY <1>1, <1>2, <1>4 DEF Write
  <2>5. Write(op, NoDocument, released, freed)
    BY <1>4
  <2> HIDE DEF released, freed
  <2> QED BY <2>1, <2>2, <2>3, <2>4, <2>5, WriteLedger
<1>5. CASE /\ existing.state # "liable" /\ WithinLimits(charge, lim, released)
           /\ Write(op, next, Plus(released, charge.units), charge.keys \cup freed)
           /\ UNCHANGED spent
  <2>1. now + ttl \in Nat /\ existing.growthCursor + 1 \in Nat
    BY <1>1, RequestTypes
  <2>2. next \in Reservation /\ next.state = "pending"
    BY <2>1, PendingType DEF Pending
  <2>3. Ledger!Changes(existing, next)
    BY <1>1, <1>5, <2>2 DEF Ledger!Changes, Ledger!Open
  <2>4. \A b \in Budgets : spent'[b] = spent[b] + Settles(existing, next, b)
    BY <1>1, <1>5, <2>2 DEF Settles
  <2>5. Write(op, next, Plus(released, charge.units), charge.keys \cup freed)
    BY <1>5
  <2>6. ASSUME NEW b \in Budgets PROVE used'[b] > used[b] => used'[b] <= lim[b]
    <3>1. used'[b] \in {Plus(released, charge.units)[b], used[b]}
      BY <2>5 DEF Write
    <3>2. WithinLimits(charge, lim, released) /\ released[b] <= used[b]
      BY <1>2, <1>5
    <3> HIDE DEF released, freed, next
    <3>3. Plus(released, charge.units)[b] <= released[b] \/ Plus(released, charge.units)[b] <= lim[b]
      BY <1>2, <3>2, QuoteKept
    <3>4. charge.units[b] \in Nat /\ released[b] \in Nat /\ used[b] \in Nat
      BY <1>1, <1>2, RequestTypes
    <3>5. Plus(released, charge.units)[b] \in Nat
      BY <3>4 DEF Plus
    <3> QED BY <3>1, <3>2, <3>3, <3>4, <3>5
  <2> HIDE DEF released, freed, next
  <2> QED BY <2>2, <2>3, <2>4, <2>5, <2>6, WriteLedger
<1> QED
  BY <1>3, <1>4, <1>5 DEF Reserve

(* A change of one open document that charges nothing.                     *)
LEMMA OpenWriteLedger ==
  ASSUME Accounted, Accounted', NEW op \in Operations, NEW next \in Reservation, NEW u, NEW touched,
         Write(op, next, u, touched), UNCHANGED spent,
         Ledger!Changes(reservations[op], next), next.state # "settled",
         \/ \A b \in Budgets : used'[b] <= used[b]
         \/ \E lim \in Limits : \A b \in Budgets : used'[b] > used[b] => used'[b] <= lim[b]
  PROVE  Ledger!Call
<1>1. \A b \in Budgets : spent'[b] = spent[b] + Settles(reservations[op], next, b)
  BY DEF Settles, Accounted, FirestoreTypeOK
<1> QED
  BY <1>1, WriteLedger

LEMMA DirectExpiryLedger ==
  ASSUME Accounted, Accounted', NEW op \in Operations, NEW now \in Nat, DirectExpiry(op, now)
  PROVE  Ledger!Call
BY RecoveryLedger DEF DirectExpiry

LEMMA MarkLiableLedger ==
  ASSUME Accounted, Accounted', NEW op \in Operations, NEW now \in Nat, MarkLiable(op, now)
  PROVE  Ledger!Call
<1>1. CASE DirectExpiry(op, now)
  BY <1>1, DirectExpiryLedger
<1>2. CASE /\ Active(op, now)
           /\ Write(op, [reservations[op] EXCEPT !.state = "liable"], used, {})
           /\ UNCHANGED <<cleanups, spent>>
  <2> DEFINE document == reservations[op]
             next == [document EXCEPT !.state = "liable"]
  <2>1. /\ document \in Reservation /\ document.state \in {"pending", "liable"}
        /\ document.reserved \in [Budgets -> Nat] /\ used \in [Budgets -> Nat]
    BY <1>2, DocumentType DEF Active, Open, Accounted, FirestoreTypeOK
  <2>2. next \in Reservation /\ next.state = "liable" /\ next.reserved = document.reserved
    BY <2>1 DEF Reservation
  <2>3. Write(op, next, used, {}) /\ UNCHANGED spent
    BY <1>2
  <2> HIDE DEF next
  <2>4. Ledger!Changes(document, next)
    BY <2>1, <2>2 DEF Ledger!Changes
  <2>5. \A b \in Budgets : used'[b] <= used[b]
    BY <2>1, <2>3 DEF Write
  <2> QED BY <2>2, <2>3, <2>4, <2>5, OpenWriteLedger
<1> QED
  BY <1>1, <1>2 DEF MarkLiable

LEMMA RenewLedger ==
  ASSUME Accounted, Accounted', NEW op \in Operations, NEW ttl \in Ttls, NEW now \in Nat,
         Renew(op, ttl, now)
  PROVE  Ledger!Call
<1>1. CASE DirectExpiry(op, now)
  BY <1>1, DirectExpiryLedger
<1>2. CASE /\ Active(op, now)
           /\ Write(op, [reservations[op] EXCEPT !.expiresAt = now + ttl], used, {})
           /\ UNCHANGED <<cleanups, spent>>
  <2> DEFINE document == reservations[op]
             next == [document EXCEPT !.expiresAt = now + ttl]
  <2>1. /\ document \in Reservation /\ document.state \in {"pending", "liable"}
        /\ document.reserved \in [Budgets -> Nat] /\ used \in [Budgets -> Nat]
    BY <1>2, DocumentType DEF Active, Open, Accounted, FirestoreTypeOK
  <2>2. now + ttl \in Nat
    BY RequestTypes
  <2>3. next \in Reservation /\ next.state = document.state /\ next.reserved = document.reserved
    BY <2>1, <2>2 DEF Reservation
  <2>4. Write(op, next, used, {}) /\ UNCHANGED spent
    BY <1>2
  <2> HIDE DEF next
  <2>5. Ledger!Changes(document, next)
    BY <2>1, <2>3 DEF Ledger!Changes
  <2>6. \A b \in Budgets : used'[b] <= used[b]
    BY <2>1, <2>4 DEF Write
  <2> QED BY <2>1, <2>3, <2>4, <2>5, <2>6, OpenWriteLedger
<1> QED
  BY <1>1, <1>2 DEF Renew

LEMMA SettleLedger ==
  ASSUME Accounted, Accounted', NEW op \in Operations, NEW actual \in Actuals,
         NEW outcome \in Outcomes, NEW now \in Nat, Settle(op, actual, outcome, now)
  PROVE  Ledger!Call
<1> DEFINE document == reservations[op]
           next == Settled(document, now, actual, outcome)
           left == Minus(document.reserved, actual)
<1>1. CASE DirectExpiry(op, now)
  BY <1>1, DirectExpiryLedger
<1>2. CASE /\ Active(op, now)
           /\ \A b \in Budgets : actual[b] <= document.reserved[b]
           /\ Write(op, next, Minus(used, left), document.budgetKeys)
           /\ spent' = Plus(spent, actual)
  <2>1. /\ document \in Reservation /\ WellFormed(document)
        /\ document.state \in {"pending", "liable"}
        /\ document.reserved \in [Budgets -> Nat]
        /\ used \in [Budgets -> Nat] /\ spent \in [Budgets -> Nat]
    BY <1>2, DocumentType DEF Active, Open, Accounted, FirestoreTypeOK
  <2>2. actual \in [Budgets -> Nat]
    BY RequestTypes
  <2>3. next \in Reservation
    BY <2>1, <2>2, SettledType
  <2>4. next.state = "settled" /\ next.reserved = document.reserved /\ next.actual = actual
    BY <2>1 DEF Settled, Reservation
  <2>5. /\ Write(op, next, Minus(used, left), document.budgetKeys)
        /\ spent' = Plus(spent, actual)
        /\ \A b \in Budgets : actual[b] <= document.reserved[b]
    BY <1>2
  <2> HIDE DEF next
  <2>6. Ledger!Changes(document, next)
    BY <2>1, <2>4, <2>5 DEF Ledger!Changes, Ledger!Open
  <2>7. \A b \in Budgets : spent'[b] = spent[b] + Settles(document, next, b)
    BY <2>1, <2>2, <2>4, <2>5, PlusType DEF Settles
  <2>8. left \in [Budgets -> Nat]
    BY <2>1, <2>2, MinusType
  <2> HIDE DEF left
  <2>9. \A b \in Budgets : used'[b] <= used[b]
    BY <2>1, <2>5, <2>8, MinusLess DEF Write
  <2> QED BY <2>3, <2>5, <2>6, <2>7, <2>9, WriteLedger
<1> QED
  BY <1>1, <1>2 DEF Settle

LEMMA GrowLedger ==
  ASSUME Accounted, Accounted', NEW op \in Operations, NEW inc \in Increments,
         NEW cursor \in 0..MaxCursor, NEW add \in Growths, NEW lim \in Limits, NEW now \in Nat,
         Grow(op, inc, cursor, add, lim, now)
  PROVE  Ledger!Call
<1> DEFINE document == reservations[op]
           accepted == WithinLimits(add, lim, used)
           units == IF accepted THEN Plus(document.reserved, add.units) ELSE document.reserved
           next == [document EXCEPT !.reserved = units, !.growthCursor = @ + 1,
                                    !.lastGrowth = {inc}]
           touched == IF accepted THEN add.keys ELSE {}
<1>1. CASE DirectExpiry(op, now)
  BY <1>1, DirectExpiryLedger
<1>2. CASE /\ Active(op, now)
           /\ document.budgetKeys = add.keys
           /\ Write(op, next, Plus(used, add.units), touched)
           /\ UNCHANGED <<cleanups, spent>>
  <2>1. /\ document \in Reservation /\ WellFormed(document)
        /\ document.state \in {"pending", "liable"}
        /\ document.reserved \in [Budgets -> Nat] /\ used \in [Budgets -> Nat]
        /\ \A b \in Budgets \ document.budgetKeys : document.reserved[b] = 0
    BY <1>2, DocumentType DEF Active, Open, Accounted, FirestoreTypeOK, WellFormed
  <2>2. /\ add.units \in [Budgets -> Nat]
        /\ \A b \in Budgets \ document.budgetKeys : add.units[b] = 0
    BY <1>2, RequestTypes
  <2>3. Write(op, next, Plus(used, add.units), touched) /\ UNCHANGED spent
    BY <1>2
  <2>4. touched # {} => accepted
    OBVIOUS
  <2>5. units \in {document.reserved, Plus(document.reserved, add.units)}
    OBVIOUS
  <2>6. next.state = document.state /\ next.reserved = units
    BY <2>1 DEF Reservation
  <2> HIDE DEF document, touched, units
  <2>7. /\ units \in [Budgets -> Nat]
        /\ \A b \in Budgets : units[b] >= document.reserved[b]
        /\ \A b \in Budgets \ document.budgetKeys : units[b] = 0
    BY <2>1, <2>2, <2>5, PlusType
  <2>8. next \in Reservation
    BY <2>1, <2>7, GrownType
  <2> HIDE DEF next
  <2>9. Ledger!Changes(document, next)
    BY <2>1, <2>6, <2>7 DEF Ledger!Changes
  <2>10. ASSUME NEW b \in Budgets PROVE used'[b] > used[b] => used'[b] <= lim[b]
    <3>1. CASE b \in touched
      <4>1. used'[b] = Plus(used, add.units)[b]
        BY <2>3, <3>1 DEF Write
      <4>2. Plus(used, add.units)[b] <= used[b] \/ Plus(used, add.units)[b] <= lim[b]
        BY <2>1, <2>4, <3>1, QuoteKept
      <4>3. used[b] \in Nat /\ Plus(used, add.units)[b] \in Nat
        BY <2>1, <2>2, PlusType
      <4> QED BY <4>1, <4>2, <4>3
    <3>2. CASE b \notin touched
      BY <2>1, <2>3, <3>2 DEF Write
    <3> QED BY <3>1, <3>2
  <2>11. next.state # "settled"
    BY <2>1, <2>6
  <2> QED BY <2>3, <2>8, <2>9, <2>10, <2>11, OpenWriteLedger DEF document
<1> QED
  BY <1>1, <1>2 DEF Grow

LEMMA RetireLedger ==
  ASSUME Accounted, Accounted', NEW candidates \in SUBSET Budgets,
         RetireHistoricalBudgets(candidates)
  PROVE  Ledger!Retire(candidates)
<1>1. /\ spent' = [b \in Budgets |-> IF b \in candidates THEN 0 ELSE spent[b]]
      /\ used' = [b \in Budgets |-> IF b \in candidates THEN 0 ELSE used[b]]
      /\ reservations' = reservations
  BY DEF RetireHistoricalBudgets
<1>2. /\ \A b \in Budgets : used'[b] = Held(b)' + spent'[b]
      /\ \A op \in Operations : reservations[op] \in Reservation
      /\ spent \in [Budgets -> Nat]
  BY DEF Accounted, UsageConserved, FirestoreTypeOK
<1>3. ASSUME NEW b \in Budgets
      PROVE  Ledger!Charged(b) = 0
  <2> DEFINE none == [o \in Operations |->
               IF Ledger!Open(reservations[o]) /\ reservations'[o].state = "settled"
                 THEN reservations'[o].actual[b] ELSE 0]
  <2>1. Ledger!Charged(b) = Total(none)
    BY LedgerTotal DEF Ledger!Charged
  <2>2. \A o \in Operations : none[o] = 0
    BY <1>1 DEF Ledger!Open
  <2>3. none \in [Operations -> Nat]
    <3> HIDE DEF none
    <3>1. none = [o \in Operations |-> none[o]]
      BY DEF none
    <3> QED BY <2>2, <3>1
  <2> HIDE DEF none
  <2> QED BY <2>1, <2>2, <2>3, TotalZero
<1>4. \A b \in candidates : Ledger!HeldBy(reservations', b) = 0
  <2>1. ASSUME NEW b \in candidates PROVE Held(b)' = 0
    <3>1. used'[b] = 0 /\ spent'[b] = 0 /\ used'[b] = Held(b)' + spent'[b]
      BY <1>1, <1>2
    <3>2. Held(b)' \in Nat
      <4>1. Held(b) \in Nat
        BY HeldIsTotal, ConstantTypes, TotalType DEF Accounted
      <4>2. Held(b)' = Held(b)
        BY <1>1 DEF Held, Open
      <4> QED BY <4>1, <4>2
    <3> QED BY <3>1, <3>2
  <2> QED BY <2>1, LedgerHeldNext
<1>5. spent' = [b \in Budgets |-> IF b \in candidates THEN 0 ELSE spent[b] + Ledger!Charged(b)]
  BY <1>1, <1>2, <1>3
<1>6. used' = [b \in Budgets |-> Ledger!HeldBy(reservations', b) + spent'[b]]
  BY LedgerBooks
<1>7. \A op \in Operations : Ledger!Expires(reservations[op], reservations'[op])
  BY <1>1 DEF Ledger!Expires
<1> QED
  BY <1>4, <1>5, <1>6, <1>7 DEF Ledger!Retire

(* Every transaction is a call of the ledger or a retirement; queries and  *)
(* clocks are no step of it.                                               *)
LEMMA LedgerStep ==
  ASSUME Accounted, Accounted', [Next]_vars
  PROVE  [Ledger!LedgerNext]_Ledger!ledgerVars
<1>1. CASE UNCHANGED <<reservations, used, spent>>
  BY <1>1 DEF Ledger!ledgerVars
<1>2. ASSUME NEW op \in Operations, NEW now \in Instants, Request(op, now)
      PROVE  Ledger!Call
  <2>1. now \in Nat
    BY InstantType
  <2> QED BY <1>2, <2>1, ReserveLedger, MarkLiableLedger, RenewLedger, SettleLedger, GrowLedger
       DEF Request
<1>3. ASSUME NEW c \in Cleaners, Cleanup(c)
      PROVE  Ledger!Call \/ UNCHANGED <<reservations, used, spent>>
  <2>1. cleanups[c].now \in Nat
    BY DEF Accounted, FirestoreTypeOK
  <2> QED BY <1>3, <2>1, RecoveryLedger DEF Cleanup, QueryExpired, RecoverReservation, CleanupFails
<1>4. ASSUME NEW candidates \in SUBSET Budgets, RetireHistoricalBudgets(candidates)
      PROVE  Ledger!Retire(candidates)
  BY <1>4, RetireLedger
<1> QED
  BY <1>1, <1>2, <1>3, <1>4 DEF Next, Tick, vars, Ledger!LedgerNext

LEMMA LedgerInitial ==
  ASSUME Init
  PROVE  Ledger!LedgerInit
BY DEF Init, NoDocument, NoUnits, Ledger!LedgerInit

(* The transactions implement the ledger: several hosts and cleaners,      *)
(* admissions over expired documents and growth that is refused are each   *)
(* one exact ledger step or none, and no admission or growth raises a      *)
(* budget above the limit it was checked against.                          *)
THEOREM TransactionsImplementLedger == Spec => ImplementsLedger
<1>1. Accounted /\ [Next]_vars => Accounted'
  BY AccountedStep
<1>2. Accounted /\ Accounted' /\ [Next]_vars => [Ledger!LedgerNext]_Ledger!ledgerVars
  BY LedgerStep
<1>3. Init => Accounted /\ Ledger!LedgerInit
  BY AccountedInit, LedgerInitial
<1> QED
  BY <1>1, <1>2, <1>3, PTL DEF Spec, ImplementsLedger, Ledger!LedgerSpec
=============================================================================
