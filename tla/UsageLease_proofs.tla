-------------------------- MODULE UsageLease_proofs --------------------------
(***************************************************************************)
(* Proofs about UsageLease, for any leases, operations, budget keys and    *)
(* calls under way, under the conditions of that module: the store has     *)
(* room for every budget key, and a caller awaits each growth of a lease   *)
(* before it starts another.                                               *)
(*                                                                         *)
(* ClientInv is the inductive invariant.  It is more than the properties,  *)
(* because a request outlives the lease's interest in it: every request    *)
(* under way must be stale, be its lease's own unresolved one, or be one   *)
(* that the store can only refuse or replay; and every reply under way     *)
(* must tell what the store holds.  A step of the store is first shown to  *)
(* keep the leases and calls as they were coherent with the new state of   *)
(* the store; a step of the client then changes one lease and one call.    *)
(***************************************************************************)
EXTENDS UsageLease, MemoryUsageStore_proofs

(* The books of one operation: r is its reservation, n the cursors issued  *)
(* for it and a the cursor of its latest admission.                        *)
Books(r, n, a) ==
  /\ a <= n
  /\ Active(r) =>
       /\ a <= r.growthCursor /\ r.growthCursor <= n
       /\ \A g, k \in r.lastGrowth : g = k
       /\ \A g \in r.lastGrowth :
            /\ a <= g.expectedGrowthCursor /\ g.expectedGrowthCursor < g.growthCursor
            /\ g.growthCursor = r.growthCursor /\ g.reserved = r.reserved

(* The lease is of the latest admission, and that one is still active.     *)
CurrentIn(lease, r, a) == lease.admission = a /\ Active(r)

(* The lease knows the capacity and the cursor of its reservation, or they *)
(* come from a recorded growth that an exact retry of req replays.         *)
Level(lease, r) == r.growthCursor = lease.growthCursor /\ r.reserved = lease.reserved

Result(lease, req, g) ==
  /\ g.incrementId = req.incrementId /\ g.additional = req.additional
  /\ g.expectedGrowthCursor = lease.growthCursor
  /\ \A b \in req.additional.keys : g.limits[b] = req.limits[b]
  /\ g.reserved = IF g.accepted THEN Plus(lease.reserved, req.additional.units)
                  ELSE lease.reserved

Behind(lease, req, r) == \E g \in r.lastGrowth : Result(lease, req, g)

(* The store can only refuse or replay the request.                        *)
Doomed(r, cursor, req) ==
  \/ r.growthCursor # cursor
  \/ req.additional.keys # r.budgetKeys
  \/ SameIncrement(r, req.incrementId)

(* A lease against the books of its operation.                             *)
Faithful(lease, r, n, a) ==
  /\ lease.admission <= a /\ lease.growthCursor <= n
  /\ lease.admission # a => lease.growthCursor < a
  /\ CurrentIn(lease, r, a) =>
       /\ r.mode = lease.mode
       /\ Level(lease, r) \/ \E req \in lease.unresolved : Behind(lease, req, r)

(* A request under way to the reservation of a current lease is stale, the *)
(* lease's own unresolved one, or will be refused.                         *)
Harmless(call, lease, r, a) ==
  CurrentIn(lease, r, a) =>
    \/ call.cursor < lease.growthCursor
    \/ /\ call.cursor = lease.growthCursor
       /\ call.request \in lease.unresolved \/ Doomed(r, call.cursor, call.request)

(* A reply on its way to its lease tells what the store holds.             *)
Truthful(reply, req, lease, r, n, a) ==
  /\ reply.status = "state_error" /\ CurrentIn(lease, r, a) =>
       Level(lease, r) /\ Doomed(r, lease.growthCursor, req)
  /\ reply.status # "state_error" =>
       /\ reply.growthCursor <= n
       /\ lease.admission # a => reply.growthCursor < a
       /\ CurrentIn(lease, r, a) =>
            \E g \in r.lastGrowth :
              /\ Result(lease, req, g)
              /\ reply.growthCursor = g.growthCursor /\ reply.reserved = g.reserved
              /\ reply.status = "accepted" <=> g.accepted

Replies ==
  [status : {"state_error"}] \cup
  [status : {"accepted", "denied"}, growthCursor : Nat, reserved : [Budgets -> Nat]]

Sent ==
  [phase : {"sent"}, awaited : BOOLEAN, handle : Handles, mode : Modes \cup {""},
   id : Operations, request : Requests, cursor : Nat]

Answered ==
  [phase : {"answered"}, awaited : {TRUE}, handle : Handles, request : Requests,
   reply : Replies]

Awaited(call) == call.phase # "idle" /\ call.awaited

Holds(lease) == lease.id # ""

ClientTyped ==
  /\ leases \in [Handles -> Leases]
  /\ calls \in [Calls -> {NoCall} \cup Sent \cup Answered]
  /\ admitted \in [Operations -> Nat]

(* The parts of the invariant that relate the leases ls and the calls cs   *)
(* to the reservations rs, the cursors n issued and the admissions a.      *)
LeaseFaithful(lease, rs, n, a) ==
  /\ \A req, other \in lease.unresolved : req = other
  /\ ~Holds(lease) => lease.unresolved = {}
  /\ Holds(lease) => Faithful(lease, rs[lease.id], n[lease.id], a[lease.id])

RequestHarmless(call, lease, rs, a) ==
  call.phase = "sent" /\ Holds(lease) /\ lease.id = call.id =>
    Harmless(call, lease, rs[call.id], a[call.id])

ReplyTruthful(call, lease, rs, n, a) ==
  call.phase = "answered" /\ Holds(lease) =>
    Truthful(call.reply, call.request, lease, rs[lease.id], n[lease.id], a[lease.id])

Coherent(ls, cs, rs, n, a) ==
  /\ \A op \in Operations : Books(rs[op], n[op], a[op])
  /\ \A h \in Handles : LeaseFaithful(ls[h], rs, n, a)
  /\ \A c \in Calls : cs[c].phase = "sent" => cs[c].cursor <= n[cs[c].id]
  /\ \A c \in Calls, h \in Handles : RequestHarmless(cs[c], ls[h], rs, a)
  /\ \A c \in Calls : ReplyTruthful(cs[c], ls[cs[c].handle], rs, n, a)

(* The call and its lease agree on what is asked.                          *)
Asks(call, lease) ==
  /\ Holds(lease) /\ lease.unresolved = {call.request}
  /\ call.phase = "sent" =>
       call.id = lease.id /\ call.mode = lease.mode /\ call.cursor = lease.growthCursor

(* The parts that the client keeps by itself: one lease per admission, one *)
(* awaited call per lease, and that one for the lease's unresolved growth. *)
Agreed(ls, cs) ==
  /\ \A h, k \in Handles :
       Holds(ls[h]) /\ Holds(ls[k]) /\ ls[h].id = ls[k].id /\ ls[h].admission = ls[k].admission
         => h = k
  /\ \A c \in Calls : Awaited(cs[c]) => Asks(cs[c], ls[cs[c].handle])
  /\ \A c, d \in Calls :
       Awaited(cs[c]) /\ Awaited(cs[d]) /\ cs[c].handle = cs[d].handle => c = d

ClientInv ==
  /\ TypeOK /\ ClientTyped
  /\ Coherent(leases, calls, reservations, issued, admitted)
  /\ Agreed(leases, calls)
-----------------------------------------------------------------------------
(* Lemmas about one reservation and one lease.                             *)

(* What an active reservation s keeps of r in a step that does not grow it.*)
Same(r, s) ==
  Active(s) =>
    /\ Active(r) /\ s.mode = r.mode /\ s.budgetKeys = r.budgetKeys
    /\ s.reserved = r.reserved /\ s.growthCursor = r.growthCursor
    /\ s.lastGrowth = r.lastGrowth

LEMMA SameKeeps ==
  ASSUME NEW r, NEW s, NEW n, NEW a, Same(r, s)
  PROVE  /\ Books(r, n, a) => Books(s, n, a)
         /\ \A lease : Faithful(lease, r, n, a) => Faithful(lease, s, n, a)
         /\ \A call, lease : Harmless(call, lease, r, a) => Harmless(call, lease, s, a)
         /\ \A reply, req, lease :
              Truthful(reply, req, lease, r, n, a) => Truthful(reply, req, lease, s, n, a)
<1>1. CASE ~Active(s)
  BY <1>1 DEF Books, Faithful, Harmless, Truthful, CurrentIn
<1>2. CASE Active(s)
  <2>1. /\ Active(r) /\ s.mode = r.mode /\ s.budgetKeys = r.budgetKeys
        /\ s.reserved = r.reserved /\ s.growthCursor = r.growthCursor
        /\ s.lastGrowth = r.lastGrowth
    BY <1>2 DEF Same
  <2>2. Books(r, n, a) => Books(s, n, a)
    BY <1>2, <2>1 DEF Books
  <2>3. ASSUME NEW lease, Faithful(lease, r, n, a)
        PROVE  Faithful(lease, s, n, a)
    BY <1>2, <2>1, <2>3 DEF Faithful, CurrentIn, Level, Behind
  <2>4. \A cursor, req : Doomed(s, cursor, req) <=> Doomed(r, cursor, req)
    BY <2>1 DEF Doomed, SameIncrement
  <2>5. ASSUME NEW call, NEW lease, Harmless(call, lease, r, a)
        PROVE  Harmless(call, lease, s, a)
    BY <1>2, <2>1, <2>4, <2>5 DEF Harmless, CurrentIn
  <2>6. ASSUME NEW reply, NEW req, NEW lease, Truthful(reply, req, lease, r, n, a)
        PROVE  Truthful(reply, req, lease, s, n, a)
    BY <1>2, <2>1, <2>4, <2>6 DEF Truthful, CurrentIn, Level
  <2> QED BY <2>2, <2>3, <2>5, <2>6
<1> QED
  BY <1>1, <1>2

LEMMA LeaseFields ==
  ASSUME NEW lease \in Leases
  PROVE  /\ lease.admission \in Nat /\ lease.growthCursor \in Nat
         /\ lease.reserved \in [Budgets -> Nat] /\ lease.unresolved \subseteq Requests
         /\ lease.id # "" => lease.id \in Operations
BY DEF Leases

LEMMA CallFields ==
  ASSUME NEW call \in {NoCall} \cup Sent \cup Answered
  PROVE  /\ call.phase = "sent" =>
              /\ call \in Sent /\ call.handle \in Handles /\ call.id \in Operations
              /\ call.request \in Requests /\ call.cursor \in Nat
         /\ call.phase = "answered" =>
              /\ call \in Answered /\ call.handle \in Handles /\ call.awaited
              /\ call.request \in Requests /\ call.reply \in Replies
         /\ call.phase \in {"idle", "sent", "answered"}
         /\ call.phase = "idle" => call = NoCall
<1>1. NoCall.phase = "idle"
  BY DEF NoCall
<1>2. \A x \in Sent :
        /\ x.phase = "sent" /\ x.handle \in Handles /\ x.id \in Operations
        /\ x.request \in Requests /\ x.cursor \in Nat
  BY DEF Sent
<1>3. \A x \in Answered :
        /\ x.phase = "answered" /\ x.awaited = TRUE /\ x.handle \in Handles
        /\ x.request \in Requests /\ x.reply \in Replies
  BY DEF Answered
<1>4. CASE call \in Sent
  BY <1>2, <1>4
<1>5. CASE call \in Answered
  BY <1>3, <1>5
<1>6. CASE call = NoCall
  BY <1>1, <1>6
<1> QED
  BY <1>4, <1>5, <1>6

LEMMA ReservationFields ==
  ASSUME NEW r \in Reservation
  PROVE  /\ r.growthCursor \in Nat /\ r.reserved \in [Budgets -> Nat]
         /\ \A g \in r.lastGrowth : g.expectedGrowthCursor \in Nat /\ g.growthCursor \in Nat
BY DEF Reservation, Growth

(* The lease of a new admission overtakes every earlier one.               *)
LEMMA AdmissionOvertakes ==
  ASSUME NEW r \in Reservation, NEW s, NEW n \in Nat, NEW a \in Nat, Books(r, n, a),
         s.growthCursor = n + 1, s.lastGrowth = {}
  PROVE  /\ Books(s, n + 1, n + 1)
         /\ \A lease \in Leases :
              Faithful(lease, r, n, a) =>
                /\ lease.admission # n + 1
                /\ Faithful(lease, s, n + 1, n + 1)
         /\ \A lease \in Leases : \A call :
              lease.admission # n + 1 => Harmless(call, lease, s, n + 1)
         /\ \A lease \in Leases, reply \in Replies : \A req :
              lease.admission # n + 1 /\ Truthful(reply, req, lease, r, n, a) =>
                Truthful(reply, req, lease, s, n + 1, n + 1)
<1>1. Books(s, n + 1, n + 1)
  BY DEF Books
<1>2. ASSUME NEW lease \in Leases, Faithful(lease, r, n, a)
      PROVE  lease.admission # n + 1 /\ Faithful(lease, s, n + 1, n + 1)
  <2>1. lease.admission \in Nat /\ lease.growthCursor \in Nat
    BY LeaseFields
  <2>2. a <= n /\ lease.admission <= a /\ lease.growthCursor <= n
    BY <1>2 DEF Books, Faithful
  <2>3. lease.admission # n + 1 /\ lease.admission <= n + 1 /\ lease.growthCursor < n + 1
    BY <2>1, <2>2
  <2>4. lease.growthCursor <= n + 1
    BY <2>1, <2>2
  <2> QED BY <2>3, <2>4 DEF Faithful, CurrentIn
<1>3. ASSUME NEW lease \in Leases, NEW call, lease.admission # n + 1
      PROVE  Harmless(call, lease, s, n + 1)
  BY <1>3 DEF Harmless, CurrentIn
<1>4. ASSUME NEW lease \in Leases, NEW reply \in Replies, NEW req, lease.admission # n + 1,
             Truthful(reply, req, lease, r, n, a)
      PROVE  Truthful(reply, req, lease, s, n + 1, n + 1)
  <2>1. reply.status # "state_error" => reply.growthCursor \in Nat
    BY DEF Replies
  <2>2. reply.status # "state_error" => reply.growthCursor <= n
    BY <1>4 DEF Truthful
  <2>3. reply.status # "state_error" => reply.growthCursor <= n + 1 /\ reply.growthCursor < n + 1
    BY <2>1, <2>2
  <2> QED BY <1>4, <2>3 DEF Truthful, CurrentIn
<1> QED
  BY <1>1, <1>2, <1>3, <1>4
-----------------------------------------------------------------------------
(* Growth.                                                                 *)

(* s is r after the request req was decided at the cursor n + 1.           *)
Extends(r, s, req, n) ==
  /\ Active(r) /\ s.mode = r.mode /\ s.budgetKeys = r.budgetKeys /\ s.growthCursor = n + 1
  /\ ~SameIncrement(r, req.incrementId) /\ req.additional.keys = r.budgetKeys
  /\ \E g : /\ s.lastGrowth = {g}
            /\ g.incrementId = req.incrementId /\ g.additional = req.additional
            /\ \A b \in req.additional.keys : g.limits[b] = req.limits[b]
            /\ g.expectedGrowthCursor = r.growthCursor /\ g.growthCursor = n + 1
            /\ g.reserved = s.reserved
            /\ s.reserved = IF g.accepted THEN Plus(r.reserved, req.additional.units)
                            ELSE r.reserved

(* With room for every budget key no growth is refused for want of room.   *)
LEMMA AlwaysRoom ==
  ASSUME Cardinality(Budgets) <= MaxRetainedBudgetKeys, NEW c, NEW u
  PROVE  BudgetRoom(c, u)
<1> DEFINE claimed == {b \in Budgets : u[b] > 0 \/ c.units[b] > 0}
<1>1. IsFiniteSet(Budgets) /\ MaxRetainedBudgetKeys \in Nat
  BY ConstantsAssumption
<1>2. claimed \subseteq Budgets
  OBVIOUS
<1> HIDE DEF claimed
<1>3. IsFiniteSet(claimed) /\ Cardinality(claimed) <= Cardinality(Budgets)
  BY <1>1, <1>2, FS_Subset
<1>4. Cardinality(claimed) \in Nat /\ Cardinality(Budgets) \in Nat
  BY <1>1, <1>3, FS_CardinalityType
<1>5. Cardinality(claimed) <= MaxRetainedBudgetKeys
  BY <1>1, <1>3, <1>4
<1> QED
  BY <1>5 DEF claimed, BudgetRoom

(* A request that the store applies to a current lease's reservation is    *)
(* the lease's own unresolved one, and the lease knows what it extends.    *)
LEMMA AppliedIsOwn ==
  ASSUME NEW r \in Reservation, NEW n \in Nat, NEW a \in Nat, Books(r, n, a),
         NEW lease \in Leases, Faithful(lease, r, n, a), CurrentIn(lease, r, a),
         NEW call, call.cursor = r.growthCursor, Harmless(call, lease, r, a),
         ~SameIncrement(r, call.request.incrementId),
         call.request.additional.keys = r.budgetKeys
  PROVE  Level(lease, r) /\ call.request \in lease.unresolved
<1>1. lease.growthCursor \in Nat /\ r.growthCursor \in Nat
      /\ \A g \in r.lastGrowth : g.expectedGrowthCursor \in Nat /\ g.growthCursor \in Nat
  BY LeaseFields, ReservationFields
<1>2. ~Doomed(r, call.cursor, call.request)
  BY DEF Doomed
<1>3. \/ call.cursor < lease.growthCursor
      \/ call.cursor = lease.growthCursor /\ call.request \in lease.unresolved
  BY <1>2 DEF Harmless
<1>4. Level(lease, r) \/ \E g \in r.lastGrowth : g.expectedGrowthCursor = lease.growthCursor
  BY DEF Faithful, Behind, Result
<1>5. \A g \in r.lastGrowth : g.expectedGrowthCursor < r.growthCursor
  BY DEF Books, CurrentIn
<1>6. Level(lease, r)
  BY <1>1, <1>3, <1>4, <1>5
<1>7. ~(call.cursor < lease.growthCursor)
  BY <1>1, <1>6 DEF Level
<1> QED
  BY <1>3, <1>6, <1>7

(* Growth leaves every lease faithful, and no other request can grow the   *)
(* reservation again.                                                      *)
LEMMA GrowthKeeps ==
  ASSUME NEW r \in Reservation, NEW s \in Reservation, NEW n \in Nat, NEW a \in Nat,
         Books(r, n, a), NEW req, Extends(r, s, req, n)
  PROVE  /\ Books(s, n + 1, a)
         /\ \A lease \in Leases :
              /\ Faithful(lease, r, n, a)
              /\ CurrentIn(lease, r, a) => Level(lease, r) /\ req \in lease.unresolved
              => Faithful(lease, s, n + 1, a)
         /\ \A lease \in Leases : \A call :
              /\ call.cursor \in Nat /\ call.cursor <= n
              /\ Harmless(call, lease, r, a)
              => Harmless(call, lease, s, a)
         /\ \A lease \in Leases, reply \in Replies : \A other :
              /\ Truthful(reply, other, lease, r, n, a)
              /\ CurrentIn(lease, r, a) =>
                   Level(lease, r) /\ req \in lease.unresolved /\ lease.unresolved = {other}
              => Truthful(reply, other, lease, s, n + 1, a)
<1>1. /\ Active(r) /\ s.mode = r.mode /\ s.budgetKeys = r.budgetKeys /\ s.growthCursor = n + 1
      /\ ~SameIncrement(r, req.incrementId) /\ req.additional.keys = r.budgetKeys
  BY DEF Extends
<1>2. PICK g :
        /\ s.lastGrowth = {g}
        /\ g.incrementId = req.incrementId /\ g.additional = req.additional
        /\ \A b \in req.additional.keys : g.limits[b] = req.limits[b]
        /\ g.expectedGrowthCursor = r.growthCursor /\ g.growthCursor = n + 1
        /\ g.reserved = s.reserved
        /\ s.reserved = IF g.accepted THEN Plus(r.reserved, req.additional.units)
                        ELSE r.reserved
  BY DEF Extends
<1>3. /\ a <= n /\ a <= r.growthCursor /\ r.growthCursor <= n /\ r.growthCursor \in Nat
      /\ \A k \in r.lastGrowth : k.expectedGrowthCursor < r.growthCursor
  BY <1>1, ReservationFields DEF Books
<1>4. Books(s, n + 1, a)
  <2>1. a <= n + 1 /\ r.growthCursor < n + 1 /\ n + 1 <= n + 1
    BY <1>3
  <2> QED BY <1>1, <1>2, <1>3, <2>1 DEF Books
<1>5. ASSUME NEW lease \in Leases, Faithful(lease, r, n, a),
             CurrentIn(lease, r, a) => Level(lease, r) /\ req \in lease.unresolved
      PROVE  Faithful(lease, s, n + 1, a)
  <2>1. lease.growthCursor \in Nat
    BY LeaseFields
  <2>2. lease.growthCursor <= n + 1
    BY <1>5, <2>1 DEF Faithful
  <2>3. CurrentIn(lease, s, a) => CurrentIn(lease, r, a)
    BY <1>1 DEF CurrentIn
  <2>4. CurrentIn(lease, r, a) => Behind(lease, req, s)
    BY <1>2, <1>5 DEF Level, Behind, Result
  <2>5. CurrentIn(lease, s, a) =>
          s.mode = lease.mode /\ \E q \in lease.unresolved : Behind(lease, q, s)
    BY <1>1, <1>5, <2>3, <2>4 DEF Faithful
  <2>6. lease.admission <= a /\ (lease.admission # a => lease.growthCursor < a)
    BY <1>5 DEF Faithful
  <2> HIDE DEF Faithful
  <2> QED BY <2>2, <2>5, <2>6 DEF Faithful
<1>6. ASSUME NEW lease \in Leases, NEW call, call.cursor \in Nat, call.cursor <= n,
             Harmless(call, lease, r, a)
      PROVE  Harmless(call, lease, s, a)
  <2>1. CurrentIn(lease, s, a) => CurrentIn(lease, r, a)
    BY <1>1 DEF CurrentIn
  <2>2. Doomed(s, call.cursor, call.request)
    BY <1>1, <1>6 DEF Doomed
  <2> QED BY <1>6, <2>1, <2>2 DEF Harmless
<1>7. ASSUME NEW lease \in Leases, NEW reply \in Replies, NEW other,
             Truthful(reply, other, lease, r, n, a),
             CurrentIn(lease, r, a) =>
               Level(lease, r) /\ req \in lease.unresolved /\ lease.unresolved = {other}
      PROVE  Truthful(reply, other, lease, s, n + 1, a)
  <2>1. CurrentIn(lease, s, a) => CurrentIn(lease, r, a)
    BY <1>1 DEF CurrentIn
  <2>2. ASSUME CurrentIn(lease, r, a)
        PROVE  FALSE
    <3>1. req = other /\ lease.growthCursor = r.growthCursor
      BY <1>7, <2>2 DEF Level
    <3>2. ~Doomed(r, lease.growthCursor, other)
      BY <1>1, <3>1 DEF Doomed
    <3>3. PICK k \in r.lastGrowth : Result(lease, other, k)
      BY <1>7, <2>2, <3>2 DEF Truthful
    <3>4. SameIncrement(r, req.incrementId)
      BY <3>1, <3>3 DEF Result, SameIncrement
    <3> QED BY <1>1, <3>4
  <2>3. reply.status # "state_error" => reply.growthCursor \in Nat
    BY DEF Replies
  <2>4. reply.status # "state_error" => reply.growthCursor <= n + 1
    BY <1>7, <2>3 DEF Truthful
  <2> QED BY <1>7, <2>1, <2>2, <2>4 DEF Truthful
<1> QED
  BY <1>4, <1>5, <1>6, <1>7
-----------------------------------------------------------------------------
(* The growth call at the store.                                           *)

Asked(r, req, cursor, g) ==
  /\ g.incrementId = req.incrementId /\ g.additional = req.additional
  /\ g.expectedGrowthCursor = cursor
  /\ \A b \in req.additional.keys : g.limits[b] = req.limits[b]

(* A request is refused, replayed or decided, and the reply says which.    *)
Refused(r, mode, req, cursor, reply) ==
  /\ reply = [status |-> "state_error"]
  /\ Active(r) /\ r.mode = mode =>
       /\ Doomed(r, cursor, req)
       /\ ~\E g \in r.lastGrowth : Asked(r, req, cursor, g)

Answers(reply, g) ==
  reply = [status |-> IF g.accepted THEN "accepted" ELSE "denied",
           growthCursor |-> g.growthCursor, reserved |-> g.reserved]

Replayed(r, mode, req, cursor, reply) ==
  /\ Active(r) /\ r.mode = mode
  /\ \E g \in r.lastGrowth : Asked(r, req, cursor, g) /\ Answers(reply, g)

DecidedOn(r, s, mode, req, cursor, reply, n) ==
  /\ r.mode = mode /\ r.growthCursor = cursor
  /\ Extends(r, s, req, n)
  /\ \E g \in s.lastGrowth : Asked(r, req, cursor, g) /\ Answers(reply, g)

LEMMA GrowthRecorded ==
  ASSUME NEW r \in Reservation, NEW op \in Operations, NEW req \in Requests,
         NEW accepted \in BOOLEAN,
         Active(r), ~SameIncrement(r, req.incrementId), req.additional.keys = r.budgetKeys,
         NEW reply,
         reply = [status |-> IF accepted THEN "accepted" ELSE "denied",
                  growthCursor |-> issued[op] + 1,
                  reserved |-> IF accepted THEN Plus(r.reserved, req.additional.units)
                               ELSE r.reserved]
  PROVE  LET s == Decided(r, op, req.incrementId, req.additional, req.limits, accepted)
         IN  DecidedOn(r, s, r.mode, req, r.growthCursor, reply, issued[op])
<1> DEFINE g == GrowthResult(r, op, req.incrementId, req.additional, req.limits, accepted)
           t == [r EXCEPT !.reserved = g.reserved, !.growthCursor = g.growthCursor,
                          !.lastGrowth = {g}]
           s == Decided(r, op, req.incrementId, req.additional, req.limits, accepted)
<1>1. /\ g.incrementId = req.incrementId /\ g.additional = req.additional
      /\ g.expectedGrowthCursor = r.growthCursor /\ g.growthCursor = issued[op] + 1
      /\ g.accepted = accepted
      /\ g.reserved = IF accepted THEN Plus(r.reserved, req.additional.units) ELSE r.reserved
  BY DEF GrowthResult
<1>2. \A b \in req.additional.keys : g.limits[b] = req.limits[b]
  <2>1. req.additional.keys \subseteq Budgets
    <3>1. req.additional \in Charge
      BY ConstantsAssumption DEF Requests
    <3> QED BY <3>1 DEF Charge
  <2>2. g.limits = [b \in Budgets |-> IF b \in req.additional.keys THEN req.limits[b] ELSE 0]
    BY DEF GrowthResult
  <2> HIDE DEF g
  <2> QED BY <2>1, <2>2
<1>3. s = t
  BY DEF Decided
<1> HIDE DEF g
<1>4. /\ t.mode = r.mode /\ t.budgetKeys = r.budgetKeys /\ t.reserved = g.reserved
      /\ t.growthCursor = g.growthCursor /\ t.lastGrowth = {g}
  BY DEF Reservation
<1> HIDE DEF t
<1>5. Asked(r, req, r.growthCursor, g)
  BY <1>1, <1>2 DEF Asked
<1>6. Answers(reply, g)
  BY <1>1 DEF Answers
<1>7. Extends(r, t, req, issued[op])
  BY <1>1, <1>2, <1>4 DEF Extends
<1> HIDE DEF s
<1>8. DecidedOn(r, s, r.mode, req, r.growthCursor, reply, issued[op])
  BY <1>3, <1>4, <1>5, <1>6, <1>7 DEF DecidedOn
<1> QED
  BY <1>8 DEF s

(* What a growth call does to its reservation, and answers.                *)
LEMMA GrowAnswers ==
  ASSUME Cardinality(Budgets) <= MaxRetainedBudgetKeys, TypeOK, NEW op \in Operations,
         NEW mode, NEW req \in Requests, NEW cursor,
         Active(Recovered[op]) => \A g, k \in Recovered[op].lastGrowth : g = k,
         Grow(op, mode, req.incrementId, cursor, req.additional, req.limits)
  PROVE  LET r == Recovered[op]
             reply == GrowReply(mode, op, req, cursor)
         IN  \/ /\ reservations' = Recovered /\ issued' = issued
                /\ \/ Refused(r, mode, req, cursor, reply)
                   \/ Replayed(r, mode, req, cursor, reply)
             \/ \E s \in Reservation :
                  /\ reservations' = [Recovered EXCEPT ![op] = s]
                  /\ issued' = [issued EXCEPT ![op] = @ + 1]
                  /\ DecidedOn(r, s, mode, req, cursor, reply, issued[op])
<1> DEFINE r == Recovered[op]
           reply == GrowReply(mode, op, req, cursor)
           replayed == {g \in r.lastGrowth : g.incrementId = req.incrementId}
           applies == GrowthApplies(op, mode, req.incrementId, cursor, req.additional)
           accepted == WithinLimits(req.additional, req.limits, RecoveredUsed)
           result(yes, next, reserved) ==
             [status |-> IF yes THEN "accepted" ELSE "denied",
              growthCursor |-> next, reserved |-> reserved]
<1>1. r \in Reservation /\ BudgetRoom(req.additional, RecoveredUsed)
  BY RecoveredType, AlwaysRoom
<1>2. CASE ~(Active(r) /\ r.mode = mode)
  <2>1. reply = [status |-> "state_error"]
    BY <1>2 DEF GrowReply
  <2>2. reservations' = Recovered /\ issued' = issued
    BY <1>2 DEF Grow, RecoverOnly, GrowthApplies
  <2>3. Refused(r, mode, req, cursor, reply)
    BY <1>2, <2>1 DEF Refused
  <2> QED BY <2>2, <2>3
<1>3. CASE Active(r) /\ r.mode = mode /\ replayed # {}
  <2> DEFINE g == CHOOSE k \in replayed : TRUE
  <2>1. g \in replayed /\ \A k \in r.lastGrowth : k = g
    BY <1>3
  <2>2. SameIncrement(r, req.incrementId)
    BY <2>1 DEF SameIncrement
  <2>3. reservations' = Recovered /\ issued' = issued
    BY <2>2 DEF Grow, RecoverOnly, GrowthApplies
  <2>4. reply = IF /\ g.expectedGrowthCursor = cursor
                   /\ g.additional = req.additional
                   /\ \A b \in req.additional.keys : g.limits[b] = req.limits[b]
                  THEN result(g.accepted, g.growthCursor, g.reserved)
                  ELSE [status |-> "state_error"]
    BY <1>3 DEF GrowReply
  <2> HIDE DEF g, reply
  <2>5. CASE Asked(r, req, cursor, g)
    <3>1. reply = result(g.accepted, g.growthCursor, g.reserved)
      BY <2>4, <2>5 DEF Asked
    <3>2. Replayed(r, mode, req, cursor, reply)
      BY <1>3, <2>1, <2>5, <3>1 DEF Replayed, Answers
    <3> QED BY <2>3, <3>2 DEF reply
  <2>6. CASE ~Asked(r, req, cursor, g)
    <3>1. reply = [status |-> "state_error"]
      BY <2>1, <2>4, <2>6 DEF Asked
    <3>2. Refused(r, mode, req, cursor, reply)
      BY <2>1, <2>2, <2>6, <3>1 DEF Refused, Doomed
    <3> QED BY <2>3, <3>2 DEF reply
  <2> QED BY <2>5, <2>6
<1>4. CASE Active(r) /\ r.mode = mode /\ replayed = {}
  <2>1. ~SameIncrement(r, req.incrementId)
    BY <1>4 DEF SameIncrement
  <2>2. reply = IF ~applies THEN [status |-> "state_error"]
                ELSE IF ~accepted THEN result(FALSE, issued[op] + 1, r.reserved)
                ELSE result(TRUE, issued[op] + 1, Plus(r.reserved, req.additional.units))
    BY <1>1, <1>4 DEF GrowReply
  <2>3. CASE ~applies
    <3>1. reservations' = Recovered /\ issued' = issued
      BY <2>3 DEF Grow, RecoverOnly
    <3>2. Doomed(r, cursor, req)
      BY <1>4, <2>1, <2>3 DEF GrowthApplies, Doomed
    <3>3. reply = [status |-> "state_error"]
      BY <2>2, <2>3
    <3>4. ~\E g \in r.lastGrowth : Asked(r, req, cursor, g)
      BY <2>1 DEF Asked, SameIncrement
    <3> HIDE DEF reply
    <3>5. Refused(r, mode, req, cursor, reply)
      BY <3>2, <3>3, <3>4 DEF Refused
    <3> QED BY <3>1, <3>5 DEF reply
  <2>4. CASE applies
    <3> DEFINE s == Decided(r, op, req.incrementId, req.additional, req.limits, accepted)
    <3>1. /\ reservations' = [Recovered EXCEPT ![op] = s]
          /\ issued' = [issued EXCEPT ![op] = @ + 1]
      <4>1. CASE accepted
        <5>1. s = Decided(r, op, req.incrementId, req.additional, req.limits, TRUE)
          BY <4>1
        <5> QED BY <1>1, <2>4, <4>1, <5>1 DEF Grow
      <4>2. CASE ~accepted
        <5>1. accepted = FALSE
          BY <4>2 DEF WithinLimits
        <5>2. s = Decided(r, op, req.incrementId, req.additional, req.limits, FALSE)
          BY <5>1
        <5> QED BY <1>1, <2>4, <4>2, <5>2 DEF Grow
      <4> QED BY <4>1, <4>2
    <3>2. /\ Active(r) /\ r.mode = mode /\ r.growthCursor = cursor
          /\ req.additional.keys = r.budgetKeys
      BY <2>4 DEF GrowthApplies
    <3>3. accepted \in BOOLEAN
      BY DEF WithinLimits
    <3>4. reply = [status |-> IF accepted THEN "accepted" ELSE "denied",
                   growthCursor |-> issued[op] + 1,
                   reserved |-> IF accepted THEN Plus(r.reserved, req.additional.units)
                                ELSE r.reserved]
      BY <2>2, <2>4
    <3>5. s \in Reservation
      <4>1. /\ req.incrementId \in Increments /\ req.additional \in Charge
            /\ req.limits \in [Budgets -> Nat]
        BY ConstantsAssumption DEF Requests
      <4> QED BY <1>1, <3>3, <4>1, DecidedType
    <3> HIDE DEF r, accepted, reply
    <3>6. DecidedOn(r, s, r.mode, req, r.growthCursor, reply, issued[op])
      BY <1>1, <2>1, <3>2, <3>3, <3>4, GrowthRecorded
    <3> HIDE DEF s
    <3> QED BY <3>1, <3>2, <3>5, <3>6 DEF r, reply
  <2> QED BY <2>3, <2>4
<1> QED
  BY <1>2, <1>3, <1>4
-----------------------------------------------------------------------------
(* Steps of the store.                                                     *)

StoreQuiet ==
  /\ issued' = issued
  /\ \A op \in Operations : Same(reservations[op], reservations'[op])

LEMMA SameRecovered ==
  ASSUME TypeOK, NEW op \in Operations
  PROVE  Same(reservations[op], Recovered[op])
BY RecoveredActive DEF Same

LEMMA SameTransitive ==
  ASSUME NEW r, NEW q, NEW s, Same(r, q), Same(q, s)
  PROVE  Same(r, s)
BY DEF Same

(* Recovery, followed by a change of one reservation's other fields.       *)
LEMMA RelabelIsQuiet ==
  ASSUME TypeOK, NEW op \in Operations, NEW s,
         Same(Recovered[op], s),
         reservations' = [Recovered EXCEPT ![op] = s], issued' = issued
  PROVE  StoreQuiet
<1>1. ASSUME NEW o \in Operations
      PROVE  Same(reservations[o], reservations'[o])
  <2>1. Same(reservations[o], Recovered[o])
    BY SameRecovered
  <2>2. Same(Recovered[o], reservations'[o])
    <3>1. o = op => reservations'[o] = s
      BY RecoveredType
    <3>2. o # op => reservations'[o] = Recovered[o]
      BY RecoveredType
    <3>3. Same(Recovered[o], Recovered[o])
      BY DEF Same
    <3> QED BY <3>1, <3>2, <3>3
  <2> QED BY <2>1, <2>2, SameTransitive
<1> QED
  BY <1>1 DEF StoreQuiet

LEMMA RecoverOnlyIsQuiet ==
  ASSUME TypeOK, reservations' = Recovered, issued' = issued
  PROVE  StoreQuiet
BY SameRecovered DEF StoreQuiet

LEMMA MarkLiableIsQuiet ==
  ASSUME TypeOK, NEW op \in Operations, MarkLiable(op)
  PROVE  StoreQuiet
<1>1. CASE RecoverOnly
  BY <1>1, RecoverOnlyIsQuiet DEF RecoverOnly
<1>2. CASE ~RecoverOnly
  <2> DEFINE r == Recovered[op]
             s == [r EXCEPT !.state = "liable"]
  <2>1. /\ Active(r) /\ reservations' = [Recovered EXCEPT ![op] = s]
        /\ issued' = issued
    BY <1>2 DEF MarkLiable
  <2>2. r \in Reservation
    BY RecoveredType
  <2>3. Same(r, s)
    <3> HIDE DEF r
    <3> QED BY <2>1, <2>2 DEF Same, Reservation
  <2> HIDE DEF s
  <2> QED BY <2>1, <2>3, RelabelIsQuiet
<1> QED
  BY <1>1, <1>2

LEMMA RenewIsQuiet ==
  ASSUME TypeOK, NEW op \in Operations, NEW ttl, Renew(op, ttl)
  PROVE  StoreQuiet
<1>1. CASE RecoverOnly
  BY <1>1, RecoverOnlyIsQuiet DEF RecoverOnly
<1>2. CASE ~RecoverOnly
  <2> DEFINE r == Recovered[op]
             s == [r EXCEPT !.expiresAt = clock + ttl]
  <2>1. /\ Active(r) /\ reservations' = [Recovered EXCEPT ![op] = s]
        /\ issued' = issued
    BY <1>2 DEF Renew
  <2>2. r \in Reservation
    BY RecoveredType
  <2>3. Same(r, s)
    <3> HIDE DEF r
    <3> QED BY <2>1, <2>2 DEF Same, Reservation
  <2> HIDE DEF s
  <2> QED BY <2>1, <2>3, RelabelIsQuiet
<1> QED
  BY <1>1, <1>2

LEMMA SettleIsQuiet ==
  ASSUME TypeOK, NEW op \in Operations, NEW mode, NEW actual, NEW outcome,
         SettleAs(op, mode, actual, outcome)
  PROVE  StoreQuiet
<1>1. CASE RecoverOnly
  BY <1>1, RecoverOnlyIsQuiet DEF RecoverOnly
<1>2. CASE ~RecoverOnly
  <2> DEFINE r == Recovered[op]
             s == Settlement(r, actual, outcome)
  <2>1. reservations' = [Recovered EXCEPT ![op] = s] /\ issued' = issued
    BY <1>2 DEF SettleAs
  <2>2. r \in Reservation
    BY RecoveredType
  <2>3. s.state = "settled"
    BY <2>2, RetainFields
  <2> HIDE DEF r, s
  <2>4. Same(r, s)
    BY <2>3 DEF Same, Active
  <2> QED BY <2>1, <2>4, RelabelIsQuiet DEF r
<1> QED
  BY <1>1, <1>2

LEMMA UnchangedIsQuiet ==
  ASSUME reservations' = reservations, issued' = issued
  PROVE  StoreQuiet
BY DEF StoreQuiet, Same

(* What a quiet step leaves to leases and calls that do not move.          *)
LEMMA QuietCoherent ==
  ASSUME TypeOK, ClientTyped, StoreQuiet, admitted' = admitted,
         Coherent(leases, calls, reservations, issued, admitted)
  PROVE  Coherent(leases, calls, reservations', issued', admitted')
<1>1. issued' = issued /\ \A op \in Operations : Same(reservations[op], reservations'[op])
  BY DEF StoreQuiet
<1>2. ASSUME NEW op \in Operations
      PROVE  Books(reservations'[op], issued[op], admitted[op])
  <2>1. Books(reservations[op], issued[op], admitted[op])
    BY DEF Coherent
  <2> QED BY <1>1, <2>1, SameKeeps
<1>3. ASSUME NEW h \in Handles
      PROVE  LeaseFaithful(leases[h], reservations', issued, admitted)
  <2>1. LeaseFaithful(leases[h], reservations, issued, admitted)
    BY DEF Coherent
  <2>2. Holds(leases[h]) => leases[h].id \in Operations
    BY LeaseFields DEF ClientTyped, Holds
  <2> QED BY <1>1, <2>1, <2>2, SameKeeps DEF LeaseFaithful
<1>4. ASSUME NEW c \in Calls, NEW h \in Handles
      PROVE  RequestHarmless(calls[c], leases[h], reservations', admitted)
  <2>1. RequestHarmless(calls[c], leases[h], reservations, admitted)
    BY DEF Coherent
  <2>2. Holds(leases[h]) => leases[h].id \in Operations
    BY LeaseFields DEF ClientTyped, Holds
  <2> QED BY <1>1, <2>1, <2>2, SameKeeps DEF RequestHarmless
<1>5. ASSUME NEW c \in Calls
      PROVE  ReplyTruthful(calls[c], leases[calls[c].handle], reservations', issued, admitted)
  <2>1. ReplyTruthful(calls[c], leases[calls[c].handle], reservations, issued, admitted)
    BY DEF Coherent
  <2>2. CASE calls[c].phase = "answered" /\ Holds(leases[calls[c].handle])
    <3>1. calls[c].handle \in Handles
      BY <2>2, CallFields DEF ClientTyped
    <3>2. leases[calls[c].handle].id \in Operations
      BY <2>2, <3>1, LeaseFields DEF ClientTyped, Holds
    <3> QED BY <1>1, <2>1, <2>2, <3>2, SameKeeps DEF ReplyTruthful
  <2> QED BY <2>2 DEF ReplyTruthful
<1>6. \A c \in Calls : calls[c].phase = "sent" => calls[c].cursor <= issued[calls[c].id]
  BY DEF Coherent
<1> QED
  BY <1>1, <1>2, <1>3, <1>4, <1>5, <1>6 DEF Coherent

LEMMA HandleFields ==
  ASSUME ClientTyped, NEW h \in Handles
  PROVE  leases[h] \in Leases /\ (Holds(leases[h]) => leases[h].id \in Operations)
BY LeaseFields DEF ClientTyped, Holds

LEMMA OthersSame ==
  ASSUME TypeOK, NEW op \in Operations, NEW s,
         reservations' = [Recovered EXCEPT ![op] = s],
         issued' = [issued EXCEPT ![op] = issued[op] + 1]
  PROVE  /\ reservations'[op] = s /\ issued'[op] = issued[op] + 1
         /\ \A o \in Operations \ {op} :
              Same(reservations[o], reservations'[o]) /\ issued'[o] = issued[o]
<1>1. reservations'[op] = s /\ \A o \in Operations \ {op} : reservations'[o] = Recovered[o]
  BY RecoveredType
<1>2. issued'[op] = issued[op] + 1 /\ \A o \in Operations \ {op} : issued'[o] = issued[o]
  BY DEF TypeOK
<1> QED
  BY <1>1, <1>2, SameRecovered

(* An admission leaves every earlier lease and request behind.             *)
LEMMA AdmissionCoherent ==
  ASSUME TypeOK, ClientTyped, NEW op \in Operations, NEW s,
         s.growthCursor = issued[op] + 1, s.lastGrowth = {},
         reservations' = [Recovered EXCEPT ![op] = s],
         issued' = [issued EXCEPT ![op] = issued[op] + 1],
         admitted' = [admitted EXCEPT ![op] = issued[op] + 1],
         Coherent(leases, calls, reservations, issued, admitted)
  PROVE  /\ Coherent(leases, calls, reservations', issued', admitted')
         /\ \A h \in Handles :
              Holds(leases[h]) /\ leases[h].id = op => leases[h].admission # issued[op] + 1
<1>1. /\ reservations'[op] = s /\ issued'[op] = issued[op] + 1
      /\ \A o \in Operations \ {op} :
           Same(reservations[o], reservations'[o]) /\ issued'[o] = issued[o]
  BY OthersSame
<1>2. /\ admitted'[op] = issued[op] + 1
      /\ \A o \in Operations \ {op} : admitted'[o] = admitted[o]
  BY DEF ClientTyped
<1>3. /\ reservations[op] \in Reservation /\ admitted[op] \in Nat
      /\ \A o \in Operations : issued[o] \in Nat
  BY DEF TypeOK, ClientTyped
<1>4. \A o \in Operations : Books(reservations[o], issued[o], admitted[o])
  BY DEF Coherent
<1>5. ASSUME NEW o \in Operations
      PROVE  Books(reservations'[o], issued'[o], admitted'[o])
  <2>1. CASE o = op
    BY <1>1, <1>2, <1>3, <1>4, <2>1, AdmissionOvertakes
  <2>2. CASE o # op
    BY <1>1, <1>2, <1>4, <2>2, SameKeeps
  <2> QED BY <2>1, <2>2
<1>6. ASSUME NEW h \in Handles
      PROVE  /\ LeaseFaithful(leases[h], reservations', issued', admitted')
             /\ Holds(leases[h]) /\ leases[h].id = op => leases[h].admission # issued[op] + 1
  <2>1. LeaseFaithful(leases[h], reservations, issued, admitted)
    BY DEF Coherent
  <2>2. leases[h] \in Leases /\ (Holds(leases[h]) => leases[h].id \in Operations)
    BY HandleFields
  <2>3. CASE Holds(leases[h]) /\ leases[h].id = op
    <3>1. Faithful(leases[h], reservations[op], issued[op], admitted[op])
      BY <2>1, <2>3 DEF LeaseFaithful
    <3>2. /\ leases[h].admission # issued[op] + 1
          /\ Faithful(leases[h], s, issued[op] + 1, issued[op] + 1)
      BY <1>3, <1>4, <2>2, <3>1, AdmissionOvertakes
    <3> QED BY <1>1, <1>2, <2>1, <2>3, <3>2 DEF LeaseFaithful
  <2>4. CASE Holds(leases[h]) /\ leases[h].id # op
    BY <1>1, <1>2, <2>1, <2>2, <2>4, SameKeeps DEF LeaseFaithful
  <2> QED BY <2>1, <2>3, <2>4 DEF LeaseFaithful
<1>7. ASSUME NEW c \in Calls, calls[c].phase = "sent"
      PROVE  calls[c].cursor <= issued'[calls[c].id]
  <2>1. calls[c].cursor \in Nat /\ calls[c].id \in Operations
    BY <1>7, CallFields DEF ClientTyped
  <2>2. calls[c].cursor <= issued[calls[c].id]
    BY <1>7 DEF Coherent
  <2>3. issued'[calls[c].id] \in {issued[calls[c].id], issued[calls[c].id] + 1}
    BY <1>1, <2>1
  <2> QED BY <1>3, <2>1, <2>2, <2>3
<1>8. ASSUME NEW c \in Calls, NEW h \in Handles
      PROVE  RequestHarmless(calls[c], leases[h], reservations', admitted')
  <2>1. RequestHarmless(calls[c], leases[h], reservations, admitted)
    BY DEF Coherent
  <2>2. leases[h] \in Leases /\ (Holds(leases[h]) => leases[h].id \in Operations)
    BY HandleFields
  <2>3. CASE Holds(leases[h]) /\ leases[h].id = op
    <3>1. Harmless(calls[c], leases[h], s, issued[op] + 1)
      BY <1>3, <1>4, <1>6, <2>2, <2>3, AdmissionOvertakes
    <3>2. leases[h].id = calls[c].id => calls[c].id = op
      BY <2>3
    <3> QED BY <1>1, <1>2, <3>1, <3>2 DEF RequestHarmless
  <2>4. CASE Holds(leases[h]) /\ leases[h].id # op
    BY <1>1, <1>2, <2>1, <2>2, <2>4, SameKeeps DEF RequestHarmless
  <2> QED BY <2>3, <2>4 DEF RequestHarmless
<1>9. ASSUME NEW c \in Calls
      PROVE  ReplyTruthful(calls[c], leases[calls[c].handle], reservations', issued', admitted')
  <2> DEFINE h == calls[c].handle
  <2>1. ReplyTruthful(calls[c], leases[h], reservations, issued, admitted)
    BY DEF Coherent
  <2>2. CASE calls[c].phase = "answered" /\ Holds(leases[h])
    <3>1. h \in Handles /\ calls[c].reply \in Replies
      BY <2>2, CallFields DEF ClientTyped
    <3>2. leases[h] \in Leases /\ leases[h].id \in Operations
      BY <2>2, <3>1, HandleFields
    <3> HIDE DEF h
    <3> DEFINE o == leases[h].id
    <3>3. Truthful(calls[c].reply, calls[c].request, leases[h],
                   reservations[o], issued[o], admitted[o])
      BY <2>1, <2>2 DEF ReplyTruthful
    <3>4. Truthful(calls[c].reply, calls[c].request, leases[h],
                   reservations'[o], issued'[o], admitted'[o])
      <4>1. CASE o = op
        <5>1. Truthful(calls[c].reply, calls[c].request, leases[h],
                       s, issued[op] + 1, issued[op] + 1)
          BY <1>3, <1>4, <1>6, <2>2, <3>1, <3>2, <3>3, <4>1, AdmissionOvertakes
        <5> QED BY <1>1, <1>2, <4>1, <5>1
      <4>2. CASE o # op
        BY <1>1, <1>2, <3>2, <3>3, <4>2, SameKeeps
      <4> QED BY <4>1, <4>2
    <3> QED BY <3>4 DEF ReplyTruthful, h
  <2>3. ReplyTruthful(calls[c], leases[h], reservations', issued', admitted')
    BY <2>2 DEF ReplyTruthful
  <2> QED BY <2>3 DEF h
<1> QED
  BY <1>5, <1>6, <1>7, <1>8, <1>9 DEF Coherent

(* A decided request leaves every lease and every other request coherent.  *)
LEMMA DecisionCoherent ==
  ASSUME TypeOK, ClientTyped, Agreed(leases, calls),
         Coherent(leases, calls, reservations, issued, admitted),
         NEW d \in Calls, calls[d].phase = "sent", NEW op \in Operations, calls[d].id = op,
         NEW s \in Reservation, NEW reply,
         DecidedOn(Recovered[op], s, calls[d].mode, calls[d].request, calls[d].cursor,
                   reply, issued[op]),
         reservations' = [Recovered EXCEPT ![op] = s],
         issued' = [issued EXCEPT ![op] = issued[op] + 1],
         admitted' = admitted
  PROVE  Coherent(leases, calls, reservations', issued', admitted')
<1> DEFINE r == reservations[op]
           req == calls[d].request
           n == issued[op]
           a == admitted[op]
<1>1. /\ reservations'[op] = s /\ issued'[op] = issued[op] + 1
      /\ \A o \in Operations \ {op} :
           Same(reservations[o], reservations'[o]) /\ issued'[o] = issued[o]
  BY OthersSame
<1>2. /\ r \in Reservation /\ a \in Nat
      /\ \A o \in Operations : issued[o] \in Nat
  BY DEF TypeOK, ClientTyped
<1>3. \A o \in Operations : Books(reservations[o], issued[o], admitted[o])
  BY DEF Coherent
<1>4. /\ Extends(r, s, req, n) /\ calls[d].cursor = r.growthCursor
      /\ ~SameIncrement(r, req.incrementId) /\ req.additional.keys = r.budgetKeys
  <2>1. Extends(Recovered[op], s, req, n) /\ calls[d].cursor = Recovered[op].growthCursor
    BY DEF DecidedOn
  <2>2. Recovered[op] = r
    BY <2>1, RecoveredActive DEF Extends
  <2> QED BY <2>1, <2>2 DEF Extends
<1>5. ASSUME NEW h \in Handles, Holds(leases[h]), leases[h].id = op
      PROVE  /\ leases[h] \in Leases /\ Faithful(leases[h], r, n, a)
             /\ CurrentIn(leases[h], r, a) => Level(leases[h], r) /\ req \in leases[h].unresolved
  <2>1. leases[h] \in Leases
    BY HandleFields
  <2>2. LeaseFaithful(leases[h], reservations, issued, admitted)
        /\ RequestHarmless(calls[d], leases[h], reservations, admitted)
    BY DEF Coherent
  <2>3. Faithful(leases[h], r, n, a) /\ Harmless(calls[d], leases[h], r, a)
    BY <1>5, <2>2 DEF LeaseFaithful, RequestHarmless
  <2> HIDE DEF r, n, a
  <2>4. Books(r, n, a) /\ n \in Nat
    BY <1>2, <1>3 DEF r, n, a
  <2> QED BY <1>2, <1>4, <2>1, <2>3, <2>4, AppliedIsOwn DEF req
<1> HIDE DEF req
<1>6. ASSUME NEW o \in Operations
      PROVE  Books(reservations'[o], issued'[o], admitted[o])
  <2>1. CASE o = op
    BY <1>1, <1>2, <1>3, <1>4, <2>1, GrowthKeeps
  <2>2. CASE o # op
    BY <1>1, <1>3, <2>2, SameKeeps
  <2> QED BY <2>1, <2>2
<1>7. ASSUME NEW h \in Handles
      PROVE  LeaseFaithful(leases[h], reservations', issued', admitted)
  <2>1. LeaseFaithful(leases[h], reservations, issued, admitted)
    BY DEF Coherent
  <2>2. leases[h] \in Leases /\ (Holds(leases[h]) => leases[h].id \in Operations)
    BY HandleFields
  <2>3. CASE Holds(leases[h]) /\ leases[h].id = op
    <3>1. Faithful(leases[h], s, n + 1, a)
      BY <1>2, <1>3, <1>4, <1>5, <2>3, GrowthKeeps
    <3> QED BY <1>1, <2>1, <2>3, <3>1 DEF LeaseFaithful
  <2>4. CASE Holds(leases[h]) /\ leases[h].id # op
    BY <1>1, <2>1, <2>2, <2>4, SameKeeps DEF LeaseFaithful
  <2> QED BY <2>1, <2>3, <2>4 DEF LeaseFaithful
<1>8. ASSUME NEW c \in Calls, calls[c].phase = "sent"
      PROVE  calls[c].cursor <= issued'[calls[c].id]
  <2>1. calls[c].cursor \in Nat /\ calls[c].id \in Operations
    BY <1>8, CallFields DEF ClientTyped
  <2>2. calls[c].cursor <= issued[calls[c].id]
    BY <1>8 DEF Coherent
  <2>3. issued'[calls[c].id] \in {issued[calls[c].id], issued[calls[c].id] + 1}
    BY <1>1, <2>1
  <2> QED BY <1>2, <2>1, <2>2, <2>3
<1>9. ASSUME NEW c \in Calls, NEW h \in Handles
      PROVE  RequestHarmless(calls[c], leases[h], reservations', admitted)
  <2>1. RequestHarmless(calls[c], leases[h], reservations, admitted)
    BY DEF Coherent
  <2>2. leases[h] \in Leases /\ (Holds(leases[h]) => leases[h].id \in Operations)
    BY HandleFields
  <2>3. CASE calls[c].phase = "sent" /\ Holds(leases[h]) /\ leases[h].id = op /\ calls[c].id = op
    <3>1. Harmless(calls[c], leases[h], r, a)
      BY <2>1, <2>3 DEF RequestHarmless
    <3>2. calls[c].cursor \in Nat /\ calls[c].cursor <= n
      BY <2>3, CallFields DEF ClientTyped, Coherent
    <3>3. Harmless(calls[c], leases[h], s, a)
      BY <1>2, <1>3, <1>4, <2>2, <3>1, <3>2, GrowthKeeps
    <3> QED BY <1>1, <2>3, <3>3 DEF RequestHarmless
  <2>4. CASE Holds(leases[h]) /\ leases[h].id # op
    <3>1. CASE calls[c].phase = "sent" /\ leases[h].id = calls[c].id
      <4> DEFINE o == calls[c].id
      <4>1. Harmless(calls[c], leases[h], reservations[o], admitted[o])
        BY <2>1, <2>4, <3>1 DEF RequestHarmless
      <4>2. o \in Operations /\ o # op
        BY <2>2, <2>4, <3>1
      <4>3. Harmless(calls[c], leases[h], reservations'[o], admitted[o])
        BY <1>1, <4>1, <4>2, SameKeeps
      <4> QED BY <4>3 DEF RequestHarmless
    <3> QED BY <3>1 DEF RequestHarmless
  <2> QED BY <2>3, <2>4 DEF RequestHarmless
<1>10. ASSUME NEW c \in Calls
       PROVE  ReplyTruthful(calls[c], leases[calls[c].handle], reservations', issued', admitted)
  <2> DEFINE h == calls[c].handle
  <2>1. ReplyTruthful(calls[c], leases[h], reservations, issued, admitted)
    BY DEF Coherent
  <2>2. CASE calls[c].phase = "answered" /\ Holds(leases[h])
    <3>1. h \in Handles /\ calls[c].reply \in Replies /\ Awaited(calls[c])
      BY <2>2, CallFields DEF ClientTyped, Awaited
    <3>2. leases[h] \in Leases /\ leases[h].id \in Operations
      BY <2>2, <3>1, HandleFields
    <3>3. leases[h].unresolved = {calls[c].request}
      BY <3>1 DEF Agreed, Asks
    <3> HIDE DEF h
    <3> DEFINE o == leases[h].id
    <3>4. Truthful(calls[c].reply, calls[c].request, leases[h],
                   reservations[o], issued[o], admitted[o])
      BY <2>1, <2>2 DEF ReplyTruthful
    <3>5. Truthful(calls[c].reply, calls[c].request, leases[h],
                   reservations'[o], issued'[o], admitted[o])
      <4>1. CASE o = op
        <5>1. Truthful(calls[c].reply, calls[c].request, leases[h], r, n, a)
          BY <3>4, <4>1
        <5>2. CurrentIn(leases[h], r, a) =>
                Level(leases[h], r) /\ req \in leases[h].unresolved
          BY <1>5, <2>2, <3>1, <4>1
        <5>3. Truthful(calls[c].reply, calls[c].request, leases[h], s, n + 1, a)
          BY <1>2, <1>3, <1>4, <3>1, <3>2, <3>3, <5>1, <5>2, GrowthKeeps
        <5> QED BY <1>1, <4>1, <5>3
      <4>2. CASE o # op
        BY <1>1, <3>2, <3>4, <4>2, SameKeeps
      <4> QED BY <4>1, <4>2
    <3> QED BY <3>5 DEF ReplyTruthful, h
  <2>3. ReplyTruthful(calls[c], leases[h], reservations', issued', admitted)
    BY <2>2 DEF ReplyTruthful
  <2> QED BY <2>3 DEF h
<1> QED
  BY <1>6, <1>7, <1>8, <1>9, <1>10 DEF Coherent
-----------------------------------------------------------------------------
(* Steps of the client.                                                    *)

CallTypes == {NoCall} \cup Sent \cup Answered

(* A call may end, or be abandoned by its caller.                          *)
Dropped(old, new) ==
  \/ new = old
  \/ new = NoCall
  \/ old.phase = "sent" /\ new = [old EXCEPT !.awaited = FALSE]

LEMMA DroppedFields ==
  ASSUME NEW old \in CallTypes, NEW new, Dropped(old, new)
  PROVE  /\ new \in CallTypes
         /\ new.phase = "sent" =>
              /\ old.phase = "sent" /\ new.id = old.id
              /\ new.cursor = old.cursor /\ new.request = old.request
         /\ new.phase = "answered" => new = old
         /\ Awaited(new) => new = old
<1>1. NoCall.phase = "idle" /\ NoCall \in CallTypes
  BY DEF NoCall, CallTypes
<1>2. CASE new = old
  BY <1>2
<1>3. CASE new = NoCall
  BY <1>1, <1>3 DEF Awaited
<1>4. CASE old.phase = "sent" /\ new = [old EXCEPT !.awaited = FALSE]
  <2>1. old \in Sent
    BY <1>4, CallFields DEF CallTypes
  <2>2. /\ new \in Sent /\ new.phase = old.phase /\ new.id = old.id
        /\ new.cursor = old.cursor /\ new.request = old.request /\ new.awaited = FALSE
    BY <1>4, <2>1 DEF Sent
  <2> QED BY <1>4, <2>2 DEF CallTypes, Awaited
<1> QED
  BY <1>2, <1>3, <1>4 DEF Dropped

LEMMA DropKeeps ==
  ASSUME NEW ls, NEW rs, NEW n, NEW a, NEW cs \in [Calls -> CallTypes], NEW ds,
         \A c \in Calls : Dropped(cs[c], ds[c]),
         Coherent(ls, cs, rs, n, a), Agreed(ls, cs)
  PROVE  Coherent(ls, ds, rs, n, a) /\ Agreed(ls, ds)
<1>1. \A c \in Calls :
        /\ ds[c].phase = "sent" =>
             /\ cs[c].phase = "sent" /\ ds[c].id = cs[c].id
             /\ ds[c].cursor = cs[c].cursor /\ ds[c].request = cs[c].request
        /\ ds[c].phase = "answered" => ds[c] = cs[c]
        /\ Awaited(ds[c]) => ds[c] = cs[c]
  BY DroppedFields
<1>2. ASSUME NEW c \in Calls, ds[c].phase = "sent"
      PROVE  ds[c].cursor <= n[ds[c].id]
  BY <1>1, <1>2 DEF Coherent
<1>3. ASSUME NEW c \in Calls, NEW h \in Handles
      PROVE  RequestHarmless(ds[c], ls[h], rs, a)
  <2>1. RequestHarmless(cs[c], ls[h], rs, a)
    BY DEF Coherent
  <2> QED BY <1>1, <2>1 DEF RequestHarmless, Harmless
<1>4. ASSUME NEW c \in Calls
      PROVE  ReplyTruthful(ds[c], ls[ds[c].handle], rs, n, a)
  <2>1. ReplyTruthful(cs[c], ls[cs[c].handle], rs, n, a)
    BY DEF Coherent
  <2>2. CASE ds[c].phase = "answered"
    BY <1>1, <2>1, <2>2
  <2> QED BY <2>2 DEF ReplyTruthful
<1>5. Coherent(ls, ds, rs, n, a)
  BY <1>2, <1>3, <1>4 DEF Coherent
<1>6. Agreed(ls, ds)
  <2>1. \A c \in Calls : Awaited(ds[c]) => Awaited(cs[c]) /\ ds[c] = cs[c]
    BY <1>1
  <2>2. \A c \in Calls : Awaited(ds[c]) => Asks(ds[c], ls[ds[c].handle])
    BY <2>1 DEF Agreed
  <2>3. \A c, d \in Calls :
          Awaited(ds[c]) /\ Awaited(ds[d]) /\ ds[c].handle = ds[d].handle => c = d
    BY <2>1 DEF Agreed
  <2> QED BY <2>2, <2>3 DEF Agreed
<1> QED
  BY <1>5, <1>6

(* A store step that concerns no lease and no call.                        *)
LEMMA QuietStep ==
  ASSUME ClientInv, TypeOK', StoreQuiet,
         leases' = leases, calls' = calls, admitted' = admitted
  PROVE  ClientInv'
<1>1. Coherent(leases, calls, reservations', issued', admitted')
  BY QuietCoherent DEF ClientInv
<1>2. ClientTyped'
  BY DEF ClientInv, ClientTyped
<1>3. Agreed(leases, calls)
  BY DEF ClientInv
<1> QED
  BY <1>1, <1>2, <1>3 DEF ClientInv

LEMMA DropStep ==
  ASSUME ClientInv, UNCHANGED vars, leases' = leases, admitted' = admitted,
         calls' \in [Calls -> CallTypes],
         \A c \in Calls : Dropped(calls[c], calls'[c])
  PROVE  ClientInv'
<1>1. TypeOK' /\ reservations' = reservations /\ issued' = issued
  BY DEF ClientInv, TypeOK, vars
<1>2. ClientTyped'
  BY DEF ClientInv, ClientTyped, CallTypes
<1>3. Coherent(leases, calls', reservations, issued, admitted) /\ Agreed(leases, calls')
  <2>1. /\ calls \in [Calls -> CallTypes]
        /\ Coherent(leases, calls, reservations, issued, admitted) /\ Agreed(leases, calls)
    BY DEF ClientInv, ClientTyped, CallTypes
  <2> QED BY <2>1, DropKeeps
<1> QED
  BY <1>1, <1>2, <1>3 DEF ClientInv

LEMMA ResumeStep ==
  ASSUME ClientInv, NEW h \in Handles, Resume(h)
  PROVE  ClientInv'
<1>1. \A c \in Calls :
        calls'[c] = IF c \notin Awaiting(h) THEN calls[c]
                    ELSE IF calls[c].phase = "sent" THEN [calls[c] EXCEPT !.awaited = FALSE]
                    ELSE NoCall
  BY DEF Resume
<1>2. \A c \in Calls : Dropped(calls[c], calls'[c])
  BY <1>1 DEF Dropped
<1>3. calls \in [Calls -> CallTypes]
  BY DEF ClientInv, ClientTyped, CallTypes
<1>4. \A c \in Calls : calls'[c] \in CallTypes
  BY <1>2, <1>3, DroppedFields
<1>5. calls' \in [Calls -> CallTypes]
  BY <1>4 DEF Resume
<1> QED
  BY <1>2, <1>5, DropStep DEF Resume

LEMMA EndCall ==
  ASSUME ClientInv, NEW c \in Calls, NEW new, Dropped(calls[c], new),
         calls' = [calls EXCEPT ![c] = new],
         UNCHANGED vars, leases' = leases, admitted' = admitted
  PROVE  ClientInv'
<1>1. calls \in [Calls -> CallTypes]
  BY DEF ClientInv, ClientTyped, CallTypes
<1>2. new \in CallTypes
  BY <1>1, DroppedFields
<1>3. \A d \in Calls : Dropped(calls[d], calls'[d])
  <2>1. \A d \in Calls : calls'[d] = IF d = c THEN new ELSE calls[d]
    BY <1>1
  <2> QED BY <2>1 DEF Dropped
<1>4. calls' \in [Calls -> CallTypes]
  BY <1>1, <1>2
<1> QED
  BY <1>3, <1>4, DropStep

LEMMA FailStep ==
  ASSUME ClientInv, NEW c \in Calls, GrowFail(c)
  PROVE  ClientInv'
<1>1. CASE calls' = [calls EXCEPT ![c] = NoCall]
  BY <1>1, EndCall DEF GrowFail, Dropped
<1>2. CASE calls[c].phase = "sent" /\ calls' = [calls EXCEPT ![c].awaited = FALSE]
  <2> DEFINE new == [calls[c] EXCEPT !.awaited = FALSE]
  <2>1. calls' = [calls EXCEPT ![c] = new]
    BY <1>2
  <2>2. Dropped(calls[c], new)
    BY <1>2 DEF Dropped
  <2> HIDE DEF new
  <2> QED BY <2>1, <2>2, EndCall DEF GrowFail
<1> QED
  BY <1>1, <1>2 DEF GrowFail

LEMMA LostStep ==
  ASSUME ClientInv, NEW c \in Calls, GrowLost(c)
  PROVE  ClientInv'
BY EndCall DEF GrowLost, Dropped

(* A lease with no awaited call may be replaced by a faithful one.         *)
LEMMA SwapKeeps ==
  ASSUME NEW rs, NEW n, NEW a, NEW cs \in [Calls -> CallTypes], NEW ls \in [Handles -> Leases],
         NEW h \in Handles, NEW lease \in Leases,
         Coherent(ls, cs, rs, n, a), Agreed(ls, cs),
         LeaseFaithful(lease, rs, n, a),
         \A c \in Calls : RequestHarmless(cs[c], lease, rs, a),
         \A c \in Calls : Awaited(cs[c]) => cs[c].handle # h,
         \A k \in Handles \ {h} :
           Holds(ls[k]) /\ Holds(lease) /\ ls[k].id = lease.id => ls[k].admission # lease.admission
  PROVE  LET ms == [ls EXCEPT ![h] = lease]
         IN  Coherent(ms, cs, rs, n, a) /\ Agreed(ms, cs)
<1> DEFINE ms == [ls EXCEPT ![h] = lease]
<1>1. ms[h] = lease /\ \A k \in Handles \ {h} : ms[k] = ls[k]
  OBVIOUS
<1> HIDE DEF ms
<1>2. ASSUME NEW k \in Handles
      PROVE  /\ LeaseFaithful(ms[k], rs, n, a)
             /\ \A c \in Calls : RequestHarmless(cs[c], ms[k], rs, a)
  <2>1. LeaseFaithful(ls[k], rs, n, a) /\ \A c \in Calls : RequestHarmless(cs[c], ls[k], rs, a)
    BY DEF Coherent
  <2> QED BY <1>1, <2>1
<1>3. ASSUME NEW c \in Calls
      PROVE  ReplyTruthful(cs[c], ms[cs[c].handle], rs, n, a)
  <2>1. CASE cs[c].phase = "answered"
    <3>1. Awaited(cs[c]) /\ cs[c].handle \in Handles
      BY <2>1, CallFields DEF CallTypes, Awaited
    <3>2. ms[cs[c].handle] = ls[cs[c].handle]
      BY <1>1, <3>1
    <3> QED BY <3>2 DEF Coherent
  <2> QED BY <2>1 DEF ReplyTruthful
<1>4. /\ \A op \in Operations : Books(rs[op], n[op], a[op])
      /\ \A c \in Calls : cs[c].phase = "sent" => cs[c].cursor <= n[cs[c].id]
  BY DEF Coherent
<1>5. Coherent(ms, cs, rs, n, a)
  BY <1>2, <1>3, <1>4 DEF Coherent
<1>6. ASSUME NEW j \in Handles, NEW k \in Handles, Holds(ms[j]), Holds(ms[k]),
             ms[j].id = ms[k].id, ms[j].admission = ms[k].admission
      PROVE  j = k
  <2>1. CASE j # h /\ k # h
    BY <1>1, <1>6, <2>1 DEF Agreed
  <2>2. CASE j = h /\ k # h
    BY <1>1, <1>6, <2>2
  <2>3. CASE j # h /\ k = h
    BY <1>1, <1>6, <2>3
  <2> QED BY <2>1, <2>2, <2>3
<1>7. ASSUME NEW c \in Calls, Awaited(cs[c])
      PROVE  Asks(cs[c], ms[cs[c].handle])
  <2>1. cs[c].handle \in Handles
    BY <1>7, CallFields DEF CallTypes, Awaited
  <2>2. ms[cs[c].handle] = ls[cs[c].handle]
    BY <1>1, <1>7, <2>1
  <2> QED BY <1>7, <2>2 DEF Agreed
<1>8. \A c, d \in Calls :
        Awaited(cs[c]) /\ Awaited(cs[d]) /\ cs[c].handle = cs[d].handle => c = d
  BY DEF Agreed
<1>9. Agreed(ms, cs)
  BY <1>6, <1>7, <1>8 DEF Agreed
<1> QED
  BY <1>5, <1>9 DEF ms

(* A call may begin or be answered if it fits its lease, which awaits no   *)
(* other.                                                                  *)
LEMMA PutKeeps ==
  ASSUME NEW ls, NEW rs, NEW n, NEW a, NEW cs \in [Calls -> CallTypes],
         NEW c \in Calls, NEW call,
         Coherent(ls, cs, rs, n, a), Agreed(ls, cs),
         call.phase = "sent" => call.cursor <= n[call.id],
         \A h \in Handles : RequestHarmless(call, ls[h], rs, a),
         ReplyTruthful(call, ls[call.handle], rs, n, a),
         Asks(call, ls[call.handle]),
         \A d \in Calls \ {c} : Awaited(cs[d]) => cs[d].handle # call.handle
  PROVE  LET ds == [cs EXCEPT ![c] = call]
         IN  Coherent(ls, ds, rs, n, a) /\ Agreed(ls, ds)
<1> DEFINE ds == [cs EXCEPT ![c] = call]
<1>1. ds[c] = call /\ \A d \in Calls \ {c} : ds[d] = cs[d]
  OBVIOUS
<1> HIDE DEF ds
<1>2. ASSUME NEW d \in Calls
      PROVE  /\ ds[d].phase = "sent" => ds[d].cursor <= n[ds[d].id]
             /\ \A h \in Handles : RequestHarmless(ds[d], ls[h], rs, a)
             /\ ReplyTruthful(ds[d], ls[ds[d].handle], rs, n, a)
  <2>1. CASE d = c
    BY <1>1, <2>1
  <2>2. CASE d # c
    BY <1>1, <2>2 DEF Coherent
  <2> QED BY <2>1, <2>2
<1>3. Coherent(ls, ds, rs, n, a)
  BY <1>2 DEF Coherent
<1>4. \A d \in Calls : Awaited(ds[d]) => Asks(ds[d], ls[ds[d].handle])
  BY <1>1 DEF Agreed
<1>5. \A d, e \in Calls :
        Awaited(ds[d]) /\ Awaited(ds[e]) /\ ds[d].handle = ds[e].handle => d = e
  BY <1>1 DEF Agreed
<1>6. Agreed(ls, ds)
  BY <1>4, <1>5 DEF Agreed
<1> QED
  BY <1>3, <1>6 DEF ds

(* A current lease is not older than its admission.                        *)
LEMMA CurrentCursor ==
  ASSUME NEW r, NEW n, NEW a, NEW lease,
         Books(r, n, a), Faithful(lease, r, n, a), CurrentIn(lease, r, a)
  PROVE  a <= lease.growthCursor
<1>1. CASE Level(lease, r)
  BY <1>1 DEF Books, CurrentIn, Level
<1>2. CASE \E g \in r.lastGrowth : g.expectedGrowthCursor = lease.growthCursor
  BY <1>2 DEF Books, CurrentIn
<1> QED
  BY <1>1, <1>2 DEF Faithful, Behind, Result

LEMMA RequestFields ==
  ASSUME NEW req \in Requests
  PROVE  /\ req.incrementId \in Increments /\ req.additional \in Growths /\ req.limits \in Limits
         /\ req.additional \in Charge /\ req.limits \in [Budgets -> Nat]
         /\ req.additional.units \in [Budgets -> Nat]
<1>1. req.incrementId \in Increments /\ req.additional \in Growths /\ req.limits \in Limits
  BY DEF Requests
<1>2. req.additional \in Charge /\ req.limits \in [Budgets -> Nat]
  BY <1>1, ConstantsAssumption
<1> QED
  BY <1>1, <1>2 DEF Charge

(* grow, up to its call.                                                   *)
LEMMA SendStep ==
  ASSUME IsFiniteSet(Calls), MaxAwaited = 1, ClientInv,
         NEW h \in Handles, NEW c \in Calls, NEW req \in Requests, GrowSend(h, c, req)
  PROVE  ClientInv'
<1> DEFINE old == leases[h]
           lease == [old EXCEPT !.unresolved = {req}]
           call == [phase |-> "sent", awaited |-> TRUE, handle |-> h, mode |-> old.mode,
                    id |-> old.id, request |-> req, cursor |-> old.growthCursor]
           ms == [leases EXCEPT ![h] = lease]
           op == old.id
<1>1. /\ leases \in [Handles -> Leases] /\ calls \in [Calls -> CallTypes]
      /\ Coherent(leases, calls, reservations, issued, admitted) /\ Agreed(leases, calls)
  BY DEF ClientInv, ClientTyped, CallTypes
<1>2. /\ Holds(old) /\ old.unresolved \in {{}, {req}} /\ old \in Leases /\ op \in Operations
      /\ leases' = ms /\ calls' = [calls EXCEPT ![c] = call]
  BY HandleFields DEF GrowSend, HasLease, Holds, ClientInv
<1>3. /\ lease \in Leases /\ lease.id = op /\ lease.mode = old.mode
      /\ lease.admission = old.admission /\ lease.growthCursor = old.growthCursor
      /\ lease.reserved = old.reserved /\ lease.unresolved = {req} /\ Holds(lease)
  <2> HIDE DEF old
  <2> QED BY <1>2 DEF Leases, Holds
<1>4. /\ call \in Sent /\ call.phase = "sent" /\ call.handle = h /\ call.id = op
      /\ call.mode = lease.mode
      /\ call.request = req /\ call.cursor = old.growthCursor
  <2>1. old.mode \in Modes \cup {""} /\ old.growthCursor \in Nat
    BY <1>2 DEF Leases
  <2> HIDE DEF old
  <2> QED BY <1>2, <1>3, <2>1 DEF Sent
<1> HIDE DEF lease, call
<1>5. \A d \in Calls : Awaited(calls[d]) => calls[d].handle # h
  <2>1. IsFiniteSet(Awaiting(h))
    BY FS_Subset DEF Awaiting
  <2>2. Cardinality(Awaiting(h)) < 1
    BY DEF GrowSend
  <2>3. Awaiting(h) = {}
    BY <2>1, <2>2, FS_EmptySet, FS_CardinalityType
  <2> QED BY <2>3 DEF Awaiting, Awaited
<1>6. Faithful(old, reservations[op], issued[op], admitted[op])
  BY <1>1, <1>2 DEF Coherent, LeaseFaithful
<1>7. LeaseFaithful(lease, reservations, issued, admitted)
  <2>1. ASSUME NEW q \in old.unresolved, Behind(old, q, reservations[op])
        PROVE  Behind(lease, req, reservations[op])
    BY <1>2, <1>3, <2>1 DEF Behind, Result
  <2>2. Level(old, reservations[op]) => Level(lease, reservations[op])
    BY <1>3 DEF Level
  <2>3. Faithful(lease, reservations[op], issued[op], admitted[op])
    <3> HIDE DEF old, op
    <3> QED BY <1>3, <1>6, <2>1, <2>2 DEF Faithful, CurrentIn
  <2> QED BY <1>3, <2>3 DEF LeaseFaithful
<1>8. ASSUME NEW d \in Calls
      PROVE  RequestHarmless(calls[d], lease, reservations, admitted)
  <2>1. RequestHarmless(calls[d], old, reservations, admitted)
    BY <1>1 DEF Coherent
  <2>2. old.unresolved \subseteq lease.unresolved
    BY <1>2, <1>3
  <2> HIDE DEF old, op
  <2> QED BY <1>2, <1>3, <2>1, <2>2 DEF RequestHarmless, Harmless, CurrentIn, op
<1>9. Coherent(ms, calls, reservations, issued, admitted) /\ Agreed(ms, calls)
  <2>1. \A k \in Handles \ {h} :
          Holds(leases[k]) /\ Holds(lease) /\ leases[k].id = lease.id =>
            leases[k].admission # lease.admission
    BY <1>1, <1>2, <1>3 DEF Agreed
  <2> HIDE DEF lease, call
  <2> QED BY <1>1, <1>3, <1>5, <1>7, <1>8, <2>1, SwapKeeps
<1>10. /\ ms[h] = lease /\ \A k \in Handles \ {h} : ms[k] = leases[k]
       /\ ms \in [Handles -> Leases]
  BY <1>1, <1>3
<1>11. ASSUME NEW k \in Handles
       PROVE  RequestHarmless(call, ms[k], reservations, admitted)
  <2>1. CASE k = h
    BY <1>3, <1>4, <1>10, <2>1 DEF RequestHarmless, Harmless
  <2>2. CASE k # h
    <3> DEFINE other == leases[k]
    <3>1. ASSUME Holds(other), other.id = op, CurrentIn(other, reservations[op], admitted[op])
          PROVE  call.cursor < other.growthCursor
      <4>1. /\ Faithful(other, reservations[op], issued[op], admitted[op])
            /\ Books(reservations[op], issued[op], admitted[op])
        BY <1>1, <1>2, <3>1 DEF Coherent, LeaseFaithful
      <4>2. admitted[op] <= other.growthCursor
        BY <3>1, <4>1, CurrentCursor
      <4>3. other.admission # old.admission
        BY <1>1, <1>2, <2>2, <3>1 DEF Agreed
      <4>4. old.growthCursor < admitted[op]
        BY <1>6, <3>1, <4>3 DEF Faithful, CurrentIn
      <4>5. /\ old.growthCursor \in Nat /\ admitted[op] \in Nat
            /\ other.growthCursor \in Nat
        BY <1>1, <1>2, LeaseFields DEF ClientInv, ClientTyped
      <4> HIDE DEF other, old, op
      <4> QED BY <1>4, <4>2, <4>4, <4>5
    <3> HIDE DEF old, op
    <3> QED BY <1>4, <1>10, <2>2, <3>1 DEF RequestHarmless, Harmless
  <2> QED BY <2>1, <2>2
<1>12. Coherent(ms, calls', reservations, issued, admitted) /\ Agreed(ms, calls')
  <2>1. call.cursor <= issued[call.id]
    BY <1>4, <1>6 DEF Faithful
  <2>2. ReplyTruthful(call, ms[call.handle], reservations, issued, admitted)
    BY <1>4 DEF ReplyTruthful
  <2>3. Asks(call, ms[call.handle])
    BY <1>3, <1>4, <1>10 DEF Asks
  <2>4. \A d \in Calls \ {c} : Awaited(calls[d]) => calls[d].handle # call.handle
    BY <1>4, <1>5
  <2> HIDE DEF ms
  <2> QED BY <1>1, <1>2, <1>9, <1>11, <2>1, <2>2, <2>3, <2>4, PutKeeps
<1>13. /\ TypeOK' /\ reservations' = reservations /\ issued' = issued /\ admitted' = admitted
       /\ admitted \in [Operations -> Nat]
  BY DEF ClientInv, ClientTyped, TypeOK, vars, GrowSend
<1>14. ClientTyped'
  <2>1. calls' \in [Calls -> CallTypes]
    BY <1>1, <1>2, <1>4 DEF CallTypes
  <2> QED BY <1>2, <1>10, <1>13, <2>1 DEF ClientTyped, CallTypes
<1> HIDE DEF ms
<1> QED
  BY <1>2, <1>12, <1>13, <1>14 DEF ClientInv

LEMMA LeaseType ==
  ASSUME NEW mode \in Modes, NEW op \in Operations, NEW cursor \in Nat,
         NEW units \in [Budgets -> Nat]
  PROVE  [mode |-> mode, id |-> op, admission |-> cursor, growthCursor |-> cursor,
          reserved |-> units, unresolved |-> {}] \in Leases
BY DEF Leases

(* reserve: the lease of a new admission, unless its reply is lost.        *)
LEMMA ReserveStep ==
  ASSUME ClientInv, NEW h \in Handles, NEW mode \in Modes, NEW op \in Operations,
         NEW charge \in Charges, NEW lim \in Limits, NEW ttl \in Ttls,
         LeaseReserve(h, mode, op, charge, lim, ttl)
  PROVE  ClientInv'
<1>1. /\ leases \in [Handles -> Leases] /\ calls \in [Calls -> CallTypes]
      /\ admitted \in [Operations -> Nat] /\ TypeOK /\ ClientTyped
      /\ Coherent(leases, calls, reservations, issued, admitted) /\ Agreed(leases, calls)
  BY DEF ClientInv, ClientTyped, CallTypes
<1>2. TypeOK' /\ calls' = calls /\ ~Holds(leases[h])
  BY <1>1, AdmitType DEF LeaseReserve, HasLease, Holds
<1>3. CASE ~Admits(op, charge, lim)
  <2>1. StoreQuiet
    BY <1>1, <1>3, RecoverOnlyIsQuiet DEF LeaseReserve, Admit, RecoverOnly
  <2> QED BY <1>2, <1>3, <2>1, QuietStep DEF LeaseReserve
<1>4. CASE Admits(op, charge, lim)
  <2> DEFINE n == issued[op]
             s == Pending(mode, charge, clock + ttl, n + 1)
             lease == [mode |-> mode, id |-> op, admission |-> n + 1,
                       growthCursor |-> n + 1, reserved |-> charge.units, unresolved |-> {}]
             ms == [leases EXCEPT ![h] = lease]
  <2>1. /\ reservations' = [Recovered EXCEPT ![op] = s]
        /\ issued' = [issued EXCEPT ![op] = n + 1]
        /\ admitted' = [admitted EXCEPT ![op] = n + 1]
        /\ leases' \in {leases, ms}
    BY <1>4 DEF LeaseReserve, Admit
  <2>2. /\ s.growthCursor = n + 1 /\ s.lastGrowth = {} /\ s.reserved = charge.units
        /\ s.mode = mode
    BY DEF Pending, NoReservation
  <2>3. n \in Nat /\ charge.units \in [Budgets -> Nat]
    <3>1. charge \in Charge
      BY ConstantsAssumption
    <3> QED BY <1>1, <3>1 DEF TypeOK, Charge
  <2>4. reservations'[op] = s /\ issued'[op] = n + 1 /\ admitted'[op] = n + 1
    BY <1>1, <2>1, OthersSame
  <2> HIDE DEF s
  <2>5. /\ Coherent(leases, calls, reservations', issued', admitted')
        /\ \A k \in Handles :
             Holds(leases[k]) /\ leases[k].id = op => leases[k].admission # n + 1
    BY <1>1, <2>1, <2>2, AdmissionCoherent
  <2>6. /\ lease \in Leases /\ lease.mode = mode /\ lease.id = op /\ lease.admission = n + 1
        /\ lease.growthCursor = n + 1 /\ lease.reserved = charge.units /\ lease.unresolved = {}
    <3>1. n + 1 \in Nat
      BY <2>3
    <3>2. lease \in Leases
      BY <2>3, <3>1, LeaseType
    <3> QED BY <3>2
  <2> HIDE DEF lease
  <2>7. LeaseFaithful(lease, reservations', issued', admitted')
    <3>1. Level(lease, s)
      BY <2>2, <2>6 DEF Level
    <3>2. Faithful(lease, s, n + 1, n + 1)
      BY <2>2, <2>3, <2>6, <3>1 DEF Faithful
    <3> QED BY <2>4, <2>6, <3>2 DEF LeaseFaithful
  <2>8. ASSUME NEW c \in Calls
        PROVE  RequestHarmless(calls[c], lease, reservations', admitted')
    <3>1. CASE calls[c].phase = "sent" /\ calls[c].id = op
      <4>1. calls[c].cursor \in Nat /\ calls[c].cursor <= n
        BY <1>1, <3>1, CallFields DEF CallTypes, Coherent
      <4>2. calls[c].cursor < lease.growthCursor
        BY <2>3, <2>6, <4>1
      <4> QED BY <4>2 DEF RequestHarmless, Harmless
    <3> QED BY <2>6, <3>1 DEF RequestHarmless
  <2>9. \A c \in Calls : Awaited(calls[c]) => calls[c].handle # h
    BY <1>1, <1>2 DEF Agreed, Asks
  <2>10. Coherent(ms, calls, reservations', issued', admitted') /\ Agreed(ms, calls)
    BY <1>1, <2>5, <2>6, <2>7, <2>8, <2>9, SwapKeeps
  <2>11. leases' \in [Handles -> Leases]
    BY <1>1, <2>1, <2>6
  <2>12. ClientTyped'
    <3>1. admitted' \in [Operations -> Nat]
      BY <1>1, <2>1, <2>3
    <3> QED BY <1>1, <1>2, <2>11, <3>1 DEF ClientTyped, CallTypes
  <2>13. Coherent(leases', calls, reservations', issued', admitted') /\ Agreed(leases', calls)
    BY <1>1, <2>1, <2>5, <2>10
  <2> QED BY <1>2, <2>12, <2>13 DEF ClientInv
<1> QED
  BY <1>3, <1>4

(* The reply of an awaited call is truthful when it leaves the store.      *)
LEMMA RefusalTruthful ==
  ASSUME NEW r, NEW n, NEW a, NEW lease, NEW req, NEW reply, Faithful(lease, r, n, a),
         lease.unresolved = {req},
         Refused(r, lease.mode, req, lease.growthCursor, reply)
  PROVE  Truthful(reply, req, lease, r, n, a)
<1>1. reply.status = "state_error"
  BY DEF Refused
<1>2. ASSUME CurrentIn(lease, r, a)
      PROVE  Level(lease, r) /\ Doomed(r, lease.growthCursor, req)
  <2>1. /\ Doomed(r, lease.growthCursor, req)
        /\ ~\E g \in r.lastGrowth : Asked(r, req, lease.growthCursor, g)
    BY <1>2 DEF Refused, Faithful, CurrentIn
  <2>2. ~Behind(lease, req, r)
    BY <2>1 DEF Behind, Result, Asked
  <2>3. Level(lease, r) \/ Behind(lease, req, r)
    BY <1>2 DEF Faithful
  <2> QED BY <2>1, <2>2, <2>3
<1> QED
  BY <1>1, <1>2 DEF Truthful

LEMMA AnswerFields ==
  ASSUME NEW g \in Growth, NEW reply, Answers(reply, g)
  PROVE  /\ reply \in Replies /\ reply.status # "state_error"
         /\ reply.growthCursor = g.growthCursor /\ reply.reserved = g.reserved
         /\ reply.status = "accepted" <=> g.accepted
<1>1. g.accepted \in BOOLEAN /\ g.growthCursor \in Nat /\ g.reserved \in [Budgets -> Nat]
  BY DEF Growth
<1>2. /\ reply.status \in {"accepted", "denied"} /\ (reply.status = "accepted" <=> g.accepted)
      /\ reply.growthCursor = g.growthCursor /\ reply.reserved = g.reserved
  BY <1>1 DEF Answers
<1>3. reply \in Replies
  BY <1>1 DEF Answers, Replies
<1> QED
  BY <1>2, <1>3

LEMMA ReplayTruthful ==
  ASSUME NEW r \in Reservation, NEW n \in Nat, NEW a \in Nat, NEW lease \in Leases,
         NEW req, NEW reply,
         Books(r, n, a), Faithful(lease, r, n, a), lease.unresolved = {req},
         Replayed(r, lease.mode, req, lease.growthCursor, reply)
  PROVE  reply \in Replies /\ Truthful(reply, req, lease, r, n, a)
<1>1. PICK g \in r.lastGrowth : Asked(r, req, lease.growthCursor, g) /\ Answers(reply, g)
  BY DEF Replayed
<1>2. /\ Active(r) /\ a <= r.growthCursor /\ r.growthCursor <= n
      /\ \A k \in r.lastGrowth : k = g
      /\ a <= g.expectedGrowthCursor /\ g.expectedGrowthCursor < g.growthCursor
      /\ g.growthCursor = r.growthCursor /\ g.reserved = r.reserved
  BY DEF Books, Replayed
<1>3. g \in Growth /\ g.expectedGrowthCursor = lease.growthCursor
  BY <1>1 DEF Asked, Reservation
<1>4. /\ reply \in Replies /\ reply.status # "state_error"
      /\ reply.growthCursor = g.growthCursor /\ reply.reserved = g.reserved
      /\ reply.status = "accepted" <=> g.accepted
  BY <1>1, <1>3, AnswerFields
<1>5. lease.growthCursor \in Nat /\ r.growthCursor \in Nat
  BY LeaseFields, ReservationFields
<1>6. lease.admission = a
  <2>1. ~(lease.growthCursor < a)
    BY <1>2, <1>3, <1>5
  <2> QED BY <2>1 DEF Faithful
<1>7. Result(lease, req, g)
  <2>1. CurrentIn(lease, r, a)
    BY <1>2, <1>6 DEF CurrentIn
  <2>2. ~Level(lease, r)
    BY <1>2, <1>3, <1>5 DEF Level
  <2>3. Behind(lease, req, r)
    BY <2>1, <2>2 DEF Faithful
  <2> QED BY <1>2, <2>3 DEF Behind
<1>8. reply.growthCursor <= n
  BY <1>2, <1>4
<1> QED
  BY <1>4, <1>6, <1>7, <1>8 DEF Truthful

LEMMA DecisionTruthful ==
  ASSUME NEW r \in Reservation, NEW s \in Reservation, NEW n \in Nat, NEW a \in Nat,
         NEW lease \in Leases, NEW call, NEW reply,
         Books(r, n, a), Faithful(lease, r, n, a), Harmless(call, lease, r, a),
         call.cursor = lease.growthCursor,
         DecidedOn(r, s, lease.mode, call.request, lease.growthCursor, reply, n)
  PROVE  reply \in Replies /\ Truthful(reply, call.request, lease, s, n + 1, a)
<1> DEFINE req == call.request
<1>1. PICK g \in s.lastGrowth : Asked(r, req, lease.growthCursor, g) /\ Answers(reply, g)
  BY DEF DecidedOn
<1>2. /\ Active(r) /\ r.growthCursor = lease.growthCursor
      /\ ~SameIncrement(r, req.incrementId) /\ req.additional.keys = r.budgetKeys
      /\ s.growthCursor = n + 1
  BY DEF DecidedOn, Extends
<1>3. /\ g.growthCursor = n + 1 /\ g.reserved = s.reserved
      /\ g.reserved = IF g.accepted THEN Plus(r.reserved, req.additional.units) ELSE r.reserved
  <2>1. PICK k : /\ s.lastGrowth = {k} /\ k.growthCursor = n + 1 /\ k.reserved = s.reserved
                 /\ s.reserved = IF k.accepted THEN Plus(r.reserved, req.additional.units)
                                 ELSE r.reserved
    BY DEF DecidedOn, Extends
  <2>2. k = g
    BY <1>1, <2>1
  <2> QED BY <2>1, <2>2
<1>4. g \in Growth
  BY <1>1 DEF Reservation
<1>5. /\ reply \in Replies /\ reply.status # "state_error"
      /\ reply.growthCursor = g.growthCursor /\ reply.reserved = g.reserved
      /\ reply.status = "accepted" <=> g.accepted
  BY <1>1, <1>4, AnswerFields
<1>6. lease.admission = a
  <2>1. lease.growthCursor \in Nat /\ a <= r.growthCursor
    BY <1>2, LeaseFields DEF Books
  <2>2. ~(lease.growthCursor < a)
    BY <1>2, <2>1
  <2> QED BY <2>2 DEF Faithful
<1>7. Level(lease, r)
  <2>1. CurrentIn(lease, r, a)
    BY <1>2, <1>6 DEF CurrentIn
  <2> QED BY <1>2, <2>1, AppliedIsOwn
<1>8. Result(lease, req, g)
  BY <1>1, <1>3, <1>7 DEF Result, Asked, Level
<1>9. reply.growthCursor <= n + 1
  BY <1>3, <1>5
<1> QED
  BY <1>5, <1>6, <1>8, <1>9 DEF Truthful

(* The call takes effect in the store.                                     *)
LEMMA ArriveStep ==
  ASSUME Cardinality(Budgets) <= MaxRetainedBudgetKeys, ClientInv,
         NEW c \in Calls, GrowArrive(c)
  PROVE  ClientInv'
<1> DEFINE call == calls[c]
           req == call.request
           op == call.id
           h == call.handle
           r == Recovered[op]
           n == issued[op]
           a == admitted[op]
           reply == GrowReply(call.mode, op, req, call.cursor)
           answer == [phase |-> "answered", awaited |-> TRUE, handle |-> h,
                      request |-> req, reply |-> reply]
           new == IF call.awaited THEN answer ELSE NoCall
<1>1. /\ leases \in [Handles -> Leases] /\ calls \in [Calls -> CallTypes]
      /\ admitted \in [Operations -> Nat] /\ TypeOK /\ ClientTyped
      /\ Coherent(leases, calls, reservations, issued, admitted) /\ Agreed(leases, calls)
  BY DEF ClientInv, ClientTyped, CallTypes
<1>2. /\ call.phase = "sent" /\ call \in Sent /\ h \in Handles /\ op \in Operations
      /\ req \in Requests /\ call.cursor \in Nat /\ call.mode \in Modes \cup {""}
  <2>1. call.phase = "sent" /\ call \in CallTypes
    BY <1>1 DEF GrowArrive
  <2>2. call \in Sent /\ h \in Handles /\ op \in Operations /\ req \in Requests
        /\ call.cursor \in Nat
    BY <2>1, CallFields DEF CallTypes
  <2> HIDE DEF call
  <2>3. call.mode \in Modes \cup {""}
    BY <2>2 DEF Sent
  <2> QED BY <2>1, <2>2, <2>3
<1>3. /\ Grow(op, call.mode, req.incrementId, call.cursor, req.additional, req.limits)
      /\ calls' = [calls EXCEPT ![c] = new]
      /\ leases' = leases /\ admitted' = admitted
  BY DEF GrowArrive
<1>4. r \in Reservation /\ n \in Nat /\ a \in Nat
  BY <1>1, <1>2, RecoveredType DEF TypeOK
<1>5. Books(r, n, a)
  <2>1. Books(reservations[op], n, a) /\ Same(reservations[op], r)
    BY <1>1, <1>2, SameRecovered DEF Coherent
  <2> QED BY <2>1, SameKeeps
<1>6. \/ /\ reservations' = Recovered /\ issued' = issued
         /\ \/ Refused(r, call.mode, req, call.cursor, reply)
            \/ Replayed(r, call.mode, req, call.cursor, reply)
      \/ \E s \in Reservation :
           /\ reservations' = [Recovered EXCEPT ![op] = s]
           /\ issued' = [issued EXCEPT ![op] = n + 1]
           /\ DecidedOn(r, s, call.mode, req, call.cursor, reply, n)
  <2>1. Active(Recovered[op]) => \A g, k \in Recovered[op].lastGrowth : g = k
    BY <1>5 DEF Books
  <2> HIDE DEF call, req, op, new
  <2>2. \/ /\ reservations' = Recovered /\ issued' = issued
           /\ \/ Refused(Recovered[op], call.mode, req, call.cursor,
                         GrowReply(call.mode, op, req, call.cursor))
              \/ Replayed(Recovered[op], call.mode, req, call.cursor,
                          GrowReply(call.mode, op, req, call.cursor))
        \/ \E s \in Reservation :
             /\ reservations' = [Recovered EXCEPT ![op] = s]
             /\ issued' = [issued EXCEPT ![op] = @ + 1]
             /\ DecidedOn(Recovered[op], s, call.mode, req, call.cursor,
                          GrowReply(call.mode, op, req, call.cursor), issued[op])
    BY <1>1, <1>2, <1>3, <2>1, GrowAnswers
  <2> QED BY <2>2
<1> HIDE DEF reply
(* The store.                                                              *)
<1>7. Coherent(leases, calls, reservations', issued', admitted')
  <2>1. CASE reservations' = Recovered /\ issued' = issued
    BY <1>1, <1>3, <2>1, RecoverOnlyIsQuiet, QuietCoherent
  <2>2. ASSUME NEW s \in Reservation,
               reservations' = [Recovered EXCEPT ![op] = s],
               issued' = [issued EXCEPT ![op] = n + 1],
               DecidedOn(r, s, call.mode, req, call.cursor, reply, n)
        PROVE  Coherent(leases, calls, reservations', issued', admitted')
    BY <1>1, <1>2, <1>3, <2>2, DecisionCoherent
  <2> QED BY <1>6, <2>1, <2>2
<1>8. TypeOK'
  <2>1. /\ req.incrementId \in Increments /\ req.additional \in Growths
        /\ req.limits \in Limits
    BY <1>2, RequestFields
  <2> HIDE DEF call, req, op
  <2> QED BY <1>1, <1>2, <1>3, <2>1, GrowType
(* The call.                                                               *)
<1>9. CASE ~call.awaited
  <2>1. \A d \in Calls : Dropped(calls[d], calls'[d])
    <3>1. \A d \in Calls : calls'[d] = IF d = c THEN NoCall ELSE calls[d]
      BY <1>1, <1>3, <1>9
    <3> QED BY <3>1 DEF Dropped
  <2>2. calls' \in [Calls -> CallTypes]
    BY <1>1, <1>3, <1>9 DEF CallTypes
  <2>3. Coherent(leases, calls', reservations', issued', admitted') /\ Agreed(leases, calls')
    BY <1>1, <1>7, <2>1, DropKeeps
  <2>4. ClientTyped'
    BY <1>1, <1>3, <2>2 DEF ClientTyped, CallTypes
  <2> QED BY <1>3, <1>8, <2>3, <2>4 DEF ClientInv
<1>10. CASE call.awaited
  <2> DEFINE lease == leases[h]
  <2>1. Awaited(call)
    BY <1>2, <1>10 DEF Awaited
  <2>2. /\ Holds(lease) /\ lease.unresolved = {req} /\ lease.id = op
        /\ lease.mode = call.mode /\ lease.growthCursor = call.cursor
    BY <1>1, <1>2, <2>1 DEF Agreed, Asks
  <2>3. lease \in Leases
    BY <1>1, <1>2
  <2>4. Faithful(lease, r, n, a) /\ Harmless(call, lease, r, a)
    <3>1. Faithful(lease, reservations[op], n, a) /\ Harmless(call, lease, reservations[op], a)
      BY <1>1, <1>2, <2>2 DEF Coherent, LeaseFaithful, RequestHarmless
    <3>2. Same(reservations[op], r)
      BY <1>1, <1>2, SameRecovered
    <3> HIDE DEF lease, call, op, r, n, a
    <3> QED BY <3>1, <3>2, SameKeeps
  <2>5. /\ reply \in Replies
        /\ Truthful(reply, req, lease, reservations'[op], issued'[op], admitted'[op])
    <3> HIDE DEF lease, call, req, op, r, n, a
    <3>1. CASE /\ reservations' = Recovered /\ issued' = issued
               /\ Refused(r, call.mode, req, call.cursor, reply)
      <4>1. Truthful(reply, req, lease, r, n, a)
        BY <2>2, <2>4, <3>1, RefusalTruthful
      <4>2. reply \in Replies
        BY <3>1 DEF Refused, Replies
      <4> QED BY <1>3, <3>1, <4>1, <4>2 DEF r, n, a
    <3>2. CASE /\ reservations' = Recovered /\ issued' = issued
               /\ Replayed(r, call.mode, req, call.cursor, reply)
      <4>1. reply \in Replies /\ Truthful(reply, req, lease, r, n, a)
        BY <1>4, <1>5, <2>2, <2>3, <2>4, <3>2, ReplayTruthful
      <4> QED BY <1>3, <3>2, <4>1 DEF r, n, a
    <3>3. ASSUME NEW s \in Reservation,
                 reservations' = [Recovered EXCEPT ![op] = s],
                 issued' = [issued EXCEPT ![op] = n + 1],
                 DecidedOn(r, s, call.mode, req, call.cursor, reply, n)
          PROVE  /\ reply \in Replies
                 /\ Truthful(reply, req, lease, reservations'[op], issued'[op], admitted'[op])
      <4>1. reply \in Replies /\ Truthful(reply, req, lease, s, n + 1, a)
        BY <1>4, <1>5, <2>2, <2>3, <2>4, <3>3, DecisionTruthful DEF req
      <4>2. reservations'[op] = s /\ issued'[op] = n + 1
        BY <1>1, <1>2, <3>3, OthersSame DEF n
      <4> QED BY <1>3, <4>1, <4>2 DEF a
    <3> QED BY <1>6, <3>1, <3>2, <3>3
  <2>6. /\ answer \in Answered /\ answer.phase = "answered" /\ answer.handle = h
        /\ answer.request = req /\ answer.reply = reply
    <3> HIDE DEF call, req, h
    <3> QED BY <1>2, <2>5 DEF Answered
  <2>7. calls' = [calls EXCEPT ![c] = answer]
    BY <1>3, <1>10
  <2> HIDE DEF answer
  <2>8. ReplyTruthful(answer, leases[answer.handle], reservations', issued', admitted')
    BY <2>2, <2>5, <2>6 DEF ReplyTruthful
  <2>9. Asks(answer, leases[answer.handle])
    BY <2>2, <2>6 DEF Asks
  <2>10. \A d \in Calls \ {c} : Awaited(calls[d]) => calls[d].handle # answer.handle
    BY <1>1, <2>1, <2>6 DEF Agreed
  <2>11. /\ answer.phase = "sent" => answer.cursor <= issued'[answer.id]
         /\ \A k \in Handles : RequestHarmless(answer, leases[k], reservations', admitted')
    BY <2>6 DEF RequestHarmless
  <2>12. Coherent(leases, calls', reservations', issued', admitted') /\ Agreed(leases, calls')
    <3> HIDE DEF call
    <3> QED BY <1>1, <1>7, <2>7, <2>8, <2>9, <2>10, <2>11, PutKeeps
  <2>13. ClientTyped'
    <3>1. calls' \in [Calls -> CallTypes]
      BY <1>1, <2>6, <2>7 DEF CallTypes
    <3> QED BY <1>1, <1>3, <3>1 DEF ClientTyped, CallTypes
  <2> QED BY <1>3, <1>8, <2>12, <2>13 DEF ClientInv
<1> QED
  BY <1>9, <1>10

(* The reply returns: what the lease becomes.                              *)
LEMMA ReturnFaithful ==
  ASSUME NEW r \in Reservation, NEW n \in Nat, NEW a \in Nat, NEW old \in Leases,
         NEW lease \in Leases, NEW req \in Requests, NEW reply \in Replies,
         Books(r, n, a), Faithful(old, r, n, a), old.unresolved = {req},
         Truthful(reply, req, old, r, n, a),
         lease.mode = old.mode, lease.admission = old.admission, lease.unresolved = {},
         \/ /\ reply.status = "state_error"
            /\ lease.growthCursor = old.growthCursor /\ lease.reserved = old.reserved
         \/ /\ reply.status # "state_error" /\ lease.growthCursor = reply.growthCursor
            /\ lease.reserved = IF reply.status = "accepted" THEN reply.reserved
                                ELSE old.reserved
  PROVE  /\ Faithful(lease, r, n, a)
         /\ \A call : /\ call.cursor \in Nat /\ Harmless(call, old, r, a)
                      => Harmless(call, lease, r, a)
<1>1. /\ old.admission <= a /\ old.growthCursor <= n
      /\ old.admission # a => old.growthCursor < a
      /\ CurrentIn(old, r, a) => r.mode = old.mode
  BY DEF Faithful
<1>2. CurrentIn(lease, r, a) <=> CurrentIn(old, r, a)
  BY DEF CurrentIn
<1>3. CASE reply.status = "state_error"
  <2>1. CurrentIn(old, r, a) => Level(lease, r) /\ Doomed(r, old.growthCursor, req)
    BY <1>3 DEF Truthful, Level
  <2>2. Faithful(lease, r, n, a)
    BY <1>1, <1>2, <1>3, <2>1 DEF Faithful
  <2>3. ASSUME NEW call, Harmless(call, old, r, a)
        PROVE  Harmless(call, lease, r, a)
    <3>1. CurrentIn(old, r, a) /\ call.request \in old.unresolved =>
            Doomed(r, old.growthCursor, call.request)
      BY <2>1
    <3> QED BY <1>2, <1>3, <2>3, <3>1 DEF Harmless
  <2> QED BY <2>2, <2>3
<1>4. CASE reply.status # "state_error"
  <2>1. /\ reply.growthCursor <= n /\ lease.growthCursor = reply.growthCursor
        /\ old.admission # a => reply.growthCursor < a
    BY <1>4 DEF Truthful
  <2>2. ASSUME CurrentIn(old, r, a)
        PROVE  Level(lease, r) /\ old.growthCursor < lease.growthCursor
    <3>1. PICK g \in r.lastGrowth :
            /\ Result(old, req, g)
            /\ reply.growthCursor = g.growthCursor /\ reply.reserved = g.reserved
            /\ reply.status = "accepted" <=> g.accepted
      BY <1>4, <2>2 DEF Truthful
    <3>2. /\ g.expectedGrowthCursor < g.growthCursor
          /\ g.growthCursor = r.growthCursor /\ g.reserved = r.reserved
      BY <2>2 DEF Books, CurrentIn
    <3>3. lease.reserved = r.reserved
      <4>1. CASE reply.status = "accepted"
        BY <1>4, <3>1, <3>2, <4>1
      <4>2. CASE reply.status # "accepted"
        BY <1>4, <3>1, <3>2, <4>2 DEF Result
      <4> QED BY <4>1, <4>2
    <3>4. g.expectedGrowthCursor = old.growthCursor
      BY <3>1 DEF Result
    <3> QED BY <2>1, <3>1, <3>2, <3>3, <3>4 DEF Level
  <2>3. Faithful(lease, r, n, a)
    BY <1>1, <1>2, <2>1, <2>2 DEF Faithful
  <2>4. ASSUME NEW call, call.cursor \in Nat, Harmless(call, old, r, a)
        PROVE  Harmless(call, lease, r, a)
    <3>1. old.growthCursor \in Nat /\ lease.growthCursor \in Nat
      BY LeaseFields
    <3>2. CurrentIn(old, r, a) =>
            call.cursor < old.growthCursor \/ call.cursor = old.growthCursor
      BY <2>4 DEF Harmless
    <3>3. CurrentIn(old, r, a) => old.growthCursor < lease.growthCursor
      BY <2>2
    <3> HIDE DEF CurrentIn
    <3>4. CurrentIn(old, r, a) => call.cursor < lease.growthCursor
      BY <2>4, <3>1, <3>2, <3>3
    <3> QED BY <1>2, <3>4 DEF Harmless
  <2> QED BY <2>3, <2>4
<1> QED
  BY <1>3, <1>4

LEMMA ReturnStep ==
  ASSUME ClientInv, NEW c \in Calls, GrowReturn(c)
  PROVE  ClientInv'
<1> DEFINE call == calls[c]
           req == call.request
           reply == call.reply
           h == call.handle
           old == leases[h]
           op == old.id
           r == reservations[op]
           n == issued[op]
           a == admitted[op]
           done == [calls EXCEPT ![c] = NoCall]
           lease == IF reply.status = "state_error" THEN [old EXCEPT !.unresolved = {}]
                    ELSE IF ~ExtendsCopy(old, req, reply) THEN old
                    ELSE [old EXCEPT !.growthCursor = reply.growthCursor,
                                     !.reserved = IF reply.status = "accepted"
                                                    THEN reply.reserved ELSE @,
                                     !.unresolved = {}]
<1>1. /\ leases \in [Handles -> Leases] /\ calls \in [Calls -> CallTypes]
      /\ admitted \in [Operations -> Nat] /\ TypeOK /\ ClientTyped
      /\ Coherent(leases, calls, reservations, issued, admitted) /\ Agreed(leases, calls)
  BY DEF ClientInv, ClientTyped, CallTypes
<1>2. /\ call.phase = "answered" /\ h \in Handles /\ req \in Requests /\ reply \in Replies
      /\ Awaited(call)
  <2>1. call.phase = "answered" /\ call \in CallTypes
    BY <1>1 DEF GrowReturn
  <2> HIDE DEF call
  <2> QED BY <2>1, CallFields DEF CallTypes, Awaited
<1>3. Holds(old) /\ old.unresolved = {req} /\ old \in Leases /\ op \in Operations
  BY <1>1, <1>2, HandleFields DEF Agreed, Asks
<1>4. /\ leases' = [leases EXCEPT ![h] = lease] /\ calls' = done
      /\ reservations' = reservations /\ issued' = issued /\ admitted' = admitted
  BY DEF GrowReturn, vars
<1>5. r \in Reservation /\ n \in Nat /\ a \in Nat
  BY <1>1, <1>3 DEF TypeOK
<1>6. Books(r, n, a) /\ Faithful(old, r, n, a) /\ Truthful(reply, req, old, r, n, a)
  BY <1>1, <1>2, <1>3 DEF Coherent, LeaseFaithful, ReplyTruthful
<1>7. \/ lease = old
      \/ /\ lease \in Leases /\ lease.id = old.id /\ lease.mode = old.mode
         /\ lease.admission = old.admission /\ lease.unresolved = {}
         /\ \/ /\ reply.status = "state_error"
               /\ lease.growthCursor = old.growthCursor /\ lease.reserved = old.reserved
            \/ /\ reply.status # "state_error" /\ lease.growthCursor = reply.growthCursor
               /\ lease.reserved = IF reply.status = "accepted" THEN reply.reserved
                                   ELSE old.reserved
  <2>1. CASE reply.status = "state_error"
    <3> DEFINE m == [old EXCEPT !.unresolved = {}]
    <3>1. lease = m
      BY <2>1
    <3> HIDE DEF old, lease, reply
    <3>2. /\ m \in Leases /\ m.id = old.id /\ m.mode = old.mode
          /\ m.admission = old.admission /\ m.unresolved = {}
          /\ m.growthCursor = old.growthCursor /\ m.reserved = old.reserved
      BY <1>3 DEF Leases
    <3> QED BY <2>1, <3>1, <3>2
  <2>2. CASE reply.status # "state_error" /\ ExtendsCopy(old, req, reply)
    <3> DEFINE units == IF reply.status = "accepted" THEN reply.reserved ELSE old.reserved
               m == [old EXCEPT !.growthCursor = reply.growthCursor, !.reserved = units,
                                !.unresolved = {}]
    <3>1. lease = m
      BY <2>2
    <3>2. reply.growthCursor \in Nat /\ units \in [Budgets -> Nat]
      <4>1. reply.growthCursor \in Nat /\ reply.reserved \in [Budgets -> Nat]
        <5> HIDE DEF reply
        <5> QED BY <1>2, <2>2 DEF Replies
      <4>2. old.reserved \in [Budgets -> Nat]
        BY <1>3, LeaseFields
      <4> QED BY <4>1, <4>2
    <3> HIDE DEF old, lease, reply, units
    <3>3. /\ m \in Leases /\ m.id = old.id /\ m.mode = old.mode
          /\ m.admission = old.admission /\ m.unresolved = {}
          /\ m.growthCursor = reply.growthCursor /\ m.reserved = units
      BY <1>3, <3>2 DEF Leases
    <3> QED BY <2>2, <3>1, <3>3 DEF units
  <2> QED BY <2>1, <2>2
<1> HIDE DEF lease
<1>8. Coherent(leases, done, reservations, issued, admitted) /\ Agreed(leases, done)
      /\ done \in [Calls -> CallTypes]
  <2>1. done \in [Calls -> CallTypes]
    BY <1>1 DEF CallTypes
  <2>2. \A d \in Calls : Dropped(calls[d], done[d])
    <3>1. \A d \in Calls : done[d] = IF d = c THEN NoCall ELSE calls[d]
      BY <1>1
    <3> QED BY <3>1 DEF Dropped
  <2> HIDE DEF done
  <2> QED BY <1>1, <2>1, <2>2, DropKeeps
<1>9. \A d \in Calls : Awaited(done[d]) => done[d].handle # h
  <2>1. /\ done[c] = NoCall /\ ~Awaited(done[c])
        /\ \A d \in Calls \ {c} : done[d] = calls[d]
    BY <1>1 DEF NoCall, Awaited
  <2> HIDE DEF done
  <2> QED BY <1>1, <1>2, <2>1 DEF Agreed
<1>10. /\ Coherent(leases', done, reservations, issued, admitted) /\ Agreed(leases', done)
       /\ leases' \in [Handles -> Leases]
  <2>1. CASE lease = old
    <3>1. leases' = leases
      BY <1>1, <1>4, <2>1
    <3> QED BY <1>1, <1>8, <3>1
  <2>2. CASE lease # old
    <3> HIDE DEF req, reply, op, r, n, a
    <3>1. /\ Faithful(lease, r, n, a)
          /\ \A d : /\ d.cursor \in Nat /\ Harmless(d, old, r, a)
                    => Harmless(d, lease, r, a)
      <4> HIDE DEF old
      <4> QED BY <1>2, <1>3, <1>5, <1>6, <1>7, <2>2, ReturnFaithful
    <3>2. LeaseFaithful(lease, reservations, issued, admitted)
      <4>1. Faithful(lease, reservations[lease.id], issued[lease.id], admitted[lease.id])
        BY <1>7, <2>2, <3>1 DEF r, n, a, op
      <4>2. Holds(lease) /\ lease.unresolved = {}
        BY <1>3, <1>7, <2>2 DEF Holds
      <4> QED BY <4>1, <4>2 DEF LeaseFaithful
    <3>3. ASSUME NEW d \in Calls
          PROVE  RequestHarmless(done[d], lease, reservations, admitted)
      <4>1. CASE done[d].phase = "sent" /\ Holds(lease) /\ lease.id = done[d].id
        <5>1. RequestHarmless(done[d], old, reservations, admitted)
          BY <1>2, <1>8 DEF Coherent
        <5>2. old.id = done[d].id
          BY <1>7, <2>2, <4>1
        <5>3. Harmless(done[d], old, r, a)
          BY <1>3, <4>1, <5>1, <5>2 DEF RequestHarmless, r, a, op
        <5>4. done[d].cursor \in Nat
          BY <1>8, <4>1, CallFields DEF CallTypes
        <5>5. Harmless(done[d], lease, r, a)
          BY <3>1, <5>3, <5>4
        <5> QED BY <5>2, <5>5 DEF RequestHarmless, r, a, op
      <4> QED BY <4>1 DEF RequestHarmless
    <3>4. \A k \in Handles \ {h} :
            Holds(leases[k]) /\ Holds(lease) /\ leases[k].id = lease.id =>
              leases[k].admission # lease.admission
      BY <1>1, <1>2, <1>3, <1>7, <2>2 DEF Agreed
    <3>5. lease \in Leases
      BY <1>7, <2>2
    <3>6. leases' \in [Handles -> Leases]
      BY <1>1, <1>4, <3>5
    <3> HIDE DEF done, old, h
    <3> QED BY <1>1, <1>2, <1>4, <1>8, <1>9, <3>2, <3>3, <3>4, <3>5, <3>6, SwapKeeps
  <2> QED BY <2>1, <2>2
<1>11. TypeOK'
  BY <1>1 DEF TypeOK, GrowReturn, vars
<1>12. ClientTyped'
  <2> HIDE DEF done
  <2> QED BY <1>1, <1>4, <1>8, <1>10 DEF ClientTyped, CallTypes
<1> HIDE DEF done
<1> QED
  BY <1>4, <1>10, <1>11, <1>12 DEF ClientInv
-----------------------------------------------------------------------------
(* The theorems.                                                           *)

LEMMA ClientInit == LeaseInit => ClientInv
<1> SUFFICES ASSUME LeaseInit
             PROVE  ClientInv
  OBVIOUS
<1>1. TypeOK
  BY CursorInit DEF LeaseInit
<1>2. /\ \A op \in Operations : reservations[op] = NoReservation /\ issued[op] = 0
      /\ \A op \in Operations : admitted[op] = 0
      /\ \A h \in Handles : leases[h] = NoLease
      /\ \A c \in Calls : calls[c] = NoCall
  BY DEF LeaseInit, Init
<1>3. NoCall.phase = "idle"
  BY DEF NoCall
<1>4. NoLease.unresolved = {} /\ ~Holds(NoLease)
  BY DEF NoLease, Holds
<1>5. ~Active(NoReservation)
  BY DEF NoReservation, Active
<1>6. NoLease \in Leases
  BY DEF NoLease, Leases, NoUnits
<1>7. ClientTyped
  BY <1>6 DEF LeaseInit, ClientTyped
<1>8. Coherent(leases, calls, reservations, issued, admitted)
  BY <1>2, <1>3, <1>4, <1>5
     DEF Coherent, Books, LeaseFaithful, RequestHarmless, ReplyTruthful
<1>9. Agreed(leases, calls)
  BY <1>2, <1>3, <1>4 DEF Agreed, Awaited
<1> QED
  BY <1>1, <1>7, <1>8, <1>9 DEF ClientInv

LEMMA ClientStep ==
  ASSUME Cardinality(Budgets) <= MaxRetainedBudgetKeys, IsFiniteSet(Calls), MaxAwaited = 1,
         ClientInv, [LeaseNext]_allVars
  PROVE  ClientInv'
<1>1. TypeOK
  BY DEF ClientInv
<1>2. ASSUME NEW h \in Handles, NEW mode \in Modes, NEW op \in Operations,
             NEW charge \in Charges, NEW lim \in Limits, NEW ttl \in Ttls,
             LeaseReserve(h, mode, op, charge, lim, ttl)
      PROVE  ClientInv'
  BY <1>2, ReserveStep
<1>3. ASSUME NEW h \in Handles, Resume(h)
      PROVE  ClientInv'
  BY <1>3, ResumeStep
<1>4. ASSUME NEW h \in Handles, HasLease(h)
      PROVE  leases[h].id \in Operations
  BY <1>4, HandleFields DEF ClientInv, HasLease, Holds
<1>5. ASSUME NEW h \in Handles, LeaseMarkLiable(h)
      PROVE  ClientInv'
  <2>1. leases[h].id \in Operations /\ MarkLiable(leases[h].id) /\ UNCHANGED leaseVars
    BY <1>4, <1>5 DEF LeaseMarkLiable
  <2> QED BY <1>1, <2>1, MarkLiableType, MarkLiableIsQuiet, QuietStep DEF leaseVars
<1>6. ASSUME NEW h \in Handles, NEW c \in Calls, NEW req \in Requests, GrowSend(h, c, req)
      PROVE  ClientInv'
  BY <1>6, SendStep
<1>7. ASSUME NEW c \in Calls, GrowArrive(c)
      PROVE  ClientInv'
  BY <1>7, ArriveStep
<1>8. ASSUME NEW c \in Calls, GrowReturn(c)
      PROVE  ClientInv'
  BY <1>8, ReturnStep
<1>9. ASSUME NEW c \in Calls, GrowFail(c)
      PROVE  ClientInv'
  BY <1>9, FailStep
<1>10. ASSUME NEW c \in Calls, GrowLost(c)
       PROVE  ClientInv'
  BY <1>10, LostStep
<1>11. ASSUME NEW h \in Handles, NEW ttl \in Ttls, LeaseRenew(h, ttl)
       PROVE  ClientInv'
  <2>1. leases[h].id \in Operations /\ Renew(leases[h].id, ttl) /\ UNCHANGED leaseVars
    BY <1>4, <1>11 DEF LeaseRenew
  <2> QED BY <1>1, <2>1, RenewType, RenewIsQuiet, QuietStep DEF leaseVars
<1>12. ASSUME NEW h \in Handles, NEW actual \in Actuals, NEW outcome \in Outcomes,
              LeaseSettle(h, actual, outcome)
       PROVE  ClientInv'
  <2>1. /\ leases[h].id \in Operations
        /\ SettleAs(leases[h].id, leases[h].mode, actual, outcome)
        /\ leases' = leases /\ calls' = calls /\ admitted' = admitted
    BY <1>4, <1>12 DEF LeaseSettle
  <2> QED BY <1>1, <2>1, SettleAsType, SettleIsQuiet, QuietStep
<1>13. CASE ClockStep /\ UNCHANGED leaseVars
  <2>1. /\ TypeOK' /\ reservations' = reservations /\ issued' = issued
        /\ leases' = leases /\ calls' = calls /\ admitted' = admitted
    BY <1>1, <1>13, ConstantTypes DEF ClockStep, TypeOK, leaseVars
  <2> QED BY <2>1, UnchangedIsQuiet, QuietStep
<1>14. CASE UNCHANGED allVars
  <2>1. /\ TypeOK' /\ reservations' = reservations /\ issued' = issued
        /\ leases' = leases /\ calls' = calls /\ admitted' = admitted
    BY <1>1, <1>14 DEF allVars, vars, TypeOK, leaseVars
  <2> QED BY <2>1, UnchangedIsQuiet, QuietStep
<1> QED
  BY <1>2, <1>3, <1>5, <1>6, <1>7, <1>8, <1>9, <1>10, <1>11, <1>12, <1>13, <1>14
     DEF LeaseNext

(* ClientInv: each lease, each request under way and each reply knows of   *)
(* its reservation only what UsageLease.grow and the store have agreed on, *)
(* whatever the order in which calls are sent, lost, answered and resumed. *)
THEOREM ClientInvariant ==
  ASSUME Cardinality(Budgets) <= MaxRetainedBudgetKeys, IsFiniteSet(Calls), MaxAwaited = 1
  PROVE  LeaseSpec => []ClientInv
<1>1. LeaseInit => ClientInv
  BY ClientInit
<1>2. ClientInv /\ [LeaseNext]_allVars => ClientInv'
  BY ClientStep
<1> QED
  BY <1>1, <1>2, PTL DEF LeaseSpec

LEMMA CurrentLease ==
  ASSUME ClientInv, NEW h \in Handles, Current(h)
  PROVE  LET lease == leases[h]
             r == reservations[lease.id]
         IN  /\ Level(lease, r) \/ \E req \in lease.unresolved : Behind(lease, req, r)
             /\ \A g \in r.lastGrowth : g.reserved = r.reserved
<1>1. Holds(leases[h]) /\ leases[h].id \in Operations
  BY HandleFields DEF ClientInv, Current, HasLease, Holds
<1>2. LET lease == leases[h]
          op == lease.id
      IN  /\ Faithful(lease, reservations[op], issued[op], admitted[op])
          /\ Books(reservations[op], issued[op], admitted[op])
          /\ CurrentIn(lease, reservations[op], admitted[op])
  BY <1>1 DEF ClientInv, Coherent, LeaseFaithful, Current, CurrentIn
<1> QED
  BY <1>2 DEF Faithful, Books, CurrentIn

(* However requests and replies are delayed, lost or retried, the store    *)
(* holds what the lease knows or that plus its one unresolved increment,   *)
(* for any number of leases, operations, budgets and calls under way.      *)
THEOREM StoreAheadByOne ==
  ASSUME Cardinality(Budgets) <= MaxRetainedBudgetKeys, IsFiniteSet(Calls), MaxAwaited = 1
  PROVE  LeaseSpec => []StoreAheadByUnresolvedOnly
<1>1. ClientInv => StoreAheadByUnresolvedOnly
  <2> SUFFICES ASSUME ClientInv
               PROVE  StoreAheadByUnresolvedOnly
    OBVIOUS
  <2>1. LeaseTypeOK
    <3>1. \A c \in Calls : calls[c] \in CallTypes
      BY DEF ClientInv, ClientTyped, CallTypes
    <3>2. ASSUME NEW c \in Calls
          PROVE  /\ calls[c].phase \in {"idle", "sent", "answered"}
                 /\ calls[c].phase = "answered" => calls[c].awaited
      BY <3>1, CallFields DEF CallTypes
    <3> QED BY <3>2 DEF LeaseTypeOK, ClientInv, ClientTyped
  <2>2. ASSUME NEW h \in Handles, Current(h)
        PROVE  LET lease == leases[h]
                   r == reservations[lease.id]
               IN  \/ r.reserved = lease.reserved
                   \/ \E req \in lease.unresolved :
                        r.reserved = Plus(lease.reserved, req.additional.units)
    <3> DEFINE lease == leases[h]
               r == reservations[lease.id]
    <3>1. /\ Level(lease, r) \/ \E req \in lease.unresolved : Behind(lease, req, r)
          /\ \A g \in r.lastGrowth : g.reserved = r.reserved
      BY <2>2, CurrentLease
    <3> HIDE DEF lease, r
    <3>2. CASE Level(lease, r)
      BY <3>2 DEF Level, lease, r
    <3>3. CASE \E req \in lease.unresolved : Behind(lease, req, r)
      <4>1. PICK req \in lease.unresolved, g \in r.lastGrowth : Result(lease, req, g)
        BY <3>3 DEF Behind
      <4>2. \/ r.reserved = lease.reserved
            \/ r.reserved = Plus(lease.reserved, req.additional.units)
        BY <3>1, <4>1 DEF Result
      <4> QED BY <4>1, <4>2 DEF lease, r
    <3> QED BY <3>1, <3>2, <3>3
  <2> QED BY <2>1, <2>2 DEF StoreAheadByUnresolvedOnly
<1> QED
  BY <1>1, ClientInvariant, PTL

(* A lease without unresolved growth holds the current cursor, and the     *)
(* exact retry of an unresolved growth is either new to the store or the   *)
(* one whose recorded result it replays.                                   *)
THEOREM RetryResolves ==
  ASSUME Cardinality(Budgets) <= MaxRetainedBudgetKeys, IsFiniteSet(Calls), MaxAwaited = 1
  PROVE  LeaseSpec => []ExactRetryResolves
<1>1. ClientInv => ExactRetryResolves
  <2> SUFFICES ASSUME ClientInv, NEW h \in Handles, Current(h)
               PROVE  LET lease == leases[h]
                          r == reservations[lease.id]
                      IN  \/ r.growthCursor = lease.growthCursor
                          \/ \E req \in lease.unresolved, g \in r.lastGrowth :
                               /\ g.incrementId = req.incrementId
                               /\ g.expectedGrowthCursor = lease.growthCursor
                               /\ g.additional = req.additional
                               /\ \A b \in req.additional.keys : g.limits[b] = req.limits[b]
    BY DEF ExactRetryResolves
  <2> QED BY CurrentLease DEF Level, Behind, Result
<1> QED
  BY <1>1, ClientInvariant, PTL

(* A growth stays pinned to its lease until the store's own answer to that *)
(* very growth returns, a refusal or a result that fits the lease and      *)
(* whose cursor it then holds: no transport error, ill-fitting result,     *)
(* snapshot or answer to another growth lets a different increment follow. *)
THEOREM Pinned ==
  ASSUME Cardinality(Budgets) <= MaxRetainedBudgetKeys, IsFiniteSet(Calls), MaxAwaited = 1
  PROVE  LeaseSpec => PinnedUntilResolved
<1> DEFINE Ends(h, req, c) ==
             /\ calls[c].request = req /\ calls'[c] = NoCall
             /\ Authoritative(leases[h], calls[c])
             /\ calls[c].reply.status # "state_error" =>
                  leases'[h].growthCursor = calls[c].reply.growthCursor
<1>1. ClientInv /\ [LeaseNext]_allVars =>
        [\A h \in Handles : \A req \in leases[h].unresolved :
           leases'[h].unresolved # {req} => \E c \in Awaiting(h) : Ends(h, req, c)]_allVars
  <2> SUFFICES ASSUME ClientInv, LeaseNext, NEW h \in Handles,
                      NEW req \in leases[h].unresolved, leases'[h].unresolved # {req}
               PROVE  \E c \in Awaiting(h) : Ends(h, req, c)
    OBVIOUS
  <2>1. /\ leases \in [Handles -> Leases] /\ calls \in [Calls -> CallTypes]
        /\ Coherent(leases, calls, reservations, issued, admitted) /\ Agreed(leases, calls)
    BY DEF ClientInv, ClientTyped, CallTypes
  <2>2. leases[h].unresolved = {req} /\ Holds(leases[h])
    BY <2>1 DEF Coherent, LeaseFaithful
  <2>3. leases' # leases
    BY <2>2
  <2>4. ASSUME NEW k \in Handles, NEW mode \in Modes, NEW op \in Operations,
               NEW charge \in Charges, NEW lim \in Limits, NEW ttl \in Ttls,
               LeaseReserve(k, mode, op, charge, lim, ttl)
        PROVE  FALSE
    <3>1. k # h
      BY <2>2, <2>4 DEF LeaseReserve, HasLease, Holds
    <3>2. leases'[h] = leases[h]
      <4>1. PICK lease : leases' \in {leases, [leases EXCEPT ![k] = lease]}
        BY <2>4 DEF LeaseReserve
      <4> QED BY <2>1, <3>1, <4>1
    <3> QED BY <2>2, <3>2
  <2>5. ASSUME NEW k \in Handles, NEW c \in Calls, NEW other \in Requests,
               GrowSend(k, c, other)
        PROVE  FALSE
    <3> DEFINE lease == [leases[k] EXCEPT !.unresolved = {other}]
    <3>1. leases' = [leases EXCEPT ![k] = lease] /\ leases[k].unresolved \in {{}, {other}}
      BY <2>5 DEF GrowSend
    <3>2. lease.unresolved = {other}
      BY <2>1 DEF Leases
    <3> HIDE DEF lease
    <3>3. CASE k = h
      <4>1. leases'[h] = lease
        BY <2>1, <3>1, <3>3
      <4>2. other = req
        BY <2>2, <3>1, <3>3
      <4> QED BY <3>2, <4>1, <4>2
    <3>4. CASE k # h
      <4>1. leases'[h] = leases[h]
        BY <2>1, <3>1, <3>4
      <4> QED BY <2>2, <4>1
    <3> QED BY <3>3, <3>4
  <2>6. ASSUME NEW c \in Calls, GrowReturn(c)
        PROVE  c \in Awaiting(h) /\ Ends(h, req, c)
    <3>1. calls[c].phase = "answered" /\ calls[c].awaited /\ Awaited(calls[c])
      BY <2>1, <2>6, CallFields DEF GrowReturn, CallTypes, Awaited
    <3>2. calls[c].handle = h
      <4>1. PICK lease : leases' = [leases EXCEPT ![calls[c].handle] = lease]
        BY <2>6 DEF GrowReturn
      <4>2. CASE calls[c].handle # h
        <5>1. leases'[h] = leases[h]
          BY <2>1, <4>1, <4>2
        <5> QED BY <2>2, <5>1
      <4> QED BY <4>2
    <3>3. leases[h].unresolved = {calls[c].request}
      BY <2>1, <3>1, <3>2 DEF Agreed, Asks
    <3>4. calls'[c] = NoCall
      BY <2>1, <2>6 DEF GrowReturn
    <3> DEFINE lease == leases[h]
               reply == calls[c].reply
               adopted == [lease EXCEPT !.growthCursor = reply.growthCursor,
                             !.reserved = IF reply.status = "accepted" THEN reply.reserved ELSE @,
                             !.unresolved = {}]
    <3>5. leases'[h] = IF reply.status = "state_error" THEN [lease EXCEPT !.unresolved = {}]
                       ELSE IF ~ExtendsCopy(lease, calls[c].request, reply) THEN lease
                       ELSE adopted
      BY <2>1, <2>6, <3>2 DEF GrowReturn
    <3>6. adopted.growthCursor = reply.growthCursor
      BY <2>1 DEF Leases
    <3>7. leases'[h] # lease
      BY <2>2
    <3> HIDE DEF adopted
    <3>8. /\ Authoritative(lease, calls[c])
          /\ reply.status # "state_error" => leases'[h].growthCursor = reply.growthCursor
      BY <3>1, <3>5, <3>6, <3>7 DEF Authoritative
    <3> QED BY <2>2, <3>1, <3>2, <3>3, <3>4, <3>8 DEF Awaiting
  <2>7. ASSUME NEW k \in Handles, Resume(k) \/ LeaseMarkLiable(k)
        PROVE  FALSE
    BY <2>3, <2>7 DEF Resume, LeaseMarkLiable, leaseVars
  <2>8. ASSUME NEW c \in Calls, GrowArrive(c) \/ GrowFail(c) \/ GrowLost(c)
        PROVE  FALSE
    BY <2>3, <2>8 DEF GrowArrive, GrowFail, GrowLost
  <2>9. ASSUME NEW k \in Handles, NEW ttl \in Ttls, LeaseRenew(k, ttl)
        PROVE  FALSE
    BY <2>3, <2>9 DEF LeaseRenew, leaseVars
  <2>10. ASSUME NEW k \in Handles, NEW actual \in Actuals, NEW outcome \in Outcomes,
                LeaseSettle(k, actual, outcome)
         PROVE  FALSE
    BY <2>3, <2>10 DEF LeaseSettle
  <2>11. CASE ClockStep /\ UNCHANGED leaseVars
    BY <2>3, <2>11 DEF leaseVars
  <2> QED BY <2>4, <2>5, <2>6, <2>7, <2>8, <2>9, <2>10, <2>11 DEF LeaseNext
<1>2. LeaseSpec => []ClientInv /\ [][LeaseNext]_allVars
  BY ClientInvariant, PTL DEF LeaseSpec
<1> QED
  BY <1>1, <1>2, PTL DEF PinnedUntilResolved
==============================================================================
