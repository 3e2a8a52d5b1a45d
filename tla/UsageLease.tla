------------------------------ MODULE UsageLease ------------------------------
(***************************************************************************)
(* The client side of progressive reservations (packages/core/src/index.ts,*)
(* UsageControl and UsageLease, VectorUsageControl and VectorUsageLease)   *)
(* over an authoritative store that is reached through asynchronous calls. *)
(*                                                                         *)
(* A lease is a client-held copy of a reservation: the units and growth    *)
(* cursor it last learned, and the one growth request whose result it does *)
(* not know.  A growth call is sent, takes effect in the store when it     *)
(* arrives, and its reply returns later; either way may fail, and a        *)
(* request whose caller has given up may still arrive.  The store is       *)
(* MemoryUsageStore, which the other stores imitate, with room for every   *)
(* budget key; MaxAwaited = 1 is a caller that awaits each growth before   *)
(* it starts another on the same lease.                                    *)
(***************************************************************************)
EXTENDS MemoryUsageStore

CONSTANTS
  Handles,      \* UsageLease and VectorUsageLease objects
  Calls,        \* growth calls that can be under way at once
  MaxAwaited    \* growth calls that the caller of one lease overlaps

VARIABLES
  leases,       \* each object's reservation copy and unresolvedGrowth
  calls,        \* growth calls under way
  admitted,     \* history: cursor issued by the latest admission of each operation
  settledBy     \* history: admission whose lease settled each operation last

leaseVars == <<leases, calls, admitted, settledBy>>
allVars == <<vars, leaseVars>>

(* ReservationGrowthRequest                                                *)
Requests == [incrementId : Increments, additional : Growths, limits : Limits]

(* reservation is what one admission issued; its id is the operation key.  *)
Leases ==
  [mode : Modes \cup {""}, id : Operations \cup {""}, admission : Nat, growthCursor : Nat,
   reserved : [Budgets -> Nat], unresolved : SUBSET Requests]

NoLease == [mode |-> "", id |-> "", admission |-> 0, growthCursor |-> 0,
            reserved |-> NoUnits, unresolved |-> {}]

NoCall == [phase |-> "idle"]

LeaseTypeOK ==
  /\ leases \in [Handles -> Leases]
  /\ \A c \in Calls : calls[c].phase \in {"idle", "sent", "answered"}
  /\ \A c \in Calls : calls[c].phase = "answered" => calls[c].awaited

LeaseInit ==
  /\ Init
  /\ leases = [h \in Handles |-> NoLease]
  /\ calls = [c \in Calls |-> NoCall]
  /\ admitted = [op \in Operations |-> 0]
  /\ settledBy = [op \in Operations |-> 0]

HasLease(h) == leases[h].id # ""
Awaiting(h) == {c \in Calls : calls[c].phase # "idle" /\ calls[c].awaited /\ calls[c].handle = h}
-----------------------------------------------------------------------------
(* reserve of both controls: the reply carries the lease, unless it is     *)
(* lost.                                                                   *)
LeaseReserve(h, mode, op, charge, lim, ttl) ==
  /\ ~HasLease(h)
  /\ Admit(op, mode, charge, lim, ttl)
  /\ IF Admits(op, charge, lim)
       THEN /\ leases' \in
                 {leases,
                  [leases EXCEPT ![h] =
                    [mode |-> mode, id |-> op, admission |-> issued[op] + 1,
                     growthCursor |-> issued[op] + 1, reserved |-> charge.units, unresolved |-> {}]]}
            /\ admitted' = [admitted EXCEPT ![op] = issued[op] + 1]
       ELSE UNCHANGED <<leases, admitted>>
  /\ UNCHANGED <<calls, settledBy>>

(* toResumeState and resumeLease: the copy moves to another object, with   *)
(* its unresolved growth; replies to the old object reach nobody.          *)
Resume(h) ==
  /\ HasLease(h)
  /\ Awaiting(h) # {}
  /\ calls' = [c \in Calls |->
                 IF c \notin Awaiting(h) THEN calls[c]
                 ELSE IF calls[c].phase = "sent" THEN [calls[c] EXCEPT !.awaited = FALSE]
                 ELSE NoCall]
  /\ UNCHANGED <<vars, leases, admitted, settledBy>>
-----------------------------------------------------------------------------
(* Mutant: any increment may follow an unresolved one.                     *)
GrowSendUnpinned(h, c, req) ==
  /\ HasLease(h)
  /\ Cardinality(Awaiting(h)) < MaxAwaited
  /\ calls[c] = NoCall
  /\ OfMode(leases[h].mode, req.additional.keys, req.additional.units)
  /\ leases' = [leases EXCEPT ![h].unresolved = {req}]
  /\ calls' = [calls EXCEPT ![c] =
                 [phase |-> "sent", awaited |-> TRUE, handle |-> h, mode |-> leases[h].mode,
                  id |-> leases[h].id, request |-> req, cursor |-> leases[h].growthCursor]]
  /\ UNCHANGED <<vars, admitted, settledBy>>

(* grow of both leases, up to its call.                                    *)
GrowSend(h, c, req) ==
  /\ HasLease(h)
  /\ leases[h].unresolved \in {{}, {req}}
  /\ Cardinality(Awaiting(h)) < MaxAwaited
  /\ calls[c] = NoCall
  /\ OfMode(leases[h].mode, req.additional.keys, req.additional.units)
  /\ leases' = [leases EXCEPT ![h].unresolved = {req}]
  /\ calls' = [calls EXCEPT ![c] =
                 [phase |-> "sent", awaited |-> TRUE, handle |-> h, mode |-> leases[h].mode,
                  id |-> leases[h].id, request |-> req, cursor |-> leases[h].growthCursor]]
  /\ UNCHANGED <<vars, admitted, settledBy>>

(* What growReservation and growVectorReservation answer: the recorded     *)
(* result of an exact retry, a new result, or a UsageStateError.           *)
GrowReply(mode, op, req, cursor) ==
  LET r == Recovered[op]
      replayed == {g \in r.lastGrowth : g.incrementId = req.incrementId}
      result(accepted, next, reserved) ==
        [status |-> IF accepted THEN "accepted" ELSE "denied",
         growthCursor |-> next, reserved |-> reserved]
  IN  CASE ~Active(r) \/ r.mode # mode -> [status |-> "state_error"]
        [] Active(r) /\ r.mode = mode /\ replayed # {} ->
             LET g == CHOOSE g \in replayed : TRUE
             IN  IF /\ g.expectedGrowthCursor = cursor
                    /\ g.additional = req.additional
                    /\ \A b \in req.additional.keys : g.limits[b] = req.limits[b]
                   THEN result(g.accepted, g.growthCursor, g.reserved)
                   ELSE [status |-> "state_error"]
        [] OTHER ->
             IF ~GrowthApplies(op, mode, req.incrementId, cursor, req.additional)
               THEN [status |-> "state_error"]
             ELSE IF ~WithinLimits(req.additional, req.limits, RecoveredUsed)
               THEN result(FALSE, issued[op] + 1, r.reserved)
             ELSE IF ~BudgetRoom(req.additional, RecoveredUsed)
               THEN [status |-> "state_error"]
             ELSE result(TRUE, issued[op] + 1, Plus(r.reserved, req.additional.units))

(* The call takes effect; the reply travels if somebody still awaits it.   *)
GrowArrive(c) ==
  /\ calls[c].phase = "sent"
  /\ LET call == calls[c]
         req == call.request
     IN  /\ Grow(call.id, call.mode, req.incrementId, call.cursor, req.additional, req.limits)
         /\ calls' = [calls EXCEPT ![c] =
              IF call.awaited
                THEN [phase |-> "answered", awaited |-> TRUE, handle |-> call.handle,
                      request |-> req, reply |-> GrowReply(call.mode, call.id, req, call.cursor)]
                ELSE NoCall]
  /\ UNCHANGED <<leases, admitted, settledBy>>

(* validateStoreGrowthResult, validateStoreVectorGrowthResult: an          *)
(* acceptance must extend the local copy.                                  *)
ExtendsCopy(lease, req, reply) ==
  reply.status = "accepted" => reply.reserved = Plus(lease.reserved, req.additional.units)

(* The reply returns: a result is adopted, a UsageStateError ends the      *)
(* attempt, and a result that does not fit the copy is thrown as ambiguous.*)
GrowReturn(c) ==
  /\ calls[c].phase = "answered"
  /\ LET call == calls[c]
         reply == call.reply
         lease == leases[call.handle]
     IN  leases' = [leases EXCEPT ![call.handle] =
           IF reply.status = "state_error" THEN [lease EXCEPT !.unresolved = {}]
           ELSE IF ~ExtendsCopy(lease, call.request, reply) THEN lease
           ELSE [lease EXCEPT !.growthCursor = reply.growthCursor,
                              !.reserved = IF reply.status = "accepted" THEN reply.reserved ELSE @,
                              !.unresolved = {}]]
  /\ calls' = [calls EXCEPT ![c] = NoCall]
  /\ UNCHANGED <<vars, admitted, settledBy>>

(* Mutant: a transport error is taken for a refusal.                       *)
GrowFailResolved(c) ==
  /\ calls[c].phase # "idle"
  /\ calls[c].awaited
  /\ leases' = [leases EXCEPT ![calls[c].handle].unresolved = {}]
  /\ calls' = [calls EXCEPT ![c] = NoCall]
  /\ UNCHANGED <<vars, admitted, settledBy>>

(* The caller sees a transport error: the request may still be under way.  *)
GrowFail(c) ==
  /\ calls[c].phase # "idle"
  /\ calls[c].awaited
  /\ calls' \in {[calls EXCEPT ![c] = NoCall]} \cup
               (IF calls[c].phase = "sent"
                  THEN {[calls EXCEPT ![c].awaited = FALSE]} ELSE {})
  /\ UNCHANGED <<vars, leases, admitted, settledBy>>

(* A request that nobody awaits is lost.                                   *)
GrowLost(c) ==
  /\ calls[c].phase = "sent"
  /\ ~calls[c].awaited
  /\ calls' = [calls EXCEPT ![c] = NoCall]
  /\ UNCHANGED <<vars, leases, admitted, settledBy>>
-----------------------------------------------------------------------------
(* markLiable, renew and settle name the reservation by its id alone.      *)

LeaseMarkLiable(h) ==
  /\ HasLease(h)
  /\ MarkLiable(leases[h].id)
  /\ UNCHANGED leaseVars

LeaseRenew(h, ttl) ==
  /\ HasLease(h)
  /\ Renew(leases[h].id, ttl)
  /\ UNCHANGED leaseVars

LeaseSettle(h, actual, outcome) ==
  /\ HasLease(h)
  /\ SettleAs(leases[h].id, leases[h].mode, actual, outcome)
  /\ settledBy' = IF Settles(leases[h].id, leases[h].mode, actual)
                    THEN [settledBy EXCEPT ![leases[h].id] = leases[h].admission]
                    ELSE settledBy
  /\ UNCHANGED <<leases, calls, admitted>>

LeaseNext ==
  \/ \E h \in Handles, mode \in Modes, op \in Operations, charge \in Charges, lim \in Limits, ttl \in Ttls :
       LeaseReserve(h, mode, op, charge, lim, ttl)
  \/ \E h \in Handles : Resume(h) \/ LeaseMarkLiable(h)
  \/ \E h \in Handles, c \in Calls, req \in Requests : GrowSend(h, c, req)
  \/ \E c \in Calls : GrowArrive(c) \/ GrowReturn(c) \/ GrowFail(c) \/ GrowLost(c)
  \/ \E h \in Handles, ttl \in Ttls : LeaseRenew(h, ttl)
  \/ \E h \in Handles, actual \in Actuals, outcome \in Outcomes :
       LeaseSettle(h, actual, outcome)
  \/ ClockStep /\ UNCHANGED leaseVars

LeaseSpec == LeaseInit /\ [][LeaseNext]_allVars
-----------------------------------------------------------------------------
(* Properties.                                                             *)

(* The copy is of the reservation that the store holds now.                *)
Current(h) ==
  /\ HasLease(h)
  /\ leases[h].admission = admitted[leases[h].id]
  /\ Active(reservations[leases[h].id])

(* However requests and replies are delayed, lost or retried, the store is *)
(* ahead of a lease by nothing but its one unresolved increment: growth is *)
(* neither applied twice nor forgotten by its caller.                      *)
StoreAheadByUnresolvedOnly ==
  LeaseTypeOK /\ \A h \in Handles : Current(h) =>
    LET lease == leases[h]
        r == reservations[lease.id]
    IN  \/ r.reserved = lease.reserved
        \/ \E req \in lease.unresolved :
             r.reserved = Plus(lease.reserved, req.additional.units)

(* A lease whose growth is resolved holds the current cursor, and an exact *)
(* retry of an unresolved one is either still new to the store or replayed *)
(* by it: the retry the documentation prescribes is never refused.         *)
ExactRetryResolves ==
  \A h \in Handles : Current(h) =>
    LET lease == leases[h]
        r == reservations[lease.id]
    IN  \/ r.growthCursor = lease.growthCursor
        \/ \E req \in lease.unresolved, g \in r.lastGrowth :
             /\ g.incrementId = req.incrementId
             /\ g.expectedGrowthCursor = lease.growthCursor
             /\ g.additional = req.additional
             /\ \A b \in req.additional.keys : g.limits[b] = req.limits[b]

(* An answer that ends an attempt of the lease: the store has refused it,  *)
(* or has decided it in a way that fits the copy.                          *)
Authoritative(lease, call) ==
  /\ call.phase = "answered"
  /\ call.reply.status = "state_error" \/ ExtendsCopy(lease, call.request, call.reply)

(* After an unresolved attempt a lease permits only an exact retry until   *)
(* the store's own answer to that attempt returns: a result, whose cursor  *)
(* the lease then holds, or a UsageStateError.  Neither a transport error, *)
(* nor an answer that does not fit, nor a snapshot, nor the answer to      *)
(* another attempt lets a different increment follow.                      *)
PinnedUntilResolved ==
  [][\A h \in Handles : \A req \in leases[h].unresolved :
       leases'[h].unresolved # {req} =>
         \E c \in Awaiting(h) :
           /\ calls[c].request = req /\ calls'[c] = NoCall
           /\ Authoritative(leases[h], calls[c])
           /\ calls[c].reply.status # "state_error" =>
                leases'[h].growthCursor = calls[c].reply.growthCursor]_allVars

(* A reservation is settled only through a lease of its own admission: a   *)
(* lease whose reservation has expired fails closed.                       *)
SettledByOwnLease ==
  \A op \in Operations :
    reservations[op].state = "settled" /\ reservations[op].outcome # LeaseExpired =>
      settledBy[op] = admitted[op]
=============================================================================
