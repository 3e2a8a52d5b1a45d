--------------------------- MODULE RecoveryObserver ---------------------------
(***************************************************************************)
(* Expiry recovery of MemoryUsageStore one reservation at a time           *)
(* (packages/core/src/index.ts, recoverExpired), with the observer that it *)
(* calls inline for every lease it recovers (observability.ts,             *)
(* emitUsageEvent).                                                        *)
(*                                                                         *)
(* MemoryUsageStore takes recovery for one indivisible step.  It is one    *)
(* unless the observer itself calls the store: whatever such a method does *)
(* before its first await, which is all of it, runs inside the loop of the *)
(* call that is recovering.  A frame is one such call.  The loop walks a   *)
(* JavaScript Map, so it visits entries in the order they were inserted,   *)
(* misses those a nested call deletes and reaches those it inserts.        *)
(***************************************************************************)
EXTENDS MemoryUsageStore, SequencesExt

CONSTANTS
  MaxDepth,     \* bound on calls nested in observers
  MaxSerial     \* bound on reserve calls

VARIABLES
  frames,       \* calls under way, the innermost last
  inserted,     \* position of each operation's entry in the Map
  serial        \* reserve calls so far

observerVars == <<vars, frames, inserted, serial>>

(* A call of stats in recoverExpired.  observing: the observer is handling *)
(* the last event; releasing: the entry that the loop deletes afterwards.  *)
Frame == [position |-> 0, next |-> Infinity, observing |-> FALSE, releasing |-> {}]

Top == Last(frames)
Become(frame) == frames' = Append(Front(frames), frame)

ObserverInit ==
  /\ Init
  /\ frames = <<>>
  /\ inserted = [op \in Operations |-> 0]
  /\ serial = 0
-----------------------------------------------------------------------------
(* Mutant: there is no preflight.                                          *)
CallStatsUnchecked ==
  /\ frames # <<>> => Top.observing /\ Len(frames) <= MaxDepth
  /\ GateOpen
  /\ frames' = Append(frames, Frame)
  /\ UNCHANGED <<vars, inserted, serial>>

(* stats, called by the application or by the observer of the innermost    *)
(* call; while no deadline has passed, or if its preflight throws, it      *)
(* changes nothing.                                                        *)
CallStats ==
  /\ frames # <<>> => Top.observing /\ Len(frames) <= MaxDepth
  /\ GateOpen
  /\ RecoverySafe
  /\ frames' = Append(frames, Frame)
  /\ UNCHANGED <<vars, inserted, serial>>

Looping == frames # <<>> /\ ~Top.observing

(* The entries that the loop of the innermost call has yet to reach.       *)
Ahead == {op \in Operations : Retained(reservations[op]) /\ inserted[op] > Top.position}

(* safeAdd throws in the middle of the loop: what the loop has done so far *)
(* stays, the entry is left settled without a deadline, and the rest of    *)
(* the loop, with its new deadline, is lost.                               *)
Throws(op) ==
  /\ frames' = Front(frames)
  /\ reservations' =
       [reservations EXCEPT ![op].state = "settled", ![op].outcome = LeaseExpired,
                            ![op].tombstoneExpiresAt = MaxSafeInteger + 1]
  /\ UNCHANGED spent

(* One turn of the loop: the observer runs before a released entry is      *)
(* deleted.                                                                *)
Visit(op) ==
  /\ Looping
  /\ op \in Ahead
  /\ \A other \in Ahead : inserted[op] <= inserted[other]
  /\ LET r == reservations[op]
         after == [Top EXCEPT !.position = inserted[op]]
     IN  \/ /\ ~Overdue(r)
            /\ Become([after EXCEPT !.next = TrackRecoveryAt(@, Deadline(r))])
            /\ UNCHANGED <<reservations, used, spent>>
         \/ /\ Overdue(r) /\ r.state = "settled"
            /\ Become(after)
            /\ reservations' = [reservations EXCEPT ![op] = NoReservation]
            /\ UNCHANGED <<used, spent>>
         \/ /\ Overdue(r) /\ r.state = "pending"
            /\ Become([after EXCEPT !.observing = TRUE, !.releasing = {op}])
            /\ used' = Minus(used, r.reserved)
            /\ UNCHANGED <<reservations, spent>>
         \/ /\ Overdue(r) /\ r.state = "liable"
            /\ IF Safe(clock + IdempotencyTtl)
                 THEN /\ Become([after EXCEPT !.observing = TRUE,
                                              !.next = TrackRecoveryAt(@, clock + IdempotencyTtl)])
                      /\ reservations' = [reservations EXCEPT ![op] = Retain(r)]
                      /\ spent' = Plus(spent, r.reserved)
                 ELSE Throws(op)
            /\ UNCHANGED used
  /\ UNCHANGED <<nextRecoveryAt, issued, clock, inserted, serial>>

(* The observer returns.  The released entry is deleted by its key,        *)
(* whatever a nested call has stored there meanwhile.                      *)
Observed ==
  /\ frames # <<>> /\ Top.observing
  /\ Become([Top EXCEPT !.observing = FALSE, !.releasing = {}])
  /\ reservations' =
       [op \in Operations |->
         IF op \in Top.releasing THEN NoReservation ELSE reservations[op]]
  /\ UNCHANGED <<used, nextRecoveryAt, issued, clock, spent, inserted, serial>>

Return ==
  /\ Looping
  /\ Ahead = {}
  /\ nextRecoveryAt' = Top.next
  /\ frames' = Front(frames)
  /\ UNCHANGED <<used, reservations, issued, clock, spent, inserted, serial>>

(* Other methods and the clock, here only between calls of stats, and the  *)
(* methods only when they find nothing to recover.                         *)
ReserveBetween(op, charge, lim, ttl) ==
  /\ "scalar" \in Modes
  /\ frames = <<>>
  /\ ~GateOpen
  /\ serial < MaxSerial
  /\ Reserve(op, charge, lim, ttl)
  /\ serial' = serial + 1
  /\ inserted' = IF Admits(op, charge, lim)
                   THEN [inserted EXCEPT ![op] = serial + 1] ELSE inserted
  /\ UNCHANGED frames

MarkLiableBetween(op) ==
  /\ frames = <<>>
  /\ ~GateOpen
  /\ MarkLiable(op)
  /\ UNCHANGED <<frames, inserted, serial>>

ClockBetween ==
  /\ frames = <<>>
  /\ ClockStep
  /\ UNCHANGED <<frames, inserted, serial>>

ObserverNext ==
  \/ \E op \in Operations, charge \in Charges, lim \in Limits, ttl \in Ttls :
       ReserveBetween(op, charge, lim, ttl)
  \/ \E op \in Operations : MarkLiableBetween(op) \/ Visit(op)
  \/ CallStats \/ Observed \/ Return \/ ClockBetween

ObserverSpec == ObserverInit /\ [][ObserverNext]_observerVars
-----------------------------------------------------------------------------
(* Properties.                                                             *)

(* Observability is outside the enforcement transaction: whatever the      *)
(* observer does, a completed recovery has released every expired          *)
(* reservation once, and the counters hold what is reserved and charged.   *)
ObserverOutsideEnforcement == frames = <<>> => UsageConserved

(* What the loop of the outermost call has still to do to the reservations,*)
(* the counters and the gate.                                              *)
Finished ==
  [op \in Operations |->
    IF frames # <<>> /\ op \in Top.releasing THEN NoReservation
    ELSE IF frames = <<>> \/ inserted[op] <= Top.position \/ ~Overdue(reservations[op])
      THEN reservations[op]
    ELSE IF reservations[op].state = "liable" THEN Retain(reservations[op])
    ELSE NoReservation]

StillToExpire(state, b) ==
  Total([op \in Operations |->
    IF /\ frames # <<>> /\ inserted[op] > Top.position
       /\ Overdue(reservations[op]) /\ reservations[op].state = state
      THEN reservations[op].reserved[b] ELSE 0])

FinishedUsed == [b \in Budgets |-> used[b] - StillToExpire("pending", b)]
FinishedSpent == [b \in Budgets |-> spent[b] + StillToExpire("liable", b)]
FinishedNext == IF frames = <<>> THEN nextRecoveryAt ELSE EarliestDeadline(Finished)

Indivisible ==
  INSTANCE MemoryUsageStore WITH
    reservations <- Finished, used <- FinishedUsed, spent <- FinishedSpent,
    nextRecoveryAt <- FinishedNext

(* An observer that does not call the store cannot tell, nor can any later *)
(* call, that recovery is a loop: visiting the entries one by one, with a  *)
(* deadline minimum of its own, is one indivisible recovery of the store.  *)
(* In particular no recovery ends half done: its preflight of the          *)
(* tombstone deadlines leaves nothing in the loop to throw.                *)
RecoveryIsIndivisible == Indivisible!Spec
=============================================================================
