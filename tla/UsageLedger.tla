----------------------------- MODULE UsageLedger -----------------------------
(***************************************************************************)
(* What every usage store promises (packages/core/src/index.ts, UsageStore *)
(* and VectorUsageStore), without clocks, cursors, retention caps, keys or *)
(* transactions: a ledger of reservations whose counters are exact after   *)
(* every call.  One call changes at most one operation's entry by request; *)
(* any number of other entries may expire in the same call, because the    *)
(* stores recover expired leases lazily.                                   *)
(***************************************************************************)
EXTENDS UsageUnits

CONSTANTS
  Operations,   \* operation keys
  Budgets,      \* budget keys
  Limits        \* limits callers quote: functions Budgets -> Nat

VARIABLES
  entries,      \* operation key -> [state, reserved, actual]
  used,         \* budget key -> units reserved or consumed
  consumed      \* budget key -> units finally charged

ledgerVars == <<entries, used, consumed>>

LedgerInit ==
  /\ \A op \in Operations : entries[op].state = "absent"
  /\ used = [b \in Budgets |-> 0]
  /\ consumed = [b \in Budgets |-> 0]

Open(e) == e.state \in {"pending", "liable"}

HeldBy(es, b) ==
  Total([op \in Operations |-> IF Open(es[op]) THEN es[op].reserved[b] ELSE 0])

(* Expiry: a pending reservation is released, a liable one is charged in   *)
(* full, and the record of a settled one is forgotten.                     *)
Expires(e, f) ==
  \/ f = e
  \/ e.state \in {"pending", "settled"} /\ f.state = "absent"
  \/ e.state = "liable" /\ f.state = "settled" /\ f.actual = e.reserved

(* A requested change: admission of an operation that is not (or no        *)
(* longer) on record, liability, growth, and settlement within what is     *)
(* reserved.  A liable entry never becomes pending or absent.              *)
Changes(e, f) ==
  \/ ~Open(e) /\ f.state = "pending"
  \/ e.state = "pending" /\ f.state \in {"pending", "liable"}
  \/ e.state = "liable" /\ f.state = "liable"
       /\ \A b \in Budgets : f.reserved[b] >= e.reserved[b]
  \/ Open(e) /\ f.state = "settled" /\ f.reserved = e.reserved
       /\ \A b \in Budgets : f.actual[b] <= f.reserved[b]

(* Units of the operations that this step settles.                         *)
Charged(b) ==
  Total([op \in Operations |->
    IF Open(entries[op]) /\ entries'[op].state = "settled"
      THEN entries'[op].actual[b] ELSE 0])

(* No call raises a counter above the limit it quoted.                     *)
WithinQuote ==
  \/ \A b \in Budgets : used'[b] <= used[b]
  \/ \E lim \in Limits : \A b \in Budgets : used'[b] > used[b] => used'[b] <= lim[b]

Call ==
  /\ \E called \in Operations :
       /\ Expires(entries[called], entries'[called]) \/ Changes(entries[called], entries'[called])
       /\ \A op \in Operations \ {called} : Expires(entries[op], entries'[op])
  /\ consumed' = [b \in Budgets |-> consumed[b] + Charged(b)]
  /\ used' = [b \in Budgets |-> HeldBy(entries', b) + consumed'[b]]
  /\ WithinQuote

(* The history of budget keys is dropped once nothing open refers to them. *)
Retire(retired) ==
  /\ \A op \in Operations : Expires(entries[op], entries'[op])
  /\ \A b \in retired : HeldBy(entries', b) = 0
  /\ consumed' = [b \in Budgets |-> IF b \in retired THEN 0 ELSE consumed[b] + Charged(b)]
  /\ used' = [b \in Budgets |-> HeldBy(entries', b) + consumed'[b]]

LedgerNext == Call \/ \E retired \in SUBSET Budgets : Retire(retired)

LedgerSpec == LedgerInit /\ [][LedgerNext]_ledgerVars

(* A ledger that is taken up with what is already in it.                   *)
LedgerContinued ==
  /\ \A b \in Budgets : used[b] = HeldBy(entries, b) + consumed[b]
  /\ [][LedgerNext]_ledgerVars
=============================================================================
