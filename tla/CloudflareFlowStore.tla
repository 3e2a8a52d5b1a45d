------------------------- MODULE CloudflareFlowStore -------------------------
(***************************************************************************)
(* Suspended flows in Cloudflare (packages/cloudflare/src/                 *)
(* mcp-flow-worker.ts): a Durable Object for each flow id, with one row    *)
(* and one alarm, which deletes the row when it need not be retained.  The *)
(* alarm is set after the row is stored, and that may fail.  Only the time *)
(* left to a deadline, by the clock of the object, is kept.                *)
(***************************************************************************)
EXTENDS Naturals

CONSTANTS
  FlowIds, Bindings, NoBinding,
  Retention       \* retentionMs

VARIABLES
  rows,    \* mcp_flow_v1: status, binding digest, time left to expires_at
           \* and to retain_until
  alarms   \* whether the object of a flow has an alarm, at retain_until

cloudflareVars == <<rows, alarms>>

NoRow == [status |-> "absent", binding |-> NoBinding, left |-> 0, retain |-> 0]

TypeOK ==
  /\ rows \in [FlowIds -> [status : {"absent", "active", "consumed"},
                           binding : Bindings \cup {NoBinding}, left : Nat, retain : Nat]]
  /\ alarms \in [FlowIds -> BOOLEAN]

Init ==
  /\ rows = [f \in FlowIds |-> NoRow]
  /\ alarms = [f \in FlowIds |-> FALSE]

(* suspendFlow: the transaction that stores the row, and then setAlarm,    *)
(* which may fail or never be reached.                                     *)
Suspend(f, binding, left) ==
  /\ left > 0
  /\ rows[f].status = "absent"
  /\ rows' = [rows EXCEPT ![f] =
       [status |-> "active", binding |-> binding, left |-> left, retain |-> left + Retention]]
  /\ \E set \in BOOLEAN : alarms' = [alarms EXCEPT ![f] = set]

(* consumeFlow, when it returns the flow.                                  *)
Consume(f, binding) ==
  /\ rows[f].status = "active"
  /\ rows[f].binding = binding
  /\ rows[f].left > 0
  /\ rows' = [rows EXCEPT ![f].status = "consumed"]
  /\ UNCHANGED alarms

(* Mutant: the alarm keeps what was consumed.                              *)
AlarmKeepingConsumed(f) ==
  /\ alarms[f] /\ rows[f].retain = 0
  /\ alarms' = [alarms EXCEPT ![f] = FALSE]
  /\ rows' = [rows EXCEPT ![f] = IF rows[f].status = "active" THEN NoRow ELSE @]

(* alarm: not before its time.                                             *)
Alarm(f) ==
  /\ alarms[f] /\ rows[f].retain = 0
  /\ alarms' = [alarms EXCEPT ![f] = FALSE]
  /\ rows' = [rows EXCEPT ![f] = NoRow]

Tick ==
  /\ rows' = [f \in FlowIds |->
       [rows[f] EXCEPT !.left = IF @ = 0 THEN 0 ELSE @ - 1,
                       !.retain = IF @ = 0 THEN 0 ELSE @ - 1]]
  /\ UNCHANGED alarms

Forgotten(f) == rows[f].status = "absent"
=============================================================================
