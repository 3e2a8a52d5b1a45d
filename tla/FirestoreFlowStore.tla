-------------------------- MODULE FirestoreFlowStore --------------------------
(***************************************************************************)
(* Suspended flows in Firestore (packages/firestore/src/mcp-flow.ts): one  *)
(* document per flow.  A transaction compares deadlines with the time the  *)
(* server read the document, and commits up to MaxLatency later; a safety  *)
(* margin makes up for that.  Only the time left to a deadline is kept.    *)
(***************************************************************************)
EXTENDS Naturals

CONSTANTS
  FlowIds, Bindings, NoBinding,
  SafetyMargin,   \* expirySafetyMarginMs
  Retention,      \* retentionMs
  MaxLatency      \* from the read of a transaction to its commit

VARIABLE documents  \* muc_mcp_flows: status, binding digest, time left to
                    \* expiresAt and to deleteAt

NoDocument == [status |-> "absent", binding |-> NoBinding, left |-> 0, deleteIn |-> 0]

TypeOK ==
  documents \in [FlowIds -> [status : {"absent", "active", "consumed"},
                             binding : Bindings \cup {NoBinding}, left : Nat, deleteIn : Nat]]

Init == documents = [f \in FlowIds |-> NoDocument]

(* trustedReadTime is age ago; left is counted from now, so a deadline     *)
(* that was further away than the margin has left + age > margin.          *)
BeyondMargin(left, age) == left + age > SafetyMargin

(* Mutant: the document may be deleted before its flow expires.            *)
SuspendDeletingEarly(f, binding, left, age) ==
  /\ BeyondMargin(left, age)
  /\ documents[f].status = "absent"
  /\ documents' = [documents EXCEPT ![f] =
       [status |-> "active", binding |-> binding, left |-> left, deleteIn |-> left - Retention]]

(* suspend: tx.create fails on a document that exists, consumed or not.    *)
Suspend(f, binding, left, age) ==
  /\ BeyondMargin(left, age)
  /\ documents[f].status = "absent"
  /\ documents' = [documents EXCEPT ![f] =
       [status |-> "active", binding |-> binding, left |-> left, deleteIn |-> left + Retention]]

(* Mutant: the claim is allowed up to the deadline itself.                 *)
ConsumeToTheEnd(f, binding, age) ==
  /\ documents[f].status = "active"
  /\ documents[f].binding = binding
  /\ documents[f].left + age > 0
  /\ documents' = [documents EXCEPT ![f].status = "consumed"]

(* consume, when it returns the flow.                                      *)
Consume(f, binding, age) ==
  /\ documents[f].status = "active"
  /\ documents[f].binding = binding
  /\ BeyondMargin(documents[f].left, age)
  /\ documents' = [documents EXCEPT ![f].status = "consumed"]

(* The TTL policy deletes a document some time after its deleteAt.         *)
Delete(f) ==
  /\ documents[f].status # "absent" /\ documents[f].deleteIn = 0
  /\ documents' = [documents EXCEPT ![f] = NoDocument]

Tick ==
  documents' = [f \in FlowIds |->
    [documents[f] EXCEPT !.left = IF @ = 0 THEN 0 ELSE @ - 1,
                         !.deleteIn = IF @ = 0 THEN 0 ELSE @ - 1]]

Forgotten(f) == documents[f].status = "absent"
=============================================================================
