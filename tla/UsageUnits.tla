----------------------------- MODULE UsageUnits -----------------------------
(***************************************************************************)
(* Totals of usage units over a finite set of accounts.                    *)
(*                                                                         *)
(* Every store keeps, for each budget key, one integer that must equal the *)
(* sum of what many independent reservations hold on it.  The sum is       *)
(* written here as the number of elements of a finite set, one element for *)
(* each unit of each account, so that it can be evaluated by TLC and be    *)
(* reasoned about with the theorems on cardinalities.                      *)
(***************************************************************************)
EXTENDS Integers, FiniteSets

(* One element <<account, i>> for the i-th unit that account k holds.      *)
UnitsOf(f) == UNION {{k} \X (1..f[k]) : k \in DOMAIN f}

(* The sum of f over its domain, for f \in [finite set -> Nat].            *)
Total(f) == Cardinality(UnitsOf(f))

(* What a Math.max(0, held - units) leaves.                                *)
ClampedSub(held, units) == IF held >= units THEN held - units ELSE 0
=============================================================================
