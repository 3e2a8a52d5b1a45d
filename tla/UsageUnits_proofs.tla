-------------------------- MODULE UsageUnits_proofs --------------------------
(***************************************************************************)
(* Lemmas about Total: it is a natural number, it bounds each account, it  *)
(* splits over a partition of the accounts, and changing one account       *)
(* changes it by the difference.                                           *)
(***************************************************************************)
EXTENDS UsageUnits, FiniteSetTheorems, FunctionTheorems, TLAPS

(* The units of one account are as many as its value.                      *)
LEMMA AccountUnits ==
  ASSUME NEW k, NEW n \in Nat
  PROVE  /\ IsFiniteSet({k} \X (1..n))
         /\ Cardinality({k} \X (1..n)) = n
<1>1. IsFiniteSet({k}) /\ Cardinality({k}) = 1
  BY FS_Singleton
<1>2. IsFiniteSet(1..n) /\ Cardinality(1..n) = n
  BY FS_Interval
<1>3. /\ IsFiniteSet({k} \X (1..n))
      /\ Cardinality({k} \X (1..n)) = Cardinality({k}) * Cardinality(1..n)
  BY <1>1, <1>2, FS_Product
<1> QED
  BY <1>1, <1>2, <1>3

(* An element of UnitsOf(f) names an account and one of its units.         *)
LEMMA UnitsOfMember ==
  ASSUME NEW f, NEW t
  PROVE  t \in UnitsOf(f) <=> \E k \in DOMAIN f : t \in {k} \X (1..f[k])
BY DEF UnitsOf

(* The units of finitely many accounts are finitely many.                  *)
LEMMA UnitsOfFinite ==
  ASSUME NEW D, IsFiniteSet(D), NEW f \in [D -> Nat]
  PROVE  IsFiniteSet(UnitsOf(f))
<1> DEFINE A == {{k} \X (1..f[k]) : k \in D}
           g == [k \in D |-> {k} \X (1..f[k])]
<1>1. g \in Surjection(D, A)
  BY DEF Surjection
<1>2. IsFiniteSet(A)
  <2> HIDE DEF A, g
  <2> QED BY <1>1, FS_Surjection
<1>3. ASSUME NEW T \in A PROVE IsFiniteSet(T)
  <2>1. PICK k \in D : T = {k} \X (1..f[k])
    OBVIOUS
  <2>2. f[k] \in Nat
    OBVIOUS
  <2> QED BY <2>1, <2>2, AccountUnits
<1>4. IsFiniteSet(UNION A)
  <2> HIDE DEF A
  <2> QED BY <1>2, <1>3, FS_UNION
<1> QED
  BY <1>4 DEF UnitsOf

(* A total is a natural number.                                            *)
LEMMA TotalType ==
  ASSUME NEW D, IsFiniteSet(D), NEW f \in [D -> Nat]
  PROVE  Total(f) \in Nat
BY UnitsOfFinite, FS_CardinalityType DEF Total

(* A total of nothing is zero.                                             *)
LEMMA TotalZero ==
  ASSUME NEW D, NEW f \in [D -> Nat], \A k \in D : f[k] = 0
  PROVE  Total(f) = 0
<1>1. \A k \in D : {k} \X (1..f[k]) = {}
  OBVIOUS
<1>2. UnitsOf(f) = {}
  BY <1>1 DEF UnitsOf
<1> QED
  BY <1>2, FS_EmptySet DEF Total

(* When every account of f is wholly in g or wholly in h, the total of f   *)
(* is the sum of the two totals.                                           *)
LEMMA TotalSplit ==
  ASSUME NEW D, IsFiniteSet(D),
         NEW f \in [D -> Nat], NEW g \in [D -> Nat], NEW h \in [D -> Nat],
         \A k \in D : \/ g[k] = f[k] /\ h[k] = 0
                      \/ h[k] = f[k] /\ g[k] = 0
  PROVE  Total(f) = Total(g) + Total(h)
<1>1. UnitsOf(f) = UnitsOf(g) \cup UnitsOf(h)
  <2>1. ASSUME NEW t \in UnitsOf(f) PROVE t \in UnitsOf(g) \cup UnitsOf(h)
    <3>1. PICK k \in D : t \in {k} \X (1..f[k])
      BY UnitsOfMember
    <3> QED BY <3>1, UnitsOfMember
  <2>2. ASSUME NEW t \in UnitsOf(g) \cup UnitsOf(h) PROVE t \in UnitsOf(f)
    <3>1. PICK k \in D : t \in {k} \X (1..g[k]) \/ t \in {k} \X (1..h[k])
      BY UnitsOfMember
    <3>2. t \in {k} \X (1..f[k])
      BY <3>1
    <3> QED BY <3>2, UnitsOfMember
  <2> QED BY <2>1, <2>2
<1>2. UnitsOf(g) \cap UnitsOf(h) = {}
  <2> SUFFICES ASSUME NEW t, t \in UnitsOf(g), t \in UnitsOf(h) PROVE FALSE
    OBVIOUS
  <2>1. PICK k \in D : t \in {k} \X (1..g[k])
    BY UnitsOfMember
  <2>2. PICK j \in D : t \in {j} \X (1..h[j])
    BY UnitsOfMember
  <2>3. k = j
    BY <2>1, <2>2
  <2> QED BY <2>1, <2>2, <2>3
<1>3. /\ IsFiniteSet(UnitsOf(g)) /\ IsFiniteSet(UnitsOf(h))
      /\ Cardinality(UnitsOf(g)) \in Nat /\ Cardinality(UnitsOf(h)) \in Nat
  BY UnitsOfFinite, FS_CardinalityType
<1>4. Cardinality(UnitsOf(g) \cup UnitsOf(h))
        = Cardinality(UnitsOf(g)) + Cardinality(UnitsOf(h)) - Cardinality(UnitsOf(g) \cap UnitsOf(h))
  BY <1>3, FS_Union
<1> QED
  BY <1>1, <1>2, <1>3, <1>4, FS_EmptySet DEF Total

(* Changing one account changes the total by the difference.               *)
LEMMA TotalChange ==
  ASSUME NEW D, IsFiniteSet(D), NEW f \in [D -> Nat], NEW g \in [D -> Nat],
         NEW k \in D, \A j \in D \ {k} : g[j] = f[j]
  PROVE  Total(g) = Total(f) - f[k] + g[k]
<1> DEFINE rest == [j \in D |-> IF j = k THEN 0 ELSE f[j]]
           old  == [j \in D |-> IF j = k THEN f[k] ELSE 0]
           new  == [j \in D |-> IF j = k THEN g[k] ELSE 0]
<1>1. ASSUME NEW m \in Nat, NEW h \in [D -> Nat],
             h[k] = m, \A j \in D \ {k} : h[j] = 0
      PROVE  Total(h) = m
  <2>1. UnitsOf(h) = {k} \X (1..m)
    <3>1. ASSUME NEW t \in UnitsOf(h) PROVE t \in {k} \X (1..m)
      <4>1. PICK j \in D : t \in {j} \X (1..h[j])
        BY UnitsOfMember
      <4>2. CASE j = k BY <4>1, <4>2, <1>1
      <4>3. CASE j # k BY <4>1, <4>3, <1>1
      <4> QED BY <4>2, <4>3
    <3>2. ASSUME NEW t \in {k} \X (1..m) PROVE t \in UnitsOf(h)
      BY <1>1, UnitsOfMember
    <3> QED BY <3>1, <3>2
  <2> QED BY <2>1, AccountUnits DEF Total
<1>2. /\ rest \in [D -> Nat] /\ old \in [D -> Nat] /\ new \in [D -> Nat]
      /\ f[k] \in Nat /\ g[k] \in Nat
      /\ old[k] = f[k] /\ new[k] = g[k]
      /\ \A j \in D \ {k} : old[j] = 0 /\ new[j] = 0
      /\ \A j \in D : \/ rest[j] = f[j] /\ old[j] = 0
                      \/ old[j] = f[j] /\ rest[j] = 0
      /\ \A j \in D : \/ rest[j] = g[j] /\ new[j] = 0
                      \/ new[j] = g[j] /\ rest[j] = 0
  <2>1. \A j \in D : f[j] \in Nat /\ g[j] \in Nat
    OBVIOUS
  <2>2. \A j \in D : /\ rest[j] = IF j = k THEN 0 ELSE f[j]
                     /\ old[j] = IF j = k THEN f[k] ELSE 0
                     /\ new[j] = IF j = k THEN g[k] ELSE 0
    OBVIOUS
  <2>3. rest \in [D -> Nat] /\ old \in [D -> Nat] /\ new \in [D -> Nat]
    BY <2>1
  <2> HIDE DEF rest, old, new
  <2> QED BY <2>1, <2>2, <2>3
<1> HIDE DEF rest, old, new
<1>3. Total(old) = f[k] /\ Total(new) = g[k]
  BY <1>1, <1>2
<1>4. Total(f) = Total(rest) + Total(old)
  BY <1>2, TotalSplit
<1>5. Total(g) = Total(rest) + Total(new)
  BY <1>2, TotalSplit
<1>6. Total(rest) \in Nat
  BY <1>2, TotalType
<1> QED
  BY <1>2, <1>3, <1>4, <1>5, <1>6

(* No account holds more than the total.                                   *)
LEMMA TotalBound ==
  ASSUME NEW D, IsFiniteSet(D), NEW f \in [D -> Nat], NEW k \in D
  PROVE  f[k] <= Total(f)
<1> DEFINE rest == [j \in D |-> IF j = k THEN 0 ELSE f[j]]
<1>1. /\ rest \in [D -> Nat] /\ f[k] \in Nat /\ rest[k] = 0
      /\ \A j \in D \ {k} : rest[j] = f[j]
  OBVIOUS
<1> HIDE DEF rest
<1>2. Total(rest) = Total(f) - f[k] + rest[k]
  BY <1>1, TotalChange
<1>3. Total(rest) \in Nat /\ Total(f) \in Nat
  BY <1>1, TotalType
<1> QED
  BY <1>1, <1>2, <1>3

(* Functions that agree on every account have one total.                   *)
LEMMA TotalEqual ==
  ASSUME NEW D, NEW f \in [D -> Nat], NEW g \in [D -> Nat],
         \A j \in D : g[j] = f[j]
  PROVE  Total(g) = Total(f)
<1>1. f = g
  OBVIOUS
<1> QED
  BY <1>1
=============================================================================
