---------------------------- MODULE TotalsProofs ----------------------------
(* What Total preserves and bounds, from the cardinalities of finite sets. *)
EXTENDS Totals, FiniteSetTheorems, TLAPS

Units(f, D) == {u \in D \X (1..MaxAmount) : u[2] <= f[u[1]]}

\* The units of a finite set of decisions are finitely many.
LEMMA UnitsFinite ==
  ASSUME NEW f, NEW D, IsFiniteSet(D)
  PROVE  IsFiniteSet(Units(f, D))
<1>1. IsFiniteSet(1..MaxAmount)
  BY FS_Interval, AmountAssumption
<1>2. IsFiniteSet(D \X (1..MaxAmount))
  BY <1>1, FS_Product
<1> QED BY <1>2, FS_Subset DEF Units

\* A total is a natural number.
LEMMA TotalType ==
  ASSUME NEW f, NEW D, IsFiniteSet(D)
  PROVE  Total(f, D) \in Nat
BY UnitsFinite, FS_CardinalityType DEF Total, Units

\* Nothing sums to zero.
LEMMA TotalEmpty ==
  ASSUME NEW f
  PROVE  Total(f, {}) = 0
<1>1. Units(f, {}) = {}
  BY DEF Units
<1> QED BY <1>1, FS_EmptySet DEF Total, Units

\* Only the values on the set matter.
LEMMA TotalSame ==
  ASSUME NEW f, NEW g, NEW D, \A d \in D : f[d] = g[d]
  PROVE  Total(f, D) = Total(g, D)
<1>1. Units(f, D) = Units(g, D)
  BY DEF Units
<1> QED BY <1>1 DEF Total, Units

\* A part is no more than the whole.
LEMMA TotalSubset ==
  ASSUME NEW f, NEW D, IsFiniteSet(D), NEW C \in SUBSET D
  PROVE  Total(f, C) <= Total(f, D)
<1>1. Units(f, C) \subseteq Units(f, D)
  BY DEF Units
<1>2. IsFiniteSet(Units(f, D))
  BY UnitsFinite
<1>3. Cardinality(Units(f, C)) <= Cardinality(Units(f, D))
  BY <1>1, <1>2, FS_Subset
<1> QED BY <1>3 DEF Total, Units

\* The total of one decision is its amount.
LEMMA TotalSingleton ==
  ASSUME NEW f, NEW d, f[d] \in Amounts
  PROVE  Total(f, {d}) = f[d]
<1> DEFINE n == f[d]
<1>0. n \in Nat /\ n <= MaxAmount
  BY AmountAssumption DEF Amounts
<1> HIDE DEF n
<1>1. Units(f, {d}) = {d} \X (1..n)
  <2>1. \A i \in Int : i \in 1..MaxAmount /\ i <= n <=> i \in 1..n
    BY <1>0, AmountAssumption
  <2>2. \A u : u \in Units(f, {d}) <=> u \in {d} \X (1..MaxAmount) /\ u[2] <= n
    BY DEF Units, n
  <2>3. Units(f, {d}) \subseteq {d} \X (1..n)
    BY <2>1, <2>2, <1>0
  <2>4. {d} \X (1..n) \subseteq Units(f, {d})
    BY <2>1, <2>2, <1>0
  <2> QED BY <2>3, <2>4
<1>2. /\ IsFiniteSet({d})
      /\ Cardinality({d}) = 1
  BY FS_Singleton
<1>3. /\ IsFiniteSet(1..n)
      /\ Cardinality(1..n) = n
  BY FS_Interval, <1>0
<1>4. Cardinality({d} \X (1..n)) = Cardinality({d}) * Cardinality(1..n)
  BY <1>2, <1>3, FS_Product
<1>5. Cardinality({d} \X (1..n)) = n
  BY <1>0, <1>2, <1>3, <1>4
<1>6. Total(f, {d}) = n
  BY <1>1, <1>5 DEF Total, Units
<1> QED BY <1>6 DEF n

\* Totals of disjoint parts add up.
LEMMA TotalDisjoint ==
  ASSUME NEW f, NEW C, NEW D, IsFiniteSet(C), IsFiniteSet(D), C \cap D = {}
  PROVE  Total(f, C \cup D) = Total(f, C) + Total(f, D)
<1>1. /\ IsFiniteSet(Units(f, C))
      /\ IsFiniteSet(Units(f, D))
  BY UnitsFinite
<1>2. Units(f, C \cup D) = Units(f, C) \cup Units(f, D)
  BY DEF Units
<1>3. Units(f, C) \cap Units(f, D) = {}
  BY DEF Units
<1>4. Cardinality(Units(f, C) \cup Units(f, D))
        = Cardinality(Units(f, C)) + Cardinality(Units(f, D))
          - Cardinality(Units(f, C) \cap Units(f, D))
  BY <1>1, FS_Union
<1>5. /\ Cardinality(Units(f, C)) \in Nat
      /\ Cardinality(Units(f, D)) \in Nat
      /\ Cardinality(Units(f, C) \cap Units(f, D)) = 0
  BY <1>1, <1>3, FS_CardinalityType, FS_EmptySet
<1> DEFINE c == Cardinality(Units(f, C))
           d == Cardinality(Units(f, D))
           e == Cardinality(Units(f, C) \cap Units(f, D))
<1>6. Cardinality(Units(f, C \cup D)) = c + d
  <2>1. Cardinality(Units(f, C \cup D)) = c + d - e
    BY <1>2, <1>4
  <2>2. c \in Nat /\ d \in Nat /\ e = 0
    BY <1>5
  <2> HIDE DEF c, d, e
  <2> QED BY <2>1, <2>2
<1> QED BY <1>6 DEF Total, Units

\* Adding a decision adds its amount.
LEMMA TotalAdd ==
  ASSUME NEW f, NEW D, IsFiniteSet(D), NEW d, d \notin D, f[d] \in Amounts
  PROVE  Total(f, D \cup {d}) = Total(f, D) + f[d]
<1>1. IsFiniteSet({d})
  BY FS_Singleton
<1>2. D \cap {d} = {}
  OBVIOUS
<1>3. Total(f, D \cup {d}) = Total(f, D) + Total(f, {d})
  BY <1>1, <1>2, TotalDisjoint
<1> QED BY <1>3, TotalSingleton

\* Removing a decision removes its amount.
LEMMA TotalRemove ==
  ASSUME NEW f, NEW D, IsFiniteSet(D), NEW d \in D, f[d] \in Amounts
  PROVE  Total(f, D) = Total(f, D \ {d}) + f[d]
<1>1. IsFiniteSet(D \ {d})
  BY FS_Subset
<1>2. D = (D \ {d}) \cup {d}
  OBVIOUS
<1>3. d \notin D \ {d}
  OBVIOUS
<1>4. Total(f, (D \ {d}) \cup {d}) = Total(f, D \ {d}) + f[d]
  BY <1>1, <1>3, TotalAdd
<1> QED BY <1>2, <1>4

=============================================================================
