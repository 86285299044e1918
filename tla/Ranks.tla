--------------------------------- MODULE Ranks ---------------------------------
(***************************************************************************)
(* Sorting by counting.  The models order a finite set by the number of its *)
(* elements that come no later than a given one; these facts say that each  *)
(* place in the order is taken, and by whom.                                *)
(***************************************************************************)
EXTENDS Integers, FiniteSets, FiniteSetTheorems, FunctionTheorems, TLAPS

\* Each element of a finite set has a set of those that come no later; no two
\* have the same, and of any two one includes the other.
Chain(K, Upto) ==
    /\ IsFiniteSet(K) /\ Upto \in [K -> SUBSET K]
    /\ \A u \in K : Upto[u] # {}
    /\ \A u, v \in K : Upto[u] \subseteq Upto[v] \/ Upto[v] \subseteq Upto[u]
    /\ \A u, v \in K : Upto[u] = Upto[v] => u = v

\* The sizes of these sets are 1, 2, .. up to the number of the elements, each of
\* them once, and what comes earlier has the smaller set.
Ranked(K, Upto) ==
    /\ Cardinality(K) \in Nat
    /\ \A u \in K : Cardinality(Upto[u]) \in 1..Cardinality(K)
    /\ \A u, v \in K : Cardinality(Upto[u]) = Cardinality(Upto[v]) => u = v
    /\ \A u, v \in K : Cardinality(Upto[u]) < Cardinality(Upto[v]) => Upto[u] \subseteq Upto[v]
    /\ \A i \in 1..Cardinality(K) : \E u \in K : Cardinality(Upto[u]) = i

\* Every place in the order is taken by one element.
THEOREM EveryRankIsTaken == \A K, Upto : Chain(K, Upto) => Ranked(K, Upto)
<1> SUFFICES ASSUME NEW K, NEW Upto, Chain(K, Upto) PROVE Ranked(K, Upto)
  OBVIOUS
<1> USE DEF Chain
<1> DEFINE n == Cardinality(K)
           Rank == [u \in K |-> Cardinality(Upto[u])]
<1>1. n \in Nat
  BY FS_CardinalityType
<1>2. ASSUME NEW u \in K
      PROVE  /\ IsFiniteSet(Upto[u]) /\ Upto[u] \in SUBSET K
             /\ Cardinality(Upto[u]) \in 1..n
  <2>1. Upto[u] \in SUBSET K
    OBVIOUS
  <2>2. IsFiniteSet(Upto[u]) /\ Cardinality(Upto[u]) <= n
    BY <2>1, FS_Subset
  <2>3. Cardinality(Upto[u]) \in Nat /\ Cardinality(Upto[u]) # 0
    BY <2>2, FS_CardinalityType, FS_EmptySet
  <2> QED
    BY <1>1, <2>1, <2>2, <2>3
<1>3. \A u, v \in K : Cardinality(Upto[u]) = Cardinality(Upto[v]) => u = v
  <2> SUFFICES ASSUME NEW u \in K, NEW v \in K,
                      Cardinality(Upto[u]) = Cardinality(Upto[v])
               PROVE  u = v
    OBVIOUS
  <2>1. CASE Upto[u] \subseteq Upto[v]
    <3>1. Upto[u] = Upto[v]
      BY <1>2, <2>1, FS_Subset
    <3> QED
      BY <3>1
  <2>2. CASE Upto[v] \subseteq Upto[u]
    <3>1. Upto[v] = Upto[u]
      BY <1>2, <2>2, FS_Subset
    <3> QED
      BY <3>1
  <2> QED
    BY <2>1, <2>2
<1>4. Rank \in Injection(K, 1..n)
  BY <1>2, <1>3 DEF Injection, IsInjective
<1>5. IsFiniteSet(1..n) /\ Cardinality(1..n) = n
  BY <1>1, FS_Interval
<1>6. Rank \in Surjection(K, 1..n)
  BY <1>4, <1>5, FS_Injection
<1>7. ASSUME NEW u \in K, NEW v \in K, Cardinality(Upto[u]) < Cardinality(Upto[v])
      PROVE  Upto[u] \subseteq Upto[v]
  <2>1. Upto[v] \subseteq Upto[u] => Cardinality(Upto[v]) <= Cardinality(Upto[u])
    BY <1>2, FS_Subset
  <2> QED
    BY <1>2, <1>7, <2>1
<1> QED
  BY <1>1, <1>2, <1>3, <1>6, <1>7 DEF Surjection, Ranked
===============================================================================
