----------------------------- MODULE FiniteLemmas ------------------------------
(***************************************************************************)
(* What the models rely on for every finite set: its images are finite, a  *)
(* best element exists, a sum of naturals is one.  Induction is by least   *)
(* counterexample, from the well-foundedness of <.                         *)
(***************************************************************************)
EXTENDS FiniteSetsExt, FiniteSetTheorems, WellFoundedInduction, TLAPS

(* The element that MapThenSumSet removes from a set next. *)
Pick(s) == CHOOSE x \in s : TRUE

(* iter is the function MapThenSumSet defines over the subsets of S. *)
SumsOver(iter, w, S) ==
    \A s \in SUBSET S : iter[s] = IF s = {} THEN 0 ELSE w[Pick(s)] + iter[s \ {Pick(s)}]

LEMMA LeastNatural ==
    ASSUME NEW T \in SUBSET Nat, T # {}
    PROVE  \E n \in T : \A m \in T : n <= m
<1>1. PICK n \in T : \A m \in T : ~(<<m, n>> \in OpToRel(<, Nat))
  BY NatLessThanWellFounded, WFMin, Zenon
<1>2. \A m \in T : ~(m < n)
  BY <1>1 DEF OpToRel
<1> QED
  BY <1>2

LEMMA PickRemoves ==
    ASSUME NEW s, IsFiniteSet(s), s # {}
    PROVE  /\ Pick(s) \in s
           /\ IsFiniteSet(s \ {Pick(s)})
           /\ Cardinality(s) \in Nat /\ Cardinality(s) > 0
           /\ Cardinality(s \ {Pick(s)}) = Cardinality(s) - 1
<1>1. Pick(s) \in s
  BY DEF Pick
<1>2. Cardinality(s) \in Nat /\ Cardinality(s) # 0
  BY FS_CardinalityType, FS_EmptySet
<1> QED
  BY <1>1, <1>2, FS_RemoveElement

(* A finite set of naturals' indices has one with the largest value. *)
LEMMA LargestExists ==
    ASSUME NEW S, IsFiniteSet(S), S # {}, NEW f \in [S -> Int]
    PROVE  \E x \in S : \A y \in S : f[y] <= f[x]
<1> DEFINE HasLargest(X) == \E x \in X : \A y \in X : f[y] <= f[x]
           T == {n \in Nat : \E X \in SUBSET S : X # {} /\ Cardinality(X) = n /\ ~HasLargest(X)}
<1>1. SUFFICES ASSUME ~HasLargest(S) PROVE FALSE
  OBVIOUS
<1>2. Cardinality(S) \in T
  BY <1>1, FS_CardinalityType
<1>3. PICK n \in T : \A m \in T : n <= m
  <2> HIDE DEF T
  <2>1. T \in SUBSET Nat
    BY DEF T
  <2> QED
    BY <1>2, <2>1, LeastNatural
<1>4. PICK X \in SUBSET S : X # {} /\ Cardinality(X) = n /\ ~HasLargest(X)
  BY <1>3
<1> DEFINE R == X \ {Pick(X)}
<1>5. /\ Pick(X) \in X /\ Cardinality(R) = n - 1 /\ n \in Nat /\ n > 0
  BY <1>4, FS_Subset, PickRemoves
<1>6. CASE R = {}
  <2>1. \A y \in X : y = Pick(X)
    BY <1>6
  <2> QED
    BY <1>4, <1>5, <2>1
<1>7. CASE R # {}
  <2>1. HasLargest(R)
    <3>1. n - 1 \in Nat /\ n - 1 \notin T
      BY <1>3, <1>5
    <3> HIDE DEF HasLargest
    <3> QED
      BY <1>5, <1>7, <3>1
  <2>2. PICK z \in R : \A y \in R : f[y] <= f[z]
    BY <2>1
  <2>3. CASE f[Pick(X)] <= f[z]
    <3>1. \A y \in X : f[y] <= f[z]
      BY <2>2, <2>3
    <3> QED
      BY <1>4, <2>2, <3>1
  <2>4. CASE f[z] <= f[Pick(X)]
    <3>1. \A y \in X : f[y] <= f[Pick(X)]
      <4> TAKE y \in X
      <4>1. f[y] \in Int /\ f[z] \in Int /\ f[Pick(X)] \in Int
        BY <1>5, <2>2
      <4>2. CASE y \in R
        BY <2>2, <2>4, <4>1, <4>2
      <4>3. CASE y \notin R
        BY <4>1, <4>3
      <4> QED
        BY <4>2, <4>3
    <3> QED
      BY <1>4, <1>5, <3>1
  <2> QED
    BY <1>5, <2>2, <2>3, <2>4
<1> QED
  BY <1>6, <1>7

(* A function that sums naturals over the subsets of S yields naturals. *)
LEMMA SumsAreNatural ==
    ASSUME NEW S, IsFiniteSet(S), NEW w \in [S -> Nat], NEW iter, SumsOver(iter, w, S)
    PROVE  \A s \in SUBSET S : iter[s] \in Nat
<1> DEFINE T == {n \in Nat : \E s \in SUBSET S : Cardinality(s) = n /\ iter[s] \notin Nat}
<1>1. SUFFICES ASSUME NEW s0 \in SUBSET S, iter[s0] \notin Nat PROVE FALSE
  OBVIOUS
<1>2. Cardinality(s0) \in T
  BY <1>1, FS_CardinalityType, FS_Subset
<1>3. PICK n \in T : \A m \in T : n <= m
  <2> HIDE DEF T
  <2>1. T \in SUBSET Nat
    BY DEF T
  <2> QED
    BY <1>2, <2>1, LeastNatural
<1>4. PICK s \in SUBSET S : Cardinality(s) = n /\ iter[s] \notin Nat
  BY <1>3
<1>5. s # {} /\ iter[s] = w[Pick(s)] + iter[s \ {Pick(s)}]
  BY <1>4 DEF SumsOver
<1>6. Pick(s) \in s /\ Cardinality(s \ {Pick(s)}) = n - 1 /\ n > 0 /\ n \in Nat
  BY <1>4, <1>5, FS_Subset, PickRemoves
<1>7. iter[s \ {Pick(s)}] \in Nat
  <2>1. n - 1 \notin T
    BY <1>3, <1>6
  <2> QED
    BY <1>6, <2>1
<1> QED
  BY <1>4, <1>5, <1>6, <1>7

LEMMA SumsExist ==
    ASSUME NEW S, IsFiniteSet(S), NEW w \in [S -> Nat]
    PROVE  \E iter : DOMAIN iter = SUBSET S /\ SumsOver(iter, w, S)
<1> DEFINE Upto(n) == {s \in SUBSET S : Cardinality(s) <= n}
           Good(g, n) ==
               \A s \in Upto(n) : g[s] = IF s = {} THEN 0 ELSE w[Pick(s)] + g[s \ {Pick(s)}]
           T == {n \in Nat : ~\E g : DOMAIN g = Upto(n) /\ Good(g, n)}
<1>c. \A s \in SUBSET S : IsFiniteSet(s) /\ Cardinality(s) \in Nat
                          /\ Cardinality(s) <= Cardinality(S)
  BY FS_Subset, FS_CardinalityType
<1>1. T = {}
  <2>1. SUFFICES ASSUME T # {} PROVE FALSE
    OBVIOUS
  <2>2. PICK n \in T : \A m \in T : n <= m
    <3> HIDE DEF T
    <3>1. T \in SUBSET Nat
      BY DEF T
    <3> QED
      BY <2>1, <3>1, LeastNatural
  <2>3. CASE n = 0
    <3> DEFINE g == [s \in Upto(0) |-> 0]
    <3>1. \A s \in Upto(0) : s = {}
      BY <1>c, FS_EmptySet
    <3>2. DOMAIN g = Upto(0) /\ Good(g, 0)
      BY <3>1
    <3> QED
      BY <2>2, <2>3, <3>2
  <2>4. CASE n # 0
    <3>1. n - 1 \in Nat /\ n - 1 \notin T
      <4>1. n \in Nat
        BY <2>2
      <4> HIDE DEF T
      <4> QED
        BY <2>2, <2>4, <4>1
    <3>2. PICK g : DOMAIN g = Upto(n - 1) /\ Good(g, n - 1)
      BY <3>1
    <3> DEFINE h == [s \in Upto(n) |->
                        IF s \in Upto(n - 1) THEN g[s] ELSE w[Pick(s)] + g[s \ {Pick(s)}]]
    <3>3. ASSUME NEW s \in Upto(n), s # {}
          PROVE  s \ {Pick(s)} \in Upto(n - 1) /\ s \ {Pick(s)} \in Upto(n)
      <4>1. Cardinality(s \ {Pick(s)}) = Cardinality(s) - 1
        BY <1>c, <3>3, PickRemoves
      <4> QED
        BY <1>c, <4>1
    <3>4. {} \in Upto(n - 1)
      BY <3>1, FS_EmptySet
    <3>5. ASSUME NEW s \in Upto(n)
          PROVE  h[s] = IF s = {} THEN 0 ELSE w[Pick(s)] + h[s \ {Pick(s)}]
      <4> HIDE DEF Upto
      <4>1. CASE s = {}
        BY <3>2, <3>4, <3>5, <4>1
      <4>2. CASE s # {}
        <5>1. h[s \ {Pick(s)}] = g[s \ {Pick(s)}]
          BY <3>3, <4>2
        <5>2. h[s] = w[Pick(s)] + g[s \ {Pick(s)}]
          BY <3>2, <4>2
        <5> QED
          BY <4>2, <5>1, <5>2
      <4> QED
        BY <4>1, <4>2
    <3>6. DOMAIN h = Upto(n) /\ Good(h, n)
      BY <3>5
    <3> HIDE DEF h, Good, Upto
    <3> QED
      BY <2>2, <3>6
  <2> QED
    BY <2>3, <2>4
<1>2. Cardinality(S) \in Nat /\ Upto(Cardinality(S)) = SUBSET S
  BY <1>c, FS_CardinalityType
<1>3. PICK g : DOMAIN g = Upto(Cardinality(S)) /\ Good(g, Cardinality(S))
  BY <1>1, <1>2
<1> QED
  BY <1>2, <1>3 DEF SumsOver

(* A set that any function enumerates is as finite as its domain. *)
LEMMA FiniteRange ==
    ASSUME NEW S, IsFiniteSet(S), NEW f, DOMAIN f = S
    PROVE  IsFiniteSet({f[x] : x \in S})
<1> DEFINE T == {f[x] : x \in S}
           g == [x \in S |-> f[x]]
<1>1. g \in Surjection(S, T)
  BY DEF Surjection
<1> HIDE DEF g, T
<1>2. IsFiniteSet(T)
  BY <1>1, FS_Surjection
<1> QED
  BY <1>2 DEF T

LEMMA AtMostOne ==
    ASSUME NEW S, IsFiniteSet(S), NEW x \in S, ~(Cardinality(S) > 1)
    PROVE  S = {x}
<1>1. Cardinality(S) \in Nat /\ Cardinality({x}) = 1 /\ {x} \in SUBSET S
  BY FS_CardinalityType, FS_Singleton
<1>2. Cardinality({x}) <= Cardinality(S)
  BY <1>1, FS_Subset
<1> QED
  BY <1>1, <1>2, FS_Subset
=============================================================================
