---------------------------- MODULE NaturalLemmas ----------------------------
(***************************************************************************)
(* Least and greatest elements of sets of natural numbers and the ranks of *)
(* their elements, stated over sets so that proofs can cite them.          *)
(***************************************************************************)
EXTENDS Subsequences, FiniteSetTheorems, WellFoundedInduction, TLAPS

\* A non-empty set of naturals has a least element.
LEMMA LeastNatural ==
    ASSUME NEW T \in SUBSET Nat, T # {}
    PROVE  \E m \in T : \A n \in T : m <= n
<1> DEFINE R == OpToRel(<, Nat)
<1>1. IsWellFoundedOn(R, Nat)
  BY NatLessThanWellFounded
<1>2. \A x, y \in Nat : x < y => <<x, y>> \in R
  BY DEF OpToRel
<1> HIDE DEF R
<1>3. PICK x \in T : \A y \in T : <<y, x>> \notin R
  BY <1>1, WFMin
<1>4. \A y \in T : x \in Nat /\ y \in Nat /\ ~(y < x)
  BY <1>2, <1>3
<1>5. \A y \in T : x <= y
  BY <1>4
<1>6. QED
  BY <1>5

\* A non-empty set of naturals with an upper bound has a greatest element.
LEMMA GreatestNatural ==
    ASSUME NEW T \in SUBSET Nat, T # {}, NEW b \in Nat, \A n \in T : n <= b
    PROVE  \E m \in T : \A n \in T : n <= m
<1> DEFINE U == {n \in Nat : \A k \in T : k <= n}
<1>1. PICK u \in U : \A n \in U : u <= n
  BY LeastNatural
<1>2. CASE u \in T
  BY <1>1, <1>2
<1>3. CASE u \notin T
  <2>1. PICK k \in T : TRUE
    OBVIOUS
  <2>2. u \in Nat /\ k \in Nat /\ k <= u /\ k # u
    BY <1>1, <1>3
  <2>3. u # 0
    BY <2>2
  <2>4. u - 1 \in U
    BY <1>1, <1>3, <2>2, <2>3
  <2>5. QED
    BY <2>4, <1>1, <2>2
<1>4. QED
  BY <1>2, <1>3

\* A finite set of naturals has an element of every rank from 1 to its size.
LEMMA RankExists ==
    ASSUME NEW K \in SUBSET Nat, IsFiniteSet(K), NEW n \in 1 .. Cardinality(K)
    PROVE  \E i \in K : Cardinality({j \in K : j <= i}) = n
<1> DEFINE Upto(i) == {j \in K : j <= i}
           Bad == {m \in 1 .. Cardinality(K) : ~\E i \in K : Cardinality(Upto(i)) = m}
<1>1. Cardinality(K) \in Nat
  BY FS_CardinalityType
<1>2. SUFFICES ASSUME Bad # {} PROVE FALSE
  <2>1. Bad = {}
    BY <1>2
  <2>2. QED
    BY <2>1
<1>3. PICK m \in Bad : \A k \in Bad : m <= k
  <2>1. Bad \in SUBSET Nat
    BY <1>1
  <2>2. QED
    BY <1>2, <2>1, LeastNatural
<1>4. m \in Nat /\ m > 0 /\ m <= Cardinality(K)
  BY <1>1
<1>5. \A i \in K : Cardinality(Upto(i)) # m
  OBVIOUS
<1>6. ASSUME NEW A \in SUBSET K, Cardinality(A) = m - 1,
             \A a \in A : \A b \in K : b <= a => b \in A
      PROVE  FALSE
  <2>1. K \ A # {}
    <3>1. Cardinality(A) # Cardinality(K)
      BY <1>1, <1>4, <1>6
    <3>2. A # K
      BY <3>1
    <3>3. QED
      BY <3>2
  <2>2. PICK i \in K \ A : \A b \in K \ A : i <= b
    BY <2>1, LeastNatural
  <2>3. Upto(i) = A \cup {i}
    <3>1. \A a \in A : a <= i
      BY <1>6, <2>2
    <3>2. \A b \in K : b <= i => b \in A \/ b = i
      BY <2>2
    <3>3. i \in K /\ i <= i
      BY <2>2
    <3>4. \A b : b \in Upto(i) <=> b \in A \cup {i}
      BY <1>6, <3>1, <3>2, <3>3
    <3>5. QED
      BY <3>4
  <2>4. IsFiniteSet(A) /\ i \notin A
    BY <2>2, FS_Subset
  <2>5. Cardinality(Upto(i)) = m
    <3>1. Cardinality(A \cup {i}) = Cardinality(A) + 1
      BY <2>4, FS_AddElement
    <3> HIDE DEF Upto
    <3>2. Cardinality(Upto(i)) = Cardinality(A \cup {i})
      BY <2>3
    <3>3. QED
      BY <1>4, <1>6, <3>1, <3>2
  <2>6. QED
    BY <1>5, <2>5
<1>7. CASE m = 1
  <2>1. Cardinality({}) = m - 1
    BY <1>7, FS_EmptySet
  <2>2. QED
    BY <1>6, <2>1
<1>8. CASE m > 1
  <2>1. m - 1 \in 1 .. Cardinality(K) /\ m - 1 \notin Bad
    BY <1>1, <1>3, <1>4, <1>8
  <2>2. PICK i \in K : Cardinality(Upto(i)) = m - 1
    BY <2>1
  <2>3. Upto(i) \in SUBSET K /\ \A a \in Upto(i) : \A b \in K : b <= a => b \in Upto(i)
    OBVIOUS
  <2>4. QED
    BY <1>6, <2>2, <2>3
<1>9. QED
  BY <1>4, <1>7, <1>8

\* Positions of different rank are different.
LEMMA NthRanks ==
    ASSUME NEW K \in SUBSET Nat, IsFiniteSet(K)
    PROVE  /\ \A n \in 1 .. Cardinality(K) :
                  Nth(K, n) \in K /\ Cardinality({j \in K : j <= Nth(K, n)}) = n
           /\ \A i \in K : \E n \in 1 .. Cardinality(K) : Nth(K, n) = i
<1> DEFINE Upto(i) == {j \in K : j <= i}
<1>1. \A n \in 1 .. Cardinality(K) : Nth(K, n) \in K /\ Cardinality(Upto(Nth(K, n))) = n
  <2> TAKE n \in 1 .. Cardinality(K)
  <2>1. \E i \in K : Cardinality(Upto(i)) = n
    BY RankExists
  <2>2. QED
    BY <2>1 DEF Nth
<1>2. \A i \in K : IsFiniteSet(Upto(i)) /\ Cardinality(Upto(i)) \in 1 .. Cardinality(K)
  <2> TAKE i \in K
  <2>1. Upto(i) \in SUBSET K /\ i \in Upto(i)
    OBVIOUS
  <2>2. IsFiniteSet(Upto(i)) /\ Cardinality(Upto(i)) <= Cardinality(K)
    BY <2>1, FS_Subset
  <2>3. Cardinality(K) \in Nat /\ Cardinality(Upto(i)) \in Nat
    BY <2>2, FS_CardinalityType
  <2>4. Cardinality(Upto(i)) # 0
    BY <2>1, <2>2, FS_EmptySet
  <2>5. QED
    BY <2>2, <2>3, <2>4
<1>3. \A i, k \in K : i < k => Cardinality(Upto(i)) < Cardinality(Upto(k))
  <2> TAKE i, k \in K
  <2> HAVE i < k
  <2>0. i \in Nat /\ k \in Nat /\ \A j \in K : j \in Nat
    OBVIOUS
  <2>1. Upto(i) \cup {k} \in SUBSET Upto(k) /\ k \notin Upto(i)
    <3>1. (\A j \in K : j <= i => j <= k) /\ k <= k /\ ~(k <= i)
      BY <2>0
    <3>2. QED
      BY <3>1, Zenon
  <2>2. Cardinality(Upto(i) \cup {k}) = Cardinality(Upto(i)) + 1
    BY <1>2, <2>1, FS_AddElement
  <2>3. Cardinality(Upto(i) \cup {k}) <= Cardinality(Upto(k))
    BY <1>2, <2>1, FS_Subset
  <2>4. Cardinality(Upto(i)) \in Nat /\ Cardinality(Upto(k)) \in Nat
    BY <1>2, FS_CardinalityType
  <2>5. QED
    BY <2>2, <2>3, <2>4
<1>4. ASSUME NEW i \in K PROVE Nth(K, Cardinality(Upto(i))) = i
  <2> DEFINE n == Cardinality(Upto(i))
             k == Nth(K, n)
  <2>1. n \in 1 .. Cardinality(K)
    BY <1>2
  <2>2. k \in K /\ Cardinality(Upto(k)) = n
    BY <1>1, <2>1
  <2> HIDE DEF k
  <2>3. Cardinality(Upto(i)) \in Nat /\ Cardinality(Upto(k)) \in Nat
    BY <1>2, <2>2, FS_CardinalityType
  <2>4. ~(i < k) /\ ~(k < i)
    BY <1>3, <2>2, <2>3
  <2>5. i = k
    BY <2>2, <2>4
  <2>6. QED
    BY <2>5 DEF k
<1>5. QED
  BY <1>1, <1>2, <1>4

\* The entries at some positions, each of them once.
LEMMA KeepAtElements ==
    ASSUME NEW S, NEW s \in Seq(S), NEW K \in SUBSET DOMAIN s
    PROVE  /\ KeepAt(s, K) \in Seq(S)
           /\ \A n \in DOMAIN KeepAt(s, K) : Nth(K, n) \in K /\ KeepAt(s, K)[n] = s[Nth(K, n)]
           /\ \A i \in K : \E n \in DOMAIN KeepAt(s, K) : KeepAt(s, K)[n] = s[i]
           /\ \A m, n \in DOMAIN KeepAt(s, K) : Nth(K, m) = Nth(K, n) => m = n
<1>1. DOMAIN s = 1 .. Len(s) /\ Len(s) \in Nat /\ K \in SUBSET Nat
  OBVIOUS
<1>2. IsFiniteSet(K) /\ Cardinality(K) \in Nat
  <2>1. IsFiniteSet(1 .. Len(s))
    BY <1>1, FS_Interval
  <2>2. QED
    BY <1>1, <2>1, FS_Subset, FS_CardinalityType
<1>3. /\ \A n \in 1 .. Cardinality(K) :
            Nth(K, n) \in K /\ Cardinality({j \in K : j <= Nth(K, n)}) = n
      /\ \A i \in K : \E n \in 1 .. Cardinality(K) : Nth(K, n) = i
  BY <1>1, <1>2, NthRanks
<1>4. \A n \in 1 .. Cardinality(K) : Nth(K, n) \in K
  BY <1>3
<1>5. \A n \in 1 .. Cardinality(K) : s[Nth(K, n)] \in S
  BY <1>1, <1>4
<1>6. /\ KeepAt(s, K) = [n \in 1 .. Cardinality(K) |-> s[Nth(K, n)]]
      /\ KeepAt(s, K) \in Seq(S) /\ DOMAIN KeepAt(s, K) = 1 .. Cardinality(K)
  BY <1>2, <1>5 DEF KeepAt
<1>7. \A m, n \in 1 .. Cardinality(K) : Nth(K, m) = Nth(K, n) => m = n
  <2> TAKE m, n \in 1 .. Cardinality(K)
  <2> HAVE Nth(K, m) = Nth(K, n)
  <2>1. Cardinality({j \in K : j <= Nth(K, m)}) = Cardinality({j \in K : j <= Nth(K, n)})
    OBVIOUS
  <2>2. QED
    BY <1>3, <2>1
<1>8. \A i \in K : \E n \in 1 .. Cardinality(K) : s[Nth(K, n)] = s[i]
  BY <1>3
<1>9. QED
  BY <1>4, <1>6, <1>7, <1>8
==============================================================================
