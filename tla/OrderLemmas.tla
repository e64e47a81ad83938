---------------------------- MODULE OrderLemmas -----------------------------
(***************************************************************************)
(* Lemmas about least elements, finite orders and sorted sequences, for    *)
(* the proofs of the components.  Induction is over the naturals, by the   *)
(* least element of the set of counterexamples.                            *)
(***************************************************************************)
EXTENDS Sorted, Integers, Sequences, FiniteSetsExt, FiniteSetTheorems,
        SequenceTheorems, WellFoundedInduction, TLAPS

\* A set of natural numbers that is not empty has a least element, whatever its
\* size: no sequence of naturals descends for ever.
LEMMA LeastExists ==
  ASSUME NEW S \in SUBSET Nat, S # {}
  PROVE  \E x \in S : \A y \in S : x <= y
<1>1. IsWellFoundedOn(OpToRel(<, Nat), Nat)
  BY NatLessThanWellFounded
<1>2. PICK x \in S : \A y \in S : ~ (<<y, x>> \in OpToRel(<, Nat))
  BY <1>1, WFMin
<1>3. \A y \in S : ~ (y < x)
  BY <1>2 DEF OpToRel
<1> QED
  BY <1>3

\* Min, of a set that is not empty.
LEMMA MinIsLeast ==
  ASSUME NEW S \in SUBSET Nat, S # {}
  PROVE  Min(S) \in S /\ \A y \in S : Min(S) <= y
  BY LeastExists DEF Min

\* A set with a total order on its members.
IsTotalOrder(R, S) ==
  /\ \A x \in S : <<x, x>> \notin R
  /\ \A x, y, z \in S : <<x, y>> \in R /\ <<y, z>> \in R => <<x, z>> \in R
  /\ \A x, y \in S : x # y => <<x, y>> \in R \/ <<y, x>> \in R

\* In a finite set that is not empty some member comes last.
LEMMA LastExists ==
  ASSUME NEW S, IsFiniteSet(S), S # {}, NEW R, IsTotalOrder(R, S)
  PROVE  \E m \in S : \A x \in S \ {m} : <<x, m>> \in R
<1> DEFINE HasLast(T) == \E m \in T : \A x \in T \ {m} : <<x, m>> \in R
           Bad == {n \in Nat : \E T \in SUBSET S : Cardinality(T) = n /\ T # {} /\ ~HasLast(T)}
<1>1. Bad = {}
  <2> SUFFICES ASSUME Bad # {}
               PROVE  FALSE
    OBVIOUS
  <2>1. PICK n \in Bad : \A k \in Bad : n <= k
    <3>1. Bad \in SUBSET Nat
      OBVIOUS
    <3> HIDE DEF Bad
    <3> QED
      BY <3>1, LeastExists
  <2>2. PICK T \in SUBSET S : Cardinality(T) = n /\ T # {} /\ ~HasLast(T)
    BY <2>1
  <2>3. PICK x \in T : TRUE
    BY <2>2
  <2>4. IsFiniteSet(T)
    BY <2>2, FS_Subset
  <2>5. Cardinality(T \ {x}) = n - 1 /\ n \in Nat /\ Cardinality(T \ {x}) \in Nat
    <3>1. IsFiniteSet(T \ {x}) /\ Cardinality(T \ {x}) = Cardinality(T) - 1
      BY <2>3, <2>4, FS_RemoveElement
    <3> QED
      BY <2>1, <2>2, <3>1, FS_CardinalityType
  <2>6. CASE T \ {x} = {}
    BY <2>2, <2>3, <2>6
  <2>7. CASE T \ {x} # {}
    <3>1. HasLast(T \ {x})
      <4>1. ~(n <= n - 1)
        BY <2>5
      <4>2. n - 1 \notin Bad
        BY <2>1, <4>1
      <4>3. n - 1 \in Nat
        BY <2>5
      <4> QED
        BY <2>5, <2>7, <4>2, <4>3
    <3>2. PICK m \in T \ {x} : \A y \in (T \ {x}) \ {m} : <<y, m>> \in R
      BY <3>1
    <3>3. <<x, m>> \in R \/ <<m, x>> \in R
      BY <2>3, <3>2 DEF IsTotalOrder
    <3>4. CASE <<x, m>> \in R
      BY <2>2, <3>2, <3>4
    <3>5. CASE <<m, x>> \in R
      <4>1. \A y \in T \ {x} : <<y, x>> \in R
        BY <2>3, <3>2, <3>5 DEF IsTotalOrder
      <4> QED
        BY <2>2, <2>3, <4>1
    <3> QED
      BY <3>3, <3>4, <3>5
  <2> QED
    BY <2>6, <2>7
<1>2. Cardinality(S) \in Nat
  BY FS_CardinalityType
<1> QED
  BY <1>1, <1>2

\* A finite set can be sorted.
LEMMA SortedExists ==
  ASSUME NEW S, IsFiniteSet(S), NEW R, IsTotalOrder(R, S)
  PROVE  \E s \in [1..Cardinality(S) -> S] :
           \A i, k \in 1..Cardinality(S) : i < k => <<s[i], s[k]>> \in R
<1> DEFINE Sorts(s, T, n) == s \in [1..n -> T] /\ \A i, k \in 1..n : i < k => <<s[i], s[k]>> \in R
           Bad == {n \in Nat : \E T \in SUBSET S : Cardinality(T) = n /\ ~\E s : Sorts(s, T, n)}
<1>1. Bad = {}
  <2> SUFFICES ASSUME Bad # {}
               PROVE  FALSE
    OBVIOUS
  <2>1. PICK n \in Bad : \A k \in Bad : n <= k
    <3>1. Bad \in SUBSET Nat
      OBVIOUS
    <3> HIDE DEF Bad
    <3> QED
      BY <3>1, LeastExists
  <2>2. PICK T \in SUBSET S : Cardinality(T) = n /\ ~\E s : Sorts(s, T, n)
    BY <2>1
  <2>3. IsFiniteSet(T) /\ n \in Nat
    BY <2>1, <2>2, FS_Subset
  <2>4. CASE T = {}
    <3>1. n = 0
      BY <2>2, <2>4, FS_EmptySet
    <3>2. Sorts([i \in 1..n |-> 0], T, n)
      BY <3>1
    <3> QED
      BY <2>2, <3>2
  <2>5. CASE T # {}
    <3>1. IsTotalOrder(R, T)
      BY <2>2 DEF IsTotalOrder
    <3>2. PICK m \in T : \A x \in T \ {m} : <<x, m>> \in R
      BY <2>3, <2>5, <3>1, LastExists
    <3>3. Cardinality(T \ {m}) = n - 1 /\ n - 1 \in Nat
      <4>1. IsFiniteSet(T \ {m}) /\ Cardinality(T \ {m}) = Cardinality(T) - 1
        BY <2>3, <3>2, FS_RemoveElement
      <4> QED
        BY <2>2, <2>3, <4>1, FS_CardinalityType
    <3>4. n - 1 \notin Bad
      BY <2>1, <2>3
    <3>5. PICK s : Sorts(s, T \ {m}, n - 1)
      BY <2>2, <3>3, <3>4
    <3> DEFINE t == [i \in 1..n |-> IF i = n THEN m ELSE s[i]]
    <3>6. \A i \in 1..n : i # n => i \in 1..n-1
      BY <2>3
    <3>7. t \in [1..n -> T]
      BY <3>2, <3>5, <3>6
    <3>8. ASSUME NEW i \in 1..n, NEW k \in 1..n, i < k
          PROVE  <<t[i], t[k]>> \in R
      <4>1. i # n /\ i \in 1..n-1
        BY <2>3, <3>6, <3>8
      <4>2. CASE k = n
        BY <3>2, <3>5, <4>1, <4>2
      <4>3. CASE k # n
        BY <3>5, <3>6, <3>8, <4>1, <4>3
      <4> QED
        BY <4>2, <4>3
    <3>9. Sorts(t, T, n)
      BY <3>7, <3>8
    <3> QED
      BY <2>2, <3>9
  <2> QED
    BY <2>4, <2>5
<1>2. Cardinality(S) \in Nat
  BY FS_CardinalityType
<1> QED
  BY <1>1, <1>2

\* SortedBy lists every member of a finite set once, in order: in a sorted
\* sequence as many members precede one as there are places before its own.
LEMMA SortedByCorrect ==
  ASSUME NEW S, IsFiniteSet(S), NEW R, IsTotalOrder(R, S)
  PROVE  /\ SortedBy(S, R) \in [1..Cardinality(S) -> S]
         /\ \A i, k \in 1..Cardinality(S) : i < k => <<SortedBy(S, R)[i], SortedBy(S, R)[k]>> \in R
         /\ \A x \in S : \E i \in 1..Cardinality(S) : SortedBy(S, R)[i] = x
<1> DEFINE n == Cardinality(S)
           before(x) == {y \in S : <<y, x>> \in R}
<1>1. PICK s \in [1..n -> S] : \A i, k \in 1..n : i < k => <<s[i], s[k]>> \in R
  BY SortedExists
<1>2. n \in Nat
  BY FS_CardinalityType
<1>3. \A i, k \in 1..n : s[i] = s[k] => i = k
  <2> SUFFICES ASSUME NEW i \in 1..n, NEW k \in 1..n, s[i] = s[k], i # k
               PROVE  FALSE
    OBVIOUS
  <2>1. i < k \/ k < i
    BY <1>2
  <2> QED
    BY <1>1, <2>1 DEF IsTotalOrder
<1>4. \A x \in S : \E i \in 1..n : s[i] = x
  <2>1. IsFiniteSet(1..n) /\ Cardinality(1..n) = n
    BY <1>2, FS_Interval
  <2>2. s \in Injection(1..n, S)
    BY <1>1, <1>3 DEF Injection, IsInjective
  <2>3. s \in Surjection(1..n, S)
    BY <2>1, <2>2, FS_Injection
  <2> QED
    BY <2>3 DEF Surjection
<1>5. ASSUME NEW k \in 1..n
      PROVE  Cardinality(before(s[k])) = k - 1
  <2> DEFINE t == [i \in 1..k-1 |-> s[i]]
  <2>1. 1..k-1 \subseteq 1..n /\ \A i \in 1..k-1 : i < k
    BY <1>2
  <2>2. \A i \in 1..k-1 : t[i] \in before(s[k])
    BY <1>1, <2>1
  <2>3. \A y \in before(s[k]) : \E i \in 1..k-1 : t[i] = y
    <3> SUFFICES ASSUME NEW y \in S, <<y, s[k]>> \in R
                 PROVE  \E i \in 1..k-1 : t[i] = y
      OBVIOUS
    <3>1. PICK i \in 1..n : s[i] = y
      BY <1>4
    <3>2. ~(k < i) /\ i # k
      BY <1>1, <3>1 DEF IsTotalOrder
    <3>3. i \in 1..k-1
      BY <1>2, <3>2
    <3> QED
      BY <3>1, <3>3
  <2>4. t \in Bijection(1..k-1, before(s[k]))
    BY <1>3, <2>1, <2>2, <2>3 DEF Bijection, Injection, Surjection, IsInjective
  <2>5. IsFiniteSet(1..k-1) /\ Cardinality(1..k-1) = k - 1
    <3> DEFINE b == k - 1
    <3>1. b \in Nat
      BY <1>2
    <3> HIDE DEF b
    <3>2. IsFiniteSet(1..b) /\ Cardinality(1..b) = IF 1 > b THEN 0 ELSE b - 1 + 1
      BY <3>1, FS_Interval
    <3>3. IsFiniteSet(1..b) /\ Cardinality(1..b) = b
      BY <3>1, <3>2
    <3> QED
      BY <3>3 DEF b
  <2> QED
    BY <2>4, <2>5, FS_Bijection DEF ExistsBijection
<1>6. ASSUME NEW k \in 1..n
      PROVE  SortedBy(S, R)[k] = s[k]
  <2>1. SortedBy(S, R)[k] = CHOOSE x \in S : Cardinality(before(x)) = k - 1
    BY DEF SortedBy
  <2>2. s[k] \in S /\ Cardinality(before(s[k])) = k - 1
    BY <1>1, <1>5
  <2>3. \A x \in S : Cardinality(before(x)) = k - 1 => x = s[k]
    <3> SUFFICES ASSUME NEW x \in S, Cardinality(before(x)) = k - 1
                 PROVE  x = s[k]
      OBVIOUS
    <3>1. PICK i \in 1..n : s[i] = x
      BY <1>4
    <3>2. Cardinality(before(x)) = i - 1
      BY <1>5, <3>1
    <3> QED
      BY <1>2, <3>1, <3>2
  <2> QED
    BY <2>1, <2>2, <2>3
<1>7. SortedBy(S, R) = s
  <2>1. \A k \in 1..n : (CHOOSE x \in S : Cardinality(before(x)) = k - 1) = s[k]
    BY <1>6 DEF SortedBy
  <2>2. SortedBy(S, R) = [k \in 1..n |-> s[k]]
    BY <2>1 DEF SortedBy
  <2> QED
    BY <1>1, <2>2
<1> QED
  BY <1>1, <1>4, <1>7

-----------------------------------------------------------------------------
(* Sequences. *)

\* The first items of a list.
LEMMA Prefix ==
  ASSUME NEW S, NEW s \in Seq(S), NEW m \in 0..Len(s)
  PROVE  /\ SubSeq(s, 1, m) \in Seq(S) /\ Len(SubSeq(s, 1, m)) = m
         /\ DOMAIN SubSeq(s, 1, m) = 1..m
         /\ \A i \in 1..m : SubSeq(s, 1, m)[i] = s[i]
<1>1. Len(s) \in Nat /\ DOMAIN s = 1..Len(s) /\ \A i \in 1..Len(s) : s[i] \in S
  OBVIOUS
<1>2. m \in Int /\ m - 1 + 1 = m /\ (1 <= m => m - 1 + 1 = m) /\ (~(1 <= m) => m = 0)
  BY <1>1
<1>3. \A i \in 1..m : i \in 1..Len(s) /\ 1 + i - 1 = i
  BY <1>1, <1>2
<1>4. \A i \in 1..m : s[i] \in S
  BY <1>1, <1>3
<1>5. /\ SubSeq(s, 1, m) \in Seq(S)
      /\ Len(SubSeq(s, 1, m)) = IF 1 <= m THEN m - 1 + 1 ELSE 0
      /\ \A i \in 1..m - 1 + 1 : SubSeq(s, 1, m)[i] = s[1 + i - 1]
  BY <1>2, <1>4, SubSeqProperties
<1> QED
  BY <1>2, <1>3, <1>5

\* A sequence has no more values than places.
LEMMA RangeAtMost ==
  ASSUME NEW s \in Seq(Nat)
  PROVE  IsFiniteSet(Range(s)) /\ Cardinality(Range(s)) <= Len(s)
<1> DEFINE n == Len(s)
<1>1. n \in Nat /\ DOMAIN s = 1..n
  OBVIOUS
<1>2. s \in Surjection(1..n, Range(s))
  BY <1>1 DEF Surjection, Range
<1> HIDE DEF n
<1>3. IsFiniteSet(1..n) /\ Cardinality(1..n) = n
  BY <1>1, FS_Interval
<1>4. IsFiniteSet(Range(s)) /\ Cardinality(Range(s)) <= Cardinality(1..n)
  BY <1>2, <1>3, FS_Surjection
<1> QED
  BY <1>3, <1>4 DEF n

\* What is left of a list after its first item.
LEMMA TailRange ==
  ASSUME NEW S, NEW s \in Seq(S), s # <<>>
  PROVE  /\ Range(Tail(s)) \subseteq Range(s) /\ Head(s) \in Range(s)
         /\ Range(s) \subseteq Range(Tail(s)) \cup {Head(s)}
<1>1. Len(s) \in Nat \ {0} /\ DOMAIN s = 1..Len(s)
  OBVIOUS
<1>2. /\ Head(s) = s[1]
      /\ Len(Tail(s)) = Len(s) - 1 /\ DOMAIN Tail(s) = 1..Len(s) - 1
      /\ \A i \in 1..Len(s) - 1 : Tail(s)[i] = s[i + 1]
  OBVIOUS
<1>3. 1 \in DOMAIN s /\ \A i \in 1..Len(s) - 1 : i + 1 \in DOMAIN s
  BY <1>1
<1>4. \A i \in DOMAIN s : i = 1 \/ (i - 1 \in 1..Len(s) - 1 /\ (i - 1) + 1 = i)
  BY <1>1
<1> QED
  BY <1>2, <1>3, <1>4 DEF Range

\* At most n first items of a list, of a list that is longer at least one.
LEMMA FirstOf ==
  ASSUME NEW S, NEW s \in Seq(S), NEW n \in Nat \ {0}, NEW t, t = SubSeq(s, 1, Min({n, Len(s)}))
  PROVE  /\ t \in Seq(S) /\ Len(t) \in Nat /\ Len(t) <= Len(s) /\ Len(t) <= n
         /\ DOMAIN t = 1..Len(t)
         /\ \A i \in 1..Len(t) : t[i] = s[i]
         /\ Len(t) < Len(s) => Len(t) > 0
<1> DEFINE T == {n, Len(s)}
<1>1. T \in SUBSET Nat /\ T # {}
  OBVIOUS
<1> HIDE DEF T
<1>2. Min(T) \in T /\ \A y \in T : Min(T) <= y
  BY <1>1, MinIsLeast
<1>3. PICK m : m = Min(T)
  OBVIOUS
<1>4. m \in Nat /\ m <= Len(s) /\ m <= n /\ (m = n \/ m = Len(s))
  BY <1>1, <1>2, <1>3 DEF T
<1>5. m \in 0..Len(s) /\ (m < Len(s) => m > 0)
  BY <1>4
<1>6. t = SubSeq(s, 1, m)
  BY <1>3 DEF T
<1>7. /\ t \in Seq(S) /\ Len(t) = m /\ DOMAIN t = 1..m
      /\ \A i \in 1..m : t[i] = s[i]
  <2>1. /\ SubSeq(s, 1, m) \in Seq(S) /\ Len(SubSeq(s, 1, m)) = m
        /\ DOMAIN SubSeq(s, 1, m) = 1..m
        /\ \A i \in 1..m : SubSeq(s, 1, m)[i] = s[i]
    BY <1>5, Prefix
  <2> QED
    BY <1>6, <2>1, Zenon
<1> QED
  BY <1>4, <1>5, <1>7

=============================================================================
