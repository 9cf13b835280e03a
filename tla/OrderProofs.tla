----------------------------- MODULE OrderProofs -----------------------------
(***************************************************************************)
(* Lemmas about finite sets that are ordered: they have a last element,    *)
(* can be listed, and what precedes all else begins the list.  The other   *)
(* proofs use them for the order in which regimes are evaluated, for loops *)
(* and for who waits for whom.                                             *)
(*                                                                         *)
(* They are proved by SubsetInduction, which has a set where an induction  *)
(* principle has an operator.                                              *)
(***************************************************************************)
EXTENDS Integers, FiniteSetTheorems, FunctionTheorems, TLAPS

\* A relation that orders the elements of S one after the other.
Orders(R, S) ==
    /\ \A a \in S : <<a, a>> \notin R
    /\ \A a, b, c \in S : <<a, b>> \in R /\ <<b, c>> \in R => <<a, c>> \in R
    /\ \A a, b \in S : a = b \/ <<a, b>> \in R \/ <<b, a>> \in R

LastOf(m, T, R) == m \in T /\ \A a \in T : a = m \/ <<a, m>> \in R

Lists(f, T, R) ==
    /\ f \in [1 .. Cardinality(T) -> T]
    /\ \A i, j \in 1 .. Cardinality(T) : i < j => <<f[i], f[j]>> \in R

\* Induction over finite sets, without an operator for what is proved: among the subsets that
\* are not in Good, if there are any, one has only subsets that are.
LEMMA SubsetInduction ==
    ASSUME NEW S, IsFiniteSet(S), NEW Good,
           ASSUME NEW T \in SUBSET S, \A U \in SUBSET T : U # T => U \in Good
           PROVE  T \in Good
    PROVE  S \in Good
<1> DEFINE Bad == {T \in SUBSET S : T \notin Good}
           R == StrictSubsetOrdering(S)
<1>1. IsWellFoundedOn(R, SUBSET S)
  BY FS_StrictSubsetOrderingWellFounded, FS_FiniteSubsetsOfFinite
<1>2. ASSUME Bad # {} PROVE FALSE
  <2>1. PICK T \in Bad : \A U \in Bad : <<U, T>> \notin R
    <3>1. Bad \subseteq SUBSET S
      OBVIOUS
    <3> HIDE DEF Bad, R
    <3> QED BY <1>1, <1>2, <3>1, WFMin
  <2>2. \A U \in SUBSET T : U # T => U \in Good
    BY <2>1 DEF StrictSubsetOrdering
  <2> QED BY <2>1, <2>2
<1> QED BY <1>2

\* A finite set that is ordered has a last element, unless it is empty.
LEMMA LastExists ==
    ASSUME NEW S, IsFiniteSet(S), S # {}, NEW R, Orders(R, S)
    PROVE  \E m : LastOf(m, S, R)
<1> DEFINE Good == {T \in SUBSET S : T # {} => \E m : LastOf(m, T, R)}
<1>1. ASSUME NEW T \in SUBSET S, \A U \in SUBSET T : U # T => U \in Good
      PROVE  T \in Good
  <2>1. SUFFICES ASSUME NEW x \in T PROVE \E m : LastOf(m, T, R)
    OBVIOUS
  <2>2. CASE T = {x}
    BY <2>2 DEF LastOf
  <2>3. CASE T # {x}
    <3>1. PICK m : LastOf(m, T \ {x}, R)
      <4>1. T \ {x} \in SUBSET T /\ T \ {x} # T /\ T \ {x} # {}
        BY <2>3
      <4> QED BY <1>1, <4>1
    <3>2. CASE <<m, x>> \in R
      <4>1. LastOf(x, T, R)
        BY <3>1, <3>2 DEF LastOf, Orders
      <4> QED BY <4>1
    <3>3. CASE <<m, x>> \notin R
      <4>1. LastOf(m, T, R)
        BY <3>1, <3>3 DEF LastOf, Orders
      <4> QED BY <4>1
    <3> QED BY <3>2, <3>3
  <2> QED BY <2>2, <2>3
<1> HIDE DEF Good
<1>2. S \in Good
  BY <1>1, SubsetInduction
<1> QED BY <1>2 DEF Good

\* Of finitely many numbers one is the greatest.
LEMMA GreatestExists ==
    ASSUME NEW N \in SUBSET Nat, IsFiniteSet(N), N # {}
    PROVE  \E m \in N : \A n \in N : n <= m
<1> DEFINE R == {x \in Nat \X Nat : x[1] < x[2]}
<1>1. \A i, j \in Nat : <<i, j>> \in R <=> i < j
  OBVIOUS
<1> HIDE DEF R
<1>2. Orders(R, N)
  BY <1>1 DEF Orders
<1>3. PICK m : LastOf(m, N, R)
  BY <1>2, LastExists
<1>4. m \in N /\ m \in Nat
  BY <1>3 DEF LastOf
<1>5. ASSUME NEW n \in N PROVE n <= m
  <2>1. n = m \/ <<n, m>> \in R
    BY <1>3 DEF LastOf
  <2> QED BY <1>1, <1>4, <2>1
<1> QED BY <1>4, <1>5

\* A finite set that is ordered can be listed in that order.
LEMMA ListExists ==
    ASSUME NEW S, IsFiniteSet(S), NEW R, Orders(R, S)
    PROVE  \E f : Lists(f, S, R)
<1> DEFINE Good == {T \in SUBSET S : \E f : Lists(f, T, R)}
<1>1. ASSUME NEW T \in SUBSET S, \A U \in SUBSET T : U # T => U \in Good
      PROVE  T \in Good
  <2>1. IsFiniteSet(T) /\ Orders(R, T)
    BY FS_Subset DEF Orders
  <2>2. CASE T = {}
    <3>1. Cardinality(T) = 0
      BY <2>2, FS_EmptySet
    <3>2. Lists([i \in 1 .. 0 |-> i], T, R)
      BY <2>2, <3>1 DEF Lists
    <3> QED BY <3>2
  <2>3. CASE T # {}
    <3>1. PICK m : LastOf(m, T, R)
      BY <2>1, <2>3, LastExists
    <3> DEFINE U == T \ {m}
               n == Cardinality(U)
    <3>2. PICK f : Lists(f, U, R)
      <4>1. U \in SUBSET T /\ U # T
        BY <3>1 DEF LastOf
      <4> QED BY <1>1, <4>1
    <3>3. n \in Nat /\ Cardinality(T) = n + 1
      <4>1. IsFiniteSet(U) /\ Cardinality(U) = Cardinality(T) - 1
        BY <2>1, <3>1, FS_RemoveElement DEF LastOf
      <4>2. Cardinality(T) \in Nat /\ Cardinality(U) \in Nat
        BY <2>1, <4>1, FS_CardinalityType
      <4> QED BY <4>1, <4>2
    <3> DEFINE g == [i \in 1 .. n + 1 |-> IF i = n + 1 THEN m ELSE f[i]]
    <3>4. \A i \in 1 .. n : f[i] \in U
      BY <3>2 DEF Lists
    <3>5. \A i, j \in 1 .. n : i < j => <<f[i], f[j]>> \in R
      BY <3>2 DEF Lists
    <3>6. m \in T /\ \A a \in U : a \in T /\ <<a, m>> \in R
      BY <3>1 DEF LastOf
    <3> HIDE DEF n, U
    <3>7. \A i \in 1 .. n + 1 : g[i] = IF i = n + 1 THEN m ELSE f[i]
      OBVIOUS
    <3>8. g \in [1 .. n + 1 -> T]
      <4>1. \A i \in 1 .. n + 1 : g[i] \in T
        <5>1. \A i \in 1 .. n + 1 : i = n + 1 \/ i \in 1 .. n
          BY <3>3
        <5> HIDE DEF g
        <5> QED BY <3>4, <3>6, <3>7, <5>1
      <4> QED BY <4>1
    <3> HIDE DEF g
    <3>9. ASSUME NEW i \in 1 .. n + 1, NEW j \in 1 .. n + 1, i < j PROVE <<g[i], g[j]>> \in R
      <4>1. i \in 1 .. n /\ g[i] = f[i]
        BY <3>3, <3>9, <3>7
      <4>2. CASE j = n + 1
        BY <3>4, <3>6, <3>7, <4>1, <4>2
      <4>3. CASE j # n + 1
        <5>1. j \in 1 .. n /\ g[j] = f[j]
          BY <3>3, <3>7, <4>3
        <5> QED BY <3>5, <3>9, <4>1, <5>1
      <4> QED BY <4>2, <4>3
    <3>10. Lists(g, T, R)
      BY <3>3, <3>8, <3>9 DEF Lists
    <3> QED BY <3>10
  <2> QED BY <2>2, <2>3
<1> HIDE DEF Good
<1>2. S \in Good
  BY <1>1, SubsetInduction
<1> QED BY <1>2 DEF Good

\* The list goes through each element once.
LEMMA ListIsComplete ==
    ASSUME NEW S, IsFiniteSet(S), NEW R, Orders(R, S), NEW f, Lists(f, S, R)
    PROVE  f \in Bijection(1 .. Cardinality(S), S)
<1> DEFINE n == Cardinality(S)
<1>1. n \in Nat
  BY FS_CardinalityType
<1> HIDE DEF n
<1>2. f \in [1 .. n -> S] /\ \A i, j \in 1 .. n : i < j => <<f[i], f[j]>> \in R
  BY DEF Lists, n
<1>3. ASSUME NEW i \in 1 .. n, NEW j \in 1 .. n, f[i] = f[j] PROVE i = j
  <2>1. <<f[i], f[j]>> \notin R /\ <<f[j], f[i]>> \notin R
    BY <1>2, <1>3 DEF Orders
  <2> QED BY <1>1, <1>2, <2>1
<1>4. f \in Injection(1 .. n, S)
  BY <1>2, <1>3, Fun_IsInj
<1>5. IsFiniteSet(1 .. n) /\ Cardinality(1 .. n) = n
  BY <1>1, FS_Interval
<1>6. f \in Surjection(1 .. n, S)
  BY <1>4, <1>5, FS_Injection DEF n
<1> QED BY <1>4, <1>6 DEF Bijection, n

\* A set of numbers without gaps below 1 .. n is 1 .. m.
LEMMA InitialSegment ==
    ASSUME NEW n \in Nat, NEW I \in SUBSET (1 .. n),
           \A i, j \in 1 .. n : i < j /\ j \in I => i \in I
    PROVE  \E m \in 0 .. n : I = 1 .. m
<1>1. CASE I = {}
  BY <1>1
<1>2. CASE I # {}
  <2>1. IsFiniteSet(I)
    <3>1. IsFiniteSet(1 .. n)
      BY FS_Interval
    <3> QED BY <3>1, FS_Subset
  <2>2. I \in SUBSET Nat
    OBVIOUS
  <2>3. PICK m \in I : \A i \in I : i <= m
    BY <1>2, <2>1, <2>2, GreatestExists
  <2>4. m \in 1 .. n
    OBVIOUS
  <2>5. \A i \in 1 .. m : i \in I
    <3> TAKE i \in 1 .. m
    <3>1. i \in 1 .. n /\ (i = m \/ i < m)
      BY <2>4
    <3> QED BY <2>3, <2>4, <3>1
  <2>6. \A i \in I : i \in 1 .. m
    BY <2>3, <2>4
  <2>7. I = 1 .. m
    BY <2>5, <2>6
  <2>8. m \in 0 .. n
    BY <2>4
  <2> QED BY <2>7, <2>8
<1> QED BY <1>1, <1>2

\* What holds of 0 and, up to n, of each successor holds of all numbers up to n.
LEMMA CountingUp ==
    ASSUME NEW n \in Nat, NEW G, 0 \in G, \A k \in 0 .. n - 1 : k \in G => k + 1 \in G
    PROVE  n \in G
<1> DEFINE I == {i \in 1 .. n : \A j \in 1 .. i : j \in G}
<1>1. PICK m \in 0 .. n : I = 1 .. m
  <2>1. \A i, j \in 1 .. n : i < j /\ j \in I => i \in I
    OBVIOUS
  <2>2. I \in SUBSET (1 .. n)
    OBVIOUS
  <2> HIDE DEF I
  <2> QED BY <2>1, <2>2, InitialSegment
<1>2. m \in G /\ \A j \in 1 .. m : j \in G
  <2>1. CASE m = 0
    BY <2>1
  <2>2. CASE m # 0
    <3>1. m \in I
      BY <1>1, <2>2
    <3> QED BY <2>2, <3>1
  <2> QED BY <2>1, <2>2
<1>3. ASSUME m # n PROVE FALSE
  <2>1. m \in 0 .. n - 1 /\ m + 1 \in 1 .. n
    BY <1>3
  <2>2. m + 1 \in G
    BY <1>2, <2>1
  <2>3. \A j \in 1 .. m + 1 : j \in 1 .. m \/ j = m + 1
    OBVIOUS
  <2>4. m + 1 \in I
    BY <1>2, <2>1, <2>2, <2>3
  <2> HIDE DEF I
  <2> QED BY <1>1, <2>4
<1> QED BY <1>2, <1>3

\* What precedes all else in a list is its beginning.
LEMMA BeginningOfList ==
    ASSUME NEW S, IsFiniteSet(S), NEW R, Orders(R, S), NEW f, Lists(f, S, R),
           NEW D \in SUBSET S,
           \A a, b \in S : <<a, b>> \in R /\ b \in D => a \in D
    PROVE  {f[i] : i \in 1 .. Cardinality(D)} = D
<1> DEFINE n == Cardinality(S)
           I == {i \in 1 .. n : f[i] \in D}
<1>1. n \in Nat
  BY FS_CardinalityType
<1>2. f \in Bijection(1 .. n, S)
  BY ListIsComplete
<1>3. /\ f \in [1 .. n -> S]
      /\ \A i, j \in 1 .. n : i < j => <<f[i], f[j]>> \in R
  BY DEF Lists
<1> HIDE DEF n
<1>4. PICK m \in 0 .. n : I = 1 .. m
  <2>1. \A i, j \in 1 .. n : i < j /\ j \in I => i \in I
    BY <1>3
  <2>2. I \in SUBSET (1 .. n)
    OBVIOUS
  <2> HIDE DEF I
  <2> QED BY <1>1, <2>1, <2>2, InitialSegment
<1> DEFINE g == [i \in 1 .. m |-> f[i]]
<1>5. g \in Bijection(1 .. m, D)
  <2>1. \A i \in 1 .. m : i \in 1 .. n /\ f[i] \in D
    BY <1>4
  <2>2. g \in [1 .. m -> D]
    BY <2>1
  <2>3. \A i, j \in 1 .. m : g[i] = g[j] => i = j
    BY <1>2, <2>1 DEF Bijection, Injection, IsInjective
  <2>4. ASSUME NEW d \in D PROVE \E i \in 1 .. m : g[i] = d
    <3>1. PICK i \in 1 .. n : f[i] = d
      BY <1>2 DEF Bijection, Surjection
    <3>2. i \in 1 .. m
      BY <1>4, <3>1
    <3> QED BY <3>1, <3>2
  <2> HIDE DEF g
  <2> QED BY <2>2, <2>3, <2>4, Fun_IsBij
<1>6. Cardinality(D) = m
  BY <1>5, FS_CountingElements DEF ExistsBijection
<1>7. \A d \in D : \E i \in 1 .. m : f[i] = d
  BY <1>5 DEF Bijection, Surjection
<1>8. \A i \in 1 .. m : f[i] \in D
  BY <1>4
<1> QED BY <1>6, <1>7, <1>8

=============================================================================
