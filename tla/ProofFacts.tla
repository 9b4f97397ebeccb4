------------------------------ MODULE ProofFacts -----------------------------
(***************************************************************************)
(* Facts that the proofs of this project share: about remainders, by which *)
(* every ring of the library is indexed; induction, stated about sets of   *)
(* numbers so that it can be cited; and sequences written out.             *)
(***************************************************************************)
EXTENDS Integers, Sequences, FiniteSetTheorems, SequenceTheorems, TLAPS

\* Two numbers closer together than the size of a ring have different slots.
LEMMA ModNear ==
  ASSUME NEW M \in Nat \ {0}, NEW a \in Nat, NEW b \in Nat, a < b, b < a + M
  PROVE  a % M # b % M
<1> DEFINE p == a \div M
           q == b \div M
<1>1. a = M * p + (a % M) /\ b = M * q + (b % M) /\ p \in Nat /\ q \in Nat
  BY SMT
<1>2. SUFFICES ASSUME a % M = b % M PROVE FALSE
  OBVIOUS
<1>3. b - a = M * q - M * p /\ M * q \in Nat /\ M * p \in Nat /\ a % M \in Nat
  BY <1>1, <1>2
<1>4. CASE q <= p
  <2>1. M * q <= M * p
    BY <1>1, <1>4
  <2> QED
    BY <2>1, <1>3
<1>5. CASE q >= p + 1
  <2>1. M * q >= M * (p + 1)
    BY <1>1, <1>5
  <2>2. M * (p + 1) = M * p + M
    BY <1>1
  <2> QED
    BY <2>1, <2>2, <1>3
<1> QED
  BY <1>1, <1>4, <1>5

\* The last number that has a given slot lies less than a ring's size back.
LEMMA ModLast ==
  ASSUME NEW M \in Nat \ {0}, NEW n \in Nat, NEW i \in 0 .. M - 1, i <= n
  PROVE  \E d \in 0 .. n : d % M = i /\ n < d + M
<1> DEFINE q == (n - i) \div M
           r == (n - i) % M
<1>1. n - i = M * q + r /\ q \in Nat /\ r \in 0 .. M - 1
  BY SMT
<1>2. M * q \in Nat /\ (M * q + i) % M = i
  BY <1>1
<1>3. M * q + i \in 0 .. n /\ n < M * q + i + M
  BY <1>1, <1>2
<1> QED
  BY <1>2, <1>3

\* Induction: a set of numbers that has 0 and the successor of each of its
\* members has them all.  (Were it not so, the intervals up to the missing
\* numbers would have a least one.)
LEMMA SetInduction ==
  ASSUME NEW S \in SUBSET Nat, 0 \in S, \A n \in S : n + 1 \in S
  PROVE  S = Nat
<1>1. SUFFICES ASSUME Nat \ S # {} PROVE FALSE
  OBVIOUS
<1> DEFINE T == {0 .. m : m \in Nat \ S}
           R == StrictSubsetOrdering(Nat)
<1>2. T \subseteq FiniteSubsetsOf(Nat)
  <2>1. \A m \in Nat : IsFiniteSet(0 .. m) /\ 0 .. m \subseteq Nat
    BY FS_Interval
  <2> QED
    BY <2>1 DEF FiniteSubsetsOf
<1>3. T # {}
  BY <1>1
<1>4. PICK t \in T : \A y \in T : ~ (<<y, t>> \in R)
  <2>1. IsWellFoundedOn(R, FiniteSubsetsOf(Nat))
    BY FS_StrictSubsetOrderingWellFounded
  <2> HIDE DEF T, R
  <2> QED
    BY <2>1, <1>2, <1>3, WFMin
<1>5. PICK m \in Nat \ S : t = 0 .. m
  BY <1>4
<1>6. ASSUME NEW k \in Nat, k < m PROVE k \in S
  <2>1. SUFFICES ASSUME k \notin S PROVE FALSE
    OBVIOUS
  <2>2. 0 .. k \in T
    BY <2>1
  <2>3. 0 .. k \in SUBSET Nat /\ 0 .. m \in SUBSET Nat /\ 0 .. k \subseteq 0 .. m
    BY <1>5, <1>6
  <2>4. 0 .. k # 0 .. m
    <3>1. m \in 0 .. m /\ m \notin 0 .. k
      BY <1>5, <1>6
    <3> QED
      BY <3>1
  <2>5. <<0 .. k, t>> \in R
    BY <2>3, <2>4, <1>5 DEF StrictSubsetOrdering
  <2> QED
    BY <2>2, <2>5, <1>4
<1>7. m - 1 \in Nat /\ m - 1 < m /\ (m - 1) + 1 = m
  BY <1>5
<1>8. m - 1 \in S
  BY <1>6, <1>7
<1> QED
  BY <1>7, <1>8, <1>5

\* A set of numbers with a bound has a last one.
LEMMA HasLast ==
  ASSUME NEW S \in SUBSET Nat, S # {}, NEW n \in Nat, \A k \in S : k <= n
  PROVE  \E k \in S : \A j \in S : j <= k
<1> SUFFICES ASSUME \A k \in S : \E j \in S : ~(j <= k) PROVE FALSE
  OBVIOUS
<1> DEFINE T == {d \in Nat : \A j \in S : j + d <= n}
<1>1. 0 \in T
  OBVIOUS
<1>2. ASSUME NEW d \in T PROVE d + 1 \in T
  <2>1. ASSUME NEW k \in S PROVE k + d # n
    <3>1. PICK j \in S : ~(j <= k)
      OBVIOUS
    <3> QED
      BY <1>2, <3>1
  <2> QED
    BY <1>2, <2>1
<1>3. T = Nat
  <2>1. T \in SUBSET Nat
    OBVIOUS
  <2> HIDE DEF T
  <2> QED
    BY <1>1, <1>2, <2>1, SetInduction
<1>4. n + 1 \in Nat
  OBVIOUS
<1>5. \A j \in S : j + (n + 1) <= n
  BY <1>3, <1>4
<1>6. PICK j \in S : TRUE
  OBVIOUS
<1>7. j \in Nat /\ j + (n + 1) <= n
  BY <1>5
<1> QED
  BY <1>7

\* A set of numbers has a first one.
LEMMA HasFirst ==
  ASSUME NEW S \in SUBSET Nat, S # {}
  PROVE  \E k \in S : \A j \in S : k <= j
<1> SUFFICES ASSUME \A k \in S : \E j \in S : ~(k <= j) PROVE FALSE
  OBVIOUS
<1> DEFINE T == {d \in Nat : \A j \in S : d <= j}
<1>1. 0 \in T
  OBVIOUS
<1>2. ASSUME NEW d \in T PROVE d + 1 \in T
  <2>1. ASSUME NEW j \in S PROVE j # d
    <3>1. PICK i \in S : ~(j <= i)
      OBVIOUS
    <3> QED
      BY <1>2, <3>1
  <2> QED
    BY <1>2, <2>1
<1>3. T = Nat
  <2>1. T \in SUBSET Nat
    OBVIOUS
  <2> HIDE DEF T
  <2> QED
    BY <1>1, <1>2, <2>1, SetInduction
<1>4. PICK j \in S : TRUE
  OBVIOUS
<1>5. j + 1 \in T
  BY <1>3
<1> QED
  BY <1>5

\* Sequences of two and three elements, put together.
LEMMA AppendToOne ==
  ASSUME NEW a, NEW b
  PROVE  Append(<<a>>, b) = <<a, b>>
<1> DEFINE S == {a, b}
<1>1. <<a>> \in Seq(S) /\ <<a, b>> \in Seq(S) /\ Append(<<a>>, b) \in Seq(S)
  OBVIOUS
<1>2. Len(<<a>>) = 1 /\ Len(<<a, b>>) = 2 /\ Len(Append(<<a>>, b)) = 2
  BY <1>1
<1>3. \A i \in 1 .. 2 : Append(<<a>>, b)[i] = <<a, b>>[i]
  BY <1>1, <1>2
<1> QED
  BY <1>1, <1>2, <1>3, SeqEqual

LEMMA AppendToTwo ==
  ASSUME NEW a, NEW b, NEW c
  PROVE  Append(<<a, b>>, c) = <<a, b, c>>
<1> DEFINE S == {a, b, c}
<1>1. <<a, b>> \in Seq(S) /\ <<a, b, c>> \in Seq(S) /\ Append(<<a, b>>, c) \in Seq(S)
  OBVIOUS
<1>2. Len(<<a, b>>) = 2 /\ Len(<<a, b, c>>) = 3 /\ Len(Append(<<a, b>>, c)) = 3
  BY <1>1
<1>3. \A i \in 1 .. 3 : Append(<<a, b>>, c)[i] = <<a, b, c>>[i]
  BY <1>1, <1>2
<1> QED
  BY <1>1, <1>2, <1>3, SeqEqual

LEMMA ConcatOne ==
  ASSUME NEW S, NEW s \in Seq(S), NEW c \in S
  PROVE  s \o <<c>> = Append(s, c)
<1>1. <<c>> \in Seq(S) /\ Len(<<c>>) = 1 /\ <<c>>[1] = c
  OBVIOUS
<1>2. s \o <<c>> \in Seq(S) /\ Len(s \o <<c>>) = Len(s) + 1
  BY <1>1
<1>3. Append(s, c) \in Seq(S) /\ Len(Append(s, c)) = Len(s) + 1
  OBVIOUS
<1>4. ASSUME NEW i \in 1 .. Len(s \o <<c>>) PROVE (s \o <<c>>)[i] = Append(s, c)[i]
  <2>1. CASE i <= Len(s)
    BY <1>1, <1>2, <2>1
  <2>2. CASE i = Len(s) + 1
    BY <1>1, <1>2, <2>2
  <2> QED
    BY <1>2, <2>1, <2>2
<1> QED
  BY <1>2, <1>3, <1>4, SeqEqual
=============================================================================
