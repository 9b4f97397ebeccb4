----------------------------- MODULE OverloadsProofs -----------------------------
(***************************************************************************)
(* The functions of a command (CommandOverloads), whatever functions are   *)
(* registered in whatever order and whatever commands are executed.        *)
(***************************************************************************)
EXTENDS CommandOverloads, ProofFacts

-----------------------------------------------------------------------------
(* Counting parameters.                                                    *)

\* The simple ones among the first k.
SimpleUpTo(p, k) == Cardinality({j \in 1 .. k : p[j] \in Simple})

LEMMA SimpleIs == Simple = {"int32", "int64", "bool", "float", "string"}
BY DEF Simple, RawType

LEMMA ParamsAre ==
  ASSUME NEW p \in Seq(Kinds)
  PROVE  Len(p) \in Nat /\ DOMAIN p = 1 .. Len(p) /\ \A i \in 1 .. Len(p) : p[i] \in Kinds
OBVIOUS

LEMMA CountsAreFinite ==
  ASSUME NEW k \in Nat, NEW p
  PROVE  /\ IsFiniteSet({j \in 1 .. k : p[j] \in Simple})
         /\ SimpleUpTo(p, k) \in 0 .. k
<1> DEFINE S == {j \in 1 .. k : p[j] \in Simple}
<1>1. IsFiniteSet(1 .. k) /\ Cardinality(1 .. k) = k
  BY FS_Interval
<1>2. S \in SUBSET (1 .. k)
  OBVIOUS
<1>3. IsFiniteSet(S) /\ Cardinality(S) \in Nat /\ Cardinality(S) <= k
  BY <1>1, <1>2, FS_Subset, FS_CardinalityType
<1> QED
  BY <1>3 DEF SimpleUpTo

LEMMA CountIsNat ==
  ASSUME NEW p, NEW k \in Nat
  PROVE  SimpleUpTo(p, k) \in Nat
<1>1. SimpleUpTo(p, k) \in 0 .. k
  BY CountsAreFinite
<1> QED
  BY <1>1

LEMMA CountNone ==
  ASSUME NEW p
  PROVE  SimpleUpTo(p, 0) = 0
<1>1. 0 \in Nat
  OBVIOUS
<1>2. SimpleUpTo(p, 0) \in 0 .. 0
  BY <1>1, CountsAreFinite
<1> QED
  BY <1>2

\* One parameter more.
LEMMA CountOneMore ==
  ASSUME NEW p, NEW k \in Nat
  PROVE  SimpleUpTo(p, k + 1) =
           IF p[k + 1] \in Simple THEN SimpleUpTo(p, k) + 1 ELSE SimpleUpTo(p, k)
<1> DEFINE S(n) == {j \in 1 .. n : p[j] \in Simple}
<1>1. IsFiniteSet(S(k)) /\ k + 1 \notin S(k)
  BY CountsAreFinite
<1>2. CASE p[k + 1] \in Simple
  <2>1. S(k + 1) = S(k) \cup {k + 1}
    BY <1>2
  <2>2. Cardinality(S(k + 1)) = Cardinality(S(k)) + 1
    BY <2>1, <1>1, FS_AddElement
  <2> QED
    BY <2>2, <1>2 DEF SimpleUpTo
<1>3. CASE p[k + 1] \notin Simple
  <2>1. S(k + 1) = S(k)
    BY <1>3
  <2> QED
    BY <2>1, <1>3 DEF SimpleUpTo
<1> QED
  BY <1>2, <1>3

LEMMA CountGrows ==
  ASSUME NEW p, NEW k \in Nat, NEW n \in Nat, k <= n
  PROVE  SimpleUpTo(p, k) <= SimpleUpTo(p, n)
<1> DEFINE S(m) == {j \in 1 .. m : p[j] \in Simple}
<1>1. S(k) \in SUBSET S(n) /\ IsFiniteSet(S(n))
  BY CountsAreFinite
<1>2. Cardinality(S(k)) <= Cardinality(S(n))
  BY <1>1, FS_Subset
<1> QED
  BY <1>2 DEF SimpleUpTo

\* A simple parameter has a place of its own.
LEMMA CountPasses ==
  ASSUME NEW p, NEW k \in Nat, NEW i \in Nat, k < i, p[i] \in Simple
  PROVE  SimpleUpTo(p, k) < SimpleUpTo(p, i)
<1>1. i - 1 \in Nat /\ k <= i - 1 /\ (i - 1) + 1 = i
  OBVIOUS
<1>2. SimpleUpTo(p, k) <= SimpleUpTo(p, i - 1)
  BY <1>1, CountGrows
<1>3. SimpleUpTo(p, (i - 1) + 1) = SimpleUpTo(p, i - 1) + 1
  BY <1>1, CountOneMore
<1>4. SimpleUpTo(p, k) \in Nat /\ SimpleUpTo(p, i - 1) \in Nat
  BY <1>1, CountIsNat
<1> QED
  BY <1>1, <1>2, <1>3, <1>4

\* The counts the model takes of parts of a function.
LEMMA CountOfPart ==
  ASSUME NEW p \in Seq(Kinds), NEW k \in 0 .. Len(p)
  PROVE  /\ Count(SubSeq(p, 1, k), Simple) = SimpleUpTo(p, k)
         /\ Arity(SubSeq(p, 1, k)) = SimpleUpTo(p, k)
<1> DEFINE s == SubSeq(p, 1, k)
<1>1. /\ s \in Seq(Kinds) /\ Len(s) = k /\ DOMAIN s = 1 .. k
      /\ \A i \in 1 .. k : s[i] = p[i]
  <2>1. k \in Int /\ 1 \in Int /\ \A i \in 1 .. k : p[i] \in Kinds
    BY ParamsAre
  <2>2. /\ s \in Seq(Kinds) /\ Len(s) = (IF 1 <= k THEN k - 1 + 1 ELSE 0)
        /\ \A i \in 1 .. k - 1 + 1 : s[i] = p[1 + i - 1]
    BY <2>1, SubSeqProperties
  <2>3. Len(s) = k
    BY <2>2
  <2>4. DOMAIN s = 1 .. k
    BY <2>2, <2>3, LenProperties
  <2>5. ASSUME NEW i \in 1 .. k PROVE s[i] = p[i]
    <3>1. i \in 1 .. k - 1 + 1 /\ 1 + i - 1 = i
      OBVIOUS
    <3> QED
      BY <3>1, <2>2
  <2> QED
    BY <2>2, <2>3, <2>4, <2>5
<1> HIDE DEF s
<1>2. {i \in DOMAIN s : s[i] \in Simple} = {j \in 1 .. k : p[j] \in Simple}
  BY <1>1
<1>3. Count(s, Simple) = SimpleUpTo(p, k)
  BY <1>2 DEF Count, SimpleUpTo
<1> QED
  BY <1>3 DEF s, Arity

LEMMA CountOfAll ==
  ASSUME NEW p \in Seq(Kinds)
  PROVE  /\ Arity(p) = SimpleUpTo(p, Len(p))
         /\ HasTail(p) <=> \E i \in 1 .. Len(p) : p[i] \in Tails
<1>1. Len(p) \in Nat /\ DOMAIN p = 1 .. Len(p)
  BY ParamsAre
<1>2. Arity(p) = SimpleUpTo(p, Len(p))
  BY <1>1 DEF Arity, Count, SimpleUpTo
<1> DEFINE T == {i \in DOMAIN p : p[i] \in Tails}
<1>3. IsFiniteSet(T) /\ Cardinality(T) \in Nat
  <2>1. T \in SUBSET (1 .. Len(p)) /\ IsFiniteSet(1 .. Len(p))
    BY <1>1, FS_Interval
  <2> QED
    BY <2>1, FS_Subset, FS_CardinalityType
<1>4. Cardinality(T) = 0 <=> T = {}
  BY <1>3, FS_EmptySet
<1>5. HasTail(p) <=> Cardinality(T) > 0
  BY DEF HasTail, Count
<1>6. HasTail(p) <=> T # {}
  BY <1>3, <1>4, <1>5
<1> QED
  BY <1>1, <1>2, <1>6

-----------------------------------------------------------------------------
(* Compiling a function: what parse_args_pack has after n parameters.      *)

LEMMA KindsApart ==
  ASSUME NEW kind \in Kinds
  PROVE  \/ kind \in Simple /\ kind \notin Tails /\ kind \notin Tags
         \/ kind \in Tails /\ kind \notin Simple /\ kind \notin Tags
         \/ kind \in Tags /\ kind \notin Simple /\ kind \notin Tails
         \/ kind \notin Simple /\ kind \notin Tails /\ kind \notin Tags
BY SimpleIs DEF Kinds, Tails, Tags

\* The parameter j is the last simple or tail one up to i.
Owns(p, j, i) ==
  /\ j \in 1 .. i /\ p[j] \in Simple \cup Tails
  /\ \A k \in j + 1 .. i : p[k] \notin Simple \cup Tails

\* Of the first n parameters those that are labels of j, and the label that counts.
TagsOf(p, n, j) == {i \in 1 .. n : p[i] \in Tags /\ Owns(p, j, i)}
IsLabel(p, n, j, label) ==
  \/ TagsOf(p, n, j) = {} /\ label = Untagged
  \/ \E i \in TagsOf(p, n, j) : label = p[i] /\ \A k \in TagsOf(p, n, j) : k <= i

Labels == {Untagged} \cup Tags
ParsedArg == [type : {RawType[kind] : kind \in Simple}, label : Labels]
Pack == [args : Seq(ParsedArg), tail : {<< >>} \cup {<<l>> : l \in Labels}, error : BOOLEAN]

\* The arguments: one for each simple parameter, in order, and no other.
ArgsSoFar(p, n, args) ==
  /\ Len(args) = SimpleUpTo(p, n)
  /\ \A i \in 1 .. n : p[i] \in Simple =>
       /\ args[SimpleUpTo(p, i)].type = RawType[p[i]]
       /\ IsLabel(p, n, i, args[SimpleUpTo(p, i)].label)
  /\ \A a \in 1 .. Len(args) : \E i \in 1 .. n : p[i] \in Simple /\ SimpleUpTo(p, i) = a

\* The tail: the only one, behind all that is simple.
IsTail(p, n, t) ==
  /\ t \in 1 .. n /\ p[t] \in Tails
  /\ \A i \in 1 .. n : (p[i] \in Tails => i = t) /\ (p[i] \in Simple => i < t)
TailSoFar(p, n, tail) ==
  \/ tail = << >> /\ \A i \in 1 .. n : p[i] \notin Tails
  \/ \E t \in 1 .. n : IsTail(p, n, t) /\ \E l \in Labels : tail = <<l>> /\ IsLabel(p, n, t, l)

PackSoFar(p, n, pack) ==
  /\ pack \in Pack
  /\ ~pack.error => ArgsSoFar(p, n, pack.args) /\ TailSoFar(p, n, pack.tail)

\* A parameter has no label when it is met.
LEMMA LabelAtFirst ==
  ASSUME NEW p, NEW j \in Nat \ {0}, p[j] \notin Tags
  PROVE  IsLabel(p, j, j, Untagged)
<1>1. TagsOf(p, j, j) = {}
  <2>1. ASSUME NEW i \in 1 .. j, Owns(p, j, i) PROVE i = j
    BY <2>1 DEF Owns
  <2> QED
    BY <2>1 DEF TagsOf
<1> QED
  BY <1>1 DEF IsLabel

\* It keeps its label while what comes is no label of it.
LEMMA LabelStays ==
  ASSUME NEW p, NEW n \in Nat, NEW j, NEW label, IsLabel(p, n, j, label),
         p[n + 1] \notin Tags \/ ~Owns(p, j, n + 1)
  PROVE  IsLabel(p, n + 1, j, label)
<1>1. TagsOf(p, n + 1, j) = TagsOf(p, n, j)
  <2>1. 1 .. n + 1 = 1 .. n \cup {n + 1}
    OBVIOUS
  <2> QED
    BY <2>1 DEF TagsOf
<1> QED
  BY <1>1 DEF IsLabel

\* A label of it is its label from then on.
LEMMA LabelChanges ==
  ASSUME NEW p, NEW n \in Nat, NEW j, p[n + 1] \in Tags, Owns(p, j, n + 1)
  PROVE  IsLabel(p, n + 1, j, p[n + 1])
<1>1. n + 1 \in TagsOf(p, n + 1, j)
  BY DEF TagsOf
<1>2. \A k \in TagsOf(p, n + 1, j) : k <= n + 1
  BY DEF TagsOf
<1> QED
  BY <1>1, <1>2 DEF IsLabel

\* One step of parse_args_pack, by the kind of the parameter.
LEMMA NextIsSimple ==
  ASSUME NEW p \in Seq(Kinds), NEW n \in Nat, n + 1 \in 1 .. Len(p),
         NEW pack, PackSoFar(p, n, pack), p[n + 1] \in Simple
  PROVE  PackSoFar(p, n + 1, Parsed(pack, p[n + 1]))
<1> DEFINE kind == p[n + 1]
           arg == [type |-> RawType[kind], label |-> Untagged]
           next == Parsed(pack, kind)
<1>1. /\ kind \in Kinds /\ kind \notin Tails /\ kind \notin Tags /\ pack \in Pack
      /\ n + 1 \in Nat \ {0}
  BY ParamsAre, KindsApart DEF PackSoFar
<1>2. CASE pack.error
  BY <1>1, <1>2 DEF Parsed, PackSoFar, Pack
<1>3. CASE ~pack.error /\ pack.tail # << >>
  <2>1. next = [pack EXCEPT !.error = TRUE]
    BY <1>1, <1>3 DEF Parsed
  <2>2. next \in Pack /\ next.error
    BY <1>1, <2>1 DEF Pack
  <2> QED
    BY <2>2 DEF PackSoFar
<1>4. CASE ~pack.error /\ pack.tail = << >>
  <2>1. next = [pack EXCEPT !.args = Append(@, arg)]
    BY <1>1, <1>4 DEF Parsed
  <2>2. pack.args \in Seq(ParsedArg) /\ arg \in ParsedArg
    BY <1>1 DEF Pack, ParsedArg, Labels
  <2>3. /\ next \in Pack /\ next.args = Append(pack.args, arg) /\ next.tail = << >>
        /\ next.error = FALSE
    <3> DEFINE appended == Append(pack.args, arg)
    <3>1. appended \in Seq(ParsedArg)
      BY <2>2, AppendProperties
    <3>2. next = [pack EXCEPT !.args = appended]
      BY <2>1
    <3> HIDE DEF appended, next, arg
    <3>3. next \in Pack /\ next.args = appended /\ next.tail = << >> /\ next.error = FALSE
      BY <3>1, <3>2, <1>1, <1>4 DEF Pack
    <3> QED
      BY <3>3 DEF appended
  <2>4. /\ Len(next.args) = Len(pack.args) + 1 /\ next.args[Len(pack.args) + 1] = arg
        /\ \A a \in 1 .. Len(pack.args) : next.args[a] = pack.args[a]
        /\ Len(pack.args) \in Nat
    BY <2>2, <2>3
  <2>5. ArgsSoFar(p, n, pack.args) /\ \A i \in 1 .. n : p[i] \notin Tails
    BY <1>4 DEF PackSoFar, TailSoFar
  <2>6. Len(pack.args) = SimpleUpTo(p, n) /\ SimpleUpTo(p, n + 1) = SimpleUpTo(p, n) + 1
    BY <2>5, CountOneMore DEF ArgsSoFar
  <2> HIDE DEF next, kind
  <2>7. ASSUME NEW i \in 1 .. n + 1, p[i] \in Simple
        PROVE  /\ next.args[SimpleUpTo(p, i)].type = RawType[p[i]]
               /\ IsLabel(p, n + 1, i, next.args[SimpleUpTo(p, i)].label)
    <3>1. CASE i = n + 1
      <4>1. next.args[SimpleUpTo(p, i)] = arg
        BY <3>1, <2>4, <2>6
      <4>2. IsLabel(p, n + 1, n + 1, Untagged)
        BY <1>1, LabelAtFirst DEF kind
      <4> QED
        BY <4>1, <4>2, <3>1 DEF kind
    <3>2. CASE i \in 1 .. n
      <4>1. SimpleUpTo(p, i) \in 1 .. SimpleUpTo(p, n)
        <5>1. SimpleUpTo(p, 0) < SimpleUpTo(p, i) /\ SimpleUpTo(p, i) <= SimpleUpTo(p, n)
          BY <2>7, <3>2, CountPasses, CountGrows
        <5> QED
          BY <5>1, <3>2, CountNone, CountIsNat
      <4>2. next.args[SimpleUpTo(p, i)] = pack.args[SimpleUpTo(p, i)]
        BY <4>1, <2>4, <2>6
      <4>3. /\ pack.args[SimpleUpTo(p, i)].type = RawType[p[i]]
            /\ IsLabel(p, n, i, pack.args[SimpleUpTo(p, i)].label)
        BY <2>5, <2>7, <3>2 DEF ArgsSoFar
      <4>4. IsLabel(p, n + 1, i, pack.args[SimpleUpTo(p, i)].label)
        BY <4>3, <1>1, LabelStays DEF kind
      <4> QED
        BY <4>2, <4>3, <4>4
    <3> QED
      BY <3>1, <3>2
  <2>8. ASSUME NEW a \in 1 .. Len(next.args)
        PROVE  \E i \in 1 .. n + 1 : p[i] \in Simple /\ SimpleUpTo(p, i) = a
    <3>1. CASE a = Len(pack.args) + 1
      <4>1. n + 1 \in 1 .. n + 1 /\ p[n + 1] \in Simple /\ SimpleUpTo(p, n + 1) = a
        BY <3>1, <2>6
      <4> QED
        BY <4>1
    <3>2. CASE a \in 1 .. Len(pack.args)
      <4>1. PICK i \in 1 .. n : p[i] \in Simple /\ SimpleUpTo(p, i) = a
        BY <3>2, <2>5 DEF ArgsSoFar
      <4> QED
        BY <4>1
    <3> QED
      BY <3>1, <3>2, <2>4
  <2>9. ArgsSoFar(p, n + 1, next.args)
    BY <2>4, <2>6, <2>7, <2>8 DEF ArgsSoFar
  <2>10. TailSoFar(p, n + 1, next.tail)
    <3>1. \A i \in 1 .. n + 1 : i \in 1 .. n \/ i = n + 1
      OBVIOUS
    <3> QED
      BY <3>1, <2>3, <2>5, <1>1 DEF TailSoFar, kind
  <2> QED
    BY <2>3, <2>9, <2>10 DEF PackSoFar, next, kind
<1> QED
  BY <1>1, <1>2, <1>3, <1>4 DEF Pack

\* The arguments stay as they are while no simple parameter comes and no label of
\* theirs.
LEMMA ArgsStay ==
  ASSUME NEW p, NEW n \in Nat, NEW args, ArgsSoFar(p, n, args), p[n + 1] \notin Simple,
         \A i \in 1 .. n : p[i] \in Simple => p[n + 1] \notin Tags \/ ~Owns(p, i, n + 1)
  PROVE  ArgsSoFar(p, n + 1, args)
<1>1. SimpleUpTo(p, n + 1) = SimpleUpTo(p, n)
  BY CountOneMore
<1>2. ASSUME NEW i \in 1 .. n + 1, p[i] \in Simple
      PROVE  /\ args[SimpleUpTo(p, i)].type = RawType[p[i]]
             /\ IsLabel(p, n + 1, i, args[SimpleUpTo(p, i)].label)
  <2>1. i \in 1 .. n
    BY <1>2
  <2>2. /\ args[SimpleUpTo(p, i)].type = RawType[p[i]]
        /\ IsLabel(p, n, i, args[SimpleUpTo(p, i)].label)
    BY <1>2, <2>1 DEF ArgsSoFar
  <2>3. p[n + 1] \notin Tags \/ ~Owns(p, i, n + 1)
    BY <1>2, <2>1
  <2> QED
    BY <2>2, <2>3, LabelStays
<1>3. \A a \in 1 .. Len(args) : \E i \in 1 .. n + 1 : p[i] \in Simple /\ SimpleUpTo(p, i) = a
  BY DEF ArgsSoFar
<1> QED
  BY <1>1, <1>2, <1>3 DEF ArgsSoFar

LEMMA NextIsTail ==
  ASSUME NEW p \in Seq(Kinds), NEW n \in Nat, n + 1 \in 1 .. Len(p),
         NEW pack, PackSoFar(p, n, pack), p[n + 1] \in Tails
  PROVE  PackSoFar(p, n + 1, Parsed(pack, p[n + 1]))
<1> DEFINE kind == p[n + 1]
           next == Parsed(pack, kind)
<1>1. /\ kind \in Kinds /\ kind \notin Simple /\ kind \notin Tags /\ pack \in Pack
      /\ n + 1 \in Nat \ {0}
  BY ParamsAre, KindsApart DEF PackSoFar
<1>2. CASE pack.error
  BY <1>1, <1>2 DEF Parsed, PackSoFar, Pack
<1>3. CASE ~pack.error /\ pack.tail # << >>
  <2>1. next = [pack EXCEPT !.error = TRUE]
    BY <1>1, <1>3 DEF Parsed
  <2>2. next \in Pack /\ next.error
    BY <1>1, <2>1 DEF Pack
  <2> QED
    BY <2>2 DEF PackSoFar
<1>4. CASE ~pack.error /\ pack.tail = << >>
  <2>1. next = [pack EXCEPT !.tail = <<Untagged>>]
    BY <1>1, <1>4 DEF Parsed
  <2>2. next \in Pack /\ next.args = pack.args /\ next.tail = <<Untagged>> /\ next.error = FALSE
    BY <2>1, <1>1, <1>4 DEF Pack, Labels
  <2>3. ArgsSoFar(p, n, pack.args) /\ \A i \in 1 .. n : p[i] \notin Tails
    BY <1>4 DEF PackSoFar, TailSoFar
  <2>4. ArgsSoFar(p, n + 1, next.args)
    BY <2>2, <2>3, <1>1, ArgsStay
  <2>5. IsTail(p, n + 1, n + 1)
    <3>1. \A i \in 1 .. n + 1 : i = n + 1 \/ (i \in 1 .. n /\ i < n + 1)
      OBVIOUS
    <3> QED
      BY <3>1, <2>3, <1>1 DEF IsTail
  <2>6. IsLabel(p, n + 1, n + 1, Untagged)
    BY <1>1, LabelAtFirst
  <2>7. TailSoFar(p, n + 1, next.tail)
    BY <2>2, <2>5, <2>6 DEF TailSoFar, Labels
  <2> QED
    BY <2>2, <2>4, <2>7 DEF PackSoFar
<1> QED
  BY <1>1, <1>2, <1>3, <1>4 DEF Pack

LEMMA NextIsTag ==
  ASSUME NEW p \in Seq(Kinds), NEW n \in Nat, n + 1 \in 1 .. Len(p),
         NEW pack, PackSoFar(p, n, pack), p[n + 1] \in Tags
  PROVE  PackSoFar(p, n + 1, Parsed(pack, p[n + 1]))
<1> DEFINE kind == p[n + 1]
           next == Parsed(pack, kind)
<1>1. /\ kind \in Kinds /\ kind \notin Simple /\ kind \notin Tails /\ pack \in Pack
      /\ n + 1 \in Nat \ {0} /\ kind \in Labels
  BY ParamsAre, KindsApart DEF PackSoFar, Labels
<1>2. CASE pack.error
  BY <1>1, <1>2 DEF Parsed, PackSoFar, Pack
<1>3. CASE ~pack.error /\ pack.tail # << >>
  <2>1. next = [pack EXCEPT !.tail = <<kind>>]
    BY <1>1, <1>3 DEF Parsed
  <2> HIDE DEF kind, next
  <2>2. next \in Pack /\ next.args = pack.args /\ next.tail = <<kind>> /\ next.error = FALSE
    BY <2>1, <1>1, <1>3 DEF Pack
  <2>3. ArgsSoFar(p, n, pack.args) /\ TailSoFar(p, n, pack.tail)
    BY <1>3 DEF PackSoFar
  <2>4. PICK t \in 1 .. n : IsTail(p, n, t)
    BY <2>3, <1>3 DEF TailSoFar
  <2>5. \A i \in 1 .. n : p[i] \in Simple => ~Owns(p, i, n + 1)
    <3>1. ASSUME NEW i \in 1 .. n, p[i] \in Simple PROVE ~Owns(p, i, n + 1)
      <4>1. i < t /\ t \in i + 1 .. n + 1 /\ p[t] \in Simple \cup Tails
        BY <3>1, <2>4 DEF IsTail
      <4> QED
        BY <4>1 DEF Owns
    <3> QED
      BY <3>1
  <2>6. ArgsSoFar(p, n + 1, next.args)
    BY <2>2, <2>3, <2>5, <1>1, ArgsStay DEF kind
  <2>7. IsTail(p, n + 1, t)
    BY <2>4, <1>1 DEF IsTail, kind
  <2>8. Owns(p, t, n + 1)
    <3>1. \A k \in t + 1 .. n + 1 : k = n + 1 \/ (k \in 1 .. n /\ k # t /\ ~(k < t))
      BY <2>4
    <3> QED
      BY <3>1, <2>4, <1>1 DEF IsTail, Owns, kind
  <2>9. IsLabel(p, n + 1, t, kind)
    BY <2>8, LabelChanges DEF kind
  <2>10. TailSoFar(p, n + 1, next.tail)
    BY <2>2, <2>7, <2>9, <1>1 DEF TailSoFar
  <2> QED
    BY <2>2, <2>6, <2>10 DEF PackSoFar, kind, next
<1>4. CASE ~pack.error /\ pack.tail = << >> /\ pack.args = << >>
  <2>1. next = [pack EXCEPT !.error = TRUE]
    BY <1>1, <1>4 DEF Parsed
  <2>2. next \in Pack /\ next.error
    BY <1>1, <2>1 DEF Pack
  <2> QED
    BY <2>2 DEF PackSoFar
<1>5. CASE ~pack.error /\ pack.tail = << >> /\ pack.args # << >>
  <2> DEFINE last == Len(pack.args)
             labelled == [pack.args[last] EXCEPT !.label = kind]
             relabelled == [pack.args EXCEPT ![last] = labelled]
  <2>1. next = [pack EXCEPT !.args = relabelled]
    BY <1>1, <1>5 DEF Parsed
  <2>2. /\ pack.args \in Seq(ParsedArg) /\ last \in Nat \ {0} /\ last \in 1 .. Len(pack.args)
        /\ pack.args[last] \in ParsedArg
    <3>1. pack.args \in Seq(ParsedArg)
      BY <1>1 DEF Pack
    <3> HIDE DEF ParsedArg
    <3> QED
      BY <3>1, <1>5, EmptySeq
  <2>3. labelled \in ParsedArg /\ labelled.type = pack.args[last].type /\ labelled.label = kind
    BY <2>2, <1>1 DEF ParsedArg
  <2> HIDE DEF labelled
  <2>4. /\ relabelled \in Seq(ParsedArg) /\ Len(relabelled) = last
        /\ \A a \in 1 .. last : relabelled[a] = IF a = last THEN labelled ELSE pack.args[a]
    BY <2>2, <2>3, ExceptSeq
  <2> HIDE DEF relabelled, next, kind
  <2>5. next \in Pack /\ next.args = relabelled /\ next.tail = << >> /\ next.error = FALSE
    BY <2>1, <2>4, <1>1, <1>5 DEF Pack
  <2>6. ArgsSoFar(p, n, pack.args) /\ \A i \in 1 .. n : p[i] \notin Tails
    BY <1>5 DEF PackSoFar, TailSoFar
  <2>7. PICK o \in 1 .. n : p[o] \in Simple /\ SimpleUpTo(p, o) = last
    BY <2>2, <2>6 DEF ArgsSoFar
  <2>8. \A i \in 1 .. n : p[i] \in Simple => i <= o
    <3>1. ASSUME NEW i \in 1 .. n, p[i] \in Simple, o < i PROVE FALSE
      <4>1. SimpleUpTo(p, o) < SimpleUpTo(p, i) /\ SimpleUpTo(p, i) <= SimpleUpTo(p, n)
        BY <3>1, CountPasses, CountGrows
      <4>2. SimpleUpTo(p, n) = last /\ SimpleUpTo(p, i) \in Nat
        BY <2>6, CountIsNat DEF ArgsSoFar
      <4> QED
        BY <4>1, <4>2, <2>7, <2>2
    <3> QED
      BY <3>1
  <2>9. Owns(p, o, n + 1)
    <3>1. \A k \in o + 1 .. n + 1 : k = n + 1 \/ (k \in 1 .. n /\ ~(k <= o))
      BY <2>7
    <3> QED
      BY <3>1, <2>6, <2>7, <2>8, <1>1 DEF Owns, kind
  <2>10. IsLabel(p, n + 1, o, kind)
    BY <2>9, LabelChanges, <1>1 DEF kind
  <2>11. SimpleUpTo(p, n + 1) = SimpleUpTo(p, n) /\ SimpleUpTo(p, n) = last
    BY <2>6, <1>1, CountOneMore DEF ArgsSoFar, kind
  <2>12. ASSUME NEW i \in 1 .. n + 1, p[i] \in Simple
         PROVE  /\ relabelled[SimpleUpTo(p, i)].type = RawType[p[i]]
                /\ IsLabel(p, n + 1, i, relabelled[SimpleUpTo(p, i)].label)
    <3>1. i \in 1 .. n /\ i <= o
      BY <2>12, <2>8, <1>1 DEF kind
    <3>2. /\ pack.args[SimpleUpTo(p, i)].type = RawType[p[i]]
          /\ IsLabel(p, n, i, pack.args[SimpleUpTo(p, i)].label)
      BY <2>6, <2>12, <3>1 DEF ArgsSoFar
    <3>3. CASE i = o
      <4>1. relabelled[SimpleUpTo(p, i)] = labelled
        BY <3>3, <2>7, <2>4, <2>2
      <4> QED
        BY <4>1, <2>3, <2>7, <2>10, <3>2, <3>3
    <3>4. CASE i < o
      <4>1. SimpleUpTo(p, 0) < SimpleUpTo(p, i) /\ SimpleUpTo(p, i) < SimpleUpTo(p, o)
        BY <2>12, <2>7, <3>1, <3>4, CountPasses
      <4>2. SimpleUpTo(p, i) \in 1 .. last /\ SimpleUpTo(p, i) # last
        BY <4>1, <2>7, <2>2, <3>1, CountNone, CountIsNat
      <4>3. relabelled[SimpleUpTo(p, i)] = pack.args[SimpleUpTo(p, i)]
        BY <4>2, <2>4
      <4>4. ~Owns(p, i, n + 1)
        <5>1. o \in i + 1 .. n + 1 /\ p[o] \in Simple \cup Tails
          BY <3>4, <3>1, <2>7
        <5> QED
          BY <5>1 DEF Owns
      <4>5. IsLabel(p, n + 1, i, pack.args[SimpleUpTo(p, i)].label)
        BY <3>2, <4>4, LabelStays
      <4> QED
        BY <4>3, <4>5, <3>2
    <3> QED
      BY <3>1, <3>3, <3>4
  <2>13. \A a \in 1 .. last : \E i \in 1 .. n + 1 : p[i] \in Simple /\ SimpleUpTo(p, i) = a
    BY <2>6 DEF ArgsSoFar
  <2>14. ArgsSoFar(p, n + 1, next.args)
    BY <2>4, <2>5, <2>11, <2>12, <2>13 DEF ArgsSoFar
  <2>15. TailSoFar(p, n + 1, next.tail)
    <3>1. \A i \in 1 .. n + 1 : i \in 1 .. n \/ i = n + 1
      OBVIOUS
    <3> QED
      BY <3>1, <2>5, <2>6, <1>1 DEF TailSoFar, kind
  <2> QED
    BY <2>5, <2>14, <2>15 DEF PackSoFar, kind, next
<1> QED
  BY <1>1, <1>2, <1>3, <1>4, <1>5 DEF Pack

LEMMA NextIsName ==
  ASSUME NEW p \in Seq(Kinds), NEW n \in Nat, n + 1 \in 1 .. Len(p),
         NEW pack, PackSoFar(p, n, pack),
         p[n + 1] \notin Simple, p[n + 1] \notin Tails, p[n + 1] \notin Tags
  PROVE  PackSoFar(p, n + 1, Parsed(pack, p[n + 1]))
<1>1. pack \in Pack /\ Parsed(pack, p[n + 1]) = pack
  BY DEF PackSoFar, Pack, Parsed
<1>2. ASSUME ~pack.error PROVE ArgsSoFar(p, n + 1, pack.args) /\ TailSoFar(p, n + 1, pack.tail)
  <2>1. ArgsSoFar(p, n, pack.args) /\ TailSoFar(p, n, pack.tail)
    BY <1>2 DEF PackSoFar
  <2>2. ArgsSoFar(p, n + 1, pack.args)
    BY <2>1, ArgsStay
  <2>3. \A i \in 1 .. n + 1 : i \in 1 .. n \/ i = n + 1
    OBVIOUS
  <2>4. CASE pack.tail = << >> /\ \A i \in 1 .. n : p[i] \notin Tails
    BY <2>2, <2>3, <2>4 DEF TailSoFar
  <2>5. ASSUME NEW t \in 1 .. n, IsTail(p, n, t), NEW l \in Labels, pack.tail = <<l>>,
               IsLabel(p, n, t, l)
        PROVE  TailSoFar(p, n + 1, pack.tail)
    <3>1. IsTail(p, n + 1, t) /\ t \in 1 .. n + 1
      BY <2>3, <2>5 DEF IsTail
    <3>2. IsLabel(p, n + 1, t, l)
      BY <2>5, LabelStays
    <3> QED
      BY <3>1, <3>2, <2>5 DEF TailSoFar
  <2> QED
    BY <2>1, <2>2, <2>4, <2>5 DEF TailSoFar
<1> QED
  BY <1>1, <1>2 DEF PackSoFar

\* The packs that parse_args_pack has one after another.
IsParsing(f, n, params) ==
  f = [i \in 0 .. n |-> IF i = 0 THEN NoPack ELSE Parsed(f[i - 1], params[i])]

LEMMA ParsingExists ==
  ASSUME NEW params, NEW length \in Nat
  PROVE  \E f : IsParsing(f, length, params)
<1> DEFINE S == {n \in Nat : \E f : IsParsing(f, n, params)}
<1>1. 0 \in S
  <2> DEFINE f == [i \in 0 .. 0 |-> NoPack]
  <2>1. IsParsing(f, 0, params)
    BY DEF IsParsing
  <2> QED
    BY <2>1
<1>2. ASSUME NEW n \in S PROVE n + 1 \in S
  <2>1. PICK f : IsParsing(f, n, params)
    OBVIOUS
  <2> DEFINE Step(x, i) == Parsed(x, params[i])
             h == [i \in 0 .. n + 1 |-> IF i = n + 1 THEN Step(f[n], i) ELSE f[i]]
  <2>2. f = [i \in 0 .. n |-> IF i = 0 THEN NoPack ELSE Step(f[i - 1], i)]
    BY <2>1 DEF IsParsing
  <2> HIDE DEF Step
  <2>3. ASSUME NEW i \in 0 .. n + 1
        PROVE  h[i] = IF i = 0 THEN NoPack ELSE Step(h[i - 1], i)
    <3>1. CASE i = n + 1
      <4>1. i - 1 = n /\ n \in 0 .. n + 1 /\ n # n + 1 /\ i # 0
        BY <3>1
      <4> QED
        BY <3>1, <4>1
    <3>2. CASE i = 0
      BY <2>2, <3>2
    <3>3. CASE i # 0 /\ i # n + 1
      <4>1. i \in 0 .. n /\ i - 1 \in 0 .. n + 1 /\ i - 1 # n + 1
        BY <3>3
      <4>2. h[i] = f[i] /\ h[i - 1] = f[i - 1]
        BY <3>3, <4>1
      <4>3. f[i] = Step(f[i - 1], i)
        BY <2>2, <3>3, <4>1
      <4> QED
        BY <3>3, <4>2, <4>3
    <3> QED
      BY <3>1, <3>2, <3>3
  <2>4. h = [i \in 0 .. n + 1 |-> h[i]]
    OBVIOUS
  <2> HIDE DEF h
  <2>5. h = [i \in 0 .. n + 1 |-> IF i = 0 THEN NoPack ELSE Step(h[i - 1], i)]
    BY <2>3, <2>4
  <2>6. IsParsing(h, n + 1, params)
    BY <2>5 DEF IsParsing, Step
  <2> QED
    BY <2>6
<1>3. S = Nat
  <2>1. S \in SUBSET Nat
    OBVIOUS
  <2> HIDE DEF S
  <2> QED
    BY <1>1, <1>2, <2>1, SetInduction
<1> QED
  BY <1>3

\* What a function is compiled to.
LEMMA ParsedPack ==
  ASSUME NEW p \in Seq(Kinds)
  PROVE  PackSoFar(p, Len(p), parse_args_pack(p))
<1> DEFINE packs == CHOOSE f : IsParsing(f, Len(p), p)
<1>1. Len(p) \in Nat
  BY ParamsAre
<1>2. IsParsing(packs, Len(p), p)
  BY <1>1, ParsingExists
<1>3. parse_args_pack(p) = packs[Len(p)]
  BY DEF parse_args_pack, IsParsing
<1> HIDE DEF packs
<1> DEFINE S == {n \in Nat : n <= Len(p) => PackSoFar(p, n, packs[n])}
<1>4. 0 \in S
  <2>1. packs[0] = NoPack
    BY <1>1, <1>2 DEF IsParsing
  <2>2. NoPack \in Pack /\ NoPack.args = << >> /\ NoPack.tail = << >>
    BY DEF NoPack, Pack
  <2>3. ArgsSoFar(p, 0, << >>)
    BY CountNone DEF ArgsSoFar
  <2>4. TailSoFar(p, 0, << >>)
    BY DEF TailSoFar
  <2> QED
    BY <2>1, <2>2, <2>3, <2>4 DEF PackSoFar
<1>5. ASSUME NEW n \in S PROVE n + 1 \in S
  <2>1. SUFFICES ASSUME n + 1 <= Len(p) PROVE PackSoFar(p, n + 1, packs[n + 1])
    OBVIOUS
  <2>2. n \in Nat /\ n <= Len(p) /\ n + 1 \in 1 .. Len(p)
    BY <1>1, <2>1
  <2>3. PackSoFar(p, n, packs[n])
    BY <2>2
  <2>4. packs[n + 1] = Parsed(packs[n], p[n + 1])
    BY <1>2, <2>2 DEF IsParsing
  <2>5. p[n + 1] \in Kinds
    BY <2>2, ParamsAre
  <2> QED
    BY <2>2, <2>3, <2>4, <2>5, KindsApart, NextIsSimple, NextIsTail, NextIsTag, NextIsName
<1>6. S = Nat
  <2>1. S \in SUBSET Nat
    OBVIOUS
  <2> HIDE DEF S
  <2> QED
    BY <1>4, <1>5, <2>1, SetInduction
<1> QED
  BY <1>1, <1>3, <1>6

\* The functions there are, compiled.
Functions == {p \in Seq(Kinds) : ~parse_args_pack(p).error}

LEMMA CompiledArgs ==
  ASSUME NEW p \in Functions
  PROVE  LET o == compile_command(p)
         IN  /\ o.params = p
             /\ o.args \in Seq(ParsedArg) /\ ArgsSoFar(p, Len(p), o.args)
             /\ TailSoFar(p, Len(p), o.tail)
             /\ DOMAIN o.index = DOMAIN p
             /\ \A i \in DOMAIN p : o.index[i] = SimpleUpTo(p, i - 1)
<1> DEFINE o == compile_command(p)
           pack == parse_args_pack(p)
<1>1. p \in Seq(Kinds) /\ ~pack.error /\ pack \in Pack
  BY ParsedPack DEF Functions, PackSoFar
<1>2. pack.args \in Seq(ParsedArg)
  BY <1>1 DEF Pack
<1>3. ArgsSoFar(p, Len(p), pack.args) /\ TailSoFar(p, Len(p), pack.tail)
  BY <1>1, ParsedPack DEF PackSoFar
<1>4. o.params = p /\ o.args = pack.args /\ o.tail = pack.tail /\ o.index = enumerate_args(p)
  BY DEF compile_command
<1>5. DOMAIN o.index = DOMAIN p
  BY <1>4 DEF enumerate_args
<1>6. ASSUME NEW i \in DOMAIN p PROVE o.index[i] = SimpleUpTo(p, i - 1)
  <2>1. i - 1 \in 0 .. Len(p)
    BY <1>1, ParamsAre
  <2>2. Count(SubSeq(p, 1, i - 1), Simple) = SimpleUpTo(p, i - 1)
    BY <1>1, <2>1, CountOfPart
  <2> QED
    BY <1>4, <2>2 DEF enumerate_args
<1> HIDE DEF o, pack
<1>7. /\ o.params = p
      /\ o.args \in Seq(ParsedArg) /\ ArgsSoFar(p, Len(p), o.args)
      /\ TailSoFar(p, Len(p), o.tail)
      /\ DOMAIN o.index = DOMAIN p
      /\ \A i \in DOMAIN p : o.index[i] = SimpleUpTo(p, i - 1)
  BY <1>2, <1>3, <1>4, <1>5, <1>6
<1> QED
  BY <1>7 DEF o

-----------------------------------------------------------------------------
(* Matching: by the compiled arguments as by the parameters.               *)

LEMMA TailIsTold ==
  ASSUME NEW p \in Functions
  PROVE  compile_command(p).tail # << >> <=> HasTail(p)
<1> DEFINE o == compile_command(p)
<1>1. TailSoFar(p, Len(p), o.tail) /\ p \in Seq(Kinds)
  BY CompiledArgs DEF Functions
<1> HIDE DEF o
<1>2. HasTail(p) <=> \E i \in 1 .. Len(p) : p[i] \in Tails
  BY <1>1, CountOfAll
<1>3. CASE o.tail = << >> /\ \A i \in 1 .. Len(p) : p[i] \notin Tails
  BY <1>2, <1>3 DEF o
<1>4. ASSUME NEW t \in 1 .. Len(p), IsTail(p, Len(p), t), NEW l \in Labels, o.tail = <<l>>
      PROVE  o.tail # << >> /\ HasTail(p)
  <2>1. <<l>> # << >>
    OBVIOUS
  <2> QED
    BY <1>2, <1>4, <2>1 DEF IsTail
<1> QED
  BY <1>1, <1>3, <1>4 DEF TailSoFar, o

LEMMA MatchingIsTaking ==
  ASSUME NEW p \in Functions, NEW args, Len(args) \in Nat
  PROVE  matches(compile_command(p), args) <=> Takes(p, args)
<1> DEFINE o == compile_command(p)
           N == Len(p)
           place(i) == Arity(SubSeq(p, 1, i))
<1>1. /\ p \in Seq(Kinds) /\ o.args \in Seq(ParsedArg) /\ ArgsSoFar(p, N, o.args)
      /\ N \in Nat /\ DOMAIN p = 1 .. N
  BY CompiledArgs, ParamsAre DEF Functions
<1>2. o.tail # << >> <=> HasTail(p)
  BY TailIsTold
<1> HIDE DEF o
<1>3. /\ Len(o.args) = SimpleUpTo(p, N) /\ Len(o.args) \in Nat
      /\ DOMAIN o.args = 1 .. Len(o.args) /\ Arity(p) = Len(o.args)
  <2>1. Len(o.args) = SimpleUpTo(p, N)
    BY <1>1 DEF ArgsSoFar
  <2>2. DOMAIN o.args = 1 .. Len(o.args) /\ Len(o.args) \in Nat
    BY <1>1, LenProperties
  <2> QED
    BY <1>1, <2>1, <2>2, CountOfAll
<1>4. /\ Len(args) >= Len(o.args) /\ (Len(args) > Len(o.args) => o.tail # << >>)
      <=> IF HasTail(p) THEN Len(args) >= Arity(p) ELSE Len(args) = Arity(p)
  BY <1>2, <1>3
<1>5. ASSUME NEW i \in DOMAIN p, p[i] \in Simple
      PROVE  /\ place(i) \in DOMAIN o.args
             /\ o.args[place(i)].type = RawType[p[i]]
  <2>1. i \in 1 .. N /\ i \in 0 .. N /\ i \in Nat
    BY <1>1
  <2>2. place(i) = SimpleUpTo(p, i)
    BY <1>1, <2>1, CountOfPart
  <2>3. SimpleUpTo(p, 0) < SimpleUpTo(p, i) /\ SimpleUpTo(p, i) <= SimpleUpTo(p, N)
    BY <1>1, <1>5, <2>1, CountPasses, CountGrows
  <2>4. SimpleUpTo(p, i) \in 1 .. Len(o.args)
    BY <2>1, <2>3, <1>3, CountNone, CountIsNat
  <2>5. o.args[SimpleUpTo(p, i)].type = RawType[p[i]]
    BY <1>1, <1>5, <2>1 DEF ArgsSoFar
  <2> QED
    BY <2>2, <2>4, <2>5, <1>3
<1>6. ASSUME NEW a \in DOMAIN o.args
      PROVE  \E i \in DOMAIN p : p[i] \in Simple /\ place(i) = a
  <2>1. PICK i \in 1 .. N : p[i] \in Simple /\ SimpleUpTo(p, i) = a
    BY <1>1, <1>3 DEF ArgsSoFar
  <2>2. place(i) = SimpleUpTo(p, i)
    BY <1>1, <2>1, CountOfPart
  <2> QED
    BY <1>1, <2>1, <2>2
<1> HIDE DEF place
<1>7. (\A a \in DOMAIN o.args : o.args[a].type \in ArgType(args[a]))
      <=> \A i \in DOMAIN p : p[i] \in Simple => RawType[p[i]] \in ArgType(args[place(i)])
  <2>1. ASSUME \A a \in DOMAIN o.args : o.args[a].type \in ArgType(args[a]),
               NEW i \in DOMAIN p, p[i] \in Simple
        PROVE  RawType[p[i]] \in ArgType(args[place(i)])
    BY <2>1, <1>5
  <2>2. ASSUME \A i \in DOMAIN p : p[i] \in Simple => RawType[p[i]] \in ArgType(args[place(i)]),
               NEW a \in DOMAIN o.args
        PROVE  o.args[a].type \in ArgType(args[a])
    <3>1. PICK i \in DOMAIN p : p[i] \in Simple /\ place(i) = a
      BY <1>6
    <3> QED
      BY <2>2, <3>1, <1>5
  <2> QED
    BY <2>1, <2>2
<1>8. matches(o, args) <=>
        /\ Len(args) >= Len(o.args) /\ (Len(args) > Len(o.args) => o.tail # << >>)
        /\ \A a \in DOMAIN o.args : o.args[a].type \in ArgType(args[a])
  BY DEF matches
<1>9. Takes(p, args) <=>
        /\ IF HasTail(p) THEN Len(args) >= Arity(p) ELSE Len(args) = Arity(p)
        /\ \A i \in DOMAIN p : p[i] \in Simple => RawType[p[i]] \in ArgType(args[place(i)])
  BY DEF Takes, place
<1> QED
  BY <1>4, <1>7, <1>8, <1>9 DEF o

-----------------------------------------------------------------------------
(* The order of the functions.                                             *)

\* Functions without a tail come before those with one.
TailsLast(s) == \A i, j \in 1 .. Len(s) : i < j /\ s[i].tail # << >> => s[j].tail # << >>

\* No function with a tail has fewer arguments than one without.
RankedWith(set) ==
  \A a, b \in set : a.tail # << >> /\ b.tail = << >> => ~(Len(a.args) < Len(b.args))

\* Where a new one goes: in front of it all are as they were, and behind it.
LEMMA Inserted ==
  ASSUME NEW T, NEW s \in Seq(T), NEW c \in T
  PROVE  \E k \in 1 .. Len(s) + 1 :
           /\ Insert(s, c) \in Seq(T) /\ Len(Insert(s, c)) = Len(s) + 1
           /\ Insert(s, c)[k] = c
           /\ \A i \in 1 .. k - 1 : Insert(s, c)[i] = s[i]
           /\ \A i \in k .. Len(s) : Insert(s, c)[i + 1] = s[i]
           /\ \/ k = 1 /\ s # << >> /\ CompiledCommandCompare(c, s[1])
              \/ /\ \A j \in k .. Len(s) : CompiledCommandCompare(c, s[j])
                 /\ \A i \in 1 .. k - 1 : \E j \in i .. Len(s) : ~CompiledCommandCompare(c, s[j])
<1> DEFINE n == Len(s)
           places == {i \in 1 .. n + 1 : \A j \in i .. n : CompiledCommandCompare(c, s[j])}
           result == Insert(s, c)
<1>1. n \in Nat /\ \A i \in 1 .. n : s[i] \in T
  OBVIOUS
<1>2. <<c>> \in Seq(T) /\ Len(<<c>>) = 1 /\ <<c>>[1] = c
  OBVIOUS
<1>3. CASE s # << >> /\ CompiledCommandCompare(c, s[1])
  <2>1. result = <<c>> \o s
    BY <1>3 DEF Insert
  <2>2. /\ result \in Seq(T) /\ Len(result) = n + 1
        /\ \A i \in 1 .. 1 + n : result[i] = IF i <= 1 THEN <<c>>[i] ELSE s[i - 1]
    BY <2>1, <1>2, ConcatProperties
  <2> HIDE DEF result
  <2>3. /\ result[1] = c
        /\ \A i \in 1 .. 1 - 1 : result[i] = s[i]
        /\ \A i \in 1 .. n : result[i + 1] = s[i]
    <3>1. 1 \in 1 .. 1 + n
      BY <1>1
    <3>2. ASSUME NEW i \in 1 .. n PROVE result[i + 1] = s[i]
      <4>1. i + 1 \in 1 .. 1 + n /\ ~(i + 1 <= 1) /\ (i + 1) - 1 = i
        BY <1>1
      <4> QED
        BY <4>1, <2>2
    <3> QED
      BY <3>1, <3>2, <2>2, <1>2
  <2>4. 1 \in 1 .. n + 1
    BY <1>1
  <2> QED
    BY <2>2, <2>3, <2>4, <1>3 DEF result
<1>4. CASE ~(s # << >> /\ CompiledCommandCompare(c, s[1]))
  <2>1. n + 1 \in places /\ places \in SUBSET Nat
    BY <1>1
  <2> DEFINE k == Min(places)
  <2>2. k \in places /\ \A i \in places : k <= i
    <3> HIDE DEF places
    <3>1. \E i \in places : \A j \in places : i <= j
      BY <2>1, HasFirst
    <3> QED
      BY <3>1 DEF Min
  <2>3. k \in 1 .. n + 1 /\ \A j \in k .. n : CompiledCommandCompare(c, s[j])
    BY <2>2
  <2>4. ASSUME NEW i \in 1 .. k - 1 PROVE \E j \in i .. n : ~CompiledCommandCompare(c, s[j])
    <3>1. i \notin places /\ i \in 1 .. n + 1
      BY <2>2, <2>3, <1>1
    <3> QED
      BY <3>1
  <2> HIDE DEF places, k
  <2>5. result = InsertAt(s, k, c)
    BY <1>4 DEF Insert, places, k
  <2> DEFINE before == SubSeq(s, 1, k - 1)
             behind == SubSeq(s, k, n)
  <2>6. /\ before \in Seq(T) /\ Len(before) = k - 1
        /\ \A i \in 1 .. k - 1 : before[i] = s[i]
    <3>1. k - 1 \in Int /\ 1 \in Int /\ \A i \in 1 .. k - 1 : s[i] \in T
      BY <1>1, <2>3
    <3>2. /\ before \in Seq(T) /\ Len(before) = (IF 1 <= k - 1 THEN (k - 1) - 1 + 1 ELSE 0)
          /\ \A i \in 1 .. (k - 1) - 1 + 1 : before[i] = s[1 + i - 1]
      BY <3>1, SubSeqProperties
    <3> HIDE DEF before
    <3>3. ASSUME NEW i \in 1 .. k - 1 PROVE before[i] = s[i]
      <4>1. i \in 1 .. (k - 1) - 1 + 1 /\ 1 + i - 1 = i
        BY <2>3
      <4> QED
        BY <4>1, <3>2
    <3> QED
      BY <2>3, <3>2, <3>3
  <2>7. /\ behind \in Seq(T) /\ Len(behind) = n - k + 1
        /\ \A i \in 1 .. n - k + 1 : behind[i] = s[k + i - 1]
    <3>1. k \in Int /\ n \in Int /\ \A i \in k .. n : s[i] \in T
      BY <1>1, <2>3
    <3>2. /\ behind \in Seq(T) /\ Len(behind) = (IF k <= n THEN n - k + 1 ELSE 0)
          /\ \A i \in 1 .. n - k + 1 : behind[i] = s[k + i - 1]
      BY <3>1, SubSeqProperties
    <3> HIDE DEF behind
    <3> QED
      BY <1>1, <2>3, <3>2
  <2>8. result = (before \o <<c>>) \o behind
    BY <2>5 DEF InsertAt
  <2> HIDE DEF before, behind, result
  <2> DEFINE front == before \o <<c>>
  <2>9. /\ front \in Seq(T) /\ Len(front) = k /\ front[k] = c
        /\ \A i \in 1 .. k - 1 : front[i] = s[i]
    <3>1. front = Append(before, c)
      BY <2>6, ConcatOne
    <3>2. front \in Seq(T) /\ Len(front) = (k - 1) + 1 /\ front[(k - 1) + 1] = c
          /\ \A i \in 1 .. k - 1 : front[i] = before[i]
      BY <3>1, <2>6, AppendProperties
    <3> HIDE DEF front
    <3> QED
      BY <3>2, <2>3, <2>6
  <2> HIDE DEF front
  <2>10. /\ result \in Seq(T) /\ Len(result) = k + (n - k + 1)
         /\ \A i \in 1 .. k + (n - k + 1) :
              result[i] = IF i <= k THEN front[i] ELSE behind[i - k]
    <3>1. result = front \o behind
      BY <2>8 DEF front
    <3>2. front \in Seq(T) /\ behind \in Seq(T)
      BY <2>7, <2>9
    <3>3. /\ front \o behind \in Seq(T) /\ Len(front \o behind) = Len(front) + Len(behind)
          /\ \A i \in 1 .. Len(front) + Len(behind) :
               (front \o behind)[i] = IF i <= Len(front) THEN front[i] ELSE behind[i - Len(front)]
      BY ONLY <3>2, ConcatProperties
    <3>4. Len(front) = k /\ Len(behind) = n - k + 1
      BY <2>7, <2>9
    <3> QED
      BY ONLY <3>1, <3>3, <3>4
  <2>11. Len(result) = n + 1 /\ result[k] = c
    BY <1>1, <2>3, <2>9, <2>10
  <2>12. ASSUME NEW i \in 1 .. k - 1 PROVE result[i] = s[i]
    BY <1>1, <2>3, <2>9, <2>10
  <2>13. ASSUME NEW i \in k .. n PROVE result[i + 1] = s[i]
    <3>1. /\ i + 1 \in 1 .. k + (n - k + 1) /\ ~(i + 1 <= k)
          /\ (i + 1) - k \in 1 .. n - k + 1 /\ k + ((i + 1) - k) - 1 = i
      BY <1>1, <2>3
    <3>2. result[i + 1] = behind[(i + 1) - k]
      BY <3>1, <2>10
    <3> QED
      BY <3>1, <3>2, <2>7
  <2> QED
    BY <2>3, <2>4, <2>10, <2>11, <2>12, <2>13 DEF result
<1> QED
  BY <1>3, <1>4

\* The functions are those of before and the new one, and those with a tail stay last.
LEMMA InsertedKeeps ==
  ASSUME NEW T, \A c \in T : Len(c.args) \in Nat, NEW s \in Seq(T), NEW c \in T
  PROVE  /\ Insert(s, c) \in Seq(T)
         /\ Range(Insert(s, c)) = Range(s) \cup {c}
         /\ TailsLast(s) /\ RankedWith(Range(s) \cup {c}) => TailsLast(Insert(s, c))
<1> DEFINE n == Len(s)
<1>1. PICK k \in 1 .. n + 1 :
        /\ Insert(s, c) \in Seq(T) /\ Len(Insert(s, c)) = n + 1
        /\ Insert(s, c)[k] = c
        /\ \A i \in 1 .. k - 1 : Insert(s, c)[i] = s[i]
        /\ \A i \in k .. n : Insert(s, c)[i + 1] = s[i]
        /\ \/ k = 1 /\ s # << >> /\ CompiledCommandCompare(c, s[1])
           \/ /\ \A j \in k .. n : CompiledCommandCompare(c, s[j])
              /\ \A i \in 1 .. k - 1 : \E j \in i .. n : ~CompiledCommandCompare(c, s[j])
  BY Inserted
<1> DEFINE r == Insert(s, c)
<1>2. n \in Nat /\ DOMAIN s = 1 .. n /\ DOMAIN r = 1 .. n + 1 /\ Len(r) = n + 1
  BY <1>1, LenProperties
<1> HIDE DEF r, n
\* The element i of the result is the new one or an old one.
<1>3. ASSUME NEW i \in 1 .. n + 1
      PROVE  \/ i < k /\ i \in 1 .. n /\ r[i] = s[i]
             \/ i = k /\ r[i] = c
             \/ i > k /\ i - 1 \in k .. n /\ i - 1 \in 1 .. n /\ r[i] = s[i - 1]
  <2>1. CASE i < k
    <3>1. i \in 1 .. k - 1 /\ i \in 1 .. n
      BY <2>1, <1>2
    <3> QED
      BY <3>1, <2>1, <1>1 DEF r
  <2>2. CASE i = k
    BY <2>2, <1>1 DEF r
  <2>3. CASE i > k
    <3>1. i - 1 \in k .. n /\ (i - 1) + 1 = i /\ i - 1 \in 1 .. n
      BY <2>3, <1>2
    <3>2. r[(i - 1) + 1] = s[i - 1]
      BY <3>1, <1>1 DEF r
    <3> QED
      BY <3>1, <3>2, <2>3
  <2> QED
    BY <2>1, <2>2, <2>3, <1>2
<1>4. Range(r) = Range(s) \cup {c}
  <2>1. ASSUME NEW i \in 1 .. n + 1 PROVE r[i] \in Range(s) \cup {c}
    BY <1>3, <1>2 DEF Range
  <2>2. ASSUME NEW i \in 1 .. n PROVE s[i] \in Range(r)
    <3>1. CASE i < k
      <4>1. i \in 1 .. k - 1 /\ i \in 1 .. n + 1
        BY <3>1, <1>2
      <4>2. r[i] = s[i]
        BY <4>1, <1>1 DEF r
      <4> QED
        BY <4>1, <4>2, <1>2 DEF Range
    <3>2. CASE i >= k
      <4>1. i \in k .. n /\ i + 1 \in 1 .. n + 1
        BY <3>2, <1>2
      <4>2. r[i + 1] = s[i]
        BY <4>1, <1>1 DEF r
      <4> QED
        BY <4>1, <4>2, <1>2 DEF Range
    <3> QED
      BY <3>1, <3>2, <1>2
  <2>3. c \in Range(r)
    BY <1>1, <1>2 DEF Range, r
  <2> QED
    BY <2>1, <2>2, <2>3, <1>2 DEF Range
<1>5. ASSUME TailsLast(s), RankedWith(Range(s) \cup {c}) PROVE TailsLast(r)
  <2>1. \A i \in 1 .. n : s[i] \in Range(s) \cup {c} /\ s[i] \in T
    BY <1>2 DEF Range
  <2>2. \A i, j \in 1 .. n : i < j /\ s[i].tail # << >> => s[j].tail # << >>
    BY <1>5 DEF TailsLast, n
  \* Before the new one there is none with a tail, if it has none.
  <2>3. ASSUME c.tail = << >>, NEW i \in 1 .. n, i < k PROVE s[i].tail = << >>
    <3>1. SUFFICES ASSUME s[i].tail # << >> PROVE FALSE
      OBVIOUS
    <3>2. PICK j \in i .. n : ~CompiledCommandCompare(c, s[j])
      <4>1. i \in 1 .. k - 1 /\ k # 1
        BY <1>2, <2>3
      <4> QED
        BY <4>1, <1>1
    <3>3. s[j].tail # << >>
      <4>1. j = i \/ (j \in 1 .. n /\ i < j)
        BY <3>2, <1>2
      <4> QED
        BY <4>1, <3>1, <2>2
    <3> QED
      BY <3>2, <3>3, <2>3 DEF CompiledCommandCompare
  \* Behind it all have one, if it has one.
  <2>4. ASSUME c.tail # << >>, NEW j \in 1 .. n, j >= k PROVE s[j].tail # << >>
    <3>1. ASSUME NEW m \in 1 .. n, CompiledCommandCompare(c, s[m]) PROVE s[m].tail # << >>
      <4>1. SUFFICES ASSUME s[m].tail = << >> PROVE FALSE
        OBVIOUS
      <4>2. ~(Len(c.args) < Len(s[m].args))
        BY <4>1, <2>4, <2>1, <1>5 DEF RankedWith
      <4> QED
        BY <4>2, <3>1, <2>4 DEF CompiledCommandCompare
    <3>2. CASE CompiledCommandCompare(c, s[j])
      BY <3>1, <3>2
    <3>3. CASE ~CompiledCommandCompare(c, s[j])
      <4>1. j \in k .. n
        BY <2>4, <1>2
      <4>2. k = 1 /\ s # << >> /\ CompiledCommandCompare(c, s[1])
        BY <4>1, <3>3, <1>1
      <4>3. 1 \in 1 .. n /\ s[1].tail # << >>
        BY <4>2, <3>1, <1>2
      <4> QED
        BY <4>3, <2>2, <1>2
    <3> QED
      BY <3>2, <3>3
  <2>5. ASSUME NEW i \in 1 .. n + 1, NEW j \in 1 .. n + 1, i < j, r[i].tail # << >>
        PROVE  r[j].tail # << >>
    <3>1. CASE i < k
      <4>1. r[i] = s[i] /\ i \in 1 .. n
        BY <1>3, <3>1, <1>2
      <4>2. CASE j < k
        BY <1>3, <4>1, <4>2, <2>2, <2>5, <1>2
      <4>3. CASE j = k
        BY <1>1, <4>1, <4>3, <2>3, <2>5, <3>1 DEF r
      <4>4. CASE j > k
        <5>1. r[j] = s[j - 1] /\ j - 1 \in 1 .. n /\ i < j - 1
          BY <1>3, <4>4, <3>1, <1>2
        <5> QED
          BY <5>1, <4>1, <2>2, <2>5
      <4> QED
        BY <4>2, <4>3, <4>4, <1>2
    <3>2. CASE i = k
      <4>1. r[j] = s[j - 1] /\ j - 1 \in 1 .. n /\ j - 1 >= k
        BY <1>3, <3>2, <2>5, <1>2
      <4>2. c.tail # << >>
        BY <1>1, <3>2, <2>5 DEF r
      <4> QED
        BY <4>1, <4>2, <2>4
    <3>3. CASE i > k
      <4>1. /\ r[i] = s[i - 1] /\ i - 1 \in 1 .. n
            /\ r[j] = s[j - 1] /\ j - 1 \in 1 .. n /\ i - 1 < j - 1
        BY <1>3, <3>3, <2>5, <1>2
      <4> QED
        BY <4>1, <2>2, <2>5
    <3> QED
      BY <3>1, <3>2, <3>3, <1>2
  <2> QED
    BY <2>5, <1>2 DEF TailsLast
<1> QED
  BY <1>1, <1>4, <1>5 DEF r

\* The orders that add has one after another.
IsSorting(f, n, added) ==
  f = [i \in 0 .. n |-> IF i = 0 THEN << >> ELSE Insert(f[i - 1], added[i])]

LEMMA SortingExists ==
  ASSUME NEW added, NEW length \in Nat
  PROVE  \E f : IsSorting(f, length, added)
<1> DEFINE S == {n \in Nat : \E f : IsSorting(f, n, added)}
<1>1. 0 \in S
  <2> DEFINE f == [i \in 0 .. 0 |-> << >>]
  <2>1. IsSorting(f, 0, added)
    BY DEF IsSorting
  <2> QED
    BY <2>1
<1>2. ASSUME NEW n \in S PROVE n + 1 \in S
  <2>1. PICK f : IsSorting(f, n, added)
    OBVIOUS
  <2> DEFINE Step(x, i) == Insert(x, added[i])
             h == [i \in 0 .. n + 1 |-> IF i = n + 1 THEN Step(f[n], i) ELSE f[i]]
  <2>2. f = [i \in 0 .. n |-> IF i = 0 THEN << >> ELSE Step(f[i - 1], i)]
    BY <2>1 DEF IsSorting
  <2> HIDE DEF Step
  <2>3. ASSUME NEW i \in 0 .. n + 1
        PROVE  h[i] = IF i = 0 THEN << >> ELSE Step(h[i - 1], i)
    <3>1. CASE i = n + 1
      <4>1. i - 1 = n /\ n \in 0 .. n + 1 /\ n # n + 1 /\ i # 0
        BY <3>1
      <4> QED
        BY <3>1, <4>1
    <3>2. CASE i = 0
      BY <2>2, <3>2
    <3>3. CASE i # 0 /\ i # n + 1
      <4>1. i \in 0 .. n /\ i - 1 \in 0 .. n + 1 /\ i - 1 # n + 1
        BY <3>3
      <4>2. h[i] = f[i] /\ h[i - 1] = f[i - 1]
        BY <3>3, <4>1
      <4>3. f[i] = Step(f[i - 1], i)
        BY <2>2, <3>3, <4>1
      <4> QED
        BY <3>3, <4>2, <4>3
    <3> QED
      BY <3>1, <3>2, <3>3
  <2>4. h = [i \in 0 .. n + 1 |-> h[i]]
    OBVIOUS
  <2> HIDE DEF h
  <2>5. h = [i \in 0 .. n + 1 |-> IF i = 0 THEN << >> ELSE Step(h[i - 1], i)]
    BY <2>3, <2>4
  <2>6. IsSorting(h, n + 1, added)
    BY <2>5 DEF IsSorting, Step
  <2> QED
    BY <2>6
<1>3. S = Nat
  <2>1. S \in SUBSET Nat
    OBVIOUS
  <2> HIDE DEF S
  <2> QED
    BY <1>1, <1>2, <2>1, SetInduction
<1> QED
  BY <1>3

\* A set of functions with one added.
LEMMA AddedKeeps ==
  ASSUME NEW T, \A c \in T : Len(c.args) \in Nat, NEW set \in Seq(T), NEW cmd \in T
  PROVE  /\ add(set, cmd) \in Seq(T)
         /\ Range(add(set, cmd)) = Range(set) \cup {cmd}
         /\ RankedWith(Range(set) \cup {cmd}) => TailsLast(add(set, cmd))
<1> DEFINE added == Append(set, cmd)
           sorted == CHOOSE f : IsSorting(f, Len(added), added)
<1>1. added \in Seq(T) /\ Len(added) \in Nat /\ \A i \in 1 .. Len(added) : added[i] \in T
  OBVIOUS
<1>2. IsSorting(sorted, Len(added), added)
  BY <1>1, SortingExists
<1>3. add(set, cmd) = sorted[Len(added)]
  BY DEF add, IsSorting
<1>4. Range(added) = Range(set) \cup {cmd}
  <2>1. /\ set \in Seq(T) /\ DOMAIN set = 1 .. Len(set) /\ Len(set) \in Nat
        /\ DOMAIN added = 1 .. Len(set) + 1 /\ added[Len(set) + 1] = cmd
        /\ \A i \in 1 .. Len(set) : added[i] = set[i]
    OBVIOUS
  <2> HIDE DEF added
  <2> QED
    BY <2>1 DEF Range
<1> HIDE DEF sorted, added
<1> DEFINE First(n) == {added[i] : i \in 1 .. n}
           Kept(n) == /\ sorted[n] \in Seq(T) /\ Range(sorted[n]) = First(n)
                      /\ RankedWith(Range(added)) => TailsLast(sorted[n])
           S == {n \in Nat : n <= Len(added) => Kept(n)}
<1>5. Range(added) = First(Len(added))
  BY <1>1, LenProperties DEF Range
<1>6. 0 \in S
  <2>1. sorted[0] = << >>
    BY <1>1, <1>2 DEF IsSorting
  <2>2. Range(<< >>) = {} /\ First(0) = {} /\ TailsLast(<< >>) /\ << >> \in Seq(T)
    BY DEF Range, TailsLast
  <2> QED
    BY <2>1, <2>2
<1>7. ASSUME NEW n \in S PROVE n + 1 \in S
  <2>1. SUFFICES ASSUME n + 1 <= Len(added) PROVE Kept(n + 1)
    OBVIOUS
  <2>2. n \in Nat /\ n <= Len(added) /\ n + 1 \in 1 .. Len(added) /\ n + 1 \in 0 .. Len(added)
    BY <1>1, <2>1
  <2>3. Kept(n)
    BY <2>2
  <2>4. sorted[n + 1] = Insert(sorted[n], added[n + 1])
    BY <1>2, <2>2 DEF IsSorting
  <2>5. added[n + 1] \in T
    BY <1>1, <2>2
  <2>6. First(n + 1) = First(n) \cup {added[n + 1]}
    <3>1. 1 .. n + 1 = 1 .. n \cup {n + 1}
      BY <2>2
    <3> QED
      BY <3>1
  <2>7. First(n + 1) \in SUBSET Range(added)
    BY <1>1, <2>2, LenProperties DEF Range
  <2>8. /\ sorted[n + 1] \in Seq(T)
        /\ Range(sorted[n + 1]) = Range(sorted[n]) \cup {added[n + 1]}
        /\ TailsLast(sorted[n]) /\ RankedWith(Range(sorted[n]) \cup {added[n + 1]})
             => TailsLast(sorted[n + 1])
    <3> DEFINE s == sorted[n]
    <3>1. s \in Seq(T)
      BY <2>3
    <3> HIDE DEF s
    <3>2. /\ Insert(s, added[n + 1]) \in Seq(T)
          /\ Range(Insert(s, added[n + 1])) = Range(s) \cup {added[n + 1]}
          /\ TailsLast(s) /\ RankedWith(Range(s) \cup {added[n + 1]})
               => TailsLast(Insert(s, added[n + 1]))
      BY ONLY <3>1, <2>5, InsertedKeeps, \A c \in T : Len(c.args) \in Nat
    <3> QED
      BY <3>2, <2>4 DEF s
  <2> HIDE DEF First
  <2>9. RankedWith(Range(added)) => RankedWith(First(n + 1))
    BY <2>7 DEF RankedWith
  <2> QED
    BY <2>3, <2>6, <2>8, <2>9
<1>8. S = Nat
  <2>1. S \in SUBSET Nat
    OBVIOUS
  <2> HIDE DEF S
  <2> QED
    BY <1>6, <1>7, <2>1, SetInduction
<1>9. Kept(Len(added))
  <2>1. Len(added) \in S
    BY <1>1, <1>8
  <2> HIDE DEF Kept
  <2> QED
    BY <2>1, <1>1
<1> QED
  BY <1>3, <1>4, <1>5, <1>9

-----------------------------------------------------------------------------
(* The inductive invariant.                                                *)

Compiled == {compile_command(p) : p \in Functions}

\* Functions by their parameters, as RankedWith by what they are compiled to.
Ranked(functions) ==
  \A i, j \in DOMAIN functions :
    HasTail(functions[i]) /\ ~HasTail(functions[j])
      => Arity(functions[i]) >= Arity(functions[j])

OverloadsKept ==
  /\ registered \in Seq(Functions)
  /\ overloads \in Seq(Compiled)
  /\ Range(overloads) = {compile_command(registered[i]) : i \in DOMAIN registered}
  /\ Ranked(registered) => TailsLast(overloads)

\* The command called the first function that matches it, or there was none.
IsFirstMatch(k) == /\ k \in DOMAIN overloads /\ matches(overloads[k], call.cmd.args)
                   /\ \A j \in DOMAIN overloads : j < k => ~matches(overloads[j], call.cmd.args)
CallKept ==
  /\ call.cmd \in Commands \cup {NoCall.cmd}
  /\ call.reason \in {"none", "UNKNOWN_COMMAND", "UNKNOWN_OVERLOAD", "OK"}
  /\ call.reason = "UNKNOWN_OVERLOAD" =>
       \A k \in DOMAIN overloads : ~matches(overloads[k], call.cmd.args)
  /\ call.reason = "OK" =>
       \E k \in DOMAIN overloads : IsFirstMatch(k) /\ call.overload = <<overloads[k]>>
                                    /\ call.values = invoke(overloads[k], call.cmd)

OverloadsInv == OverloadsKept /\ CallKept

LEMMA CompiledIsSized ==
  ASSUME NEW o \in Compiled
  PROVE  \E p \in Functions : /\ o = compile_command(p) /\ o.params = p
                              /\ Len(o.args) = Arity(p) /\ Len(o.args) \in Nat
                              /\ (o.tail # << >> <=> HasTail(p))
<1>1. PICK p \in Functions : o = compile_command(p)
  BY DEF Compiled
<1>2. o.params = p /\ o.args \in Seq(ParsedArg) /\ ArgsSoFar(p, Len(p), o.args)
  BY <1>1, CompiledArgs
<1>3. Len(o.args) = Arity(p)
  BY <1>2, CountOfAll DEF ArgsSoFar, Functions
<1>4. Len(o.args) \in Nat
  BY <1>2, LenProperties
<1> QED
  BY <1>1, <1>2, <1>3, <1>4, TailIsTold

LEMMA RankedIsRankedWith ==
  ASSUME NEW fs \in Seq(Functions), Ranked(fs)
  PROVE  RankedWith({compile_command(fs[i]) : i \in DOMAIN fs})
<1>1. ASSUME NEW i \in DOMAIN fs
      PROVE  LET o == compile_command(fs[i])
             IN  /\ Len(o.args) = Arity(fs[i]) /\ Len(o.args) \in Nat
                 /\ (o.tail # << >> <=> HasTail(fs[i]))
  <2> DEFINE p == fs[i]
             o == compile_command(p)
  <2>1. p \in Functions
    OBVIOUS
  <2> HIDE DEF p, o
  <2>2. o.args \in Seq(ParsedArg) /\ ArgsSoFar(p, Len(p), o.args)
    BY <2>1, CompiledArgs DEF o
  <2>3. Len(o.args) = Arity(p)
    BY <2>1, <2>2, CountOfAll DEF ArgsSoFar, Functions
  <2>4. Len(o.args) \in Nat
    BY <2>2, LenProperties
  <2>5. o.tail # << >> <=> HasTail(p)
    BY <2>1, TailIsTold DEF o
  <2> QED
    BY <2>3, <2>4, <2>5 DEF o, p
<1>2. ASSUME NEW i \in DOMAIN fs, NEW j \in DOMAIN fs,
             compile_command(fs[i]).tail # << >>, compile_command(fs[j]).tail = << >>
      PROVE  ~(Len(compile_command(fs[i]).args) < Len(compile_command(fs[j]).args))
  <2>1. Arity(fs[i]) >= Arity(fs[j])
    BY <1>1, <1>2 DEF Ranked
  <2> QED
    BY <1>1, <2>1
<1> QED
  BY <1>2 DEF RankedWith

LEMMA CompiledAreSized == \A c \in Compiled : Len(c.args) \in Nat
BY CompiledIsSized

LEMMA CommandsAreTyped ==
  ASSUME NEW cmd \in Commands \cup {NoCall.cmd}
  PROVE  cmd.args \in Seq(Seq(STRING)) /\ Len(cmd.args) \in Nat
<1>1. cmd.args \in Arguments \cup {<< >>}
  BY DEF Commands, NoCall
<1>2. cmd.args \in Seq(Seq(STRING))
  <2>1. ASSUME NEW s \in Seq(Texts) PROVE s \in Seq(Seq(STRING))
    BY OverloadsAssumption, SeqMonotonic
  <2>2. << >> \in Seq(Seq(STRING))
    OBVIOUS
  <2> QED
    BY <1>1, <2>1, <2>2, OverloadsAssumption
<1> QED
  BY <1>2, LenProperties

LEMMA OverloadsInitially == OverloadsInit => OverloadsInv
<1> SUFFICES ASSUME OverloadsInit PROVE OverloadsInv
  OBVIOUS
<1>1. overloads = << >> /\ registered = << >> /\ call = NoCall
  BY DEF OverloadsInit
<1>2. /\ registered \in Seq(Functions) /\ overloads \in Seq(Compiled)
      /\ Range(overloads) = {} /\ DOMAIN registered = {} /\ TailsLast(overloads)
  BY <1>1 DEF Range, TailsLast
<1>3. OverloadsKept
  BY <1>2 DEF OverloadsKept
<1>4. CallKept
  BY <1>1 DEF CallKept, NoCall
<1> QED
  BY <1>3, <1>4 DEF OverloadsInv

LEMMA AddingKeeps ==
  ASSUME OverloadsInv, NEW params \in SignaturesNext, addCommand(params)
  PROVE  OverloadsInv'
<1> DEFINE cmd == compile_command(params)
           grown == add(overloads, cmd)
           registering == Append(registered, params)
<1>1. params \in Seq(Kinds)
  BY OverloadsAssumption DEF SignaturesNext
<1>2. params \in Functions /\ cmd \in Compiled
  BY <1>1 DEF addCommand, Functions, Compiled
<1>3. overloads' = grown /\ registered' = registering /\ call' = NoCall
  BY DEF addCommand
<1>4. /\ registered \in Seq(Functions) /\ overloads \in Seq(Compiled)
      /\ Range(overloads) = {compile_command(registered[i]) : i \in DOMAIN registered}
  BY DEF OverloadsInv, OverloadsKept
<1>5. /\ grown \in Seq(Compiled) /\ Range(grown) = Range(overloads) \cup {cmd}
      /\ RankedWith(Range(overloads) \cup {cmd}) => TailsLast(grown)
  <2> HIDE DEF cmd
  <2>1. cmd \in Compiled /\ overloads \in Seq(Compiled)
    BY <1>2, <1>4
  <2> QED
    BY ONLY <2>1, CompiledAreSized, AddedKeeps
<1>6. /\ registering \in Seq(Functions) /\ Len(registering) = Len(registered) + 1
      /\ DOMAIN registering = DOMAIN registered \cup {Len(registering)}
      /\ \A i \in DOMAIN registered : registering[i] = registered[i]
      /\ registering[Len(registering)] = params
  <2>1. /\ registering \in Seq(Functions) /\ Len(registering) = Len(registered) + 1
        /\ \A i \in 1 .. Len(registered) : registering[i] = registered[i]
        /\ registering[Len(registered) + 1] = params
    BY <1>2, <1>4, AppendProperties
  <2>2. /\ DOMAIN registered = 1 .. Len(registered) /\ Len(registered) \in Nat
        /\ DOMAIN registering = 1 .. Len(registering)
    BY <1>4, <2>1, LenProperties
  <2> HIDE DEF registering
  <2> QED
    BY <2>1, <2>2
<1> HIDE DEF grown, registering
<1>7. Range(grown) = {compile_command(registering[i]) : i \in DOMAIN registering}
  BY <1>4, <1>5, <1>6
<1>8. OverloadsKept'
  <2>1. /\ registered' \in Seq(Functions) /\ overloads' \in Seq(Compiled)
        /\ Range(overloads') = {compile_command(registered'[i]) : i \in DOMAIN registered'}
    BY <1>3, <1>5, <1>6, <1>7
  <2>2. ASSUME Ranked(registered') PROVE TailsLast(overloads')
    <3>1. RankedWith({compile_command(registering[i]) : i \in DOMAIN registering})
      BY <2>2, <1>3, <1>6, RankedIsRankedWith
    <3>2. RankedWith(Range(overloads) \cup {cmd})
      BY <3>1, <1>5, <1>7
    <3> QED
      BY <3>2, <1>3, <1>5
  <2> QED
    BY <2>1, <2>2 DEF OverloadsKept
<1>9. CallKept'
  BY <1>3 DEF CallKept, NoCall
<1> QED
  BY <1>8, <1>9 DEF OverloadsInv

LEMMA ExecutingKeeps ==
  ASSUME OverloadsInv, NEW cmd \in Commands, execute(cmd)
  PROVE  OverloadsInv'
<1> DEFINE isKnown == cmd.name = "known" /\ overloads # << >>
           matching == {i \in DOMAIN overloads : matches(overloads[i], cmd.args)}
           chosen == overloads[Min(matching)]
<1>1. overloads' = overloads /\ registered' = registered
  BY DEF execute
<1>2. OverloadsKept'
  BY <1>1 DEF OverloadsInv, OverloadsKept
<1>3. CASE ~isKnown
  <2>1. call' = [NoCall EXCEPT !.cmd = cmd, !.reason = "UNKNOWN_COMMAND"]
    BY <1>3 DEF execute
  <2>2. call'.cmd = cmd /\ call'.reason = "UNKNOWN_COMMAND"
    BY <2>1 DEF NoCall
  <2> QED
    BY <2>2, <1>2 DEF OverloadsInv, CallKept
<1>4. CASE isKnown /\ matching = {}
  <2>1. call' = [NoCall EXCEPT !.cmd = cmd, !.reason = "UNKNOWN_OVERLOAD"]
    BY <1>4 DEF execute
  <2>2. call'.cmd = cmd /\ call'.reason = "UNKNOWN_OVERLOAD"
    BY <2>1 DEF NoCall
  <2>3. \A k \in DOMAIN overloads' : ~matches(overloads'[k], call'.cmd.args)
    BY <2>2, <1>1, <1>4
  <2> QED
    BY <2>2, <2>3, <1>2 DEF OverloadsInv, CallKept
<1>5. CASE isKnown /\ matching # {}
  <2>1. call' = [cmd |-> cmd, reason |-> "OK", overload |-> <<chosen>>,
                 values |-> invoke(chosen, cmd)]
    BY <1>5 DEF execute
  <2>2. PICK k \in matching : k = Min(matching) /\ \A j \in matching : k <= j
    <3>1. matching \in SUBSET Nat
      <4>1. DOMAIN overloads = 1 .. Len(overloads)
        BY LenProperties DEF OverloadsInv, OverloadsKept
      <4> QED
        BY <4>1
    <3> HIDE DEF matching
    <3>2. \E i \in matching : \A j \in matching : i <= j
      BY <3>1, <1>5, HasFirst
    <3> QED
      BY <3>2 DEF Min
  <2>3. /\ k \in DOMAIN overloads /\ matches(overloads[k], cmd.args)
        /\ \A j \in DOMAIN overloads : j < k => ~matches(overloads[j], cmd.args)
    <3>1. ASSUME NEW j \in DOMAIN overloads, j < k, matches(overloads[j], cmd.args) PROVE FALSE
      <4>1. j \in matching /\ k \in matching
        BY <3>1, <2>2
      <4>2. j \in Nat /\ k \in Nat
        <5>1. DOMAIN overloads = 1 .. Len(overloads)
          BY LenProperties DEF OverloadsInv, OverloadsKept
        <5> QED
          BY <4>1, <5>1
      <4>3. k <= j
        BY <2>2, <4>1
      <4> QED
        BY <4>2, <4>3, <3>1
    <3> QED
      BY <2>2, <3>1
  <2> HIDE DEF matching
  <2>4. /\ call'.cmd = cmd /\ call'.reason = "OK" /\ call'.overload = <<overloads[k]>>
        /\ call'.values = invoke(overloads[k], cmd)
    BY <2>1, <2>2
  <2>5. IsFirstMatch(k)'
    BY <2>3, <2>4, <1>1 DEF IsFirstMatch
  <2>6. k \in DOMAIN overloads'
    BY <2>3, <1>1
  <2>7. CallKept'
    BY <2>4, <2>5, <2>6, <1>1 DEF CallKept
  <2> QED
    BY <2>7, <1>2 DEF OverloadsInv
<1> QED
  BY <1>3, <1>4, <1>5

LEMMA OverloadsAlways == OverloadsSpec => []OverloadsInv
<1>1. OverloadsInv /\ [OverloadsNext]_overloadVars => OverloadsInv'
  <2> SUFFICES ASSUME OverloadsInv, [OverloadsNext]_overloadVars PROVE OverloadsInv'
    OBVIOUS
  <2>1. CASE UNCHANGED overloadVars
    BY <2>1 DEF overloadVars, OverloadsInv, OverloadsKept, CallKept, IsFirstMatch
  <2>2. ASSUME NEW params \in SignaturesNext, addCommand(params) PROVE OverloadsInv'
    BY <2>2, AddingKeeps
  <2>3. ASSUME NEW cmd \in CommandsNext, execute(cmd) PROVE OverloadsInv'
    <3>1. cmd \in Commands
      BY <2>3 DEF CommandsNext
    <3> QED
      BY <3>1, <2>3, ExecutingKeeps
  <2> QED
    BY <2>1, <2>2, <2>3 DEF OverloadsNext
<1> QED
  BY <1>1, OverloadsInitially, PTL DEF OverloadsSpec

-----------------------------------------------------------------------------
(* The theorems.                                                           *)

\* Whatever functions are registered in whatever order: a command calls one that takes
\* it, if one does, and one without a tail, if such a one does and none with a tail has
\* fewer arguments than one without (AdvancedCommandExecutor.h lines 417-436, 643-679).
THEOREM TakersAreCalled == OverloadsSpec => []BestOverloadIsCalled
<1>1. ASSUME OverloadsInv PROVE BestOverloadIsCalled
  <2> DEFINE args == call.cmd.args
             taking == {i \in DOMAIN registered : Takes(registered[i], args)}
  <2>1. /\ registered \in Seq(Functions) /\ overloads \in Seq(Compiled)
        /\ Range(overloads) = {compile_command(registered[i]) : i \in DOMAIN registered}
        /\ DOMAIN overloads = 1 .. Len(overloads) /\ Len(overloads) \in Nat
        /\ \A i \in DOMAIN registered : registered[i] \in Functions
    <3>1. registered \in Seq(Functions) /\ overloads \in Seq(Compiled)
      BY <1>1 DEF OverloadsInv, OverloadsKept
    <3>2. \A i \in DOMAIN registered : registered[i] \in Functions
      BY <3>1
    <3> QED
      BY <1>1, <3>1, <3>2, LenProperties DEF OverloadsInv, OverloadsKept
  <2>2. Len(args) \in Nat
    BY <1>1, CommandsAreTyped DEF OverloadsInv, CallKept
  <2> HIDE DEF args
  <2>3. ASSUME NEW i \in DOMAIN registered
        PROVE  \E k \in DOMAIN overloads :
                 /\ overloads[k] = compile_command(registered[i])
                 /\ matches(overloads[k], args) <=> i \in taking
    <3>1. compile_command(registered[i]) \in Range(overloads)
      BY <2>1
    <3>2. PICK k \in DOMAIN overloads : overloads[k] = compile_command(registered[i])
      BY <3>1 DEF Range
    <3>3. matches(compile_command(registered[i]), args) <=> Takes(registered[i], args)
      BY <2>1, <2>2, MatchingIsTaking
    <3> QED
      BY <3>2, <3>3
  <2>4. ASSUME NEW k \in DOMAIN overloads
        PROVE  \E i \in DOMAIN registered :
                 /\ overloads[k] = compile_command(registered[i])
                 /\ matches(overloads[k], args) <=> i \in taking
    <3>1. overloads[k] \in Range(overloads)
      BY DEF Range
    <3>2. PICK i \in DOMAIN registered : overloads[k] = compile_command(registered[i])
      BY <3>1, <2>1
    <3>3. matches(compile_command(registered[i]), args) <=> Takes(registered[i], args)
      BY <2>1, <2>2, MatchingIsTaking
    <3> QED
      BY <3>2, <3>3
  <2>5. CASE call.reason = "UNKNOWN_OVERLOAD"
    <3>1. \A k \in DOMAIN overloads : ~matches(overloads[k], args)
      BY <1>1, <2>5 DEF OverloadsInv, CallKept, args
    <3>2. taking = {}
      BY <3>1, <2>3
    <3> QED
      BY <3>2, <2>5 DEF BestOverloadIsCalled, args
  <2>6. CASE call.reason = "OK"
    <3>1. PICK k \in DOMAIN overloads : IsFirstMatch(k) /\ call.overload = <<overloads[k]>>
      BY <1>1, <2>6 DEF OverloadsInv, CallKept
    <3>2. /\ matches(overloads[k], args)
          /\ \A j \in DOMAIN overloads : j < k => ~matches(overloads[j], args)
      BY <3>1 DEF IsFirstMatch, args
    <3>3. PICK i \in DOMAIN registered : /\ overloads[k] = compile_command(registered[i])
                                         /\ i \in taking
      BY <2>4, <3>2
    <3>4. Called = registered[i] /\ Takes(Called, args)
      <4>1. call.overload[1] = overloads[k]
        BY <3>1
      <4>2. overloads[k].params = registered[i]
        BY <3>3, <2>1, CompiledArgs
      <4> QED
        BY <4>1, <4>2, <3>3 DEF Called
    <3>5. ASSUME Ranked(registered), NEW t \in taking, ~HasTail(registered[t])
          PROVE  ~HasTail(Called)
      <4>1. PICK m \in DOMAIN overloads : /\ overloads[m] = compile_command(registered[t])
                                          /\ matches(overloads[m], args)
        BY <2>3, <3>5
      <4>2. ~(m < k)
        BY <3>2, <4>1
      <4>3. overloads[m].tail = << >>
        BY <4>1, <3>5, <2>1, TailIsTold
      <4>4. TailsLast(overloads)
        BY <1>1, <3>5 DEF OverloadsInv, OverloadsKept
      <4>5. overloads[k].tail = << >>
        <5>1. k \in 1 .. Len(overloads) /\ m \in 1 .. Len(overloads) /\ (k = m \/ k < m)
          BY <2>1, <4>2
        <5> QED
          BY <5>1, <4>3, <4>4 DEF TailsLast
      <4> QED
        BY <4>5, <3>3, <3>4, <2>1, TailIsTold
    <3> QED
      BY <2>6, <3>3, <3>4, <3>5 DEF BestOverloadIsCalled, Ranked, args
  <2> QED
    BY <2>5, <2>6 DEF BestOverloadIsCalled
<1> QED
  BY <1>1, OverloadsAlways, PTL

\* The labels of a compiled function are those of its parameters.
LEMMA CompiledIsLabelled ==
  ASSUME NEW p \in Functions
  PROVE  Labelled(compile_command(p))
<1> DEFINE o == compile_command(p)
           N == Len(p)
           owner(i) == Max({0} \cup {j \in 1 .. i : o.params[j] \in Simple \cup Tails})
           tags(j) == {i \in DOMAIN o.params : o.params[i] \in Tags /\ owner(i) = j}
           label(j) == IF tags(j) = {} THEN Untagged ELSE o.params[Max(tags(j))]
<1>1. /\ p \in Seq(Kinds) /\ o.params = p /\ ArgsSoFar(p, N, o.args) /\ TailSoFar(p, N, o.tail)
      /\ \A i \in DOMAIN p : o.index[i] = SimpleUpTo(p, i - 1)
      /\ N \in Nat /\ DOMAIN p = 1 .. N
  BY CompiledArgs, ParamsAre DEF Functions
<1> HIDE DEF o
<1>2. ASSUME NEW i \in 1 .. N, NEW j \in 1 .. N
      PROVE  owner(i) = j <=> Owns(p, j, i)
  <2> DEFINE S == {0} \cup {k \in 1 .. i : p[k] \in Simple \cup Tails}
  <2>1. PICK m \in S : m = Max(S) /\ \A k \in S : m >= k
    <3>1. S \in SUBSET Nat /\ S # {} /\ \A k \in S : k <= i
      OBVIOUS
    <3>2. \E k \in S : \A l \in S : l <= k
      <4>1. i \in Nat
        OBVIOUS
      <4> HIDE DEF S
      <4> QED
        BY <3>1, <4>1, HasLast
    <3> HIDE DEF S
    <3>3. \E k \in S : \A l \in S : k >= l
      BY <3>1, <3>2
    <3> QED
      BY <3>3 DEF Max
  <2>2. owner(i) = m
    BY <2>1, <1>1
  <2>3. ASSUME m = j PROVE Owns(p, j, i)
    <3>1. j \in 1 .. i /\ p[j] \in Simple \cup Tails
      BY <2>1, <2>3
    <3>2. ASSUME NEW k \in j + 1 .. i, p[k] \in Simple \cup Tails PROVE FALSE
      <4>1. k \in S /\ k > j /\ k \in Nat
        BY <3>2
      <4>2. m >= k
        BY <4>1, <2>1
      <4> HIDE DEF S
      <4> QED
        BY <4>1, <4>2, <2>3
    <3> QED
      BY <3>1, <3>2 DEF Owns
  <2>4. ASSUME Owns(p, j, i) PROVE m = j
    <3>1. j \in S
      BY <2>4 DEF Owns
    <3>2. m >= j
      BY <3>1, <2>1
    <3>3. ASSUME m > j PROVE FALSE
      <4>1. m \in j + 1 .. i /\ p[m] \in Simple \cup Tails
        BY <3>3, <2>1
      <4> QED
        BY <4>1, <2>4 DEF Owns
    <3> QED
      BY <3>2, <3>3, <2>1
  <2> HIDE DEF owner, S
  <2> QED
    BY <2>2, <2>3, <2>4
<1> HIDE DEF owner
<1>3. ASSUME NEW j \in 1 .. N PROVE tags(j) = TagsOf(p, N, j)
  BY <1>1, <1>2 DEF TagsOf
<1> HIDE DEF tags
<1>4. ASSUME NEW j \in 1 .. N, NEW l, IsLabel(p, N, j, l) PROVE label(j) = l
  <2>1. CASE TagsOf(p, N, j) = {} /\ l = Untagged
    BY <2>1, <1>3
  <2>2. ASSUME NEW i \in TagsOf(p, N, j), l = p[i], \A k \in TagsOf(p, N, j) : k <= i
        PROVE  label(j) = l
    <3> DEFINE S == TagsOf(p, N, j)
    <3>1. S \in SUBSET Nat
      BY DEF TagsOf
    <3>2. i \in S /\ \A k \in S : i >= k
      BY <2>2, <3>1
    <3>3. ASSUME NEW m \in S, \A k \in S : m >= k PROVE m = i
      <4>1. m >= i /\ i >= m /\ m \in Nat /\ i \in Nat
        BY <3>1, <3>2, <3>3
      <4> QED
        BY <4>1
    <3> HIDE DEF S
    <3>4. Max(S) = i
      BY <3>2, <3>3 DEF Max
    <3>5. tags(j) = S /\ tags(j) # {}
      BY <1>3, <3>2 DEF S
    <3> QED
      BY <3>4, <3>5, <2>2, <1>1
  <2> QED
    BY <1>4, <2>1, <2>2 DEF IsLabel
<1>5. ASSUME NEW j \in 1 .. N, p[j] \in Simple PROVE o.args[o.index[j] + 1].label = label(j)
  <2>1. j - 1 \in Nat /\ (j - 1) + 1 = j
    OBVIOUS
  <2>2. SimpleUpTo(p, j) = SimpleUpTo(p, j - 1) + 1
    BY <2>1, <1>5, CountOneMore
  <2>3. o.index[j] + 1 = SimpleUpTo(p, j)
    BY <2>2, <1>1
  <2>4. IsLabel(p, N, j, o.args[SimpleUpTo(p, j)].label)
    BY <1>1, <1>5 DEF ArgsSoFar
  <2> QED
    BY <2>3, <2>4, <1>4
<1>6. ASSUME NEW j \in 1 .. N, p[j] \in Tails PROVE o.tail = <<label(j)>>
  <2>1. PICK t \in 1 .. N : IsTail(p, N, t) /\ \E l \in Labels : o.tail = <<l>> /\ IsLabel(p, N, t, l)
    BY <1>1, <1>6 DEF TailSoFar
  <2>2. PICK l \in Labels : o.tail = <<l>> /\ IsLabel(p, N, t, l)
    BY <2>1
  <2>3. t = j
    BY <2>1, <1>6 DEF IsTail
  <2>4. label(j) = l
    BY <2>2, <2>3, <1>4
  <2> HIDE DEF label
  <2> QED
    BY <2>2, <2>4
<1> HIDE DEF label
<1>7. \A j \in DOMAIN o.params :
        /\ o.params[j] \in Simple => o.args[o.index[j] + 1].label = label(j)
        /\ o.params[j] \in Tails => o.tail = <<label(j)>>
  BY <1>1, <1>5, <1>6
<1> QED
  BY <1>7 DEF Labelled, label, tags, owner, o

\* Two arguments joined.
LEMMA ConcatOfTwo ==
  ASSUME NEW rest, rest \in Seq(Seq(STRING)), Len(rest) = 2
  PROVE  concat(rest) = rest[1] \o <<Space>> \o rest[2]
<1> DEFINE Chars == STRING \cup {Space}
           seqs == [i \in DOMAIN rest |-> IF i = 1 THEN rest[1] ELSE <<Space>> \o rest[i]]
           joined == rest[1] \o (<<Space>> \o rest[2])
           flatten == CHOOSE f : f = [i \in 1 .. Len(seqs) |->
                                        IF i = 1 THEN seqs[i] ELSE f[i - 1] \o seqs[i]]
<1>1. /\ rest[1] \in Seq(Chars) /\ rest[2] \in Seq(Chars) /\ DOMAIN rest = 1 .. 2
      /\ <<Space>> \in Seq(Chars)
  <2>1. \A i \in 1 .. Len(rest) : rest[i] \in Seq(STRING)
    BY ElementOfSeq
  <2>2. DOMAIN rest = 1 .. Len(rest)
    BY LenProperties
  <2>3. STRING \subseteq Chars /\ Space \in Chars
    OBVIOUS
  <2> HIDE DEF Chars
  <2>4. \A s \in Seq(STRING) : s \in Seq(Chars)
    BY <2>3, SeqMonotonic
  <2>5. 1 \in 1 .. Len(rest) /\ 2 \in 1 .. Len(rest)
    OBVIOUS
  <2> QED
    BY <2>1, <2>2, <2>3, <2>4, <2>5
<1>2. concat(rest) = FlattenSeq(seqs)
  <2> DEFINE Shown(i) == IF i > 1 /\ FALSE /\ HasAny(rest[i], {Space})
                         THEN <<Quote>> \o rest[i] \o <<Quote>> ELSE rest[i]
             parts == [i \in DOMAIN rest |-> IF i = 1 THEN Shown(i) ELSE <<Space>> \o Shown(i)]
  <2>1. concat(rest) = FlattenSeq(parts)
    BY DEF concat, concatArgs
  <2>2. parts = seqs
    OBVIOUS
  <2> HIDE DEF parts, seqs
  <2> QED
    BY <2>1, <2>2
<1>3. /\ Len(seqs) = 2 /\ seqs[1] = rest[1] /\ seqs[2] = <<Space>> \o rest[2]
  BY <1>1
<1> HIDE DEF seqs
<1>4. \E f : f = [i \in 1 .. Len(seqs) |-> IF i = 1 THEN seqs[i] ELSE f[i - 1] \o seqs[i]]
  <2> DEFINE g == [i \in 1 .. Len(seqs) |-> IF i = 1 THEN seqs[1] ELSE joined]
  <2>1. ASSUME NEW i \in 1 .. Len(seqs)
        PROVE  g[i] = IF i = 1 THEN seqs[i] ELSE g[i - 1] \o seqs[i]
    <3>1. g[1] = seqs[1] /\ g[2] = joined
      BY <1>3
    <3> HIDE DEF g
    <3>2. CASE i = 1
      BY <3>1, <3>2
    <3>3. CASE i = 2
      <4>1. i - 1 = 1
        BY <3>3
      <4> QED
        BY <3>1, <3>3, <4>1, <1>3
    <3> QED
      BY <3>2, <3>3, <1>3
  <2>2. g = [i \in 1 .. Len(seqs) |-> IF i = 1 THEN seqs[i] ELSE g[i - 1] \o seqs[i]]
    BY <2>1
  <2> HIDE DEF g
  <2> QED
    BY <2>2
<1>5. flatten = [i \in 1 .. Len(seqs) |-> IF i = 1 THEN seqs[i] ELSE flatten[i - 1] \o seqs[i]]
  BY <1>4
<1> HIDE DEF flatten
<1>6. flatten[2] = joined
  <2>1. flatten[1] = seqs[1]
    BY <1>3, <1>5
  <2>2. flatten[2] = flatten[2 - 1] \o seqs[2]
    <3>1. 2 \in 1 .. Len(seqs) /\ 2 # 1
      BY <1>3
    <3>2. \A i \in 1 .. Len(seqs) : i # 1 => flatten[i] = flatten[i - 1] \o seqs[i]
      BY <1>5
    <3> QED
      BY ONLY <3>1, <3>2, Zenon
  <2>3. 2 - 1 = 1
    OBVIOUS
  <2> QED
    BY <2>1, <2>2, <2>3, <1>3
<1>7. FlattenSeq(seqs) = flatten[Len(seqs)]
  BY <1>3 DEF FlattenSeq, flatten
<1>8. joined = rest[1] \o <<Space>> \o rest[2]
  BY <1>1, ConcatAssociative
<1> QED
  BY <1>2, <1>3, <1>6, <1>7, <1>8

\* What each kind of parameter is given.
LEMMA Extracted ==
  ASSUME NEW kind \in Kinds, NEW cmd, NEW index
  PROVE  /\ kind \in Simple => extract_arg(kind, cmd, index) = cmd.args[index + 1]
         /\ kind = "Tail" =>
              extract_arg(kind, cmd, index) = SubSeq(cmd.args, index + 1, Len(cmd.args))
         /\ kind = "TailConcat" =>
              extract_arg(kind, cmd, index) = concat(SubSeq(cmd.args, index + 1, Len(cmd.args)))
<1> DEFINE rest == SubSeq(cmd.args, index + 1, Len(cmd.args))
           first == cmd.args[index + 1]
           joined == concat(rest)
           escaped == concatEscape(rest)
<1>1. extract_arg(kind, cmd, index) =
        CASE kind \in Simple -> first
          [] kind = "Tail" -> rest
          [] kind = "TailConcat" -> joined
          [] kind = "TailConcatEscape" -> escaped
          [] kind = "CommandName" -> cmd.name
          [] kind \in Tags -> kind
  BY DEF extract_arg
<1> HIDE DEF rest, first, joined, escaped
<1>2. kind \in Simple => kind \notin {"Tail", "TailConcat", "TailConcatEscape", "CommandName"}
                        /\ kind \notin Tags
  BY SimpleIs DEF Tags
<1>3. "Tail" \notin Simple /\ "TailConcat" \notin Simple
      /\ "Tail" \notin Tags /\ "TailConcat" \notin Tags
  BY SimpleIs DEF Tags
<1>4. kind \in Simple => extract_arg(kind, cmd, index) = first
  BY <1>1, <1>2
<1>5. kind = "Tail" => extract_arg(kind, cmd, index) = rest
  BY <1>1, <1>3
<1>6. kind = "TailConcat" => extract_arg(kind, cmd, index) = joined
  BY <1>1, <1>3
<1> QED
  BY <1>4, <1>5, <1>6 DEF rest, first, joined

\* Whatever functions are registered and called: each of a function's parameters is
\* given its own arguments of the command, and the usage shows each with its own label
\* (AdvancedCommandExecutor.h lines 314-373, 444-487, 498-543, 578-605).
THEOREM ArgumentsArePassed == OverloadsSpec => []EveryArgumentIsPassed
<1>1. ASSUME OverloadsInv PROVE EveryArgumentIsPassed
  <2>1. overloads \in Seq(Compiled)
    BY <1>1 DEF OverloadsInv, OverloadsKept
  <2>2. ASSUME NEW o \in Range(overloads) PROVE Labelled(o)
    <3>1. o \in Compiled
      BY <2>1 DEF Range
    <3>2. PICK p \in Functions : o = compile_command(p)
      BY <3>1 DEF Compiled
    <3> QED
      BY <3>2, CompiledIsLabelled
  <2> DEFINE active == {i \in DOMAIN Called : Called[i] \in Simple}
             n == Cardinality(active)
             rest == SubSeq(call.cmd.args, n + 1, Len(call.cmd.args))
             Passed == /\ \A i \in active :
                            call.values[i] = call.cmd.args[Cardinality({j \in active : j <= i})]
                       /\ \A i \in DOMAIN Called :
                            /\ Called[i] = "Tail" => call.values[i] = rest
                            /\ Called[i] = "TailConcat" /\ Len(rest) = 2 =>
                                 call.values[i] = rest[1] \o <<Space>> \o rest[2]
                       /\ ~HasTail(Called) => rest = << >>
  <2>3. ASSUME call.reason = "OK" PROVE Passed
    <3> DEFINE args == call.cmd.args
    <3>1. PICK k \in DOMAIN overloads : IsFirstMatch(k) /\ call.overload = <<overloads[k]>>
                                         /\ call.values = invoke(overloads[k], call.cmd)
      BY <1>1, <2>3 DEF OverloadsInv, CallKept
    <3>2. args \in Seq(Seq(STRING)) /\ Len(args) \in Nat
      BY <1>1, CommandsAreTyped DEF OverloadsInv, CallKept
    <3>3. overloads[k] \in Compiled
      BY <2>1
    <3>4. PICK p \in Functions : overloads[k] = compile_command(p)
      BY <3>3 DEF Compiled
    <3> DEFINE o == compile_command(p)
               N == Len(p)
    <3>5. /\ p \in Seq(Kinds) /\ N \in Nat /\ DOMAIN p = 1 .. N
          /\ o.params = p /\ Len(o.args) = SimpleUpTo(p, N) /\ TailSoFar(p, N, o.tail)
          /\ \A i \in DOMAIN p : o.index[i] = SimpleUpTo(p, i - 1)
      BY CompiledArgs, ParamsAre DEF Functions, ArgsSoFar
    <3>6. matches(o, args)
      BY <3>1, <3>4 DEF IsFirstMatch
    <3>7. HasTail(p) <=> o.tail # << >>
      BY TailIsTold
    <3> HIDE DEF o
    <3>8. Called = p /\ call.values = invoke(o, call.cmd)
      <4>1. call.overload[1] = o
        BY <3>1, <3>4 DEF o
      <4> QED
        BY <4>1, <3>1, <3>4, <3>5 DEF Called, o
    <3>9. \A i \in DOMAIN p : call.values[i] = extract_arg(p[i], call.cmd, SimpleUpTo(p, i - 1))
      BY <3>5, <3>8 DEF invoke
    <3>10. /\ active = {i \in 1 .. N : p[i] \in Simple} /\ n = SimpleUpTo(p, N)
      BY <3>5, <3>8 DEF SimpleUpTo
    <3>11. ASSUME NEW i \in active
           PROVE  call.values[i] = args[Cardinality({j \in active : j <= i})]
      <4>1. i \in 1 .. N /\ p[i] \in Simple /\ i - 1 \in Nat /\ (i - 1) + 1 = i
        BY <3>10
      <4>2. {j \in active : j <= i} = {j \in 1 .. i : p[j] \in Simple}
        BY <4>1, <3>10
      <4>3. Cardinality({j \in active : j <= i}) = SimpleUpTo(p, i)
        BY <4>2 DEF SimpleUpTo
      <4>4. SimpleUpTo(p, i) = SimpleUpTo(p, i - 1) + 1
        BY <4>1, CountOneMore
      <4>5. call.values[i] = args[SimpleUpTo(p, i - 1) + 1]
        BY <3>5, <3>9, <4>1, Extracted
      <4> QED
        BY <4>3, <4>4, <4>5
    <3> HIDE DEF active, n
    <3>12. ASSUME NEW i \in DOMAIN p, p[i] \in Tails
           PROVE  SimpleUpTo(p, i - 1) = n
      <4>1. PICK t \in 1 .. N : IsTail(p, N, t)
        BY <3>5, <3>12 DEF TailSoFar
      <4>2. t = i /\ i - 1 \in Nat
        BY <4>1, <3>5, <3>12 DEF IsTail
      <4>3. {j \in 1 .. N : p[j] \in Simple} = {j \in 1 .. i - 1 : p[j] \in Simple}
        BY <4>1, <4>2, <3>5 DEF IsTail
      <4> QED
        BY <4>3, <3>10 DEF SimpleUpTo
    <3>13. ASSUME NEW i \in DOMAIN p, p[i] = "Tail" PROVE call.values[i] = rest
      <4>1. p[i] \in Tails /\ p[i] \notin Simple
        BY <3>13, SimpleIs DEF Tails
      <4>2. call.values[i] = SubSeq(args, SimpleUpTo(p, i - 1) + 1, Len(args))
        BY <3>5, <3>9, <3>13, Extracted
      <4> QED
        BY <4>1, <4>2, <3>12
    <3>14. ASSUME NEW i \in DOMAIN p, p[i] = "TailConcat", Len(rest) = 2
           PROVE  call.values[i] = rest[1] \o <<Space>> \o rest[2]
      <4>1. p[i] \in Tails /\ p[i] \notin Simple
        BY <3>14, SimpleIs DEF Tails
      <4>2. call.values[i] = concat(SubSeq(args, SimpleUpTo(p, i - 1) + 1, Len(args)))
        BY <3>5, <3>9, <3>14, Extracted
      <4>3. call.values[i] = concat(rest)
        BY <4>1, <4>2, <3>12
      <4>4. rest \in Seq(Seq(STRING))
        <5>1. n + 1 \in Int /\ n + 1 \in Nat \ {0}
          BY <3>5, <3>10, CountIsNat
        <5>2. \A j \in n + 1 .. Len(args) : args[j] \in Seq(STRING)
          BY <5>1, <3>2
        <5> QED
          BY <5>1, <5>2, <3>2, SubSeqProperties
      <4> HIDE DEF rest
      <4> QED
        BY <4>3, <4>4, <3>14, ConcatOfTwo
    <3>15. ASSUME ~HasTail(p) PROVE rest = << >>
      <4>1. Len(args) = n /\ n \in Nat
        BY <3>2, <3>5, <3>6, <3>7, <3>10, <3>15, CountIsNat DEF matches
      <4>2. n + 1 \in Int /\ Len(args) \in Int /\ Len(args) < n + 1
        BY <4>1
      <4> QED
        BY <4>2, SubSeqEmpty
    <3> HIDE DEF rest
    <3> QED
      BY <3>8, <3>11, <3>13, <3>14, <3>15
  <2> HIDE DEF Passed
  <2>4. (\A o \in Range(overloads) : Labelled(o)) /\ (call.reason = "OK" => Passed)
    BY <2>2, <2>3
  <2> QED
    BY <2>4 DEF EveryArgumentIsPassed, Passed
<1> QED
  BY <1>1, OverloadsAlways, PTL
=============================================================================
