---------------------- MODULE CommandsAndPacketsProofs ----------------------
(***************************************************************************)
(* The parser of command lines (CommandParser), whatever the line and      *)
(* whatever the command the line was made from; and connectionless packets *)
(* (ConnlessPackets), whatever is put in them.                             *)
(***************************************************************************)
EXTENDS CommandParser, ConnlessPackets, ProofFacts

Chars == Letters \cup {Space, Quote, "a"}

LEMMA CharsApart ==
  /\ Quote \notin sepChars /\ "/" \notin sepChars /\ "/" # Quote /\ "a" \notin sepChars
  /\ "a" # "/" /\ "a" # Quote /\ Space \in sepChars
  /\ Space \notin {"/", "*"} /\ Quote \notin {"/", "*"} /\ Quote # Space
BY DEF Quote, Space, sepChars

LEMMA MinIsLeast ==
  ASSUME NEW S \in SUBSET Nat, S # {}
  PROVE  Min(S) \in S /\ \A j \in S : Min(S) <= j
<1>1. \E k \in S : \A j \in S : k <= j
  BY HasFirst
<1> QED
  BY <1>1 DEF Min

LEMMA MaxIsGreatest ==
  ASSUME NEW S \in SUBSET Nat, S # {}, NEW n \in Nat, \A j \in S : j <= n
  PROVE  Max(S) \in S /\ \A j \in S : j <= Max(S)
<1>1. \E k \in S : \A j \in S : j <= k
  BY HasLast
<1>2. PICK k \in S : \A j \in S : j <= k
  BY <1>1
<1>3. k \in S /\ \A j \in S : k >= j
  BY <1>2
<1> QED
  BY <1>3 DEF Max

-----------------------------------------------------------------------------
(* Where the next token starts.                                            *)

\* The characters from i to k are the separators there are at i.
Separated(str, i, k) ==
  /\ k \in i .. Len(str) + 1
  /\ \A j \in i .. k - 1 : isSeparator(str, j)
  /\ ~isSeparator(str, k)

LEMMA SkipsSeparators ==
  ASSUME NEW str, Len(str) \in Nat, NEW i \in 1 .. Len(str) + 1
  PROVE  Separated(str, i, skipChars(str, sepChars, i))
<1> DEFINE others == {j \in i .. Len(str) : str[j] \notin sepChars}
           k == skipChars(str, sepChars, i)
<1>1. others \in SUBSET Nat
  OBVIOUS
<1>2. k = IF others = {} THEN Len(str) + 1 ELSE Min(others)
  BY DEF skipChars
<1>3. CASE others = {}
  <2>1. k = Len(str) + 1
    BY <1>2, <1>3
  <2>2. \A j \in i .. Len(str) : str[j] \in sepChars
    BY <1>3
  <2> HIDE DEF k, others
  <2>3. i .. k - 1 = i .. Len(str)
    BY <2>1
  <2>4. k \in i .. Len(str) + 1 /\ ~isSeparator(str, k)
    BY <2>1 DEF isSeparator
  <2>5. ASSUME NEW j \in i .. k - 1 PROVE isSeparator(str, j)
    <3>1. j \in i .. Len(str)
      BY <2>3
    <3>2. j <= Len(str)
      BY <3>1
    <3> QED
      BY <3>1, <3>2, <2>2 DEF isSeparator
  <2> QED
    BY <2>4, <2>5 DEF Separated, k
<1>4. CASE others # {}
  <2>1. Min(others) \in others /\ \A j \in others : Min(others) <= j
    <3> HIDE DEF others
    <3> QED
      BY <1>1, <1>4, MinIsLeast
  <2>2. k \in others /\ \A j \in others : k <= j
    BY <1>2, <1>4, <2>1
  <2> HIDE DEF k
  <2>3. k \in i .. Len(str) /\ str[k] \notin sepChars
    BY <2>2
  <2>4. ASSUME NEW j \in i .. k - 1 PROVE isSeparator(str, j)
    <3>1. j \in i .. Len(str) /\ ~(k <= j)
      BY <2>3
    <3>2. j \notin others
      BY <2>2, <3>1
    <3> QED
      BY <3>1, <3>2 DEF isSeparator
  <2>5. Separated(str, i, k)
    BY <2>3, <2>4 DEF isSeparator, Separated
  <2> QED
    BY <2>5 DEF k
<1> QED
  BY <1>3, <1>4

LEMMA CommentIsLeft ==
  ASSUME NEW str, Len(str) \in Nat, NEW i \in 1 .. Len(str) + 1
  PROVE  /\ skipComments(str, i) = IF isComment(str, i) THEN AfterComment(str, i) ELSE i
         /\ isComment(str, i) => /\ AfterComment(str, i) \in i + 2 .. Len(str) + 1
                                 /\ i < Len(str) /\ ~isSeparator(str, i) /\ str[i] # Quote
<1> DEFINE ends == {j \in i + 2 .. Len(str) - 1 : str[j] = "*" /\ str[j + 1] = "/"}
<1>1. AfterComment(str, i) =
        IF str[i + 1] = "/" \/ ends = {} THEN Len(str) + 1 ELSE Min(ends) + 2
  BY DEF AfterComment
<1>2. skipComments(str, i) = IF isComment(str, i) THEN AfterComment(str, i) ELSE i
  BY <1>1 DEF skipComments, CommentEnds
<1>3. ASSUME isComment(str, i) PROVE AfterComment(str, i) \in i + 2 .. Len(str) + 1
  <2>1. i + 2 <= Len(str) + 1
    BY <1>3 DEF isComment
  <2>2. CASE str[i + 1] = "/" \/ ends = {}
    BY <1>1, <2>1, <2>2
  <2>3. CASE ~(str[i + 1] = "/" \/ ends = {})
    <3>1. ends \in SUBSET Nat /\ ends # {}
      BY <2>3
    <3>2. Min(ends) \in ends
      <4> HIDE DEF ends
      <4> QED
        BY <3>1, MinIsLeast
    <3>3. AfterComment(str, i) = Min(ends) + 2
      BY <1>1, <2>3
    <3> QED
      BY <3>2, <3>3
  <2> QED
    BY <2>2, <2>3
<1>4. ASSUME isComment(str, i)
      PROVE  i < Len(str) /\ ~isSeparator(str, i) /\ str[i] # Quote
  BY <1>4, CharsApart DEF isComment, isSeparator
<1> QED
  BY <1>2, <1>3, <1>4

\* The places advanceToNextToken goes by.
Advances(str, i, j, k, r) ==
  /\ j \in i .. Len(str) + 1 /\ k \in j .. Len(str) + 1 /\ r \in k .. Len(str) + 1
  /\ \A m \in i .. j - 1 : isSeparator(str, m)
  /\ \A m \in k .. r - 1 : isSeparator(str, m)
  /\ ~isSeparator(str, j) /\ ~isSeparator(str, r)
  /\ k = IF isComment(str, j) THEN AfterComment(str, j) ELSE j
  /\ isComment(str, r) => isComment(str, j) /\ j < r

LEMMA AdvancesSo ==
  ASSUME NEW str, Len(str) \in Nat, NEW i \in 1 .. Len(str) + 1
  PROVE  \E j, k : Advances(str, i, j, k, advanceToNextToken(str, i))
<1> DEFINE j == skipChars(str, sepChars, i)
           k == skipComments(str, j)
           r == skipChars(str, sepChars, k)
<1>1. /\ j \in i .. Len(str) + 1 /\ ~isSeparator(str, j)
      /\ \A m \in i .. j - 1 : isSeparator(str, m)
  BY SkipsSeparators DEF Separated
<1>2. r = advanceToNextToken(str, i)
  BY DEF advanceToNextToken
<1> HIDE DEF j
<1>3. j \in 1 .. Len(str) + 1
  BY <1>1
<1>4. /\ k = IF isComment(str, j) THEN AfterComment(str, j) ELSE j
      /\ isComment(str, j) => AfterComment(str, j) \in j + 2 .. Len(str) + 1
  BY <1>3, CommentIsLeft
<1> HIDE DEF k
<1>5. k \in j .. Len(str) + 1 /\ (isComment(str, j) => j < k)
  BY <1>3, <1>4
<1>6. k \in 1 .. Len(str) + 1
  BY <1>3, <1>5
<1>7. /\ r \in k .. Len(str) + 1 /\ ~isSeparator(str, r)
      /\ \A m \in k .. r - 1 : isSeparator(str, m)
  BY <1>6, SkipsSeparators DEF Separated
<1> HIDE DEF r
<1>8. ASSUME isComment(str, r) PROVE isComment(str, j) /\ j < r
  <2>1. CASE isComment(str, j)
    BY <2>1, <1>3, <1>5, <1>6, <1>7
  <2>2. CASE ~isComment(str, j)
    <3>1. k = j
      BY <1>4, <2>2
    <3>2. r # k
      BY <1>8, <2>2, <3>1
    <3>3. k \in k .. r - 1
      BY <1>6, <1>7, <3>2
    <3>4. isSeparator(str, k)
      BY <1>7, <3>3
    <3> QED
      BY <1>1, <3>1, <3>4
  <2> QED
    BY <2>1, <2>2
<1>9. Advances(str, i, j, k, r)
  BY <1>1, <1>4, <1>5, <1>7, <1>8 DEF Advances
<1> QED
  BY <1>2, <1>9

-----------------------------------------------------------------------------
(* The words of a line.                                                    *)

NoWords == << << >> >>

SuffixAt(str, w, i) ==
  IF i > Len(str) THEN [plain |-> << << >> >>, quoted |-> << << >> >>]
  ELSE [plain  |-> IF str[i] = Quote THEN w[i + 1].quoted
                   ELSE IF isComment(str, i)
                   THEN WordEnds(w[AfterComment(str, i)].plain)
                   ELSE IF str[i] \in sepChars THEN WordEnds(w[i + 1].plain)
                   ELSE WordsGoOn(str[i], w[i + 1].plain),
        quoted |-> IF str[i] = Quote THEN WordEnds(w[i + 1].plain)
                   ELSE WordsGoOn(str[i], w[i + 1].quoted)]

\* The function that Words takes the words from, from its place n on.
AreSuffixes(str, w, n) == w = [i \in n .. Len(str) + 1 |-> SuffixAt(str, w, i)]

LEMMA SuffixesExist ==
  ASSUME NEW str, Len(str) \in Nat
  PROVE  \E w : AreSuffixes(str, w, 1)
<1> DEFINE L == Len(str) + 1
           S == {d \in Nat : d < L => \E w : AreSuffixes(str, w, L - d)}
<1>1. 0 \in S
  <2> DEFINE v == [plain |-> NoWords, quoted |-> NoWords]
             w == [i \in L .. L |-> v]
  <2>1. \A x, i : i \in L .. L => SuffixAt(str, x, i) = v
    BY DEF SuffixAt, NoWords
  <2> HIDE DEF v
  <2>2. w = [i \in L .. L |-> SuffixAt(str, w, i)]
    BY <2>1
  <2>3. AreSuffixes(str, w, L)
    BY <2>2 DEF AreSuffixes
  <2>4. L - 0 = L
    OBVIOUS
  <2> QED
    BY <2>3, <2>4
<1>2. ASSUME NEW d \in S PROVE d + 1 \in S
  <2>1. SUFFICES ASSUME d + 1 < L PROVE \E w : AreSuffixes(str, w, L - (d + 1))
    OBVIOUS
  <2>2. d \in Nat /\ d < L
    BY <2>1
  <2>3. PICK f : AreSuffixes(str, f, L - d)
    BY <2>2
  <2>4. PICK n \in Nat : n = L - (d + 1) /\ n + 1 = L - d /\ 1 <= n /\ n <= Len(str)
    BY <2>1, <2>2
  <2> DEFINE h == [i \in n .. L |-> IF i = n THEN SuffixAt(str, f, n) ELSE f[i]]
  <2>5. f = [i \in n + 1 .. L |-> SuffixAt(str, f, i)]
    BY <2>3, <2>4 DEF AreSuffixes
  <2>6. ASSUME NEW i \in n .. L PROVE SuffixAt(str, h, i) = SuffixAt(str, f, i)
    <3>1. CASE i > Len(str)
      BY <3>1 DEF SuffixAt
    <3>2. CASE i <= Len(str)
      <4>1. i + 1 \in n .. L /\ i + 1 # n /\ i \in 1 .. Len(str) + 1
        BY <2>4, <3>2
      <4>2. h[i + 1] = f[i + 1]
        BY <4>1
      <4>3. CASE isComment(str, i)
        <5>1. AfterComment(str, i) \in i + 2 .. Len(str) + 1
          BY <4>1, <4>3, CommentIsLeft
        <5>2. AfterComment(str, i) \in n .. L /\ AfterComment(str, i) # n
          BY <5>1, <2>4
        <5>3. h[AfterComment(str, i)] = f[AfterComment(str, i)]
          BY <5>2
        <5> HIDE DEF h
        <5> QED
          BY <4>2, <5>3 DEF SuffixAt
      <4>4. CASE ~isComment(str, i)
        <5> HIDE DEF h
        <5> QED
          BY <4>2, <4>4 DEF SuffixAt
      <4> QED
        BY <4>3, <4>4
    <3> QED
      BY <2>4, <3>1, <3>2
  <2>7. ASSUME NEW i \in n .. L PROVE h[i] = SuffixAt(str, h, i)
    <3>1. CASE i = n
      <4>1. h[i] = SuffixAt(str, f, n)
        BY <3>1
      <4> HIDE DEF h
      <4> QED
        BY <4>1, <3>1, <2>6
    <3>2. CASE i # n
      <4>1. h[i] = f[i] /\ i \in n + 1 .. L
        BY <3>2, <2>4
      <4>2. f[i] = SuffixAt(str, f, i)
        BY <4>1, <2>5
      <4> HIDE DEF h
      <4> QED
        BY <4>1, <4>2, <2>6
    <3> QED
      BY <3>1, <3>2
  <2>8. h = [i \in n .. L |-> h[i]]
    OBVIOUS
  <2> HIDE DEF h
  <2>9. h = [i \in n .. L |-> SuffixAt(str, h, i)]
    BY <2>7, <2>8
  <2>10. AreSuffixes(str, h, n)
    BY <2>9 DEF AreSuffixes
  <2> QED
    BY <2>4, <2>10
<1>3. S = Nat
  <2>1. S \in SUBSET Nat
    OBVIOUS
  <2> HIDE DEF S
  <2> QED
    BY <1>1, <1>2, <2>1, SetInduction
<1>4. Len(str) \in S
  BY <1>3
<1>5. L - Len(str) = 1 /\ Len(str) < L
  OBVIOUS
<1> QED
  BY <1>4, <1>5

\* The words from each place of a line on.
WordsFrom(str) == CHOOSE w : AreSuffixes(str, w, 1)

LEMMA WordsAre ==
  ASSUME NEW str, Len(str) \in Nat
  PROVE  /\ AreSuffixes(str, WordsFrom(str), 1)
         /\ Words(str) = NotEmpty(WordsFrom(str)[1].plain)
<1>1. AreSuffixes(str, WordsFrom(str), 1)
  BY SuffixesExist DEF WordsFrom
<1>2. Words(str) = NotEmpty(WordsFrom(str)[1].plain)
  BY DEF Words, AreSuffixes, SuffixAt, WordsFrom
<1> QED
  BY <1>1, <1>2

-----------------------------------------------------------------------------
(* Putting words together.                                                 *)

WordList(C) == Seq(Seq(C)) \ {<< >>}

LEMMA HeadAndTail ==
  ASSUME NEW S, NEW x \in S, NEW s \in Seq(S)
  PROVE  /\ <<x>> \o s \in Seq(S) /\ <<x>> \o s # << >>
         /\ Head(<<x>> \o s) = x /\ Tail(<<x>> \o s) = s
<1> DEFINE t == <<x>> \o s
<1>1. <<x>> \in Seq(S) /\ Len(<<x>>) = 1 /\ <<x>>[1] = x
  OBVIOUS
<1>2. /\ t \in Seq(S) /\ Len(t) = Len(<<x>>) + Len(s)
      /\ \A i \in 1 .. Len(<<x>>) + Len(s) : t[i] =
           IF i <= Len(<<x>>) THEN <<x>>[i] ELSE s[i - Len(<<x>>)]
  BY <1>1, ConcatProperties
<1>3. Len(s) \in Nat
  OBVIOUS
<1> HIDE DEF t
<1>4. Len(t) = 1 + Len(s) /\ t[1] = x /\ t # << >>
  BY <1>1, <1>2, <1>3
<1>5. /\ Tail(t) \in Seq(S) /\ Len(Tail(t)) = Len(s)
      /\ \A i \in 1 .. Len(Tail(t)) : Tail(t)[i] = t[i + 1]
  BY <1>2, <1>3, <1>4, HeadTailProperties
<1>6. ASSUME NEW i \in 1 .. Len(Tail(t)) PROVE Tail(t)[i] = s[i]
  <2>1. i + 1 \in 1 .. Len(<<x>>) + Len(s) /\ ~(i + 1 <= Len(<<x>>))
    BY <1>1, <1>3, <1>5
  <2>2. t[i + 1] = s[i + 1 - Len(<<x>>)]
    BY <1>2, <2>1
  <2>3. i + 1 - Len(<<x>>) = i
    BY <1>1, <1>3
  <2> QED
    BY <1>5, <2>2, <2>3
<1>7. Tail(t) = s
  BY <1>5, <1>6, SeqEqual
<1>8. Head(t) = x
  BY <1>2, <1>4
<1> QED
  BY <1>2, <1>4, <1>7, <1>8 DEF t

LEMMA HeadBeforeTail ==
  ASSUME NEW S, NEW s \in Seq(S), s # << >>
  PROVE  /\ Head(s) \in S /\ Tail(s) \in Seq(S)
         /\ <<Head(s)>> \o Tail(s) = s
<1>1. Head(s) \in S /\ Tail(s) \in Seq(S) /\ Head(s) = s[1] /\ Len(s) \in Nat
  BY HeadTailProperties
<1>2. Len(Tail(s)) = Len(s) - 1 /\ \A i \in 1 .. Len(Tail(s)) : Tail(s)[i] = s[i + 1]
  BY HeadTailProperties
<1> DEFINE t == <<Head(s)>> \o Tail(s)
<1>3. <<Head(s)>> \in Seq(S) /\ Len(<<Head(s)>>) = 1 /\ <<Head(s)>>[1] = Head(s)
  BY <1>1
<1>4. /\ t \in Seq(S) /\ Len(t) = Len(<<Head(s)>>) + Len(Tail(s))
      /\ \A i \in 1 .. Len(<<Head(s)>>) + Len(Tail(s)) : t[i] =
           IF i <= Len(<<Head(s)>>) THEN <<Head(s)>>[i] ELSE Tail(s)[i - Len(<<Head(s)>>)]
  BY <1>1, <1>3, ConcatProperties
<1> HIDE DEF t
<1>5. Len(t) = Len(s)
  BY <1>1, <1>2, <1>3, <1>4
<1>6. ASSUME NEW i \in 1 .. Len(t) PROVE t[i] = s[i]
  <2>1. CASE i = 1
    BY <1>1, <1>3, <1>4, <2>1
  <2>2. CASE i # 1
    <3>1. i \in 1 .. Len(<<Head(s)>>) + Len(Tail(s)) /\ ~(i <= Len(<<Head(s)>>))
      BY <1>1, <1>3, <1>4, <2>2
    <3>2. t[i] = Tail(s)[i - Len(<<Head(s)>>)]
      BY <1>4, <3>1
    <3>3. PICK j \in 1 .. Len(Tail(s)) : j = i - Len(<<Head(s)>>) /\ j + 1 = i
      BY <1>1, <1>2, <1>3, <1>5, <2>2
    <3> QED
      BY <1>2, <3>2, <3>3
  <2> QED
    BY <2>1, <2>2
<1>7. t = s
  BY <1>4, <1>5, <1>6, SeqEqual
<1> QED
  BY <1>1, <1>7 DEF t

LEMMA NoWordsType ==
  ASSUME NEW C
  PROVE  NoWords \in WordList(C) /\ NotEmpty(NoWords) = << >>
<1>1. << >> \in Seq(C)
  OBVIOUS
<1>2. NoWords \in Seq(Seq(C)) /\ NoWords # << >> /\ Head(NoWords) = << >>
      /\ Tail(NoWords) = << >>
  BY <1>1 DEF NoWords
<1> QED
  BY <1>2 DEF WordList, NotEmpty

LEMMA WordGoesOn ==
  ASSUME NEW C, NEW c \in C, NEW ws \in WordList(C)
  PROVE  /\ WordsGoOn(c, ws) \in WordList(C)
         /\ Head(WordsGoOn(c, ws)) = <<c>> \o Head(ws)
         /\ Tail(WordsGoOn(c, ws)) = Tail(ws)
<1>1. Head(ws) \in Seq(C) /\ Tail(ws) \in Seq(Seq(C))
  BY HeadBeforeTail DEF WordList
<1>2. PICK word \in Seq(C) : word = <<c>> \o Head(ws)
  BY <1>1, HeadAndTail
<1>3. PICK words \in Seq(Seq(C)) : words = Tail(ws)
  BY <1>1
<1>4. /\ <<word>> \o words \in Seq(Seq(C)) \ {<< >>}
      /\ Head(<<word>> \o words) = word
      /\ Tail(<<word>> \o words) = words
  BY ONLY word \in Seq(C), words \in Seq(Seq(C)), HeadAndTail
<1>5. WordsGoOn(c, ws) = <<word>> \o words
  BY <1>2, <1>3 DEF WordsGoOn
<1> QED
  BY ONLY <1>2, <1>3, <1>4, <1>5 DEF WordList

LEMMA NotEmptyType ==
  ASSUME NEW C, NEW ws \in WordList(C)
  PROVE  NotEmpty(ws) \in Seq(Seq(C))
<1>1. ws \in Seq(Seq(C)) /\ Tail(ws) \in Seq(Seq(C))
  BY HeadBeforeTail DEF WordList
<1> QED
  BY <1>1 DEF NotEmpty

LEMMA WordsEnd ==
  ASSUME NEW C, NEW ws \in WordList(C)
  PROVE  /\ WordEnds(ws) \in WordList(C)
         /\ Head(WordEnds(ws)) = << >> /\ Tail(WordEnds(ws)) = NotEmpty(ws)
         /\ NotEmpty(WordEnds(ws)) = NotEmpty(ws)
<1>1. NotEmpty(ws) \in Seq(Seq(C)) /\ << >> \in Seq(C)
  BY NotEmptyType
<1>2. /\ WordEnds(ws) \in WordList(C)
      /\ Head(WordEnds(ws)) = << >> /\ Tail(WordEnds(ws)) = NotEmpty(ws)
  BY <1>1, HeadAndTail DEF WordEnds, WordList
<1>3. NotEmpty(WordEnds(ws)) = NotEmpty(ws)
  BY <1>2 DEF NotEmpty
<1> QED
  BY <1>2, <1>3

\* What is read so far of a word goes before what follows.
Glue(t, ws) == << t \o Head(ws) >> \o Tail(ws)

LEMMA GlueNothing ==
  ASSUME NEW C, NEW ws \in WordList(C)
  PROVE  Glue(<< >>, ws) = ws
<1>1. Head(ws) \in Seq(C) /\ <<Head(ws)>> \o Tail(ws) = ws
  BY HeadBeforeTail DEF WordList
<1>2. << >> \o Head(ws) = Head(ws)
  BY <1>1, ConcatEmptySeq
<1> QED
  BY <1>1, <1>2 DEF Glue

LEMMA GlueMore ==
  ASSUME NEW C, NEW t \in Seq(C), NEW c \in C, NEW ws \in WordList(C)
  PROVE  Glue(t, WordsGoOn(c, ws)) = Glue(Append(t, c), ws)
<1>1. Head(ws) \in Seq(C) /\ <<c>> \in Seq(C)
  BY HeadBeforeTail DEF WordList
<1>2. t \o (<<c>> \o Head(ws)) = (t \o <<c>>) \o Head(ws)
  <2> DEFINE one == <<c>>
             h == Head(ws)
  <2>1. one \in Seq(C) /\ h \in Seq(C)
    BY <1>1
  <2> HIDE DEF one, h
  <2>2. (t \o one) \o h = t \o (one \o h)
    BY SMTT(30), <2>1, ConcatAssociative
  <2>3. one = <<c>> /\ h = Head(ws)
    BY DEF one, h
  <2> QED
    BY ONLY <2>2, <2>3
<1>3. t \o <<c>> = Append(t, c)
  BY AppendIsConcat
<1> QED
  BY <1>2, <1>3, WordGoesOn DEF Glue

\* A word that is to be among the words, unless it is empty.
Put(t, words) == IF t = << >> THEN words ELSE <<t>> \o words

LEMMA GlueAtEnd ==
  ASSUME NEW C, NEW t \in Seq(C), NEW ws \in WordList(C)
  PROVE  NotEmpty(Glue(t, WordEnds(ws))) = Put(t, NotEmpty(ws))
<1>1. NotEmpty(ws) \in Seq(Seq(C))
  BY NotEmptyType
<1>2. t \o << >> = t
  BY ConcatEmptySeq
<1>3. Glue(t, WordEnds(ws)) = <<t>> \o NotEmpty(ws)
  BY <1>2, WordsEnd DEF Glue
<1>4. Head(<<t>> \o NotEmpty(ws)) = t /\ Tail(<<t>> \o NotEmpty(ws)) = NotEmpty(ws)
  BY <1>1, HeadAndTail
<1> QED
  BY <1>3, <1>4 DEF NotEmpty, Put

-----------------------------------------------------------------------------
(* The words that start at a place of a line.                              *)

LEMMA SuffixIs ==
  ASSUME NEW str, Len(str) \in Nat, NEW w, AreSuffixes(str, w, 1),
         NEW i \in 1 .. Len(str) + 1
  PROVE  w[i] = SuffixAt(str, w, i)
BY DEF AreSuffixes

LEMMA SuffixFields ==
  ASSUME NEW str, NEW w, NEW i
  PROVE  /\ i > Len(str) => /\ SuffixAt(str, w, i).plain = NoWords
                            /\ SuffixAt(str, w, i).quoted = NoWords
         /\ ~(i > Len(str)) =>
              /\ SuffixAt(str, w, i).plain =
                   IF str[i] = Quote THEN w[i + 1].quoted
                   ELSE IF isComment(str, i) THEN WordEnds(w[AfterComment(str, i)].plain)
                   ELSE IF str[i] \in sepChars THEN WordEnds(w[i + 1].plain)
                   ELSE WordsGoOn(str[i], w[i + 1].plain)
              /\ SuffixAt(str, w, i).quoted =
                   IF str[i] = Quote THEN WordEnds(w[i + 1].plain)
                   ELSE WordsGoOn(str[i], w[i + 1].quoted)
BY DEF SuffixAt, NoWords

LEMMA SuffixTypes ==
  ASSUME NEW C, NEW str \in Seq(C), NEW w, AreSuffixes(str, w, 1),
         NEW i \in 1 .. Len(str) + 1
  PROVE  w[i].plain \in WordList(C) /\ w[i].quoted \in WordList(C)
<1> DEFINE Typed(j) == w[j].plain \in WordList(C) /\ w[j].quoted \in WordList(C)
           L == Len(str) + 1
           S == {d \in Nat : \A j \in 1 .. L : L - j <= d => Typed(j)}
<1>1. Len(str) \in Nat /\ \A j \in 1 .. Len(str) : str[j] \in C
  OBVIOUS
<1>2. 0 \in S
  <2>1. ASSUME NEW j \in 1 .. L, L - j <= 0 PROVE Typed(j)
    <3>1. j = L /\ j > Len(str)
      BY <1>1, <2>1
    <3>2. w[j] = SuffixAt(str, w, j)
      BY <1>1, SuffixIs
    <3> QED
      BY <3>1, <3>2, SuffixFields, NoWordsType
  <2> QED
    BY <2>1
<1>3. ASSUME NEW d \in S PROVE d + 1 \in S
  <2>1. ASSUME NEW j \in 1 .. L, L - j <= d + 1, j # L PROVE Typed(j)
    <3>1. j \in 1 .. Len(str) /\ ~(j > Len(str)) /\ j + 1 \in 1 .. L /\ L - (j + 1) <= d
      BY <1>1, <2>1
    <3>2. Typed(j + 1)
      BY <3>1
    <3>3. w[j] = SuffixAt(str, w, j)
      BY <1>1, SuffixIs
    <3>4. str[j] \in C
      BY <1>1, <3>1
    <3>5. isComment(str, j) => Typed(AfterComment(str, j))
      <4>1. SUFFICES ASSUME isComment(str, j) PROVE Typed(AfterComment(str, j))
        OBVIOUS
      <4>2. AfterComment(str, j) \in j + 2 .. L
        BY <1>1, <4>1, CommentIsLeft
      <4>3. AfterComment(str, j) \in 1 .. L /\ L - AfterComment(str, j) <= d
        BY <1>1, <2>1, <4>2
      <4> QED
        BY <4>3
    <3>6. w[j].plain \in WordList(C)
      <4>1. w[j].plain =
              IF str[j] = Quote THEN w[j + 1].quoted
              ELSE IF isComment(str, j) THEN WordEnds(w[AfterComment(str, j)].plain)
              ELSE IF str[j] \in sepChars THEN WordEnds(w[j + 1].plain)
              ELSE WordsGoOn(str[j], w[j + 1].plain)
        BY <3>1, <3>3, SuffixFields
      <4>2. isComment(str, j) => WordEnds(w[AfterComment(str, j)].plain) \in WordList(C)
        BY <3>5, WordsEnd
      <4>3. /\ WordEnds(w[j + 1].plain) \in WordList(C)
            /\ WordsGoOn(str[j], w[j + 1].plain) \in WordList(C)
        BY <3>2, <3>4, WordsEnd, WordGoesOn
      <4> QED
        BY <3>2, <4>1, <4>2, <4>3
    <3>7. w[j].quoted \in WordList(C)
      <4>1. w[j].quoted = IF str[j] = Quote THEN WordEnds(w[j + 1].plain)
                          ELSE WordsGoOn(str[j], w[j + 1].quoted)
        BY <3>1, <3>3, SuffixFields
      <4>2. /\ WordEnds(w[j + 1].plain) \in WordList(C)
            /\ WordsGoOn(str[j], w[j + 1].quoted) \in WordList(C)
        BY <3>2, <3>4, WordsEnd, WordGoesOn
      <4> QED
        BY <4>1, <4>2
    <3> QED
      BY <3>6, <3>7
  <2>2. Typed(L)
    BY <1>1, <1>2
  <2> HIDE DEF Typed
  <2> QED
    BY <2>1, <2>2
<1>4. S = Nat
  <2>1. S \in SUBSET Nat
    OBVIOUS
  <2> HIDE DEF S
  <2> QED
    BY <1>2, <1>3, <2>1, SetInduction
<1>5. L - i \in Nat /\ L - i <= L - i
  BY <1>1
<1>6. L - i \in S
  BY <1>4, <1>5
<1> QED
  BY <1>5, <1>6

\* What a word is not started by does not change the words.
LEMMA SeparatorKeepsWords ==
  ASSUME NEW C, NEW str \in Seq(C), NEW w, AreSuffixes(str, w, 1),
         NEW i \in 1 .. Len(str) + 1, isSeparator(str, i)
  PROVE  NotEmpty(w[i].plain) = NotEmpty(w[i + 1].plain)
<1>1. Len(str) \in Nat
  OBVIOUS
<1>2. /\ ~(i > Len(str)) /\ str[i] \in sepChars /\ str[i] # Quote /\ ~isComment(str, i)
      /\ i + 1 \in 1 .. Len(str) + 1
  BY <1>1, CharsApart DEF isSeparator, isComment
<1>3. w[i].plain = WordEnds(w[i + 1].plain)
  BY <1>1, <1>2, SuffixIs, SuffixFields
<1>4. w[i + 1].plain \in WordList(C)
  BY <1>2, SuffixTypes
<1> QED
  BY <1>3, <1>4, WordsEnd

LEMMA CommentKeepsWords ==
  ASSUME NEW C, NEW str \in Seq(C), NEW w, AreSuffixes(str, w, 1),
         NEW i \in 1 .. Len(str) + 1, isComment(str, i)
  PROVE  NotEmpty(w[i].plain) = NotEmpty(w[AfterComment(str, i)].plain)
<1>1. Len(str) \in Nat
  OBVIOUS
<1>2. /\ ~(i > Len(str)) /\ str[i] # Quote
      /\ AfterComment(str, i) \in 1 .. Len(str) + 1
  BY <1>1, CommentIsLeft
<1>3. w[i].plain = WordEnds(w[AfterComment(str, i)].plain)
  BY <1>1, <1>2, SuffixIs, SuffixFields
<1>4. w[AfterComment(str, i)].plain \in WordList(C)
  BY <1>2, SuffixTypes
<1> QED
  BY <1>3, <1>4, WordsEnd

LEMMA SeparatorsKeepWords ==
  ASSUME NEW C, NEW str \in Seq(C), NEW w, AreSuffixes(str, w, 1),
         NEW i \in 1 .. Len(str) + 1, NEW j \in i .. Len(str) + 1,
         \A m \in i .. j - 1 : isSeparator(str, m)
  PROVE  NotEmpty(w[i].plain) = NotEmpty(w[j].plain)
<1> DEFINE Same(d) == NotEmpty(w[i].plain) = NotEmpty(w[i + d].plain)
           S == {d \in Nat : d <= j - i => Same(d)}
<1>0. Len(str) \in Nat /\ i \in Nat /\ j \in Nat /\ j <= Len(str) + 1 /\ 1 <= i /\ i <= j
  OBVIOUS
<1>1. 0 \in S
  <2>1. i + 0 = i
    BY <1>0
  <2> QED
    BY <2>1
<1>2. ASSUME NEW d \in S PROVE d + 1 \in S
  <2>1. SUFFICES ASSUME d + 1 <= j - i PROVE Same(d + 1)
    OBVIOUS
  <2>2. d \in Nat /\ d <= j - i
    BY <1>0, <2>1
  <2>3. Same(d)
    BY <2>2
  <2>4. i + d \in i .. j - 1 /\ i + d \in 1 .. Len(str) + 1 /\ (i + d) + 1 = i + (d + 1)
    BY <1>0, <2>1, <2>2
  <2>5. NotEmpty(w[i + d].plain) = NotEmpty(w[(i + d) + 1].plain)
    BY <2>4, SeparatorKeepsWords
  <2> QED
    BY <2>3, <2>4, <2>5
<1>3. S = Nat
  <2>1. S \in SUBSET Nat
    OBVIOUS
  <2> HIDE DEF S
  <2> QED
    BY <1>1, <1>2, <2>1, SetInduction
<1>4. j - i \in Nat /\ i + (j - i) = j /\ j - i <= j - i
  BY <1>0
<1>5. Same(j - i)
  BY <1>3, <1>4
<1> QED
  BY <1>4, <1>5

LEMMA AdvanceKeepsWords ==
  ASSUME NEW C, NEW str \in Seq(C), NEW w, AreSuffixes(str, w, 1),
         NEW i \in 1 .. Len(str) + 1
  PROVE  /\ advanceToNextToken(str, i) \in i .. Len(str) + 1
         /\ NotEmpty(w[advanceToNextToken(str, i)].plain) = NotEmpty(w[i].plain)
<1> DEFINE r == advanceToNextToken(str, i)
<1>1. Len(str) \in Nat
  OBVIOUS
<1>2. PICK j, k : Advances(str, i, j, k, r)
  BY <1>1, AdvancesSo
<1> HIDE DEF r
<1>3. /\ j \in i .. Len(str) + 1 /\ k \in j .. Len(str) + 1 /\ r \in k .. Len(str) + 1
      /\ j \in 1 .. Len(str) + 1 /\ k \in 1 .. Len(str) + 1 /\ r \in i .. Len(str) + 1
  BY <1>1, <1>2 DEF Advances
<1>4. NotEmpty(w[i].plain) = NotEmpty(w[j].plain)
  BY <1>2, <1>3, SeparatorsKeepWords DEF Advances
<1>5. NotEmpty(w[j].plain) = NotEmpty(w[k].plain)
  BY <1>2, <1>3, CommentKeepsWords DEF Advances
<1>6. NotEmpty(w[k].plain) = NotEmpty(w[r].plain)
  BY <1>2, <1>3, SeparatorsKeepWords DEF Advances
<1> QED
  BY <1>3, <1>4, <1>5, <1>6 DEF r

-----------------------------------------------------------------------------
(* The tokens that are not empty.                                          *)

Keep(s, t) == IF t = << >> THEN s ELSE Append(s, t)

\* The function that NotEmptyOf takes its value from, up to n.
AreKept(f, tokens, n) ==
  f = [m \in 0 .. n |-> IF m = 0 THEN << >>
                        ELSE IF tokens[m] = << >> THEN f[m - 1]
                        ELSE Append(f[m - 1], tokens[m])]

LEMMA KeptExist ==
  ASSUME NEW tokens, NEW length \in Nat
  PROVE  \E f : AreKept(f, tokens, length)
<1> DEFINE S == {n \in Nat : \E f : AreKept(f, tokens, n)}
<1>1. 0 \in S
  <2> DEFINE f == [i \in 0 .. 0 |-> << >>]
  <2>1. AreKept(f, tokens, 0)
    BY DEF AreKept
  <2> QED
    BY <2>1
<1>2. ASSUME NEW n \in S PROVE n + 1 \in S
  <2>1. PICK f : AreKept(f, tokens, n)
    OBVIOUS
  <2> DEFINE Step(x, i) == Keep(x, tokens[i])
             h == [i \in 0 .. n + 1 |-> IF i = n + 1 THEN Step(f[n], i) ELSE f[i]]
  <2>2. f = [i \in 0 .. n |-> IF i = 0 THEN << >> ELSE Step(f[i - 1], i)]
    BY <2>1 DEF AreKept, Keep
  <2> HIDE DEF Step
  <2>3. ASSUME NEW i \in 0 .. n + 1
        PROVE  h[i] = IF i = 0 THEN << >> ELSE Step(h[i - 1], i)
    <3>1. CASE i = n + 1
      <4>1. i - 1 = n /\ n \in 0 .. n + 1 /\ n # n + 1 /\ i # 0
        BY <3>1
      <4> QED
        BY <3>1, <4>1
    <3>2. CASE i = 0
      BY <2>2, <3>2
    <3>3. CASE i # 0 /\ i # n + 1
      <4>1. i \in 0 .. n /\ i - 1 \in 0 .. n + 1 /\ i - 1 # n + 1
        BY <3>3
      <4>2. h[i] = f[i] /\ h[i - 1] = f[i - 1]
        BY <3>3, <4>1
      <4>3. f[i] = Step(f[i - 1], i)
        BY <2>2, <3>3, <4>1
      <4> QED
        BY <3>3, <4>2, <4>3
    <3> QED
      BY <3>1, <3>2, <3>3
  <2>4. h = [i \in 0 .. n + 1 |-> h[i]]
    OBVIOUS
  <2> HIDE DEF h
  <2>5. h = [i \in 0 .. n + 1 |-> IF i = 0 THEN << >> ELSE Step(h[i - 1], i)]
    BY <2>3, <2>4
  <2>6. AreKept(h, tokens, n + 1)
    BY <2>5 DEF AreKept, Step, Keep
  <2> QED
    BY <2>6
<1>3. S = Nat
  <2>1. S \in SUBSET Nat
    OBVIOUS
  <2> HIDE DEF S
  <2> QED
    BY <1>1, <1>2, <2>1, SetInduction
<1> QED
  BY <1>3

LEMMA KeptAre ==
  ASSUME NEW tokens, Len(tokens) \in Nat
  PROVE  \E f : AreKept(f, tokens, Len(tokens)) /\ NotEmptyOf(tokens) = f[Len(tokens)]
<1> DEFINE f == CHOOSE g : AreKept(g, tokens, Len(tokens))
<1>1. AreKept(f, tokens, Len(tokens))
  BY KeptExist
<1>2. NotEmptyOf(tokens) = f[Len(tokens)]
  BY DEF NotEmptyOf, AreKept
<1> QED
  BY <1>1, <1>2

\* They are the same for a sequence and the beginning of a longer one.
LEMMA KeptAgree ==
  ASSUME NEW s, NEW t, NEW n \in Nat, NEW m \in Nat, n <= m,
         \A i \in 1 .. n : s[i] = t[i],
         NEW f, NEW g, AreKept(f, s, n), AreKept(g, t, m)
  PROVE  f[n] = g[n]
<1> DEFINE S == {k \in Nat : k <= n => f[k] = g[k]}
<1>1. 0 \in S
  BY DEF AreKept
<1>2. ASSUME NEW k \in S PROVE k + 1 \in S
  <2>1. SUFFICES ASSUME k + 1 <= n PROVE f[k + 1] = g[k + 1]
    OBVIOUS
  <2>2. f[k] = g[k] /\ s[k + 1] = t[k + 1]
    BY <2>1
  <2>3. k + 1 \in 0 .. n /\ k + 1 \in 0 .. m /\ k + 1 # 0 /\ (k + 1) - 1 = k
    BY <2>1
  <2>4. f[k + 1] = Keep(f[k], s[k + 1])
    BY <2>3 DEF AreKept, Keep
  <2>5. g[k + 1] = Keep(g[k], t[k + 1])
    BY <2>3 DEF AreKept, Keep
  <2> QED
    BY <2>2, <2>4, <2>5
<1>3. S = Nat
  <2>1. S \in SUBSET Nat
    OBVIOUS
  <2> HIDE DEF S
  <2> QED
    BY <1>1, <1>2, <2>1, SetInduction
<1>4. n <= n
  OBVIOUS
<1> QED
  BY <1>3, <1>4

LEMMA OneMoreKept ==
  ASSUME NEW S, NEW tokens \in Seq(S), NEW t \in S
  PROVE  NotEmptyOf(Append(tokens, t)) = Keep(NotEmptyOf(tokens), t)
<1> DEFINE longer == Append(tokens, t)
           n == Len(tokens)
<1>1. /\ n \in Nat /\ Len(longer) = n + 1 /\ longer[n + 1] = t
      /\ \A i \in 1 .. n : tokens[i] = longer[i]
  BY AppendProperties
<1>2. PICK f : AreKept(f, tokens, n) /\ NotEmptyOf(tokens) = f[n]
  BY <1>1, KeptAre
<1> HIDE DEF n, longer
<1>3. PICK g : AreKept(g, longer, n + 1) /\ NotEmptyOf(longer) = g[n + 1]
  <2>1. Len(longer) \in Nat
    BY <1>1
  <2> QED
    BY <1>1, <2>1, KeptAre
<1>4. n + 1 \in Nat /\ n <= n + 1
  BY <1>1
<1>5. f[n] = g[n]
  BY <1>1, <1>2, <1>3, <1>4, KeptAgree
<1>6. n + 1 \in 0 .. n + 1 /\ n + 1 # 0 /\ (n + 1) - 1 = n
  BY <1>1
<1>7. g[n + 1] = Keep(g[n], longer[n + 1])
  BY <1>3, <1>6 DEF AreKept, Keep
<1> QED
  BY <1>1, <1>2, <1>3, <1>5, <1>7 DEF longer

LEMMA NoneKept == NotEmptyOf(<< >>) = << >>
<1>1. Len(<< >>) = 0 /\ 0 \in Nat
  OBVIOUS
<1>2. PICK f : AreKept(f, << >>, 0) /\ NotEmptyOf(<< >>) = f[0]
  BY <1>1, KeptAre
<1> QED
  BY <1>2 DEF AreKept

LEMMA FirstKept ==
  ASSUME NEW t
  PROVE  NotEmptyOf(<<t>>) = Keep(<< >>, t)
<1> DEFINE S == {t}
<1>1. << >> \in Seq(S) /\ t \in S /\ Append(<< >>, t) = <<t>>
  OBVIOUS
<1>2. NotEmptyOf(Append(<< >>, t)) = Keep(NotEmptyOf(<< >>), t)
  BY <1>1, OneMoreKept
<1> QED
  BY <1>1, <1>2, NoneKept

LEMMA KeptBefore ==
  ASSUME NEW S, NEW s \in Seq(S), NEW t \in S, NEW words \in Seq(S)
  PROVE  Keep(s, t) \o words = s \o Put(t, words)
<1>1. CASE t = << >>
  BY <1>1 DEF Keep, Put
<1>2. CASE t # << >>
  <2> DEFINE one == <<t>>
  <2>1. one \in Seq(S) /\ Append(s, t) = s \o one
    BY AppendIsConcat
  <2> HIDE DEF one
  <2>2. (s \o one) \o words = s \o (one \o words)
    BY <2>1, ConcatAssociative
  <2> QED
    BY <1>2, <2>1, <2>2 DEF Keep, Put, one
<1> QED
  BY <1>1, <1>2

LEMMA KeptType ==
  ASSUME NEW S, NEW tokens \in Seq(S)
  PROVE  NotEmptyOf(tokens) \in Seq(S)
<1>1. Len(tokens) \in Nat /\ \A i \in 1 .. Len(tokens) : tokens[i] \in S
  OBVIOUS
<1>2. PICK f : AreKept(f, tokens, Len(tokens)) /\ NotEmptyOf(tokens) = f[Len(tokens)]
  BY <1>1, KeptAre
<1> DEFINE P == {k \in Nat : k <= Len(tokens) => f[k] \in Seq(S)}
<1>3. 0 \in P
  BY <1>1, <1>2 DEF AreKept
<1>4. ASSUME NEW k \in P PROVE k + 1 \in P
  <2>1. SUFFICES ASSUME k + 1 <= Len(tokens) PROVE f[k + 1] \in Seq(S)
    OBVIOUS
  <2>2. f[k] \in Seq(S) /\ tokens[k + 1] \in S
    BY <1>1, <2>1
  <2>3. k + 1 \in 0 .. Len(tokens) /\ k + 1 # 0 /\ (k + 1) - 1 = k
    BY <1>1, <2>1
  <2>4. f[k + 1] = Keep(f[k], tokens[k + 1])
    BY <1>2, <2>3 DEF AreKept, Keep
  <2> QED
    BY <2>2, <2>4 DEF Keep
<1>5. P = Nat
  <2>1. P \in SUBSET Nat
    OBVIOUS
  <2> HIDE DEF P
  <2> QED
    BY <1>3, <1>4, <2>1, SetInduction
<1> QED
  BY <1>1, <1>2, <1>5

-----------------------------------------------------------------------------
(* Lines made from commands.                                               *)

\* What concatEscape makes of an argument.
Shown(args, i) == IF i > 1 /\ HasAny(args[i], {Space})
                  THEN <<Quote>> \o args[i] \o <<Quote>> ELSE args[i]

\* An argument lies in the line after its place e, up to its place last.
LiesAt(str, s, e, last) ==
  /\ last = e + 1 + Len(s)
  /\ str[e + 1] = Space
  /\ \A j \in 1 .. Len(s) : str[e + 1 + j] = s[j]

\* The arguments lie one behind the other, the first of them after the name.
LaidOut(str, args, n, E) ==
  /\ E \in [0 .. n -> 1 .. Len(str)]
  /\ E[0] = 1 /\ E[n] = Len(str) /\ str[1] = "a"
  /\ \A i \in 1 .. n : LiesAt(str, Shown(args, i), E[i - 1], E[i])

LEMMA ShownType ==
  ASSUME NEW C, Quote \in C, NEW args \in Seq(Seq(C)), NEW i \in 1 .. Len(args)
  PROVE  Shown(args, i) \in Seq(C)
<1>1. args[i] \in Seq(C) /\ <<Quote>> \in Seq(C)
  OBVIOUS
<1>2. <<Quote>> \o args[i] \in Seq(C)
  BY <1>1, ConcatProperties
<1>3. <<Quote>> \o args[i] \o <<Quote>> \in Seq(C)
  BY <1>1, <1>2, ConcatProperties
<1> QED
  BY <1>1, <1>3 DEF Shown

LEMMA OneMoreLaidOut ==
  ASSUME NEW C, Space \in C, NEW args, NEW n \in Nat, NEW str \in Seq(C),
         NEW E, LaidOut(str, args, n, E), \A i \in 1 .. n + 1 : Shown(args, i) \in Seq(C)
  PROVE  LET longer == str \o (<<Space>> \o Shown(args, n + 1))
         IN  longer \in Seq(C) /\ \E F : LaidOut(longer, args, n + 1, F)
<1> DEFINE s == Shown(args, n + 1)
           one == <<Space>>
           part == one \o s
           longer == str \o part
           F == [i \in 0 .. n + 1 |-> IF i = n + 1 THEN Len(longer) ELSE E[i]]
<1>1. one \in Seq(C) /\ Len(one) = 1 /\ one[1] = Space /\ s \in Seq(C) /\ Len(s) \in Nat
  OBVIOUS
<1>2. Len(str) \in Nat
  OBVIOUS
<1> HIDE DEF one, s
<1>3. /\ part \in Seq(C) /\ Len(part) = Len(one) + Len(s)
      /\ \A i \in 1 .. Len(one) + Len(s) : part[i] =
           IF i <= Len(one) THEN one[i] ELSE s[i - Len(one)]
  BY <1>1, ConcatProperties
<1> HIDE DEF part
<1>4. /\ longer \in Seq(C) /\ Len(longer) = Len(str) + Len(part)
      /\ \A i \in 1 .. Len(str) + Len(part) : longer[i] =
           IF i <= Len(str) THEN str[i] ELSE part[i - Len(str)]
  <2>1. str \in Seq(C) /\ part \in Seq(C)
    BY <1>3
  <2> QED
    BY ONLY <2>1, ConcatProperties
<1> HIDE DEF longer
<1>5. Len(part) = 1 + Len(s) /\ Len(longer) = Len(str) + 1 + Len(s)
  BY <1>1, <1>2, <1>3, <1>4
<1>6. E \in [0 .. n -> 1 .. Len(str)] /\ E[0] = 1 /\ E[n] = Len(str) /\ str[1] = "a"
  BY DEF LaidOut
<1>7. ASSUME NEW i \in 1 .. Len(str) PROVE longer[i] = str[i]
  BY <1>1, <1>2, <1>4, <1>5
<1>8. /\ F \in [0 .. n + 1 -> 1 .. Len(longer)]
      /\ F[n + 1] = Len(longer) /\ \A i \in 0 .. n : F[i] = E[i]
  <2>1. Len(longer) \in 1 .. Len(longer)
    BY <1>1, <1>2, <1>5
  <2>2. ASSUME NEW i \in 0 .. n PROVE E[i] \in 1 .. Len(longer)
    <3>1. E[i] \in 1 .. Len(str)
      BY <1>6
    <3> QED
      BY <3>1, <1>1, <1>2, <1>5
  <2>3. ASSUME NEW i \in 0 .. n + 1, i # n + 1 PROVE i \in 0 .. n
    BY <2>3
  <2>4. n + 1 \in 0 .. n + 1 /\ \A i \in 0 .. n : i \in 0 .. n + 1 /\ i # n + 1
    OBVIOUS
  <2> QED
    BY <2>1, <2>2, <2>3, <2>4
<1> HIDE DEF F
<1>9. ASSUME NEW i \in 1 .. n + 1
      PROVE  LiesAt(longer, Shown(args, i), F[i - 1], F[i])
  <2>1. CASE i = n + 1
    <3>1. F[i - 1] = Len(str) /\ F[i] = Len(longer) /\ Shown(args, i) = s
      <4>1. i - 1 = n /\ n \in 0 .. n
        BY <2>1
      <4> QED
        BY <4>1, <2>1, <1>6, <1>8 DEF s
    <3>2. longer[Len(str) + 1] = Space
      <4>1. Len(str) + 1 \in 1 .. Len(str) + Len(part) /\ ~(Len(str) + 1 <= Len(str))
            /\ Len(str) + 1 - Len(str) = 1
        BY <1>1, <1>2, <1>5
      <4>2. longer[Len(str) + 1] = part[1]
        BY <4>1, <1>4
      <4>3. 1 \in 1 .. Len(one) + Len(s) /\ 1 <= Len(one)
        BY <1>1
      <4> QED
        BY <4>2, <4>3, <1>1, <1>3
    <3>3. ASSUME NEW j \in 1 .. Len(s) PROVE longer[Len(str) + 1 + j] = s[j]
      <4>1. /\ Len(str) + 1 + j \in 1 .. Len(str) + Len(part)
            /\ ~(Len(str) + 1 + j <= Len(str))
            /\ Len(str) + 1 + j - Len(str) = 1 + j
        BY <1>1, <1>2, <1>5
      <4>2. longer[Len(str) + 1 + j] = part[1 + j]
        BY <4>1, <1>4
      <4>3. 1 + j \in 1 .. Len(one) + Len(s) /\ ~(1 + j <= Len(one)) /\ 1 + j - Len(one) = j
        BY <1>1
      <4>4. part[1 + j] = s[j]
        BY <4>3, <1>3
      <4> QED
        BY <4>2, <4>4
    <3> QED
      BY <3>1, <3>2, <3>3, <1>5 DEF LiesAt
  <2>2. CASE i # n + 1
    <3>1. i \in 1 .. n /\ i - 1 \in 0 .. n /\ i \in 0 .. n
      BY <2>2
    <3>2. F[i - 1] = E[i - 1] /\ F[i] = E[i] /\ E[i - 1] \in 1 .. Len(str)
          /\ E[i] \in 1 .. Len(str)
      BY <3>1, <1>6, <1>8
    <3>3. LiesAt(str, Shown(args, i), E[i - 1], E[i])
      BY <3>1 DEF LaidOut
    <3> DEFINE z == Shown(args, i)
               e == E[i - 1]
               last == E[i]
    <3> HIDE DEF z, e, last
    <3>4. /\ last = e + 1 + Len(z) /\ str[e + 1] = Space
          /\ \A j \in 1 .. Len(z) : str[e + 1 + j] = z[j]
          /\ e \in 1 .. Len(str) /\ last \in 1 .. Len(str)
      BY <3>2, <3>3 DEF LiesAt, z, e, last
    <3>6. Len(z) \in Nat
      <4>1. i \in 1 .. n + 1
        OBVIOUS
      <4>2. z \in Seq(C)
        BY <4>1 DEF z
      <4> QED
        BY <4>2
    <3>7. longer[e + 1] = Space
      <4>1. e + 1 \in 1 .. Len(str)
        BY <3>4, <3>6, <1>2
      <4> QED
        BY <4>1, <3>4, <1>7
    <3>8. ASSUME NEW j \in 1 .. Len(z) PROVE longer[e + 1 + j] = z[j]
      <4>1. e + 1 + j \in 1 .. Len(str)
        BY <3>4, <3>6, <1>2
      <4> QED
        BY <4>1, <3>4, <1>7
    <3>9. LiesAt(longer, z, e, last)
      BY <3>4, <3>7, <3>8 DEF LiesAt
    <3> QED
      BY <3>2, <3>9 DEF z, e, last
  <2> QED
    BY <2>1, <2>2
<1>10. LaidOut(longer, args, n + 1, F)
  <2>1. F[0] = 1
    BY <1>6, <1>8
  <2>2. longer[1] = "a"
    <3>1. 1 \in 1 .. Len(str)
      <4>1. E[0] \in 1 .. Len(str)
        BY <1>6
      <4> QED
        BY <4>1, <1>6
    <3> QED
      BY <3>1, <1>6, <1>7
  <2> QED
    BY <2>1, <2>2, <1>8, <1>9 DEF LaidOut
<1> QED
  BY <1>4, <1>10 DEF longer, part, one, s

\* What FlattenSeq goes through: the first i parts, put together.
IsFlatten(f, parts, n) ==
  f = [i \in 1 .. n |-> IF i = 1 THEN parts[i] ELSE f[i - 1] \o parts[i]]

LEMMA FlattenExists ==
  ASSUME NEW parts, NEW length \in Nat
  PROVE  \E f : IsFlatten(f, parts, length)
<1> DEFINE S == {n \in Nat : \E f : IsFlatten(f, parts, n)}
<1>1. 0 \in S
  <2>1. << >> = [i \in 1 .. 0 |-> IF i = 1 THEN parts[i] ELSE << >>[i - 1] \o parts[i]]
    OBVIOUS
  <2> QED
    BY <2>1 DEF IsFlatten
<1>2. ASSUME NEW n \in S PROVE n + 1 \in S
  <2>1. PICK f : IsFlatten(f, parts, n)
    OBVIOUS
  <2> DEFINE last == IF n = 0 THEN parts[n + 1] ELSE f[n] \o parts[n + 1]
             h == [i \in 1 .. n + 1 |-> IF i = n + 1 THEN last ELSE f[i]]
  <2>2. n \in Nat
    OBVIOUS
  <2>3. ASSUME NEW i \in 1 .. n + 1
        PROVE  h[i] = IF i = 1 THEN parts[i] ELSE h[i - 1] \o parts[i]
    <3>1. CASE i = n + 1 /\ n = 0
      BY <3>1, <2>2
    <3>2. CASE i = n + 1 /\ n # 0
      <4>1. i - 1 = n /\ n \in 1 .. n + 1 /\ n # n + 1 /\ i # 1
        BY <3>2, <2>2
      <4> QED
        BY <4>1, <3>2
    <3>3. CASE i # n + 1
      <4>1. i \in 1 .. n /\ h[i] = f[i]
        BY <3>3, <2>2
      <4>2. f[i] = IF i = 1 THEN parts[i] ELSE f[i - 1] \o parts[i]
        BY <4>1, <2>1 DEF IsFlatten
      <4>3. i # 1 => h[i - 1] = f[i - 1]
        BY <4>1, <2>2
      <4> HIDE DEF h
      <4> QED
        BY <4>1, <4>2, <4>3
    <3> QED
      BY <3>1, <3>2, <3>3
  <2>4. h = [i \in 1 .. n + 1 |-> h[i]]
    OBVIOUS
  <2> HIDE DEF h
  <2>5. h = [i \in 1 .. n + 1 |-> IF i = 1 THEN parts[i] ELSE h[i - 1] \o parts[i]]
    BY <2>3, <2>4
  <2>6. IsFlatten(h, parts, n + 1)
    BY <2>5 DEF IsFlatten
  <2> QED
    BY <2>2, <2>6
<1>3. S = Nat
  <2>1. S \in SUBSET Nat
    OBVIOUS
  <2> HIDE DEF S
  <2> QED
    BY <1>1, <1>2, <2>1, SetInduction
<1> QED
  BY <1>3

Parts(args) ==
  [i \in DOMAIN args |-> IF i = 1 THEN Shown(args, i) ELSE <<Space>> \o Shown(args, i)]

LEMMA EscapeIsFlat == \A args : concatEscape(args) = FlattenSeq(Parts(args))
<1> TAKE args
<1> DEFINE show(i) == IF i > 1 /\ TRUE /\ HasAny(args[i], {Space})
                      THEN <<Quote>> \o args[i] \o <<Quote>> ELSE args[i]
           parts == [i \in DOMAIN args |-> IF i = 1 THEN show(i) ELSE <<Space>> \o show(i)]
<1>1. concatEscape(args) = FlattenSeq(parts)
  BY DEF concatEscape, concatArgs
<1>2. \A i : show(i) = Shown(args, i)
  BY DEF Shown
<1> HIDE DEF show
<1>3. parts = Parts(args)
  BY <1>2 DEF Parts
<1> QED
  BY <1>1, <1>3

\* The line of a command without arguments, and of one with arguments.
LEMMA LineFromNone ==
  Name \o <<Space>> \o concatEscape(<< >>) = <<"a", Space>>
<1>1. concatEscape(<< >>) = << >>
  <2>1. DOMAIN << >> = {}
    OBVIOUS
  <2>2. Parts(<< >>) = << >>
    BY <2>1 DEF Parts
  <2>3. Len(<< >>) = 0
    OBVIOUS
  <2> QED
    BY <2>2, <2>3, EscapeIsFlat DEF FlattenSeq
<1> DEFINE C == {"a", Space}
           one == <<Space>>
<1>2. Name \in Seq(C) /\ "a" \in C /\ Space \in C /\ one \in Seq(C)
  BY DEF Name
<1>3. Name \o one = Append(Name, Space)
  BY <1>2, ConcatOne
<1>4. Append(Name, Space) = <<"a", Space>>
  BY AppendToOne DEF Name
<1>5. <<"a", Space>> \o << >> = <<"a", Space>>
  <2>1. <<"a", Space>> \in Seq(C)
    BY <1>2
  <2> QED
    BY <2>1, ConcatEmptySeq
<1> QED
  BY <1>1, <1>3, <1>4, <1>5

LEMMA LineFromSome ==
  ASSUME NEW C, {"a", Space, Quote} \subseteq C, NEW args \in Seq(Seq(C)), args # << >>
  PROVE  LET str == Name \o <<Space>> \o concatEscape(args)
         IN  str \in Seq(C) /\ \E E : LaidOut(str, args, Len(args), E)
<1> DEFINE n == Len(args)
           parts == Parts(args)
           named == Name \o <<Space>>
           Done(str, k) == str \in Seq(C) /\ \E E : LaidOut(str, args, k, E)
<1>1. n \in Nat \ {0} /\ DOMAIN args = 1 .. n /\ 1 \in 1 .. n
  BY LenProperties, EmptySeq
<1>2. \A i \in 1 .. n : Shown(args, i) \in Seq(C)
  BY ShownType
<1>3. /\ Len(parts) = n /\ parts[1] = Shown(args, 1)
      /\ \A i \in 1 .. n : i # 1 => parts[i] = <<Space>> \o Shown(args, i)
  BY <1>1 DEF Parts
<1> HIDE DEF parts
<1>4. PICK f : IsFlatten(f, parts, n) /\ FlattenSeq(parts) = f[n]
  <2> DEFINE f == CHOOSE g : IsFlatten(g, parts, n)
  <2>1. IsFlatten(f, parts, n)
    BY <1>1, FlattenExists
  <2>2. FlattenSeq(parts) = f[n]
    BY <1>1, <1>3 DEF FlattenSeq, IsFlatten
  <2> QED
    BY <2>1, <2>2
<1>5. concatEscape(args) = f[n]
  BY <1>4, EscapeIsFlat DEF parts
<1> HIDE DEF n
<1>6. <<Space>> \in Seq(C) /\ Name \in Seq(C) /\ named \in Seq(C)
  BY DEF Name
<1>7. ASSUME NEW k \in Nat, k + 1 <= n, NEW str \in Seq(C), Done(str, k)
      PROVE  Done(str \o (<<Space>> \o Shown(args, k + 1)), k + 1)
  <2>1. \A i \in 1 .. k + 1 : Shown(args, i) \in Seq(C)
    <3>1. \A i \in 1 .. k + 1 : i \in 1 .. n
      BY <1>1, <1>7
    <3> QED
      BY <3>1, <1>2
  <2>2. PICK E : LaidOut(str, args, k, E)
    BY <1>7
  <2>3. Space \in C
    OBVIOUS
  <2> HIDE DEF named
  <2> QED
    BY <2>1, <2>2, <2>3, OneMoreLaidOut
<1>8. Done(Name, 0)
  <2> DEFINE E == [i \in 0 .. 0 |-> 1]
  <2>1. Name \in Seq(C) /\ Len(Name) = 1 /\ Name[1] = "a"
    BY DEF Name
  <2>2. E \in [0 .. 0 -> 1 .. Len(Name)] /\ E[0] = Len(Name) /\ E[0] = 1
    BY <2>1
  <2> HIDE DEF E
  <2>3. LaidOut(Name, args, 0, E)
    BY <2>1, <2>2 DEF LaidOut
  <2> QED
    BY <2>1, <2>3
<1> DEFINE Good(k) == f[k] \in Seq(C) /\ Done(named \o f[k], k)
           S == {k \in Nat : k # 0 /\ k <= n => Good(k)}
<1>9. Good(1)
  <2>1. 1 <= n /\ 0 + 1 = 1 /\ 0 \in Nat
    BY <1>1
  <2>2. f[1] = Shown(args, 1) /\ Shown(args, 1) \in Seq(C)
    BY <1>1, <1>2, <1>3, <1>4 DEF IsFlatten
  <2>3. Done(Name \o (<<Space>> \o Shown(args, 0 + 1)), 0 + 1)
    BY <2>1, <1>6, <1>7, <1>8
  <2>4. Name \o (<<Space>> \o Shown(args, 1)) = named \o f[1]
    <3> DEFINE one == <<Space>>
               s == Shown(args, 1)
    <3>1. one \in Seq(C) /\ s \in Seq(C) /\ Name \in Seq(C)
      BY <1>6, <2>2
    <3> HIDE DEF one, s
    <3>2. (Name \o one) \o s = Name \o (one \o s)
      BY ONLY <3>1, ConcatAssociative
    <3> QED
      BY <3>2, <2>2 DEF one, s
  <2> HIDE DEF Done, named
  <2> QED
    BY <2>1, <2>2, <2>3, <2>4
<1>10. ASSUME NEW k \in Nat, k # 0, k + 1 <= n, Good(k) PROVE Good(k + 1)
  <2>1. k + 1 \in 1 .. n /\ k + 1 # 1 /\ (k + 1) - 1 = k
    BY <1>1, <1>10
  <2>2. PICK g \in Seq(C) : g = f[k]
    BY <1>10
  <2>3. PICK part \in Seq(C) : part = <<Space>> \o Shown(args, k + 1)
    <3>1. Shown(args, k + 1) \in Seq(C)
      BY <2>1, <1>2
    <3> QED
      BY <3>1, <1>6, ConcatProperties
  <2>4. f[k + 1] = g \o part
    <3>1. \A i \in 1 .. n : i # 1 => f[i] = f[i - 1] \o parts[i]
      BY <1>4 DEF IsFlatten
    <3>2. f[k + 1] = f[(k + 1) - 1] \o parts[k + 1]
      BY ONLY <2>1, <3>1
    <3>3. parts[k + 1] = part
      BY <2>1, <2>3, <1>3
    <3> QED
      BY ONLY <3>2, <3>3, <2>1, <2>2
  <2>5. named \o g \in Seq(C) /\ Done(named \o g, k)
    BY <1>10, <2>2
  <2>6. Done((named \o g) \o part, k + 1)
    BY <1>7, <1>10, <2>3, <2>5
  <2> HIDE DEF Done
  <2>7. named \in Seq(C)
    BY <1>6
  <2>8. (named \o g) \o part = named \o (g \o part)
    <3>1. PICK h \in Seq(C) : h = named
      BY <2>7
    <3>2. (h \o g) \o part = h \o (g \o part)
      BY ONLY h \in Seq(C), g \in Seq(C), part \in Seq(C), ConcatAssociative
    <3> QED
      BY ONLY <3>1, <3>2
  <2> HIDE DEF named
  <2>9. g \o part \in Seq(C)
    OBVIOUS
  <2> QED
    BY <2>4, <2>6, <2>8, <2>9
<1> HIDE DEF Good
<1>11. S = Nat
  <2>1. S \in SUBSET Nat /\ 0 \in S
    OBVIOUS
  <2>2. ASSUME NEW k \in S PROVE k + 1 \in S
    <3>1. k \in Nat /\ (k # 0 /\ k <= n => Good(k))
      OBVIOUS
    <3>2. k + 1 # 0 /\ k + 1 <= n => Good(k + 1)
      <4>1. SUFFICES ASSUME k + 1 <= n PROVE Good(k + 1)
        OBVIOUS
      <4>2. CASE k = 0
        BY <1>9, <4>2
      <4>3. CASE k # 0
        BY <1>1, <1>10, <3>1, <4>1, <4>3
      <4> QED
        BY <4>2, <4>3
    <3> QED
      BY <3>1, <3>2
  <2> HIDE DEF S
  <2> QED
    BY <2>1, <2>2, SetInduction
<1>12. Good(n)
  BY <1>1, <1>11
<1>13. Done(named \o f[n], n)
  BY <1>12 DEF Good
<1> QED
  BY <1>5, <1>13 DEF n

-----------------------------------------------------------------------------
(* The inductive invariant of the parser.                                  *)

ParserTypes ==
  /\ line \in Seq(Chars) /\ token \in Seq(Chars) /\ idx \in 1 .. Len(line) + 1
  /\ isInQuote \in BOOLEAN /\ nameParsed \in BOOLEAN
  /\ res \in [name : Seq(Chars), args : Seq(Seq(Chars))]
  /\ ~nameParsed => res = [name |-> << >>, args |-> << >>]

\* The words that are still to come, the first of them the rest of the token.
Rest == IF isInQuote THEN WordsFrom(line)[idx].quoted ELSE WordsFrom(line)[idx].plain

\* The tokens there are and those to come are the words of the line.
NoWordIsLost ==
  NotEmptyOf(<<res.name>> \o res.args) \o NotEmpty(Glue(token, Rest)) = Words(line)

\* A line in which no token can be empty.
Simply ==
  /\ ~HasAny(line, {Quote})
  /\ Cardinality({i \in DOMAIN line : isComment(line, i)}) <= 1

\* In such a line a token is only ended when it has a character.
NoTokenIsEmpty ==
  Simply =>
    /\ ~isInQuote
    /\ \A i \in 1 .. Len(res.args) : res.args[i] # << >>
    /\ token = << >> => ~isSeparator(line, idx) /\ ~isComment(line, idx)

ParserInv == ParserTypes /\ NoWordIsLost /\ NoTokenIsEmpty

\* The line a behaviour starts with.
LEMMA LinesStart ==
  ASSUME NEW str \in Seq(Letters) \cup
               {Name \o <<Space>> \o concatEscape(args) : args \in Seq(Seq(Letters))}
  PROVE  str \in Seq(Chars)
<1>1. Letters \subseteq Chars /\ {"a", Space, Quote} \subseteq Chars
  BY DEF Chars
<1> HIDE DEF Chars
<1>2. CASE str \in Seq(Letters)
  BY <1>1, <1>2, SeqMonotonic
<1>3. ASSUME NEW args \in Seq(Seq(Letters)),
             str = Name \o <<Space>> \o concatEscape(args)
      PROVE  str \in Seq(Chars)
  <2>1. args \in Seq(Seq(Chars))
    <3>1. Seq(Letters) \subseteq Seq(Chars)
      BY <1>1, SeqMonotonic
    <3> QED
      BY <3>1, SeqMonotonic
  <2>2. CASE args = << >>
    <3>1. str = <<"a", Space>>
      BY <1>3, <2>2, LineFromNone
    <3> QED
      BY <1>1, <3>1
  <2>3. CASE args # << >>
    BY <1>1, <1>3, <2>1, <2>3, LineFromSome
  <2> QED
    BY <2>2, <2>3
<1> QED
  BY <1>2, <1>3

LEMMA StringsAreSequences ==
  ASSUME NEW n \in Nat, NEW s \in Strings(n)
  PROVE  s \in Seq(Letters) /\ Len(s) \in 0 .. n
BY DEF Strings

LEMMA ArgumentsAre ==
  ASSUME NEW args \in Arguments
  PROVE  /\ args \in Seq(Seq(Letters))
         /\ \A i \in 1 .. Len(args) : Told(args[i], i = 1)
<1>0. MaxWord \in Nat /\ MaxArgs \in Nat
  BY ParserAssumption
<1>1. PICK n \in 0 .. MaxArgs : /\ args \in [1 .. n -> {s \in Strings(MaxWord) : Told(s, FALSE)}]
                                /\ n > 0 => Told(args[1], TRUE)
  BY DEF Arguments
<1>2. \A i \in 1 .. n : args[i] \in Seq(Letters) /\ Told(args[i], FALSE)
  BY <1>0, <1>1, StringsAreSequences
<1>3. args \in Seq(Seq(Letters)) /\ Len(args) = n
  <2> DEFINE T == Seq(Letters)
  <2>1. n \in Nat /\ DOMAIN args = 1 .. n /\ args = [i \in 1 .. n |-> args[i]]
    BY <1>0, <1>1
  <2>2. \A i \in 1 .. n : args[i] \in T
    BY <1>2
  <2> HIDE DEF T
  <2>3. args \in [1 .. n -> T]
    BY <2>1, <2>2
  <2>4. args \in Seq(T)
    BY <2>1, <2>3, SeqDef
  <2>5. Len(args) = n
    BY <2>1, <2>4
  <2> QED
    BY <2>4, <2>5 DEF T
<1>4. ASSUME NEW i \in 1 .. n PROVE Told(args[i], i = 1)
  <2>1. CASE i = 1
    <3>1. Told(args[1], TRUE)
      <4>1. n > 0
        BY <1>0, <2>1
      <4> QED
        BY <4>1, <1>1
    <3>2. (i = 1) = TRUE
      BY <2>1
    <3> QED
      BY <2>1, <3>1, <3>2
  <2>2. CASE i # 1
    <3>1. Told(args[i], FALSE)
      BY <1>2
    <3>2. (i = 1) = FALSE
      BY <2>2
    <3> QED
      BY <3>1, <3>2
  <2> QED
    BY <2>1, <2>2
<1> QED
  BY <1>3, <1>4

LEMMA InitialLine ==
  ASSUME ParserInit
  PROVE  line \in Seq(Chars)
<1>1. CASE line \in Strings(MaxLine)
  <2>1. MaxLine \in Nat
    BY ParserAssumption
  <2>2. line \in Seq(Letters)
    BY <1>1, <2>1, StringsAreSequences
  <2> QED
    BY <2>2, LinesStart
<1>2. CASE \E args \in Arguments : line = Name \o <<Space>> \o concatEscape(args)
  <2>1. PICK args \in Seq(Seq(Letters)) : line = Name \o <<Space>> \o concatEscape(args)
    BY <1>2, ArgumentsAre
  <2> QED
    BY <2>1, LinesStart
<1> QED
  BY <1>1, <1>2 DEF ParserInit
LEMMA RestIs ==
  ASSUME ParserTypes
  PROVE  /\ Len(line) \in Nat /\ AreSuffixes(line, WordsFrom(line), 1)
         /\ Words(line) = NotEmpty(WordsFrom(line)[1].plain)
         /\ Rest \in WordList(Chars)
         /\ \A i \in 1 .. Len(line) + 1 : /\ WordsFrom(line)[i].plain \in WordList(Chars)
                                          /\ WordsFrom(line)[i].quoted \in WordList(Chars)
<1>1. line \in Seq(Chars) /\ Len(line) \in Nat /\ idx \in 1 .. Len(line) + 1
  BY DEF ParserTypes
<1>2. /\ AreSuffixes(line, WordsFrom(line), 1)
      /\ Words(line) = NotEmpty(WordsFrom(line)[1].plain)
  BY <1>1, WordsAre
<1>3. ASSUME NEW i \in 1 .. Len(line) + 1
      PROVE  /\ WordsFrom(line)[i].plain \in WordList(Chars)
             /\ WordsFrom(line)[i].quoted \in WordList(Chars)
  BY <1>1, <1>2, SuffixTypes
<1> QED
  BY <1>1, <1>2, <1>3 DEF Rest

LEMMA NextTokenIs ==
  ASSUME ParserTypes, NEW i \in 1 .. Len(line) + 1
  PROVE  /\ advanceToNextToken(line, i) \in i .. Len(line) + 1
         /\ NotEmpty(Glue(<< >>, WordsFrom(line)[advanceToNextToken(line, i)].plain)) =
              NotEmpty(WordsFrom(line)[i].plain)
         /\ ~isSeparator(line, advanceToNextToken(line, i))
         /\ isComment(line, advanceToNextToken(line, i)) =>
              \E j \in i .. advanceToNextToken(line, i) - 1 : isComment(line, j)
<1> DEFINE r == advanceToNextToken(line, i)
<1>1. line \in Seq(Chars) /\ Len(line) \in Nat /\ AreSuffixes(line, WordsFrom(line), 1)
  BY RestIs DEF ParserTypes
<1>2. r \in i .. Len(line) + 1
      /\ NotEmpty(WordsFrom(line)[r].plain) = NotEmpty(WordsFrom(line)[i].plain)
  BY <1>1, AdvanceKeepsWords
<1>3. PICK j, k : Advances(line, i, j, k, r)
  BY <1>1, AdvancesSo
<1> HIDE DEF r
<1>4. r \in 1 .. Len(line) + 1
  BY <1>1, <1>2
<1>5. WordsFrom(line)[r].plain \in WordList(Chars)
  BY <1>4, RestIs
<1>6. Glue(<< >>, WordsFrom(line)[r].plain) = WordsFrom(line)[r].plain
  BY <1>5, GlueNothing
<1>7. ~isSeparator(line, r)
  BY <1>3 DEF Advances
<1>8. isComment(line, r) => \E m \in i .. r - 1 : isComment(line, m)
  <2>1. SUFFICES ASSUME isComment(line, r) PROVE j \in i .. r - 1 /\ isComment(line, j)
    OBVIOUS
  <2>2. isComment(line, j) /\ j < r /\ j \in i .. Len(line) + 1
    BY <1>3, <2>1 DEF Advances
  <2> QED
    BY <1>1, <1>4, <2>2
<1> QED
  BY <1>2, <1>6, <1>7, <1>8 DEF r

LEMMA FlushedIs ==
  ASSUME ParserTypes
  PROVE  /\ Flushed \in [name : Seq(Chars), args : Seq(Seq(Chars))]
         /\ NotEmptyOf(<<Flushed.name>> \o Flushed.args) =
              Keep(NotEmptyOf(<<res.name>> \o res.args), token)
         /\ nameParsed => Flushed = [name |-> res.name, args |-> Append(res.args, token)]
         /\ ~nameParsed => Flushed = [name |-> token, args |-> << >>]
<1> DEFINE S == Seq(Chars)
<1>1. token \in S /\ res.name \in S /\ res.args \in Seq(S) /\ << >> \in S
      /\ res = [name |-> res.name, args |-> res.args]
  BY DEF ParserTypes
<1>2. CASE nameParsed
  <2>1. Flushed = [name |-> res.name, args |-> Append(res.args, token)]
    <3>1. Flushed = [res EXCEPT !.args = Append(@, token)]
      BY <1>2 DEF Flushed
    <3> QED
      BY <1>1, <3>1
  <2> DEFINE one == <<res.name>>
             args == res.args
  <2>2. one \in Seq(S) /\ args \in Seq(S)
    BY <1>1
  <2> HIDE DEF one, args, S
  <2>3. one \o Append(args, token) = Append(one \o args, token)
    <3> DEFINE last == <<token>>
    <3>1. last \in Seq(S) /\ Append(args, token) = args \o last
      BY <1>1, <2>2, AppendIsConcat
    <3>2. one \o args \in Seq(S)
      BY <2>2
    <3>3. Append(one \o args, token) = (one \o args) \o last
      BY <1>1, <3>2, AppendIsConcat
    <3> HIDE DEF last
    <3>4. (one \o args) \o last = one \o (args \o last)
      BY ONLY <2>2, <3>1, ConcatAssociative, SMTT(30)
    <3> QED
      BY <3>1, <3>3, <3>4
  <2>4. one \o args \in Seq(S)
    BY <2>2
  <2>5. NotEmptyOf(Append(one \o args, token)) = Keep(NotEmptyOf(one \o args), token)
    BY <1>1, <2>4, OneMoreKept
  <2>6. Append(args, token) \in Seq(S)
    BY <1>1, <2>2
  <2>7. Flushed.name = res.name /\ Flushed.args = Append(args, token)
    BY <2>1 DEF args
  <2>8. Flushed \in [name : S, args : Seq(S)]
    BY <1>1, <2>1, <2>6 DEF args
  <2>9. <<Flushed.name>> \o Flushed.args = Append(one \o args, token)
    BY <2>3, <2>7 DEF one
  <2>10. <<res.name>> \o res.args = one \o args
    BY DEF one, args
  <2>11. NotEmptyOf(<<Flushed.name>> \o Flushed.args) =
           Keep(NotEmptyOf(<<res.name>> \o res.args), token)
    BY <2>5, <2>9, <2>10
  <2>12. Flushed \in [name : Seq(Chars), args : Seq(Seq(Chars))]
    BY <2>8 DEF S
  <2> QED
    BY ONLY <1>2, <2>1, <2>11, <2>12, Zenon
<1>3. CASE ~nameParsed
  <2>1. res = [name |-> << >>, args |-> << >>]
    BY <1>3 DEF ParserTypes
  <2>2. Flushed = [name |-> token, args |-> << >>]
    <3>1. Flushed = [res EXCEPT !.name = token]
      BY <1>3 DEF Flushed
    <3> QED
      BY <2>1, <3>1
  <2>3. <<Flushed.name>> \o Flushed.args = <<token>>
        /\ <<res.name>> \o res.args = << << >> >>
    <3>1. <<token>> \in Seq(S) /\ << << >> >> \in Seq(S)
      BY <1>1
    <3>2. <<token>> \o << >> = <<token>> /\ << << >> >> \o << >> = << << >> >>
      BY <3>1, ConcatEmptySeq
    <3> QED
      BY <2>1, <2>2, <3>2
  <2>4. NotEmptyOf(<< << >> >>) = << >> /\ NotEmptyOf(<<token>>) = Keep(<< >>, token)
    BY FirstKept DEF Keep
  <2>5. NotEmptyOf(<<Flushed.name>> \o Flushed.args) =
          Keep(NotEmptyOf(<<res.name>> \o res.args), token)
    BY <2>3, <2>4
  <2>6. Flushed \in [name : Seq(Chars), args : Seq(Seq(Chars))]
    <3>1. token \in Seq(Chars) /\ << >> \in Seq(Seq(Chars))
      BY <1>1
    <3> QED
      BY ONLY <3>1, <2>2
  <2> QED
    BY ONLY <1>3, <2>2, <2>5, <2>6, Zenon
<1> QED
  BY <1>2, <1>3

\* Where a word ends, the token is one of the words.
LEMMA WordIsToken ==
  ASSUME ParserTypes, NoWordIsLost, NEW ws \in WordList(Chars), Rest = WordEnds(ws)
  PROVE  NotEmptyOf(<<Flushed.name>> \o Flushed.args) \o NotEmpty(ws) = Words(line)
<1> DEFINE S == Seq(Chars)
           kept == NotEmptyOf(<<res.name>> \o res.args)
           words == NotEmpty(ws)
<1>1. token \in S /\ <<res.name>> \o res.args \in Seq(S)
  <2>1. token \in S /\ <<res.name>> \in Seq(S) /\ res.args \in Seq(S)
    BY DEF ParserTypes
  <2> QED
    BY <2>1
<1>2. kept \in Seq(S)
  BY <1>1, KeptType
<1>3. words \in Seq(S)
  BY NotEmptyType
<1>4. NotEmpty(Glue(token, Rest)) = Put(token, words)
  BY <1>1, GlueAtEnd
<1>5. kept \o Put(token, words) = Words(line)
  BY <1>4 DEF NoWordIsLost
<1>6. Keep(kept, token) \o words = kept \o Put(token, words)
  <2>1. token \in S
    BY <1>1
  <2> HIDE DEF kept, words, S
  <2> QED
    BY ONLY SMTT(30), <2>1, <1>2, <1>3, KeptBefore
<1>7. NotEmptyOf(<<Flushed.name>> \o Flushed.args) = Keep(kept, token)
  BY FlushedIs
<1>8. words = NotEmpty(ws)
  OBVIOUS
<1> HIDE DEF kept, words, S
<1> QED
  BY ONLY <1>5, <1>6, <1>7, <1>8

LEMMA TwoComments ==
  ASSUME Simply, Len(line) \in Nat, line \in Seq(Chars), NEW i \in Nat \ {0}, NEW j \in Nat,
         i < j, isComment(line, i), isComment(line, j)
  PROVE  FALSE
<1> DEFINE S == {k \in DOMAIN line : isComment(line, k)}
<1>1. IsFiniteSet(S)
  <2>1. IsFiniteSet(DOMAIN line)
    <3>1. DOMAIN line = 1 .. Len(line)
      BY LenProperties
    <3> QED
      BY <3>1, FS_Interval
  <2>2. S \subseteq DOMAIN line
    OBVIOUS
  <2> QED
    BY <2>1, <2>2, FS_Subset
<1>2. i \in S /\ j \in S
  <2>1. i < Len(line) /\ j < Len(line)
    BY DEF isComment
  <2>2. i \in 1 .. Len(line) /\ j \in 1 .. Len(line)
    BY <2>1
  <2> QED
    BY <2>2
<1>3. Cardinality(S) <= 1
  BY DEF Simply
<1> HIDE DEF S
<1>4. IsFiniteSet({i}) /\ Cardinality({i}) = 1 /\ j \notin {i}
  <2>1. j \notin {i}
    OBVIOUS
  <2> QED
    BY <2>1, FS_Singleton
<1>5. IsFiniteSet({i} \cup {j}) /\ Cardinality({i} \cup {j}) = Cardinality({i}) + 1
  BY <1>4, FS_AddElement
<1>6. {i} \cup {j} \in SUBSET S
  BY <1>2
<1>7. Cardinality({i} \cup {j}) <= Cardinality(S)
  BY <1>1, <1>6, FS_Subset
<1>8. Cardinality(S) \in Nat
  BY <1>1, FS_CardinalityType
<1> QED
  <2> DEFINE x == {i}
             y == {i} \cup {j}
  <2>1. Cardinality(x) = 1 /\ Cardinality(y) = Cardinality(x) + 1 /\ Cardinality(y) <= Cardinality(S)
    BY <1>4, <1>5, <1>7
  <2> HIDE DEF x, y
  <2> QED
    BY ONLY <1>3, <1>8, <2>1

-----------------------------------------------------------------------------
(* Every step keeps it.                                                    *)

\* A gap starts with a separator or a comment, so that the next token does not.
LEMMA TokenAfterGap ==
  ASSUME ParserTypes, Simply, NEW i \in 1 .. Len(line) + 1,
         \/ i = 1
         \/ isSeparator(line, i) \/ isComment(line, i)
  PROVE  LET r == advanceToNextToken(line, i)
         IN  ~isSeparator(line, r) /\ ~isComment(line, r)
<1> DEFINE r == advanceToNextToken(line, i)
<1>1. /\ r \in i .. Len(line) + 1 /\ ~isSeparator(line, r)
      /\ isComment(line, r) => \E j \in i .. r - 1 : isComment(line, j)
  BY NextTokenIs
<1> HIDE DEF r
<1>2. line \in Seq(Chars) /\ Len(line) \in Nat
  BY DEF ParserTypes
<1>3. ASSUME isComment(line, r) PROVE FALSE
  <2>1. PICK j \in i .. r - 1 : isComment(line, j)
    BY <1>1, <1>3
  <2>2. j \in Nat \ {0} /\ r \in Nat /\ j < r
    BY <1>1, <1>2
  <2> QED
    BY <1>2, <1>3, <2>1, <2>2, TwoComments
<1> QED
  BY <1>1, <1>3 DEF r

LEMMA ParserStarts ==
  ASSUME ParserInit
  PROVE  ParserInv
<1>1. line \in Seq(Chars) /\ Len(line) \in Nat
  BY InitialLine
<1>2. /\ idx = advanceToNextToken(line, 1)
      /\ isInQuote = FALSE /\ token = << >> /\ nameParsed = FALSE
      /\ res = [name |-> << >>, args |-> << >>]
  BY DEF ParserInit
<1>3. \E j, k : Advances(line, 1, j, k, idx)
  BY <1>1, <1>2, AdvancesSo
<1>4. idx \in 1 .. Len(line) + 1
  BY <1>1, <1>3 DEF Advances
<1>5. ParserTypes
  <2>1. << >> \in Seq(Chars) /\ << >> \in Seq(Seq(Chars))
    OBVIOUS
  <2> QED
    BY <1>1, <1>2, <1>4, <2>1 DEF ParserTypes
<1>6. NoWordIsLost
  <2>1. NotEmptyOf(<<res.name>> \o res.args) = << >>
    <3>1. <<res.name>> \o res.args = << << >> >>
      <4>1. << << >> >> \in Seq({<< >>})
        OBVIOUS
      <4>2. << << >> >> \o << >> = << << >> >>
        BY <4>1, ConcatEmptySeq
      <4> QED
        BY <1>2, <4>2
    <3> QED
      BY <3>1, FirstKept DEF Keep
  <2>2. 1 \in 1 .. Len(line) + 1
    BY <1>1
  <2>3. NotEmpty(Glue(token, Rest)) = NotEmpty(WordsFrom(line)[1].plain)
    BY <1>2, <1>5, <2>2, NextTokenIs DEF Rest
  <2>4. NotEmpty(WordsFrom(line)[1].plain) = Words(line) /\ Words(line) \in Seq(Seq(Chars))
    <3>1. WordsFrom(line)[1].plain \in WordList(Chars)
      BY <1>5, <2>2, RestIs
    <3> QED
      BY <3>1, <1>5, RestIs, NotEmptyType
  <2>5. << >> \o Words(line) = Words(line)
    BY <2>4, ConcatEmptySeq
  <2> QED
    BY <2>1, <2>3, <2>4, <2>5 DEF NoWordIsLost
<1>7. NoTokenIsEmpty
  <2>1. 1 \in 1 .. Len(line) + 1
    BY <1>1
  <2>2. Simply => ~isSeparator(line, idx) /\ ~isComment(line, idx)
    BY <1>2, <1>5, <2>1, TokenAfterGap
  <2>3. Len(res.args) = 0
    BY <1>2
  <2> QED
    BY <1>2, <2>2, <2>3 DEF NoTokenIsEmpty
<1> QED
  BY <1>5, <1>6, <1>7 DEF ParserInv

LEMMA OpensQuote ==
  ASSUME ParserInv, OpenQuote
  PROVE  ParserInv'
<1>1. ParserTypes /\ NoWordIsLost /\ NoTokenIsEmpty
  BY DEF ParserInv
<1>2. /\ idx <= Len(line) /\ line[idx] = Quote /\ ~isInQuote
      /\ isInQuote' = TRUE /\ idx' = idx + 1
      /\ line' = line /\ token' = token /\ nameParsed' = nameParsed /\ res' = res
  BY DEF OpenQuote
<1>3. Len(line) \in Nat /\ idx \in 1 .. Len(line)
  BY <1>1, <1>2, RestIs DEF ParserTypes
<1>4. ParserTypes'
  <2>1. idx' \in 1 .. Len(line') + 1
    BY <1>2, <1>3
  <2> QED
    BY <1>1, <1>2, <2>1 DEF ParserTypes
<1>5. NoWordIsLost'
  <2>1. WordsFrom(line)[idx].plain = WordsFrom(line)[idx + 1].quoted
    <3>1. WordsFrom(line)[idx] = SuffixAt(line, WordsFrom(line), idx)
      BY <1>1, <1>3, RestIs, SuffixIs
    <3>2. ~(idx > Len(line))
      BY <1>3
    <3> QED
      BY <1>2, <3>1, <3>2, SuffixFields
  <2>2. Rest' = Rest
    BY <1>2, <2>1 DEF Rest
  <2> QED
    BY <1>1, <1>2, <2>2 DEF NoWordIsLost
<1>6. NoTokenIsEmpty'
  <2>1. HasAny(line, {Quote})
    <3>1. idx \in DOMAIN line
      BY <1>1, <1>3, LenProperties DEF ParserTypes
    <3> QED
      BY <1>2, <3>1 DEF HasAny
  <2> QED
    BY <1>2, <2>1 DEF NoTokenIsEmpty, Simply
<1> QED
  BY <1>4, <1>5, <1>6 DEF ParserInv

LEMMA TakesChar ==
  ASSUME ParserInv, TakeChar
  PROVE  ParserInv'
<1>1. ParserTypes /\ NoWordIsLost /\ NoTokenIsEmpty
  BY DEF ParserInv
<1>2. /\ idx <= Len(line) /\ line[idx] # Quote /\ ~AtGap
      /\ token' = Append(token, line[idx]) /\ idx' = idx + 1
      /\ line' = line /\ isInQuote' = isInQuote /\ nameParsed' = nameParsed /\ res' = res
  BY DEF TakeChar
<1>3. Len(line) \in Nat /\ idx \in 1 .. Len(line) /\ line[idx] \in Chars
      /\ token \in Seq(Chars)
  <2>1. Len(line) \in Nat /\ idx \in 1 .. Len(line)
    BY <1>1, <1>2, RestIs DEF ParserTypes
  <2>2. line \in Seq(Chars) /\ token \in Seq(Chars)
    BY <1>1 DEF ParserTypes
  <2>3. line[idx] \in Chars
    BY <2>1, <2>2, ElementOfSeq
  <2> QED
    BY <2>1, <2>2, <2>3
<1>4. token' \in Seq(Chars) /\ token' # << >>
  BY <1>2, <1>3, AppendProperties
<1>5. ParserTypes'
  <2>1. idx' \in 1 .. Len(line') + 1
    BY <1>2, <1>3
  <2> QED
    BY <1>1, <1>2, <1>4, <2>1 DEF ParserTypes
<1>6. NoWordIsLost'
  <2> DEFINE char == line[idx]
             w == WordsFrom(line)
  <2>1. w[idx] = SuffixAt(line, w, idx) /\ ~(idx > Len(line))
    BY <1>1, <1>3, RestIs, SuffixIs
  <2>2. idx + 1 \in 1 .. Len(line) + 1
    BY <1>3
  <2>3. w[idx + 1].plain \in WordList(Chars) /\ w[idx + 1].quoted \in WordList(Chars)
    BY <1>1, <2>2, RestIs
  <2>4. CASE isInQuote
    <3>1. Rest = WordsGoOn(char, w[idx + 1].quoted)
      BY <1>2, <2>1, <2>4, SuffixFields DEF Rest
    <3>2. Rest' = w[idx + 1].quoted
      BY <1>2, <2>4 DEF Rest
    <3>3. Glue(token', Rest') = Glue(token, Rest)
      <4> HIDE DEF w, char
      <4> QED
        BY <1>2, <1>3, <2>3, <3>1, <3>2, GlueMore DEF char
    <3> QED
      BY <1>1, <1>2, <3>3 DEF NoWordIsLost
  <2>5. CASE ~isInQuote
    <3>1. ~isComment(line, idx) /\ line[idx] \notin sepChars
      BY <1>2, <2>5 DEF AtGap, isSeparator
    <3>2. Rest = WordsGoOn(char, w[idx + 1].plain)
      BY <1>2, <2>1, <2>5, <3>1, SuffixFields DEF Rest
    <3>3. Rest' = w[idx + 1].plain
      BY <1>2, <2>5 DEF Rest
    <3>4. Glue(token', Rest') = Glue(token, Rest)
      <4> HIDE DEF w, char
      <4> QED
        BY <1>2, <1>3, <2>3, <3>2, <3>3, GlueMore DEF char
    <3> QED
      BY <1>1, <1>2, <3>4 DEF NoWordIsLost
  <2> QED
    BY <2>4, <2>5
<1>7. NoTokenIsEmpty'
  BY <1>1, <1>2, <1>4 DEF NoTokenIsEmpty, Simply
<1> QED
  BY <1>5, <1>6, <1>7 DEF ParserInv
\* What is common to the steps that make the token one of the command: words of
\* the line that follow it start where the next token does.
LEMMA FlushKeeps ==
  ASSUME ParserInv, flushToken, line' = line, isInQuote' = FALSE,
         NEW ws \in WordList(Chars), Rest = WordEnds(ws),
         idx' \in 1 .. Len(line) + 1,
         NotEmpty(Glue(<< >>, WordsFrom(line)[idx'].plain)) = NotEmpty(ws)
  PROVE  ParserTypes' /\ NoWordIsLost'
<1>1. ParserTypes /\ NoWordIsLost
  BY DEF ParserInv
<1>2. res' = Flushed /\ nameParsed' = TRUE /\ token' = << >>
  BY DEF flushToken
<1>3. ParserTypes'
  <2>1. Flushed \in [name : Seq(Chars), args : Seq(Seq(Chars))]
    BY <1>1, FlushedIs
  <2>2. << >> \in Seq(Chars)
    OBVIOUS
  <2> QED
    BY <1>1, <1>2, <2>1, <2>2 DEF ParserTypes
<1>4. NoWordIsLost'
  <2>1. NotEmptyOf(<<Flushed.name>> \o Flushed.args) \o NotEmpty(ws) = Words(line)
    BY <1>1, WordIsToken
  <2>2. Rest' = WordsFrom(line)[idx'].plain
    BY DEF Rest
  <2>3. NotEmpty(Glue(token', Rest')) = NotEmpty(ws)
    BY <1>2, <2>2
  <2> QED
    BY <1>2, <2>1, <2>3 DEF NoWordIsLost
<1> QED
  BY <1>3, <1>4

LEMMA ClosesQuote ==
  ASSUME ParserInv, CloseQuote
  PROVE  ParserInv'
<1>1. ParserTypes /\ NoWordIsLost /\ NoTokenIsEmpty
  BY DEF ParserInv
<1>2. /\ idx <= Len(line) /\ line[idx] = Quote /\ isInQuote
      /\ isInQuote' = FALSE /\ flushToken
      /\ idx' = advanceToNextToken(line, idx + 1) /\ line' = line
  BY DEF CloseQuote
<1>3. Len(line) \in Nat /\ idx \in 1 .. Len(line) /\ idx + 1 \in 1 .. Len(line) + 1
  BY <1>1, <1>2, RestIs DEF ParserTypes
<1> DEFINE ws == WordsFrom(line)[idx + 1].plain
<1>4. ws \in WordList(Chars)
  BY <1>1, <1>3, RestIs
<1>5. Rest = WordEnds(ws)
  <2>1. WordsFrom(line)[idx] = SuffixAt(line, WordsFrom(line), idx) /\ ~(idx > Len(line))
    BY <1>1, <1>3, RestIs, SuffixIs
  <2> QED
    BY <1>2, <2>1, SuffixFields DEF Rest
<1>6. /\ idx' \in idx + 1 .. Len(line) + 1
      /\ NotEmpty(Glue(<< >>, WordsFrom(line)[idx'].plain)) = NotEmpty(ws)
  BY <1>1, <1>2, <1>3, NextTokenIs
<1>7. idx' \in 1 .. Len(line) + 1
  BY <1>3, <1>6
<1>8. ParserTypes' /\ NoWordIsLost'
  <2> HIDE DEF ws
  <2> QED
    BY <1>2, <1>4, <1>5, <1>6, <1>7, FlushKeeps
<1>9. NoTokenIsEmpty'
  <2>1. HasAny(line, {Quote})
    <3>1. idx \in DOMAIN line
      BY <1>1, <1>3, LenProperties DEF ParserTypes
    <3> QED
      BY <1>2, <3>1 DEF HasAny
  <2> QED
    BY <1>2, <2>1 DEF NoTokenIsEmpty, Simply
<1> QED
  BY <1>8, <1>9 DEF ParserInv

\* A token with a character leaves no empty one.
LEMMA FlushedNotEmpty ==
  ASSUME ParserTypes, token # << >>, \A i \in 1 .. Len(res.args) : res.args[i] # << >>
  PROVE  \A i \in 1 .. Len(Flushed.args) : Flushed.args[i] # << >>
<1> DEFINE S == Seq(Chars)
<1>1. token \in S /\ res.args \in Seq(S)
  BY DEF ParserTypes
<1>2. CASE nameParsed
  <2>1. Flushed.args = Append(res.args, token)
    BY <1>2, FlushedIs
  <2> DEFINE args == res.args
  <2> HIDE DEF S
  <2>2. /\ Len(Append(args, token)) = Len(args) + 1 /\ Len(args) \in Nat
        /\ \A i \in 1 .. Len(args) : Append(args, token)[i] = args[i]
        /\ Append(args, token)[Len(args) + 1] = token
    BY <1>1, AppendProperties
  <2>3. ASSUME NEW i \in 1 .. Len(args) + 1 PROVE Append(args, token)[i] # << >>
    <3>1. CASE i \in 1 .. Len(args)
      BY <2>2, <3>1
    <3>2. CASE i = Len(args) + 1
      BY <2>2, <3>2
    <3> QED
      BY <2>2, <3>1, <3>2
  <2> QED
    BY <2>1, <2>2, <2>3
<1>3. CASE ~nameParsed
  <2>1. Flushed.args = << >>
    BY <1>3, FlushedIs
  <2>2. Len(<< >>) = 0
    OBVIOUS
  <2> QED
    BY <2>1, <2>2
<1> QED
  BY <1>2, <1>3

LEMMA EndsToken ==
  ASSUME ParserInv, EndToken
  PROVE  ParserInv'
<1>1. ParserTypes /\ NoWordIsLost /\ NoTokenIsEmpty
  BY DEF ParserInv
<1>2. /\ idx <= Len(line) /\ ~isInQuote
      /\ isSeparator(line, idx) \/ isComment(line, idx)
      /\ flushToken /\ idx' = advanceToNextToken(line, idx)
      /\ line' = line /\ isInQuote' = isInQuote
  BY DEF EndToken, AtGap
<1>3. Len(line) \in Nat /\ idx \in 1 .. Len(line) + 1 /\ idx \in 1 .. Len(line)
      /\ isInQuote' = FALSE /\ ~(idx > Len(line))
      /\ WordsFrom(line)[idx] = SuffixAt(line, WordsFrom(line), idx)
  <2>1. Len(line) \in Nat /\ idx \in 1 .. Len(line) + 1
    BY <1>1, RestIs DEF ParserTypes
  <2>2. isInQuote' = FALSE
    BY <1>1, <1>2 DEF ParserTypes
  <2>3. WordsFrom(line)[idx] = SuffixAt(line, WordsFrom(line), idx)
    BY <1>1, <2>1, RestIs, SuffixIs
  <2> QED
    BY <1>2, <2>1, <2>2, <2>3
<1>4. PICK ws \in WordList(Chars) : Rest = WordEnds(ws)
  <2>1. CASE isComment(line, idx)
    <3>1. AfterComment(line, idx) \in idx + 2 .. Len(line) + 1 /\ line[idx] # Quote
      BY <1>3, <2>1, CommentIsLeft
    <3>2. AfterComment(line, idx) \in 1 .. Len(line) + 1
      BY <1>3, <3>1
    <3>3. WordsFrom(line)[AfterComment(line, idx)].plain \in WordList(Chars)
      BY <1>1, <3>2, RestIs
    <3>4. Rest = WordEnds(WordsFrom(line)[AfterComment(line, idx)].plain)
      BY <1>2, <1>3, <2>1, <3>1, SuffixFields DEF Rest
    <3> QED
      BY <3>3, <3>4
  <2>2. CASE ~isComment(line, idx)
    <3>1. line[idx] \in sepChars /\ line[idx] # Quote
      BY <1>2, <2>2, CharsApart DEF isSeparator
    <3>2. idx + 1 \in 1 .. Len(line) + 1
      BY <1>3
    <3>3. WordsFrom(line)[idx + 1].plain \in WordList(Chars)
      BY <1>1, <3>2, RestIs
    <3>4. Rest = WordEnds(WordsFrom(line)[idx + 1].plain)
      BY <1>2, <1>3, <2>2, <3>1, SuffixFields DEF Rest
    <3> QED
      BY <3>3, <3>4
  <2> QED
    BY <2>1, <2>2
<1>5. NotEmpty(WordsFrom(line)[idx].plain) = NotEmpty(ws)
  <2>1. WordsFrom(line)[idx].plain = WordEnds(ws)
    BY <1>2, <1>4 DEF Rest
  <2> QED
    BY <2>1, WordsEnd
<1>6. /\ idx' \in idx .. Len(line) + 1
      /\ NotEmpty(Glue(<< >>, WordsFrom(line)[idx'].plain)) = NotEmpty(ws)
  BY <1>1, <1>2, <1>3, <1>5, NextTokenIs
<1>7. idx' \in 1 .. Len(line) + 1
  BY <1>3, <1>6
<1>8. ParserTypes' /\ NoWordIsLost'
  BY <1>2, <1>3, <1>4, <1>6, <1>7, FlushKeeps
<1>9. NoTokenIsEmpty'
  <2>1. SUFFICES ASSUME Simply
                 PROVE  /\ \A i \in 1 .. Len(res'.args) : res'.args[i] # << >>
                        /\ ~isSeparator(line, idx') /\ ~isComment(line, idx')
    <3>1. Simply' <=> Simply
      BY <1>2 DEF Simply
    <3> QED
      BY <1>2, <1>3, <3>1 DEF NoTokenIsEmpty
  <2>2. token # << >> /\ \A i \in 1 .. Len(res.args) : res.args[i] # << >>
    BY <1>1, <1>2, <2>1 DEF NoTokenIsEmpty
  <2>3. \A i \in 1 .. Len(Flushed.args) : Flushed.args[i] # << >>
    BY <1>1, <2>2, FlushedNotEmpty
  <2>4. res' = Flushed
    BY <1>2 DEF flushToken
  <2>5. ~isSeparator(line, idx') /\ ~isComment(line, idx')
    BY <1>1, <1>2, <1>3, <2>1, TokenAfterGap
  <2> QED
    BY <2>3, <2>4, <2>5
<1> QED
  BY <1>8, <1>9 DEF ParserInv

LEMMA Finishes ==
  ASSUME ParserInv, Finish
  PROVE  ParserInv'
<1>1. ParserTypes /\ NoWordIsLost /\ NoTokenIsEmpty
  BY DEF ParserInv
<1>2. /\ idx > Len(line) /\ token # << >> /\ flushToken
      /\ line' = line /\ idx' = idx /\ isInQuote' = isInQuote
      /\ res' = Flushed /\ nameParsed' = TRUE /\ token' = << >>
  BY DEF Finish, flushToken
<1>3. Len(line) \in Nat /\ idx \in 1 .. Len(line) + 1
  BY <1>1, RestIs DEF ParserTypes
<1>4. /\ WordsFrom(line)[idx].plain = NoWords /\ WordsFrom(line)[idx].quoted = NoWords
  <2>1. WordsFrom(line)[idx] = SuffixAt(line, WordsFrom(line), idx)
    BY <1>1, <1>3, RestIs, SuffixIs
  <2> QED
    BY <1>2, <2>1, SuffixFields
<1>5. Rest = NoWords /\ Rest' = NoWords
  BY <1>2, <1>4 DEF Rest
<1>6. NoWords = WordEnds(NoWords) /\ NoWords \in WordList(Chars)
      /\ NotEmpty(NoWords) = << >>
  <2>1. NoWords \in WordList(Chars) /\ NotEmpty(NoWords) = << >>
    BY NoWordsType
  <2>2. WordEnds(NoWords) = << << >> >> \o << >>
    BY <2>1 DEF WordEnds
  <2>3. << << >> >> \in Seq({<< >>})
    OBVIOUS
  <2>4. << << >> >> \o << >> = << << >> >>
    BY <2>3, ConcatEmptySeq
  <2> QED
    BY <2>1, <2>2, <2>4 DEF NoWords
<1>7. NotEmptyOf(<<Flushed.name>> \o Flushed.args) \o NotEmpty(NoWords) = Words(line)
  BY <1>1, <1>5, <1>6, WordIsToken
<1>8. ParserTypes'
  <2>1. Flushed \in [name : Seq(Chars), args : Seq(Seq(Chars))]
    BY <1>1, FlushedIs
  <2>2. << >> \in Seq(Chars)
    OBVIOUS
  <2> QED
    BY <1>1, <1>2, <2>1, <2>2 DEF ParserTypes
<1>9. NoWordIsLost'
  <2>1. Glue(<< >>, NoWords) = NoWords
    BY <1>6, GlueNothing
  <2> QED
    BY <1>2, <1>5, <1>7, <2>1 DEF NoWordIsLost
<1>10. NoTokenIsEmpty'
  <2>1. SUFFICES ASSUME Simply
                 PROVE  /\ ~isInQuote
                        /\ \A i \in 1 .. Len(Flushed.args) : Flushed.args[i] # << >>
                        /\ ~isSeparator(line, idx) /\ ~isComment(line, idx)
    <3>1. Simply' <=> Simply
      BY <1>2 DEF Simply
    <3> QED
      BY <1>2, <3>1 DEF NoTokenIsEmpty
  <2>2. ~isInQuote /\ \A i \in 1 .. Len(res.args) : res.args[i] # << >>
    BY <1>1, <2>1 DEF NoTokenIsEmpty
  <2>3. \A i \in 1 .. Len(Flushed.args) : Flushed.args[i] # << >>
    BY <1>1, <1>2, <2>2, FlushedNotEmpty
  <2>4. ~isSeparator(line, idx) /\ ~isComment(line, idx)
    BY <1>2, <1>3 DEF isSeparator, isComment
  <2> QED
    BY <2>2, <2>3, <2>4
<1> QED
  BY <1>8, <1>9, <1>10 DEF ParserInv

LEMMA ParserSteps ==
  ASSUME ParserInv, [ParserNext]_parserVars
  PROVE  ParserInv'
<1>1. CASE OpenQuote
  BY <1>1, OpensQuote
<1>2. CASE CloseQuote
  BY <1>2, ClosesQuote
<1>3. CASE EndToken
  BY <1>3, EndsToken
<1>4. CASE TakeChar
  BY <1>4, TakesChar
<1>5. CASE Finish
  BY <1>5, Finishes
<1>6. CASE UNCHANGED parserVars
  BY <1>6 DEF parserVars, ParserInv, ParserTypes, NoWordIsLost, Rest, NoTokenIsEmpty, Simply
<1> QED
  BY <1>1, <1>2, <1>3, <1>4, <1>5, <1>6 DEF ParserNext

LEMMA WordsInTheEnd ==
  ASSUME ParserInv
  PROVE  TokensAreTheWords
<1>1. SUFFICES ASSUME Parsed PROVE /\ NotEmptyOf(<<res.name>> \o res.args) = Words(line)
                                   /\ Simply => << >> \notin Range(res.args)
  BY DEF TokensAreTheWords, Simply
<1>2. ParserTypes /\ NoWordIsLost /\ NoTokenIsEmpty /\ idx > Len(line) /\ token = << >>
  BY <1>1 DEF ParserInv, Parsed
<1>3. Len(line) \in Nat /\ idx \in 1 .. Len(line) + 1
  BY <1>2, RestIs DEF ParserTypes
<1>4. Rest = NoWords
  <2>1. WordsFrom(line)[idx] = SuffixAt(line, WordsFrom(line), idx)
    BY <1>2, <1>3, RestIs, SuffixIs
  <2> QED
    BY <1>2, <2>1, SuffixFields DEF Rest
<1>5. NotEmpty(Glue(token, Rest)) = << >>
  BY <1>2, <1>4, NoWordsType, GlueNothing
<1>6. NotEmptyOf(<<res.name>> \o res.args) = Words(line)
  <2> DEFINE S == Seq(Chars)
             kept == NotEmptyOf(<<res.name>> \o res.args)
  <2>1. <<res.name>> \in Seq(S) /\ res.args \in Seq(S)
    BY <1>2 DEF ParserTypes
  <2>2. <<res.name>> \o res.args \in Seq(S)
    BY <2>1
  <2>3. kept \in Seq(S)
    BY <2>2, KeptType
  <2>4. kept \o << >> = kept
    BY <2>3, ConcatEmptySeq
  <2> QED
    BY <1>2, <1>5, <2>4 DEF NoWordIsLost
<1>7. Simply => << >> \notin Range(res.args)
  <2>1. SUFFICES ASSUME Simply PROVE << >> \notin Range(res.args)
    OBVIOUS
  <2>2. \A i \in 1 .. Len(res.args) : res.args[i] # << >>
    BY <1>2, <2>1 DEF NoTokenIsEmpty
  <2>3. DOMAIN res.args = 1 .. Len(res.args)
    BY <1>2, LenProperties DEF ParserTypes
  <2> QED
    BY <2>2, <2>3 DEF Range
<1> QED
  BY <1>6, <1>7

\* Whatever the line, the tokens that are not empty are its words.
THEOREM TokensAreWords == ParserSpec => []TokensAreTheWords
<1>1. ParserInit => ParserInv
  BY ParserStarts
<1>2. ParserInv /\ [ParserNext]_parserVars => ParserInv'
  BY ParserSteps
<1>3. ParserInv => TokensAreTheWords
  BY WordsInTheEnd
<1> QED
  BY <1>1, <1>2, <1>3, PTL DEF ParserSpec

-----------------------------------------------------------------------------
(* Reading a line made from a command.                                     *)

Quoted(args, i) == i > 1 /\ HasAny(args[i], {Space})

\* A command that is made a line, and the line.
Made(args, E) ==
  /\ args \in Seq(Seq(Chars))
  /\ command = <<[name |-> Name, args |-> args]>>
  /\ \A i \in 1 .. Len(args) : Told(args[i], i = 1)
  /\ IF args = << >> THEN line = <<"a", Space>> ELSE LaidOut(line, args, Len(args), E)

InName ==
  /\ ~nameParsed /\ ~isInQuote
  /\ \/ idx = 1 /\ token = << >>
     \/ idx = 2 /\ token = Name

\* The first k arguments are there.
HasRead(args, k) == nameParsed /\ res = [name |-> Name, args |-> SubSeq(args, 1, k)]

BeforeQuote(args, E, k) ==
  /\ HasRead(args, k) /\ Quoted(args, k + 1)
  /\ ~isInQuote /\ token = << >> /\ idx = E[k] + 2

\* Of the next one there are j characters.
InText(args, E, k, j) ==
  /\ HasRead(args, k) /\ token = SubSeq(args[k + 1], 1, j)
  /\ IF Quoted(args, k + 1) THEN isInQuote /\ idx = E[k] + 3 + j
     ELSE ~isInQuote /\ idx = E[k] + 2 + j

AllRead(args) ==
  /\ HasRead(args, Len(args))
  /\ ~isInQuote /\ token = << >> /\ idx > Len(line)

Reads(args, E) ==
  \/ InName
  \/ \E k \in 0 .. Len(args) - 1 : BeforeQuote(args, E, k)
  \/ \E k \in 0 .. Len(args) - 1 : \E j \in 0 .. Len(args[k + 1]) : InText(args, E, k, j)
  \/ AllRead(args)

CommandIsRead == command # << >> => \E args, E : Made(args, E) /\ Reads(args, E)

\* What arguments are told apart by.
LEMMA ToldSo ==
  ASSUME NEW args \in Seq(Seq(Chars)), NEW i \in 1 .. Len(args), Told(args[i], i = 1)
  PROVE  /\ args[i] \in Seq(Chars) /\ Len(args[i]) \in Nat \ {0}
         /\ \A j \in 1 .. Len(args[i]) : args[i][j] # Quote
         /\ ~Quoted(args, i) => \A j \in 1 .. Len(args[i]) :
              args[i][j] \notin sepChars /\ ~isComment(args[i], j)
<1> DEFINE s == args[i]
<1>1. s \in Seq(Chars)
  BY ElementOfSeq
<1>2. DOMAIN s = 1 .. Len(s) /\ Len(s) \in Nat
  BY <1>1, LenProperties
<1>3. /\ s # << >> /\ ~HasAny(s, {Quote})
      /\ (i = 1) \/ ~HasAny(s, {Space}) =>
           ~HasAny(s, sepChars) /\ \A j \in DOMAIN s : ~isComment(s, j)
  BY DEF Told
<1>4. Len(s) # 0
  BY <1>1, <1>3, EmptySeq
<1>5. ~Quoted(args, i) => (i = 1) \/ ~HasAny(s, {Space})
  BY DEF Quoted
<1> HIDE DEF s
<1>6. \A j \in 1 .. Len(s) : s[j] # Quote
  BY <1>2, <1>3 DEF HasAny
<1>7. ~HasAny(s, sepChars) => \A j \in 1 .. Len(s) : s[j] \notin sepChars
  BY <1>2 DEF HasAny
<1>8. ~Quoted(args, i) =>
        \A j \in 1 .. Len(s) : s[j] \notin sepChars /\ ~isComment(s, j)
  BY <1>2, <1>3, <1>5, <1>7
<1> QED
  BY <1>1, <1>2, <1>4, <1>6, <1>8 DEF s

\* Where an argument lies.
LEMMA ArgumentLies ==
  ASSUME NEW args \in Seq(Seq(Chars)), NEW E, LaidOut(line, args, Len(args), E),
         line \in Seq(Chars), NEW i \in 1 .. Len(args)
  PROVE  /\ E[i - 1] \in 1 .. Len(line) /\ E[i] \in 1 .. Len(line)
         /\ line[E[i - 1] + 1] = Space
         /\ ~Quoted(args, i) =>
              /\ E[i] = E[i - 1] + 1 + Len(args[i])
              /\ \A j \in 1 .. Len(args[i]) : line[E[i - 1] + 1 + j] = args[i][j]
         /\ Quoted(args, i) =>
              /\ E[i] = E[i - 1] + 3 + Len(args[i])
              /\ line[E[i - 1] + 2] = Quote /\ line[E[i]] = Quote
              /\ \A j \in 1 .. Len(args[i]) : line[E[i - 1] + 2 + j] = args[i][j]
<1> DEFINE s == args[i]
           shown == Shown(args, i)
           e == E[i - 1]
           last == E[i]
<1>1. s \in Seq(Chars) /\ Len(s) \in Nat /\ Len(line) \in Nat /\ Len(args) \in Nat
  BY ElementOfSeq
<1>2. i - 1 \in 0 .. Len(args) /\ i \in 0 .. Len(args)
  BY <1>1
<1>3. e \in 1 .. Len(line) /\ last \in 1 .. Len(line)
  BY <1>2 DEF LaidOut
<1>4. /\ last = e + 1 + Len(shown) /\ line[e + 1] = Space
      /\ \A j \in 1 .. Len(shown) : line[e + 1 + j] = shown[j]
  BY DEF LaidOut, LiesAt
<1>5. shown = IF Quoted(args, i) THEN <<Quote>> \o s \o <<Quote>> ELSE s
  BY DEF Shown, Quoted
<1> HIDE DEF s, shown, e, last
<1>6. ASSUME Quoted(args, i)
      PROVE  /\ last = e + 3 + Len(s)
             /\ line[e + 2] = Quote /\ line[last] = Quote
             /\ \A j \in 1 .. Len(s) : line[e + 2 + j] = s[j]
  <2> DEFINE one == <<Quote>>
  <2>1. Quote \in Chars
    BY DEF Chars
  <2>2. one \in Seq(Chars) /\ Len(one) = 1 /\ one[1] = Quote
    BY <2>1
  <2>3. shown = one \o s \o one
    BY <1>5, <1>6
  <2> HIDE DEF one
  <2>4. /\ one \o s \in Seq(Chars) /\ Len(one \o s) = 1 + Len(s)
        /\ \A j \in 1 .. 1 + Len(s) : (one \o s)[j] = IF j <= 1 THEN one[j] ELSE s[j - 1]
    <3>1. /\ one \o s \in Seq(Chars) /\ Len(one \o s) = Len(one) + Len(s)
          /\ \A j \in 1 .. Len(one) + Len(s) : (one \o s)[j] =
               IF j <= Len(one) THEN one[j] ELSE s[j - Len(one)]
      BY ONLY <2>2, <1>1, ConcatProperties
    <3> QED
      BY <2>2, <3>1
  <2> DEFINE o == one \o s
  <2> HIDE DEF o
  <2>5. /\ Len(shown) = 2 + Len(s)
        /\ \A j \in 1 .. 2 + Len(s) : shown[j] =
             IF j <= 1 + Len(s) THEN o[j] ELSE one[j - (1 + Len(s))]
    <3>1. o \in Seq(Chars) /\ Len(o) = 1 + Len(s)
      BY <2>4 DEF o
    <3>2. /\ Len(o \o one) = Len(o) + Len(one)
          /\ \A j \in 1 .. Len(o) + Len(one) : (o \o one)[j] =
               IF j <= Len(o) THEN o[j] ELSE one[j - Len(o)]
      BY ONLY <2>2, <3>1, ConcatProperties
    <3>3. Len(o) + Len(one) = 2 + Len(s)
      BY <1>1, <2>2, <3>1
    <3>4. shown = o \o one
      BY <2>3 DEF o
    <3> QED
      BY <3>1, <3>2, <3>3, <3>4
  <2>6. shown[1] = Quote
    BY <1>1, <2>2, <2>4, <2>5 DEF o
  <2>7. shown[2 + Len(s)] = Quote
    <3>1. /\ 2 + Len(s) \in 1 .. 2 + Len(s) /\ ~(2 + Len(s) <= 1 + Len(s))
          /\ 2 + Len(s) - (1 + Len(s)) = 1
      BY <1>1
    <3> QED
      BY <2>2, <2>5, <3>1
  <2>8. ASSUME NEW j \in 1 .. Len(s) PROVE shown[1 + j] = s[j]
    <3>1. /\ 1 + j \in 1 .. 2 + Len(s) /\ 1 + j <= 1 + Len(s) /\ 1 + j \in 1 .. 1 + Len(s)
          /\ ~(1 + j <= 1) /\ 1 + j - 1 = j
      BY <1>1
    <3>2. shown[1 + j] = o[1 + j]
      BY <2>5, <3>1
    <3>3. o[1 + j] = s[j]
      BY <2>4, <3>1 DEF o
    <3> QED
      BY <3>2, <3>3
  <2>9. last = e + 3 + Len(s)
    BY <1>1, <1>3, <1>4, <2>5
  <2>10. line[e + 2] = Quote
    <3>1. 1 \in 1 .. Len(shown) /\ e + 1 + 1 = e + 2
      BY <1>1, <1>3, <2>5
    <3>2. line[e + 1 + 1] = shown[1]
      BY <1>4, <3>1
    <3> QED
      BY <2>6, <3>1, <3>2
  <2>11. line[last] = Quote
    <3>1. 2 + Len(s) \in 1 .. Len(shown) /\ e + 1 + (2 + Len(s)) = last
      BY <1>1, <1>3, <2>5, <2>9
    <3>2. line[e + 1 + (2 + Len(s))] = shown[2 + Len(s)]
      BY <1>4, <3>1
    <3> QED
      BY <2>7, <3>1, <3>2
  <2>12. ASSUME NEW j \in 1 .. Len(s) PROVE line[e + 2 + j] = s[j]
    <3>1. 1 + j \in 1 .. Len(shown) /\ e + 1 + (1 + j) = e + 2 + j
      BY <1>1, <1>3, <2>5
    <3>2. line[e + 1 + (1 + j)] = shown[1 + j]
      BY <1>4, <3>1
    <3> QED
      BY <2>8, <3>1, <3>2
  <2> QED
    BY <2>9, <2>10, <2>11, <2>12
<1>7. ASSUME ~Quoted(args, i)
      PROVE  /\ last = e + 1 + Len(s)
             /\ \A j \in 1 .. Len(s) : line[e + 1 + j] = s[j]
  BY <1>4, <1>5, <1>7
<1> QED
  BY <1>3, <1>4, <1>6, <1>7 DEF s, e, last

\* Where nothing is to be skipped, and where one separator is.
LEMMA NothingSkipped ==
  ASSUME NEW str, Len(str) \in Nat, NEW p \in 1 .. Len(str) + 1,
         ~isSeparator(str, p), ~isComment(str, p)
  PROVE  advanceToNextToken(str, p) = p
<1> DEFINE r == advanceToNextToken(str, p)
<1>1. PICK j, k : Advances(str, p, j, k, r)
  BY AdvancesSo
<1> HIDE DEF r
<1>2. j = p
  <2>1. j \in p .. Len(str) + 1 /\ \A m \in p .. j - 1 : isSeparator(str, m)
    BY <1>1 DEF Advances
  <2>2. p \notin p .. j - 1
    BY <2>1
  <2> QED
    BY <2>1, <2>2
<1>3. k = p
  BY <1>1, <1>2 DEF Advances
<1>4. r = p
  <2>1. r \in p .. Len(str) + 1 /\ \A m \in p .. r - 1 : isSeparator(str, m)
    BY <1>1, <1>3 DEF Advances
  <2>2. p \notin p .. r - 1
    BY <2>1
  <2> QED
    BY <2>1, <2>2
<1> QED
  BY <1>4 DEF r

LEMMA OneSkipped ==
  ASSUME NEW str, Len(str) \in Nat, NEW p \in 1 .. Len(str),
         isSeparator(str, p), ~isSeparator(str, p + 1), ~isComment(str, p + 1)
  PROVE  advanceToNextToken(str, p) = p + 1
<1> DEFINE r == advanceToNextToken(str, p)
<1>0. p \in 1 .. Len(str) + 1
  OBVIOUS
<1>1. PICK j, k : Advances(str, p, j, k, r)
  BY <1>0, AdvancesSo
<1> HIDE DEF r
<1>2. j = p + 1
  <2>1. /\ j \in p .. Len(str) + 1 /\ ~isSeparator(str, j)
        /\ \A m \in p .. j - 1 : isSeparator(str, m)
    BY <1>1 DEF Advances
  <2>2. p + 1 \notin p .. j - 1
    BY <2>1
  <2>3. j # p
    BY <2>1
  <2> QED
    BY <2>1, <2>2, <2>3
<1>3. k = p + 1
  BY <1>1, <1>2 DEF Advances
<1>4. r = p + 1
  <2>1. r \in p + 1 .. Len(str) + 1 /\ \A m \in p + 1 .. r - 1 : isSeparator(str, m)
    BY <1>1, <1>3 DEF Advances
  <2>2. p + 1 \notin p + 1 .. r - 1
    BY <2>1
  <2> QED
    BY <2>1, <2>2
<1> QED
  BY <1>4 DEF r
LEMMA MadeIs ==
  ASSUME NEW args, NEW E, Made(args, E), line \in Seq(Chars), NEW i \in 1 .. Len(args)
  PROVE  /\ args \in Seq(Seq(Chars)) /\ LaidOut(line, args, Len(args), E)
         /\ Told(args[i], i = 1) /\ Len(args) \in Nat /\ Len(line) \in Nat
         /\ E[Len(args)] = Len(line)
<1>1. args \in Seq(Seq(Chars)) /\ Len(args) \in Nat
  BY DEF Made
<1>2. args # << >>
  <2>1. Len(<< >>) = 0
    OBVIOUS
  <2> QED
    BY <1>1, <2>1
<1>3. LaidOut(line, args, Len(args), E)
  BY <1>2 DEF Made
<1>4. Told(args[i], i = 1)
  BY DEF Made
<1> QED
  BY <1>1, <1>3, <1>4 DEF LaidOut

\* A character of an argument that is not quoted is one of a token.
LEMMA PlainPlace ==
  ASSUME NEW args, NEW E, Made(args, E), line \in Seq(Chars), NEW i \in 1 .. Len(args),
         ~Quoted(args, i), NEW j \in 1 .. Len(args[i])
  PROVE  LET p == E[i - 1] + 1 + j
         IN  /\ p \in 1 .. Len(line) /\ line[p] = args[i][j] /\ line[p] # Quote
             /\ ~isSeparator(line, p) /\ ~isComment(line, p)
<1> DEFINE s == args[i]
           e == E[i - 1]
           last == E[i]
           p == e + 1 + j
<1>1. /\ args \in Seq(Seq(Chars)) /\ LaidOut(line, args, Len(args), E)
      /\ Told(s, i = 1) /\ Len(args) \in Nat /\ Len(line) \in Nat
      /\ E[Len(args)] = Len(line)
  BY MadeIs
<1>2. /\ Len(s) \in Nat \ {0} /\ s[j] # Quote /\ s[j] \notin sepChars /\ ~isComment(s, j)
  BY <1>1, ToldSo
<1>3. /\ e \in 1 .. Len(line) /\ last \in 1 .. Len(line) /\ last = e + 1 + Len(s)
      /\ \A m \in 1 .. Len(s) : line[e + 1 + m] = s[m]
  BY <1>1, ArgumentLies
<1>4. i < Len(args) => line[last + 1] = Space
  <2>1. SUFFICES ASSUME i < Len(args) PROVE line[last + 1] = Space
    OBVIOUS
  <2>2. i + 1 \in 1 .. Len(args) /\ (i + 1) - 1 = i
    BY <1>1, <2>1
  <2>3. line[E[(i + 1) - 1] + 1] = Space
    BY <1>1, <2>2, ArgumentLies
  <2> QED
    BY <2>2, <2>3
<1>5. i = Len(args) => last = Len(line)
  BY <1>1
<1>0. j \in 1 .. Len(s)
  OBVIOUS
<1> HIDE DEF s, e, last
<1>6. p \in 1 .. Len(line) /\ line[p] = s[j]
  BY <1>0, <1>1, <1>2, <1>3
<1>7. ~isSeparator(line, p)
  BY <1>2, <1>6 DEF isSeparator
<1>8. ASSUME isComment(line, p) PROVE FALSE
  <2>1. p < Len(line) /\ line[p] = "/" /\ line[p + 1] \in {"/", "*"}
    BY <1>8 DEF isComment
  <2>2. CASE j < Len(s)
    <3>1. j + 1 \in 1 .. Len(s) /\ e + 1 + (j + 1) = p + 1
      BY <1>0, <1>2, <1>3, <2>2
    <3>2. line[e + 1 + (j + 1)] = s[j + 1]
      BY <1>3, <3>1
    <3>3. isComment(s, j)
      BY <2>1, <2>2, <1>6, <3>1, <3>2 DEF isComment
    <3> QED
      BY <1>2, <3>3
  <2>3. CASE ~(j < Len(s))
    <3>1. j = Len(s)
      BY <1>0, <1>2, <2>3
    <3>2. p = last
      BY <1>3, <3>1
    <3>3. i < Len(args)
      BY <1>1, <1>5, <2>1, <3>2
    <3> QED
      BY <1>4, <2>1, <3>2, <3>3, CharsApart
  <2> QED
    BY <2>2, <2>3
<1> QED
  BY <1>2, <1>6, <1>7, <1>8 DEF s, e

\* An argument starts with a character of its own or with a quote.
LEMMA FirstPlace ==
  ASSUME NEW args, NEW E, Made(args, E), line \in Seq(Chars), NEW i \in 1 .. Len(args)
  PROVE  LET p == E[i - 1] + 2
         IN  /\ p \in 1 .. Len(line) /\ ~isSeparator(line, p) /\ ~isComment(line, p)
             /\ Quoted(args, i) => line[p] = Quote
<1> DEFINE e == E[i - 1]
           p == e + 2
<1>1. /\ args \in Seq(Seq(Chars)) /\ LaidOut(line, args, Len(args), E)
      /\ Told(args[i], i = 1) /\ Len(line) \in Nat
  BY MadeIs
<1>2. Len(args[i]) \in Nat \ {0}
  BY <1>1, ToldSo
<1>3. e \in 1 .. Len(line)
  BY <1>1, ArgumentLies
<1>4. CASE Quoted(args, i)
  <2>1. E[i] \in 1 .. Len(line) /\ E[i] = e + 3 + Len(args[i]) /\ line[p] = Quote
    BY <1>1, <1>4, ArgumentLies
  <2>2. p \in 1 .. Len(line)
    <3> DEFINE last == E[i]
               n == Len(args[i])
               length == Len(line)
    <3>1. /\ last \in 1 .. length /\ last = e + 3 + n /\ n \in Nat /\ length \in Nat
          /\ e \in 1 .. length
      BY <1>1, <1>2, <1>3, <2>1
    <3> HIDE DEF last, n, length, e
    <3>2. e + 2 \in 1 .. length
      BY ONLY <3>1
    <3> QED
      BY <3>2 DEF length
  <2> HIDE DEF e
  <2>3. ~isSeparator(line, p) /\ ~isComment(line, p)
    BY <2>1, CharsApart DEF isSeparator, isComment
  <2> QED
    BY <2>1, <2>2, <2>3 DEF e
<1>5. CASE ~Quoted(args, i)
  <2>1. 1 \in 1 .. Len(args[i])
    BY <1>2
  <2>2. LET q == E[i - 1] + 1 + 1
        IN  /\ q \in 1 .. Len(line) /\ ~isSeparator(line, q) /\ ~isComment(line, q)
    BY <1>5, <2>1, PlainPlace
  <2>3. e + 1 + 1 = p
    BY <1>3
  <2> QED
    BY <1>5, <2>2, <2>3
<1> QED
  BY <1>4, <1>5

\* After an argument comes the next one, or the line ends.
LEMMA NextPlace ==
  ASSUME NEW args, NEW E, Made(args, E), line \in Seq(Chars), NEW i \in 1 .. Len(args)
  PROVE  LET p == E[i] + 1
         IN  /\ p \in 1 .. Len(line) + 1
             /\ i < Len(args) => /\ p <= Len(line) /\ isSeparator(line, p) /\ line[p] # Quote
                                 /\ advanceToNextToken(line, p) = E[i] + 2
             /\ i = Len(args) => /\ p = Len(line) + 1 /\ advanceToNextToken(line, p) = p
<1> DEFINE e == E[i]
           p == e + 1
<1>1. /\ args \in Seq(Seq(Chars)) /\ LaidOut(line, args, Len(args), E)
      /\ Len(args) \in Nat /\ Len(line) \in Nat /\ E[Len(args)] = Len(line)
  BY MadeIs
<1>2. e \in 1 .. Len(line)
  BY <1>1, ArgumentLies
<1>3. CASE i < Len(args)
  <2>1. i + 1 \in 1 .. Len(args) /\ (i + 1) - 1 = i
    BY <1>1, <1>3
  <2>2. line[E[(i + 1) - 1] + 1] = Space
    BY <1>1, <2>1, ArgumentLies
  <2>3. LET q == E[(i + 1) - 1] + 2
        IN  q \in 1 .. Len(line) /\ ~isSeparator(line, q) /\ ~isComment(line, q)
    BY <2>1, FirstPlace
  <2>4. line[p] = Space
    BY <2>1, <2>2
  <2>5. e + 2 \in 1 .. Len(line) /\ ~isSeparator(line, e + 2) /\ ~isComment(line, e + 2)
    BY <2>1, <2>3
  <2> HIDE DEF e
  <2>6. p \in 1 .. Len(line) /\ p + 1 = e + 2
    BY <1>1, <1>2, <2>5
  <2>7. isSeparator(line, p) /\ line[p] # Quote
    BY <2>4, <2>6, CharsApart DEF isSeparator
  <2>8. advanceToNextToken(line, p) = p + 1
    BY <1>1, <2>5, <2>6, <2>7, OneSkipped
  <2>9. p \in 1 .. Len(line) + 1 /\ p <= Len(line) /\ i # Len(args)
    BY <1>1, <1>3, <2>6
  <2> QED
    BY <2>6, <2>7, <2>8, <2>9 DEF e
<1>4. CASE i = Len(args)
  <2>1. p = Len(line) + 1 /\ p \in 1 .. Len(line) + 1
    BY <1>1, <1>4
  <2>2. ~isSeparator(line, p) /\ ~isComment(line, p)
    BY <1>1, <2>1 DEF isSeparator, isComment
  <2>3. advanceToNextToken(line, p) = p
    BY <1>1, <2>1, <2>2, NothingSkipped
  <2> QED
    BY <1>1, <1>4, <2>1, <2>3
<1> QED
  BY <1>1, <1>3, <1>4

LEMMA BeginningsGrow ==
  ASSUME NEW S, NEW s \in Seq(S)
  PROVE  /\ SubSeq(s, 1, 0) = << >> /\ SubSeq(s, 1, Len(s)) = s
         /\ \A n \in 0 .. Len(s) : Len(SubSeq(s, 1, n)) = n
         /\ \A n \in 1 .. Len(s) : Append(SubSeq(s, 1, n - 1), s[n]) = SubSeq(s, 1, n)
<1>1. Len(s) \in Nat
  OBVIOUS
<1>2. SubSeq(s, 1, 0) = << >> /\ SubSeq(s, 1, Len(s)) = s
  BY SubSeqEmpty, SubSeqFull
<1>3. ASSUME NEW n \in 0 .. Len(s) PROVE Len(SubSeq(s, 1, n)) = n
  OBVIOUS
<1>4. ASSUME NEW n \in 1 .. Len(s)
      PROVE  Append(SubSeq(s, 1, n - 1), s[n]) = SubSeq(s, 1, n)
  <2>1. SubSeq(s, 1, n) = SubSeq(s, 1, n - 1) \o <<s[n]>>
    <3>1. 1 \in 1 .. Len(s) /\ n \in 1 .. Len(s)
      BY <1>1
    <3> QED
      BY <3>1, SubSeqRecursiveSecond
  <2>2. SubSeq(s, 1, n - 1) \in Seq(S) /\ s[n] \in S
    <3>1. \A i \in 1 .. n - 1 : s[i] \in S
      BY <1>1
    <3> QED
      BY <3>1, <1>1
  <2>3. SubSeq(s, 1, n - 1) \o <<s[n]>> = Append(SubSeq(s, 1, n - 1), s[n])
    <3> DEFINE t == SubSeq(s, 1, n - 1)
               c == s[n]
    <3> HIDE DEF t, c
    <3>1. t \in Seq(S) /\ c \in S
      BY <2>2 DEF t, c
    <3>2. Append(t, c) = t \o <<c>>
      BY <3>1, AppendIsConcat
    <3> QED
      BY <3>2 DEF t, c
  <2> QED
    BY <2>1, <2>3
<1> QED
  BY <1>2, <1>3, <1>4
\* What the parser does is known from where it is.
LEMMA OnlyOneStep ==
  ASSUME ParserTypes, ParserNext
  PROVE  /\ idx <= Len(line) /\ line[idx] # Quote /\ ~AtGap => TakeChar
         /\ idx <= Len(line) /\ line[idx] # Quote /\ AtGap => EndToken
         /\ idx <= Len(line) /\ line[idx] = Quote /\ isInQuote => CloseQuote
         /\ idx <= Len(line) /\ line[idx] = Quote /\ ~isInQuote => OpenQuote
         /\ idx > Len(line) => Finish
<1>1. Len(line) \in Nat /\ idx \in Nat
  BY RestIs DEF ParserTypes
<1>2. line[idx] = Quote => ~AtGap
  BY CharsApart DEF AtGap, isSeparator, isComment
<1>3. ~(idx <= Len(line) /\ idx > Len(line))
  BY <1>1
<1>4. OpenQuote => idx <= Len(line) /\ line[idx] = Quote /\ ~isInQuote
  BY DEF OpenQuote
<1>5. CloseQuote => idx <= Len(line) /\ line[idx] = Quote /\ isInQuote
  BY DEF CloseQuote
<1>6. EndToken => idx <= Len(line) /\ AtGap
  BY DEF EndToken
<1>7. TakeChar => idx <= Len(line) /\ line[idx] # Quote /\ ~AtGap
  BY DEF TakeChar
<1>8. Finish => idx > Len(line)
  BY DEF Finish
<1>9. OpenQuote \/ CloseQuote \/ EndToken \/ TakeChar \/ Finish
  BY DEF ParserNext
<1> QED
  BY ONLY <1>2, <1>3, <1>4, <1>5, <1>6, <1>7, <1>8, <1>9

\* The name, and where the first argument is.
LEMMA NamePlace ==
  ASSUME NEW args, NEW E, Made(args, E), line \in Seq(Chars)
  PROVE  /\ Len(line) \in Nat /\ 2 <= Len(line) /\ line[1] = "a" /\ line[2] = Space
         /\ advanceToNextToken(line, 1) = 1 /\ advanceToNextToken(line, 2) = 3
         /\ args = << >> => Len(line) = 2
         /\ args # << >> => E[0] = 1 /\ 1 \in 1 .. Len(args)
<1>1. Len(line) \in Nat /\ args \in Seq(Seq(Chars))
  BY DEF Made
<1>2. /\ 2 <= Len(line) /\ line[1] = "a" /\ line[2] = Space
      /\ ~isSeparator(line, 3) /\ ~isComment(line, 3)
      /\ args = << >> => Len(line) = 2
      /\ args # << >> => E[0] = 1 /\ 1 \in 1 .. Len(args)
  <2>1. CASE args = << >>
    <3>1. line = <<"a", Space>>
      BY <2>1 DEF Made
    <3>2. Len(line) = 2 /\ line[1] = "a" /\ line[2] = Space
      BY <3>1
    <3> QED
      BY <2>1, <3>2 DEF isSeparator, isComment
  <2>2. CASE args # << >>
    <3>1. LaidOut(line, args, Len(args), E)
      BY <2>2 DEF Made
    <3>2. E[0] = 1 /\ line[1] = "a"
      BY <3>1 DEF LaidOut
    <3>3. 1 \in 1 .. Len(args) /\ 1 - 1 = 0
      BY <1>1, <2>2, EmptySeq
    <3>4. line[E[1 - 1] + 1] = Space
      BY <1>1, <3>1, <3>3, ArgumentLies
    <3>5. LET p == E[1 - 1] + 2
          IN  p \in 1 .. Len(line) /\ ~isSeparator(line, p) /\ ~isComment(line, p)
      BY <3>3, FirstPlace
    <3>6. 3 \in 1 .. Len(line) /\ ~isSeparator(line, 3) /\ ~isComment(line, 3)
      BY <3>2, <3>3, <3>5
    <3>7. line[2] = Space /\ 2 <= Len(line)
      BY <1>1, <3>2, <3>3, <3>4, <3>6
    <3> QED
      BY <2>2, <3>2, <3>3, <3>6, <3>7
  <2> QED
    BY <2>1, <2>2
<1>3. advanceToNextToken(line, 1) = 1
  <2>1. 1 \in 1 .. Len(line) + 1 /\ ~isSeparator(line, 1) /\ ~isComment(line, 1)
    BY <1>1, <1>2, CharsApart DEF isSeparator, isComment
  <2> QED
    BY <1>1, <2>1, NothingSkipped
<1>4. advanceToNextToken(line, 2) = 3
  <2>1. 2 \in 1 .. Len(line) /\ isSeparator(line, 2) /\ 2 + 1 = 3
    BY <1>1, <1>2, CharsApart DEF isSeparator
  <2>2. advanceToNextToken(line, 2) = 2 + 1
    BY <1>1, <1>2, <2>1, OneSkipped
  <2> QED
    BY <2>1, <2>2
<1> QED
  BY <1>1, <1>2, <1>3, <1>4

\* The beginning of an argument.
LEMMA ArgumentBegins ==
  ASSUME NEW args, NEW E, NEW k \in 0 .. Len(args) - 1, args \in Seq(Seq(Chars)),
         HasRead(args, k)', ~isInQuote', token' = << >>, idx' = E[k] + 2, E[k] \in Nat
  PROVE  Reads(args, E)'
<1>1. k + 1 \in 1 .. Len(args)
  OBVIOUS
<1>2. args[k + 1] \in Seq(Chars) /\ Len(args[k + 1]) \in Nat
  BY <1>1, ElementOfSeq
<1>3. CASE Quoted(args, k + 1)
  <2>1. BeforeQuote(args, E, k)'
    BY <1>3 DEF BeforeQuote
  <2> QED
    BY <2>1 DEF Reads
<1>4. CASE ~Quoted(args, k + 1)
  <2>1. 0 \in 0 .. Len(args[k + 1]) /\ E[k] + 2 + 0 = E[k] + 2
    BY <1>2
  <2>2. SubSeq(args[k + 1], 1, 0) = << >>
    BY <1>2, BeginningsGrow
  <2>3. InText(args, E, k, 0)'
    BY <1>4, <2>1, <2>2 DEF InText
  <2> QED
    BY <2>1, <2>3 DEF Reads
<1> QED
  BY <1>3, <1>4

\* The end of one.
LEMMA ArgumentEnds ==
  ASSUME ParserTypes, NEW args, NEW E, Made(args, E), NEW k \in 0 .. Len(args) - 1,
         HasRead(args, k), token = args[k + 1],
         flushToken, line' = line, ~isInQuote',
         idx' = advanceToNextToken(line, E[k + 1] + 1)
  PROVE  Reads(args, E)'
<1> DEFINE i == k + 1
           n == Len(args)
<1>1. line \in Seq(Chars) /\ i \in 1 .. n
  BY DEF ParserTypes, Made
<1>2. args \in Seq(Seq(Chars)) /\ n \in Nat /\ LaidOut(line, args, n, E)
  BY <1>1, MadeIs
<1>3. /\ i < n => advanceToNextToken(line, E[i] + 1) = E[i] + 2
      /\ i = n => E[i] + 1 = Len(line) + 1 /\ advanceToNextToken(line, E[i] + 1) = E[i] + 1
  BY <1>1, NextPlace
<1>4. E[i] \in 1 .. Len(line) /\ Len(line) \in Nat
  BY <1>1, <1>2, ArgumentLies
<1>5. token' = << >> /\ nameParsed' = TRUE /\ res' = Flushed
  BY DEF flushToken
<1>6. HasRead(args, i)'
  <2>1. nameParsed /\ res = [name |-> Name, args |-> SubSeq(args, 1, k)]
    BY DEF HasRead
  <2>2. Flushed = [name |-> res.name, args |-> Append(res.args, token)]
    BY <2>1, FlushedIs
  <2>3. Append(SubSeq(args, 1, i - 1), args[i]) = SubSeq(args, 1, i) /\ i - 1 = k
    BY <1>1, <1>2, BeginningsGrow
  <2>4. Flushed = [name |-> Name, args |-> SubSeq(args, 1, i)]
    BY <2>1, <2>2, <2>3
  <2> QED
    BY <1>5, <2>4 DEF HasRead
<1>7. CASE i < n
  <2>1. i \in 0 .. n - 1 /\ E[i] \in Nat
    BY <1>1, <1>2, <1>4, <1>7
  <2>2. idx' = E[i] + 2
    BY <1>3, <1>7
  <2> HIDE DEF i
  <2> QED
    BY <1>2, <1>5, <1>6, <2>1, <2>2, ArgumentBegins
<1>8. CASE i = n
  <2>1. idx' > Len(line')
    BY <1>3, <1>4, <1>8
  <2>2. AllRead(args)'
    BY <1>5, <1>6, <1>8, <2>1 DEF AllRead
  <2> QED
    BY <2>2 DEF Reads
<1> QED
  BY <1>1, <1>2, <1>7, <1>8
LEMMA ReadsName ==
  ASSUME ParserTypes, NEW args, NEW E, Made(args, E), InName, ParserNext
  PROVE  Reads(args, E)'
<1>1. line \in Seq(Chars) /\ args \in Seq(Seq(Chars)) /\ ~nameParsed /\ ~isInQuote
  BY DEF ParserTypes, Made, InName
<1>2. /\ Len(line) \in Nat /\ 2 <= Len(line) /\ line[1] = "a" /\ line[2] = Space
      /\ advanceToNextToken(line, 2) = 3
      /\ args = << >> => Len(line) = 2
      /\ args # << >> => E[0] = 1 /\ 1 \in 1 .. Len(args)
  BY <1>1, NamePlace
<1>3. CASE idx = 1 /\ token = << >>
  <2>1. idx <= Len(line) /\ line[idx] # Quote
    BY <1>2, <1>3, CharsApart
  <2>2. ~AtGap
    BY <1>2, <1>3, CharsApart DEF AtGap, isSeparator, isComment
  <2>3. TakeChar
    BY <2>1, <2>2, OnlyOneStep
  <2>4. /\ token' = Append(<< >>, "a") /\ idx' = 2
        /\ isInQuote' = isInQuote /\ nameParsed' = nameParsed
    BY <1>2, <1>3, <2>3 DEF TakeChar
  <2>5. token' = Name
    BY <2>4 DEF Name
  <2>6. InName'
    BY <1>1, <2>4, <2>5 DEF InName
  <2> QED
    BY <2>6 DEF Reads
<1>4. CASE idx = 2 /\ token = Name
  <2>1. idx <= Len(line) /\ line[idx] # Quote
    BY <1>2, <1>4, CharsApart
  <2>2. AtGap
    BY <1>1, <1>2, <1>4, CharsApart DEF AtGap, isSeparator
  <2>3. EndToken
    BY <2>1, <2>2, OnlyOneStep
  <2>4. /\ res' = Flushed /\ nameParsed' = TRUE /\ token' = << >> /\ idx' = 3
        /\ isInQuote' = isInQuote /\ line' = line
    BY <1>2, <1>4, <2>3 DEF EndToken, flushToken
  <2>5. Flushed = [name |-> Name, args |-> << >>]
    BY <1>1, <1>4, FlushedIs
  <2>6. SubSeq(args, 1, 0) = << >>
    BY <1>1, BeginningsGrow
  <2>7. HasRead(args, 0)'
    BY <2>4, <2>5, <2>6 DEF HasRead
  <2>8. CASE args = << >>
    <3>1. Len(args) = 0 /\ idx' > Len(line')
      <4>1. Len(<< >>) = 0 /\ Len(line) = 2 /\ idx' = 3 /\ line' = line
        BY <1>2, <2>4, <2>8
      <4>2. Len(args) = 0
        BY ONLY <2>8, Len(<< >>) = 0
      <4>3. Len(line') = 2
        BY ONLY <4>1
      <4>4. idx' > Len(line')
        <5>1. 3 > 2
          OBVIOUS
        <5>2. idx' = 3
          BY ONLY <4>1
        <5> QED
          BY ONLY <4>3, <5>1, <5>2, Zenon
      <4> QED
        BY ONLY <4>2, <4>4
    <3>2. AllRead(args)'
      BY <1>1, <2>4, <2>7, <3>1 DEF AllRead
    <3> QED
      BY <3>2 DEF Reads
  <2>9. CASE args # << >>
    <3>1. 0 \in 0 .. Len(args) - 1 /\ E[0] = 1 /\ E[0] \in Nat
      BY <1>1, <1>2, <2>9
    <3>2. idx' = E[0] + 2
      BY <2>4, <3>1
    <3> QED
      BY <1>1, <2>4, <2>7, <3>1, <3>2, ArgumentBegins
  <2> QED
    BY <2>8, <2>9
<1> QED
  BY <1>3, <1>4 DEF InName

LEMMA ReadsQuote ==
  ASSUME ParserTypes, NEW args, NEW E, Made(args, E), NEW k \in 0 .. Len(args) - 1,
         BeforeQuote(args, E, k), ParserNext
  PROVE  Reads(args, E)'
<1>1. line \in Seq(Chars) /\ k + 1 \in 1 .. Len(args) /\ (k + 1) - 1 = k
  BY SMTT(30) DEF ParserTypes, Made
<1>2. /\ args \in Seq(Seq(Chars)) /\ Told(args[k + 1], (k + 1) = 1)
      /\ LaidOut(line, args, Len(args), E)
  <2>1. \A i \in 1 .. Len(args) : Told(args[i], i = 1)
    BY <1>1, MadeIs
  <2>2. args \in Seq(Seq(Chars)) /\ LaidOut(line, args, Len(args), E)
    BY <1>1, MadeIs
  <2> QED
    BY <1>1, <2>1, <2>2
<1>3. /\ HasRead(args, k) /\ Quoted(args, k + 1)
      /\ ~isInQuote /\ token = << >> /\ idx = E[k] + 2
  BY DEF BeforeQuote
<1>4. idx \in 1 .. Len(line) /\ line[idx] = Quote /\ E[k] \in Nat
  <2>1. LET p == E[(k + 1) - 1] + 2
        IN  p \in 1 .. Len(line) /\ (Quoted(args, k + 1) => line[p] = Quote)
    BY <1>1, FirstPlace
  <2>2. E[(k + 1) - 1] \in 1 .. Len(line)
    BY <1>1, <1>2, ArgumentLies
  <2> QED
    BY <1>1, <1>3, <2>1, <2>2
<1>5. OpenQuote
  BY <1>3, <1>4, OnlyOneStep
<1>6. /\ isInQuote' = TRUE /\ idx' = idx + 1
      /\ token' = token /\ nameParsed' = nameParsed /\ res' = res
  BY <1>5 DEF OpenQuote
<1>7. args[k + 1] \in Seq(Chars) /\ Len(args[k + 1]) \in Nat
  BY <1>1, <1>2, ToldSo
<1>8. SubSeq(args[k + 1], 1, 0) = << >>
  BY <1>7, BeginningsGrow
<1>9. idx' = E[k] + 3 + 0 /\ 0 \in 0 .. Len(args[k + 1])
  BY <1>3, <1>4, <1>6, <1>7
<1>10. HasRead(args, k)'
  BY <1>3, <1>6 DEF HasRead
<1>11. InText(args, E, k, 0)'
  BY <1>3, <1>6, <1>8, <1>9, <1>10 DEF InText
<1> QED
  BY <1>9, <1>11 DEF Reads

LEMMA ReadsPlainText ==
  ASSUME ParserTypes, NEW args, NEW E, Made(args, E), NEW k \in 0 .. Len(args) - 1,
         NEW j \in 0 .. Len(args[k + 1]), InText(args, E, k, j), ~Quoted(args, k + 1),
         ParserNext
  PROVE  Reads(args, E)'
<1> DEFINE i == k + 1
           s == args[i]
<1>1. line \in Seq(Chars) /\ i \in 1 .. Len(args) /\ i - 1 = k
  <2>1. args \in Seq(Seq(Chars)) /\ line \in Seq(Chars)
    BY DEF ParserTypes, Made
  <2>2. Len(args) \in Nat
    BY <2>1
  <2> QED
    BY <2>1, <2>2
<1>2. /\ args \in Seq(Seq(Chars)) /\ Told(s, i = 1) /\ Len(args) \in Nat
      /\ LaidOut(line, args, Len(args), E) /\ Len(line) \in Nat
  BY <1>1, MadeIs
<1>3. s \in Seq(Chars) /\ Len(s) \in Nat \ {0}
  BY <1>1, <1>2, ToldSo
<1>4. /\ HasRead(args, k) /\ token = SubSeq(s, 1, j) /\ ~isInQuote /\ idx = E[k] + 2 + j
  BY DEF InText
<1>5. E[k] \in Nat /\ E[i] = E[k] + 1 + Len(s)
  BY <1>1, <1>2, ArgumentLies
<1>6. CASE j < Len(s)
  <2>1. j + 1 \in 1 .. Len(s) /\ E[k] + 1 + (j + 1) = idx /\ (j + 1) - 1 = j
    <3> DEFINE e == E[k]
               n == Len(s)
    <3>1. j \in Nat /\ e \in Nat /\ n \in Nat /\ j < n /\ idx = e + 2 + j
      BY <1>3, <1>4, <1>5, <1>6
    <3> HIDE DEF e, n
    <3>2. j + 1 \in 1 .. n /\ e + 1 + (j + 1) = idx /\ (j + 1) - 1 = j
      BY ONLY <3>1
    <3> QED
      BY <3>2 DEF e, n
  <2>2. LET p == E[i - 1] + 1 + (j + 1)
        IN  /\ p \in 1 .. Len(line) /\ line[p] = s[j + 1] /\ line[p] # Quote
            /\ ~isSeparator(line, p) /\ ~isComment(line, p)
    BY <1>1, <2>1, PlainPlace
  <2>3. /\ idx \in 1 .. Len(line) /\ line[idx] = s[j + 1] /\ line[idx] # Quote
        /\ ~isSeparator(line, idx) /\ ~isComment(line, idx)
    BY <1>1, <2>1, <2>2
  <2>4. TakeChar
    BY <2>3, OnlyOneStep DEF AtGap
  <2>5. /\ token' = Append(SubSeq(s, 1, j), s[j + 1]) /\ idx' = idx + 1
        /\ isInQuote' = isInQuote /\ nameParsed' = nameParsed /\ res' = res
    BY <1>4, <2>3, <2>4 DEF TakeChar
  <2>6. token' = SubSeq(s, 1, j + 1)
    <3>1. Append(SubSeq(s, 1, (j + 1) - 1), s[j + 1]) = SubSeq(s, 1, j + 1)
      BY <1>3, <2>1, BeginningsGrow
    <3> QED
      BY <2>1, <2>5, <3>1
  <2>7. idx' = E[k] + 2 + (j + 1) /\ j + 1 \in 0 .. Len(s)
    <3>1. PICK e \in Nat, n \in Nat : e = E[k] /\ n = Len(s)
      BY <1>3, <1>5
    <3>2. j \in 0 .. n /\ j < n /\ idx = e + 2 + j /\ idx' = idx + 1
      BY <1>4, <1>6, <2>5, <3>1
    <3>3. idx' = e + 2 + (j + 1) /\ j + 1 \in 0 .. n
      BY ONLY e \in Nat, n \in Nat, <3>2
    <3> QED
      BY <3>1, <3>3
  <2>8. HasRead(args, k)'
    BY <1>4, <2>5 DEF HasRead
  <2>9. InText(args, E, k, j + 1)'
    BY <1>4, <2>5, <2>6, <2>7, <2>8 DEF InText
  <2> QED
    BY <2>7, <2>9 DEF Reads
<1>7. CASE j = Len(s)
  <2>1. token = s /\ idx = E[i] + 1
    <3>1. SubSeq(s, 1, Len(s)) = s
      BY <1>3, BeginningsGrow
    <3> QED
      BY <1>3, <1>4, <1>5, <1>7, <3>1
  <2>2. /\ i < Len(args) => /\ idx <= Len(line) /\ isSeparator(line, idx) /\ line[idx] # Quote
        /\ i = Len(args) => /\ idx = Len(line) + 1
                            /\ advanceToNextToken(line, idx) = idx
    BY <1>1, <2>1, NextPlace
  <2>3. CASE i < Len(args)
    <3>1. EndToken
      BY <1>4, <2>2, <2>3, OnlyOneStep DEF AtGap
    <3>2. /\ flushToken /\ idx' = advanceToNextToken(line, idx)
          /\ line' = line /\ isInQuote' = isInQuote
      BY <3>1 DEF EndToken
    <3> QED
      BY <1>4, <2>1, <3>2, ArgumentEnds
  <2>4. CASE i = Len(args)
    <3>1. idx > Len(line)
      BY <1>2, <2>2, <2>4
    <3>2. Finish
      BY <3>1, OnlyOneStep
    <3>3. /\ flushToken /\ idx' = idx /\ line' = line /\ isInQuote' = isInQuote
      BY <3>2 DEF Finish
    <3>4. idx' = advanceToNextToken(line, E[i] + 1)
      BY <2>1, <2>2, <2>4, <3>3
    <3> QED
      BY <1>4, <2>1, <3>3, <3>4, ArgumentEnds
  <2> QED
    BY <1>1, <1>2, <2>3, <2>4
<1> QED
  BY <1>3, <1>6, <1>7

LEMMA ReadsQuotedText ==
  ASSUME ParserTypes, NEW args, NEW E, Made(args, E), NEW k \in 0 .. Len(args) - 1,
         NEW j \in 0 .. Len(args[k + 1]), InText(args, E, k, j), Quoted(args, k + 1),
         ParserNext
  PROVE  Reads(args, E)'
<1> DEFINE i == k + 1
           s == args[i]
<1>1. line \in Seq(Chars) /\ i \in 1 .. Len(args) /\ i - 1 = k
  <2>1. args \in Seq(Seq(Chars)) /\ line \in Seq(Chars)
    BY DEF ParserTypes, Made
  <2>2. Len(args) \in Nat
    BY <2>1
  <2> QED
    BY <2>1, <2>2
<1>2. /\ args \in Seq(Seq(Chars)) /\ Told(s, i = 1) /\ Len(args) \in Nat
      /\ LaidOut(line, args, Len(args), E) /\ Len(line) \in Nat
  BY <1>1, MadeIs
<1>3. /\ s \in Seq(Chars) /\ Len(s) \in Nat \ {0}
      /\ \A m \in 1 .. Len(s) : s[m] # Quote
  BY <1>1, <1>2, ToldSo
<1>4. /\ HasRead(args, k) /\ token = SubSeq(s, 1, j) /\ isInQuote /\ idx = E[k] + 3 + j
  BY DEF InText
<1>5. /\ E[k] \in Nat /\ E[i] \in 1 .. Len(line) /\ E[i] = E[k] + 3 + Len(s)
      /\ line[E[i]] = Quote
      /\ \A m \in 1 .. Len(s) : line[E[k] + 2 + m] = s[m]
  BY <1>1, <1>2, ArgumentLies
<1>6. CASE j < Len(s)
  <2>1. /\ j + 1 \in 1 .. Len(s) /\ E[k] + 2 + (j + 1) = idx /\ (j + 1) - 1 = j
        /\ idx \in 1 .. Len(line)
    <3> DEFINE e == E[k]
               n == Len(s)
               last == E[i]
               length == Len(line)
    <3>1. /\ j \in Nat /\ e \in Nat /\ n \in Nat /\ length \in Nat /\ j < n
          /\ idx = e + 3 + j /\ last \in 1 .. length /\ last = e + 3 + n
      BY <1>2, <1>3, <1>4, <1>5, <1>6
    <3> HIDE DEF e, n, last, length
    <3>2. /\ j + 1 \in 1 .. n /\ e + 2 + (j + 1) = idx /\ (j + 1) - 1 = j
          /\ idx \in 1 .. length
      BY ONLY <3>1
    <3> QED
      BY <3>2 DEF e, n, length
  <2>2. line[idx] = s[j + 1] /\ line[idx] # Quote
    <3>1. line[E[k] + 2 + (j + 1)] = s[j + 1]
      BY <1>5, <2>1
    <3> QED
      BY <1>3, <2>1, <3>1
  <2>3. TakeChar
    BY <1>4, <2>1, <2>2, OnlyOneStep DEF AtGap
  <2>4. /\ token' = Append(SubSeq(s, 1, j), s[j + 1]) /\ idx' = idx + 1
        /\ isInQuote' = isInQuote /\ nameParsed' = nameParsed /\ res' = res
    BY <1>4, <2>2, <2>3 DEF TakeChar
  <2>5. token' = SubSeq(s, 1, j + 1)
    <3>1. Append(SubSeq(s, 1, (j + 1) - 1), s[j + 1]) = SubSeq(s, 1, j + 1)
      BY <1>3, <2>1, BeginningsGrow
    <3> QED
      BY <2>1, <2>4, <3>1
  <2>6. idx' = E[k] + 3 + (j + 1) /\ j + 1 \in 0 .. Len(s)
    <3> DEFINE e == E[k]
               n == Len(s)
    <3>1. /\ j \in Nat /\ e \in Nat /\ n \in Nat /\ j < n
          /\ idx = e + 3 + j /\ idx' = idx + 1
      BY <1>3, <1>4, <1>5, <1>6, <2>4
    <3> HIDE DEF e, n
    <3>2. idx' = e + 3 + (j + 1) /\ j + 1 \in 0 .. n
      BY ONLY <3>1
    <3> QED
      BY <3>2 DEF e, n
  <2>7. HasRead(args, k)'
    BY <1>4, <2>4 DEF HasRead
  <2>8. InText(args, E, k, j + 1)'
    BY <1>4, <2>4, <2>5, <2>6, <2>7 DEF InText
  <2> QED
    BY <2>6, <2>8 DEF Reads
<1>7. CASE j = Len(s)
  <2>1. token = s /\ idx = E[i]
    <3>1. SubSeq(s, 1, Len(s)) = s
      BY <1>3, BeginningsGrow
    <3> QED
      BY <1>3, <1>4, <1>5, <1>7, <3>1
  <2>2. CloseQuote
    BY <1>2, <1>4, <1>5, <2>1, OnlyOneStep
  <2>3. /\ flushToken /\ idx' = advanceToNextToken(line, idx + 1)
        /\ line' = line /\ isInQuote' = FALSE
    BY <2>2 DEF CloseQuote
  <2> QED
    BY <1>4, <2>1, <2>3, ArgumentEnds
<1> QED
  BY <1>3, <1>6, <1>7

\* A command that was made a line is read as it was.
LEMMA ReadingStarts ==
  ASSUME ParserInit
  PROVE  CommandIsRead
<1>1. CASE command = << >>
  BY <1>1 DEF CommandIsRead
<1>2. CASE \E args \in Arguments :
             /\ command = <<[name |-> Name, args |-> args]>>
             /\ line = Name \o <<Space>> \o concatEscape(args)
  <2>1. PICK args \in Arguments :
             /\ command = <<[name |-> Name, args |-> args]>>
             /\ line = Name \o <<Space>> \o concatEscape(args)
    BY <1>2
  <2>2. args \in Seq(Seq(Chars)) /\ \A i \in 1 .. Len(args) : Told(args[i], i = 1)
    <3>1. args \in Seq(Seq(Letters)) /\ \A i \in 1 .. Len(args) : Told(args[i], i = 1)
      BY ArgumentsAre
    <3>2. Letters \subseteq Chars
      BY DEF Chars
    <3>3. Seq(Letters) \subseteq Seq(Chars)
      BY <3>2, SeqMonotonic
    <3> QED
      BY <3>1, <3>3, SeqMonotonic
  <2>3. \E E : Made(args, E)
    <3>1. CASE args = << >>
      BY <2>1, <2>2, <3>1, LineFromNone DEF Made
    <3>2. CASE args # << >>
      <4>1. {"a", Space, Quote} \subseteq Chars
        BY DEF Chars
      <4>2. PICK E : LaidOut(line, args, Len(args), E)
        BY <2>1, <2>2, <3>2, <4>1, LineFromSome
      <4> QED
        BY <2>1, <2>2, <3>2, <4>2 DEF Made
    <3> QED
      BY <3>1, <3>2
  <2>4. PICK E : Made(args, E)
    BY <2>3
  <2>5. idx = 1 /\ isInQuote = FALSE /\ token = << >> /\ nameParsed = FALSE
    <3>1. advanceToNextToken(line, 1) = 1
      BY <2>4, InitialLine, NamePlace
    <3> QED
      BY <3>1 DEF ParserInit
  <2>6. Reads(args, E)
    BY <2>5 DEF Reads, InName
  <2> QED
    BY <2>4, <2>6 DEF CommandIsRead
<1> QED
  BY <1>1, <1>2 DEF ParserInit

LEMMA ReadingSteps ==
  ASSUME ParserTypes, CommandIsRead, [ParserNext]_parserVars
  PROVE  CommandIsRead'
<1>1. command' = command /\ line' = line
  BY DEF ParserNext, parserVars, OpenQuote, CloseQuote, EndToken, TakeChar, Finish
<1>2. SUFFICES ASSUME command # << >> PROVE \E args, E : Made(args, E)' /\ Reads(args, E)'
  BY <1>1 DEF CommandIsRead
<1>3. PICK args, E : Made(args, E) /\ Reads(args, E)
  BY <1>2 DEF CommandIsRead
<1>4. Made(args, E)'
  BY <1>1, <1>3 DEF Made
<1>5. Reads(args, E)'
  <2>1. CASE UNCHANGED parserVars
    BY <1>3, <2>1 DEF parserVars, Reads, InName, BeforeQuote, InText, AllRead, HasRead
  <2>2. CASE ParserNext
    <3>1. CASE InName
      BY <1>3, <2>2, <3>1, ReadsName
    <3>2. CASE \E k \in 0 .. Len(args) - 1 : BeforeQuote(args, E, k)
      BY <1>3, <2>2, <3>2, ReadsQuote
    <3>3. CASE \E k \in 0 .. Len(args) - 1 : \E j \in 0 .. Len(args[k + 1]) :
                 InText(args, E, k, j)
      <4>1. PICK k \in 0 .. Len(args) - 1 : \E j \in 0 .. Len(args[k + 1]) :
                 InText(args, E, k, j)
        BY <3>3
      <4>2. PICK j \in 0 .. Len(args[k + 1]) : InText(args, E, k, j)
        BY <4>1
      <4>3. CASE Quoted(args, k + 1)
        BY <1>3, <2>2, <4>2, <4>3, ReadsQuotedText
      <4>4. CASE ~Quoted(args, k + 1)
        BY <1>3, <2>2, <4>2, <4>4, ReadsPlainText
      <4> QED
        BY <4>3, <4>4
    <3>4. CASE AllRead(args)
      <4>1. idx > Len(line) /\ token = << >>
        BY <3>4 DEF AllRead
      <4>2. Finish
        BY <2>2, <4>1, OnlyOneStep
      <4> QED
        BY <4>1, <4>2 DEF Finish
    <3> QED
      BY <1>3, <3>1, <3>2, <3>3, <3>4 DEF Reads
  <2> QED
    BY <2>1, <2>2
<1> QED
  BY <1>4, <1>5

LEMMA ReadInTheEnd ==
  ASSUME ParserTypes, CommandIsRead
  PROVE  ArgumentsSurvive
<1>1. SUFFICES ASSUME Parsed, command # << >> PROVE <<res>> = command
  BY DEF ArgumentsSurvive
<1>2. idx > Len(line) /\ token = << >>
  BY <1>1 DEF Parsed
<1>3. PICK args, E : Made(args, E) /\ Reads(args, E)
  BY <1>1 DEF CommandIsRead
<1>4. line \in Seq(Chars) /\ args \in Seq(Seq(Chars)) /\ Len(line) \in Nat
  BY <1>3 DEF ParserTypes, Made
<1>5. ~InName
  <2>1. 2 <= Len(line)
    BY <1>3, <1>4, NamePlace
  <2> QED
    BY <1>2, <1>4, <2>1 DEF InName
<1>6. ASSUME NEW k \in 0 .. Len(args) - 1, BeforeQuote(args, E, k) PROVE FALSE
  <2>1. k + 1 \in 1 .. Len(args) /\ (k + 1) - 1 = k
    BY <1>4
  <2>2. LET p == E[(k + 1) - 1] + 2 IN p \in 1 .. Len(line)
    BY <1>3, <1>4, <2>1, FirstPlace
  <2>3. idx \in 1 .. Len(line)
    BY <1>6, <2>1, <2>2 DEF BeforeQuote
  <2> QED
    BY <1>2, <1>4, <2>3
<1>7. ASSUME NEW k \in 0 .. Len(args) - 1, NEW j \in 0 .. Len(args[k + 1]),
             InText(args, E, k, j)
      PROVE  FALSE
  <2> DEFINE s == args[k + 1]
  <2>1. k + 1 \in 1 .. Len(args) /\ (k + 1) - 1 = k
    BY <1>4
  <2>2. LaidOut(line, args, Len(args), E) /\ Told(s, (k + 1) = 1)
    BY <1>3, <1>4, <2>1, MadeIs
  <2>3. s \in Seq(Chars) /\ Len(s) \in Nat \ {0}
    BY <1>4, <2>1, <2>2, ToldSo
  <2>4. j = 0
    <3>1. Len(SubSeq(s, 1, j)) = j
      BY <2>3, BeginningsGrow
    <3>2. SubSeq(s, 1, j) = << >>
      BY <1>2, <1>7 DEF InText
    <3> QED
      BY <3>1, <3>2
  <2>5. LET p == E[(k + 1) - 1] + 2 IN p \in 1 .. Len(line)
    BY <1>3, <1>4, <2>1, FirstPlace
  <2>6. /\ E[(k + 1) - 1] \in 1 .. Len(line) /\ E[k + 1] \in 1 .. Len(line)
        /\ Quoted(args, k + 1) => E[k + 1] = E[(k + 1) - 1] + 3 + Len(s)
    BY <1>4, <2>1, <2>2, ArgumentLies
  <2>7. CASE Quoted(args, k + 1)
    <3>1. idx = E[k] + 3
      BY <1>7, <2>1, <2>4, <2>6, <2>7 DEF InText
    <3>2. E[k] \in Nat /\ E[k] + 3 <= Len(line)
      BY <1>4, <2>1, <2>3, <2>6, <2>7
    <3> QED
      BY <1>2, <1>4, <3>1, <3>2
  <2>8. CASE ~Quoted(args, k + 1)
    <3>1. idx = E[k] + 2
      BY <1>7, <2>1, <2>4, <2>6, <2>8 DEF InText
    <3> QED
      BY <1>2, <1>4, <2>1, <2>5, <3>1
  <2> QED
    BY <2>7, <2>8
<1>8. AllRead(args)
  BY <1>3, <1>5, <1>6, <1>7 DEF Reads
<1>9. SubSeq(args, 1, Len(args)) = args
  BY <1>4, BeginningsGrow
<1>10. res = [name |-> Name, args |-> args]
  BY <1>8, <1>9 DEF AllRead, HasRead
<1> QED
  BY <1>3, <1>10 DEF Made

\* Whatever the command whose arguments can be told apart, its line is read to it.
THEOREM ArgumentsAreRead == ParserSpec => []ArgumentsSurvive
<1>1. ParserInit => ParserInv /\ CommandIsRead
  BY ParserStarts, ReadingStarts
<1>2. ParserInv /\ CommandIsRead /\ [ParserNext]_parserVars => (ParserInv /\ CommandIsRead)'
  BY ParserSteps, ReadingSteps DEF ParserInv
<1>3. ParserInv /\ CommandIsRead => ArgumentsSurvive
  BY ReadInTheEnd DEF ParserInv
<1> QED
  BY <1>1, <1>2, <1>3, PTL DEF ParserSpec

-----------------------------------------------------------------------------
(* Looking for a character.                                                *)

LEMMA EndIs ==
  ASSUME NEW a \in Nat, NEW b \in Nat
  PROVE  Max({a, b}) = IF a >= b THEN a ELSE b
<1>1. Max({a, b}) \in {a, b} /\ \A j \in {a, b} : j <= Max({a, b})
  <2>1. {a, b} \in SUBSET Nat /\ a + b \in Nat /\ \A j \in {a, b} : j <= a + b
    OBVIOUS
  <2> QED
    BY <2>1, MaxIsGreatest
<1> QED
  BY <1>1

\* It is found at k: it is there, and nowhere before.
LEMMA IsFound ==
  ASSUME NEW str, Len(str) \in Nat, NEW char, NEW start \in Nat \ {0},
         NEW k \in start .. Len(str), str[k] = char,
         \A j \in start .. k - 1 : str[j] # char
  PROVE  find(str, char, start) = k
<1> DEFINE S == {i \in start .. Len(str) : str[i] = char}
           npos == Max({start, Len(str) + 1})
<1>1. npos \in Nat /\ k < npos
  BY EndIs
<1> HIDE DEF npos
<1>2. S \cup {npos} \in SUBSET Nat /\ S \cup {npos} # {} /\ k \in S
  BY <1>1
<1>3. Min(S \cup {npos}) \in S \cup {npos} /\ \A j \in S \cup {npos} : Min(S \cup {npos}) <= j
  BY ONLY <1>2, MinIsLeast
<1>4. \A j \in S \cup {npos} : k <= j
  BY <1>1
<1>5. Min(S \cup {npos}) = k
  <2>1. Min(S \cup {npos}) <= k /\ k <= Min(S \cup {npos}) /\ Min(S \cup {npos}) \in Nat
    BY <1>2, <1>3, <1>4
  <2> QED
    BY <2>1
<1> QED
  BY <1>5 DEF find, npos

\* It is not found.
LEMMA IsNotFound ==
  ASSUME NEW str, Len(str) \in Nat, NEW char, NEW start \in Nat \ {0},
         \A j \in start .. Len(str) : str[j] # char
  PROVE  find(str, char, start) = IF start >= Len(str) + 1 THEN start ELSE Len(str) + 1
<1> DEFINE npos == Max({start, Len(str) + 1})
<1>1. npos \in Nat /\ npos = IF start >= Len(str) + 1 THEN start ELSE Len(str) + 1
  BY EndIs
<1> HIDE DEF npos
<1>2. {i \in start .. Len(str) : str[i] = char} \cup {npos} = {npos}
  OBVIOUS
<1>3. Min({npos}) = npos
  <2>1. {npos} \in SUBSET Nat /\ {npos} # {}
    BY <1>1
  <2> QED
    BY <2>1, MinIsLeast
<1>4. find(str, char, start) = npos
  BY <1>2, <1>3 DEF find, npos
<1> QED
  BY <1>1, <1>4

\* One of the two is so.
LEMMA FoundOrNot ==
  ASSUME NEW str, Len(str) \in Nat, NEW char, NEW start \in Nat \ {0}
  PROVE  \/ /\ find(str, char, start) \in start .. Len(str)
            /\ str[find(str, char, start)] = char
            /\ \A j \in start .. find(str, char, start) - 1 : str[j] # char
         \/ /\ \A j \in start .. Len(str) : str[j] # char
            /\ find(str, char, start) = IF start >= Len(str) + 1 THEN start ELSE Len(str) + 1
<1> DEFINE S == {i \in start .. Len(str) : str[i] = char}
<1>1. CASE S = {}
  <2>1. \A j \in start .. Len(str) : str[j] # char
    BY <1>1
  <2> QED
    BY <2>1, IsNotFound
<1>2. CASE S # {}
  <2>1. S \in SUBSET Nat
    OBVIOUS
  <2> HIDE DEF S
  <2>2. PICK k \in S : \A j \in S : k <= j
    BY <1>2, <2>1, HasFirst
  <2>3. k \in start .. Len(str) /\ str[k] = char /\ \A j \in start .. k - 1 : str[j] # char
    BY <2>2 DEF S
  <2>4. find(str, char, start) = k
    BY <2>3, IsFound
  <2> QED
    BY <2>3, <2>4
<1> QED
  BY <1>1, <1>2

LEMMA IsFoundLast ==
  ASSUME NEW str, Len(str) \in Nat, DOMAIN str = 1 .. Len(str), NEW char,
         NEW k \in 1 .. Len(str), str[k] = char,
         \A j \in k + 1 .. Len(str) : str[j] # char
  PROVE  rfind(str, char) = k
<1> DEFINE S == {0} \cup {i \in DOMAIN str : str[i] = char}
<1>1. S \in SUBSET Nat /\ S # {} /\ k \in S /\ \A j \in S : j <= k
  OBVIOUS
<1> HIDE DEF S
<1>2. Max(S) \in S /\ \A j \in S : j <= Max(S)
  <2>1. k \in Nat
    OBVIOUS
  <2> QED
    BY ONLY <1>1, <2>1, MaxIsGreatest
<1>3. Max(S) = k
  <2>1. Max(S) \in Nat /\ Max(S) <= k /\ k <= Max(S)
    BY <1>1, <1>2
  <2> QED
    BY <2>1
<1> QED
  BY <1>3 DEF rfind, S

-----------------------------------------------------------------------------
(* Texts put together.                                                     *)

\* What FlattenSeq makes of the first n parts.
Flat(parts, n) == FlattenSeq([i \in 1 .. n |-> parts[i]])

LEMMA FlattensAgree ==
  ASSUME NEW parts, NEW m \in Nat, NEW n \in Nat, m <= n, NEW f, IsFlatten(f, parts, m),
         NEW g, IsFlatten(g, parts, n), NEW k \in 1 .. m
  PROVE  f[k] = g[k]
<1> DEFINE S == {j \in Nat : j \in 1 .. m => f[j] = g[j]}
<1>1. 0 \in S
  OBVIOUS
<1>2. ASSUME NEW j \in S PROVE j + 1 \in S
  <2>1. SUFFICES ASSUME j + 1 \in 1 .. m PROVE f[j + 1] = g[j + 1]
    OBVIOUS
  <2>2. PICK i \in 1 .. m : i = j + 1 /\ i \in 1 .. n
    BY <2>1
  <2>3. /\ f[i] = IF i = 1 THEN parts[i] ELSE f[i - 1] \o parts[i]
        /\ g[i] = IF i = 1 THEN parts[i] ELSE g[i - 1] \o parts[i]
    BY <2>2 DEF IsFlatten
  <2>4. i # 1 => f[i - 1] = g[i - 1]
    <3>1. j \in Nat /\ (j \in 1 .. m => f[j] = g[j])
      OBVIOUS
    <3>2. i - 1 = j /\ (i # 1 => j \in 1 .. m)
      BY <2>2, <3>1
    <3> QED
      BY <3>1, <3>2
  <2> QED
    BY <2>2, <2>3, <2>4
<1>3. S = Nat
  <2>1. S \in SUBSET Nat
    OBVIOUS
  <2> HIDE DEF S
  <2> QED
    BY <1>1, <1>2, <2>1, SetInduction
<1>4. k \in S
  BY <1>3
<1> QED
  BY <1>4

LEMMA FlatIs ==
  ASSUME NEW parts, NEW n \in Nat \ {0}
  PROVE  \E f : IsFlatten(f, parts, n) /\ Flat(parts, n) = f[n]
<1> DEFINE cut == [i \in 1 .. n |-> parts[i]]
           f == CHOOSE g : IsFlatten(g, cut, n)
<1>1. IsFlatten(f, cut, n)
  BY FlattenExists
<1>2. Len(cut) = n
  OBVIOUS
<1>3. FlattenSeq(cut) = f[n]
  BY <1>1, <1>2 DEF FlattenSeq, IsFlatten
<1> HIDE DEF f
<1>4. IsFlatten(f, parts, n)
  BY <1>1 DEF IsFlatten
<1> QED
  BY <1>3, <1>4 DEF Flat

LEMMA FlatNone == \A parts : Flat(parts, 0) = << >>
<1> TAKE parts
<1>1. [i \in 1 .. 0 |-> parts[i]] = << >> /\ Len(<< >>) = 0
  OBVIOUS
<1> QED
  BY <1>1 DEF Flat, FlattenSeq

LEMMA FlatType ==
  ASSUME NEW C, NEW parts, NEW n \in Nat, \A i \in 1 .. n : parts[i] \in Seq(C)
  PROVE  /\ Flat(parts, n) \in Seq(C)
         /\ \A k \in Nat : k + 1 <= n => Flat(parts, k + 1) = Flat(parts, k) \o parts[k + 1]
<1>1. CASE n = 0
  <2>1. << >> \in Seq(C)
    OBVIOUS
  <2>2. \A k \in Nat : ~(k + 1 <= n)
    BY <1>1
  <2> QED
    BY <1>1, <2>1, <2>2, FlatNone
<1>2. CASE n # 0
  <2>1. PICK f : IsFlatten(f, parts, n) /\ Flat(parts, n) = f[n]
    BY <1>2, FlatIs
  <2>2. \A i \in 1 .. n : f[i] = IF i = 1 THEN parts[i] ELSE f[i - 1] \o parts[i]
    BY <2>1 DEF IsFlatten
  <2> DEFINE S == {j \in Nat : j \in 1 .. n => f[j] \in Seq(C)}
  <2>3. 0 \in S
    OBVIOUS
  <2>4. ASSUME NEW j \in S PROVE j + 1 \in S
    <3>1. SUFFICES ASSUME j + 1 \in 1 .. n PROVE f[j + 1] \in Seq(C)
      OBVIOUS
    <3>2. PICK i \in 1 .. n : i = j + 1
      BY <3>1
    <3>3. CASE i = 1
      BY <2>2, <3>2, <3>3
    <3>4. CASE i # 1
      <4>1. j \in Nat /\ (j \in 1 .. n => f[j] \in Seq(C))
        OBVIOUS
      <4>2. i - 1 = j /\ j \in 1 .. n
        BY <3>2, <3>4, <4>1
      <4>3. f[j] \in Seq(C) /\ parts[i] \in Seq(C)
        BY <4>1, <4>2
      <4>4. f[i] = f[j] \o parts[i]
        BY <2>2, <3>4, <4>2
      <4> QED
        BY <3>2, <4>3, <4>4, ConcatProperties
    <3> QED
      BY <3>3, <3>4
  <2>5. S = Nat
    <3>1. S \in SUBSET Nat
      OBVIOUS
    <3> HIDE DEF S
    <3> QED
      BY <2>3, <2>4, <3>1, SetInduction
  <2>6. \A j \in 1 .. n : f[j] \in Seq(C)
    <3>1. \A j \in 1 .. n : j \in S
      BY <2>5
    <3> QED
      BY <3>1
  <2>7. ASSUME NEW k \in Nat, k + 1 <= n
        PROVE  Flat(parts, k + 1) = Flat(parts, k) \o parts[k + 1]
    <3>1. PICK i \in 1 .. n : i = k + 1
      BY <2>7
    <3>2. PICK h : IsFlatten(h, parts, i) /\ Flat(parts, i) = h[i]
      BY FlatIs
    <3>3. h[i] = IF i = 1 THEN parts[i] ELSE h[i - 1] \o parts[i]
      <4>1. i \in 1 .. i
        OBVIOUS
      <4> QED
        BY <3>2, <4>1 DEF IsFlatten
    <3>4. CASE i = 1
      <4>1. k = 0 /\ Flat(parts, k) = << >>
        BY <3>1, <3>4, FlatNone
      <4>2. parts[i] \in Seq(C)
        OBVIOUS
      <4>3. << >> \o parts[i] = parts[i]
        BY <4>2, ConcatEmptySeq
      <4> QED
        BY <3>1, <3>2, <3>3, <3>4, <4>1, <4>3
    <3>5. CASE i # 1
      <4>1. k \in Nat \ {0} /\ i - 1 = k /\ k \in 1 .. i /\ k <= i /\ k \in 1 .. k
        BY <3>1, <3>5
      <4>2. PICK g : IsFlatten(g, parts, k) /\ Flat(parts, k) = g[k]
        BY <4>1, FlatIs
      <4>3. g[k] = h[k]
        BY <3>2, <4>1, <4>2, FlattensAgree
      <4> QED
        BY <3>1, <3>2, <3>3, <3>5, <4>1, <4>2, <4>3
    <3> QED
      BY <3>4, <3>5
  <2>8. f[n] \in Seq(C)
    BY <1>2, <2>6
  <2> QED
    BY <2>1, <2>7, <2>8
<1> QED
  BY <1>1, <1>2

\* One text begins with another.
Begins(s, t) ==
  /\ Len(s) \in Nat /\ Len(t) \in Nat /\ Len(s) <= Len(t)
  /\ \A j \in 1 .. Len(s) : t[j] = s[j]

\* Where a part lies: what comes before stays before it, and what comes behind it
\* changes nothing.
LEMMA FlatGrows ==
  ASSUME NEW C, NEW parts, NEW n \in Nat, \A i \in 1 .. n : parts[i] \in Seq(C),
         NEW i \in 0 .. n, NEW m \in i .. n
  PROVE  /\ Flat(parts, i) \in Seq(C) /\ Flat(parts, m) \in Seq(C)
         /\ Begins(Flat(parts, i), Flat(parts, m))
<1> DEFINE F(k) == Flat(parts, k)
           Good(k) == /\ Len(F(i)) <= Len(F(k))
                      /\ \A j \in 1 .. Len(F(i)) : F(k)[j] = F(i)[j]
           S == {d \in Nat : i + d <= n => Good(i + d)}
<1>1. \A k \in 0 .. n : F(k) \in Seq(C)
  <2>1. TAKE k \in 0 .. n
  <2>2. k \in Nat /\ \A x \in 1 .. k : parts[x] \in Seq(C)
    OBVIOUS
  <2> QED
    BY ONLY <2>2, FlatType
<1>2. \A k \in 0 .. n : Len(F(k)) \in Nat
  BY <1>1
<1>3. \A k \in Nat : k + 1 <= n => F(k + 1) = F(k) \o parts[k + 1]
  BY ONLY n \in Nat, \A x \in 1 .. n : parts[x] \in Seq(C), FlatType
<1>4. 0 \in S
  <2>1. i + 0 = i /\ i \in 0 .. n
    OBVIOUS
  <2> QED
    BY <2>1, <1>2
<1>5. ASSUME NEW d \in S PROVE d + 1 \in S
  <2>1. SUFFICES ASSUME i + (d + 1) <= n PROVE Good(i + (d + 1))
    OBVIOUS
  <2>2. PICK k \in 0 .. n : k = i + d /\ k + 1 = i + (d + 1) /\ k + 1 \in 1 .. n /\ k + 1 \in 0 .. n
    BY <2>1
  <2>3. Good(k)
    BY <2>2
  <2> DEFINE f == F(k)
             p == parts[k + 1]
  <2>4. f \in Seq(C) /\ p \in Seq(C) /\ Len(f) \in Nat /\ Len(p) \in Nat
    BY <1>1, <2>2
  <2>5. F(k + 1) = f \o p
    <3>1. k \in Nat /\ k + 1 <= n
      BY <2>2
    <3> HIDE DEF F
    <3> QED
      BY <1>3, <3>1
  <2>6. Len(F(i)) \in Nat /\ Len(F(i)) <= Len(f) /\ \A j \in 1 .. Len(F(i)) : f[j] = F(i)[j]
    BY <1>2, <2>3
  <2> HIDE DEF f, p, F
  <2>7. /\ Len(f \o p) = Len(f) + Len(p)
        /\ \A j \in 1 .. Len(f) + Len(p) :
             (f \o p)[j] = IF j <= Len(f) THEN f[j] ELSE p[j - Len(f)]
    BY ONLY <2>4, ConcatProperties
  <2>8. \A j \in 1 .. Len(F(i)) : j \in 1 .. Len(f) + Len(p) /\ j <= Len(f)
    BY <2>4, <2>6
  <2>9. Good(k + 1)
    BY <2>4, <2>5, <2>6, <2>7, <2>8
  <2> QED
    BY <2>2, <2>9
<1>6. S = Nat
  <2>1. S \in SUBSET Nat
    OBVIOUS
  <2> HIDE DEF S
  <2> QED
    BY <1>4, <1>5, <2>1, SetInduction
<1>7. PICK d \in Nat : d = m - i /\ i + d = m /\ m <= n /\ m \in 0 .. n
  OBVIOUS
<1>8. Good(m)
  <2>1. d \in S
    BY <1>6
  <2> QED
    BY <2>1, <1>7
<1> QED
  BY <1>1, <1>2, <1>7, <1>8 DEF Begins

Lies(parts, i, m) ==
  /\ Len(Flat(parts, i)) = Len(Flat(parts, i - 1)) + Len(parts[i])
  /\ Len(Flat(parts, i - 1)) \in Nat /\ Len(Flat(parts, i)) <= Len(Flat(parts, m))
  /\ \A j \in 1 .. Len(parts[i]) :
       Flat(parts, m)[Len(Flat(parts, i - 1)) + j] = parts[i][j]

LEMMA PartLies ==
  ASSUME NEW C, NEW parts, NEW n \in Nat, \A i \in 1 .. n : parts[i] \in Seq(C),
         NEW i \in 1 .. n, NEW m \in i .. n
  PROVE  Lies(parts, i, m)
<1>1. PICK k \in 0 .. n : k = i - 1 /\ k + 1 = i /\ k + 1 <= n /\ k \in Nat /\ i \in 0 .. n
  OBVIOUS
<1> DEFINE f == Flat(parts, k)
           g == Flat(parts, i)
           h == Flat(parts, m)
           p == parts[i]
<1>2. f \in Seq(C) /\ g \in Seq(C) /\ h \in Seq(C) /\ Len(g) <= Len(h)
      /\ \A j \in 1 .. Len(g) : h[j] = g[j]
  <2>1. i \in 0 .. n /\ m \in i .. n /\ k \in k .. n
    BY <1>1
  <2>2. n \in Nat /\ \A x \in 1 .. n : parts[x] \in Seq(C)
    OBVIOUS
  <2>3. Flat(parts, k) \in Seq(C)
    BY ONLY <1>1, <2>1, <2>2, FlatGrows
  <2>4. /\ Flat(parts, i) \in Seq(C) /\ Flat(parts, m) \in Seq(C)
        /\ Begins(Flat(parts, i), Flat(parts, m))
    BY ONLY <2>1, <2>2, FlatGrows
  <2> QED
    BY <2>3, <2>4 DEF Begins
<1>3. p \in Seq(C)
  OBVIOUS
<1>4. g = f \o p
  <2>1. \A j \in Nat : j + 1 <= n => Flat(parts, j + 1) = Flat(parts, j) \o parts[j + 1]
    BY ONLY n \in Nat, \A x \in 1 .. n : parts[x] \in Seq(C), FlatType
  <2> QED
    BY <2>1, <1>1
<1> HIDE DEF f, g, h, p
<1>5. /\ Len(f \o p) = Len(f) + Len(p) /\ Len(f) \in Nat /\ Len(p) \in Nat
      /\ \A j \in 1 .. Len(f) + Len(p) :
           (f \o p)[j] = IF j <= Len(f) THEN f[j] ELSE p[j - Len(f)]
  BY ONLY <1>2, <1>3, ConcatProperties, LenProperties
<1>6. ASSUME NEW j \in 1 .. Len(p) PROVE h[Len(f) + j] = p[j]
  <2>1. Len(f) + j \in 1 .. Len(f) + Len(p) /\ ~(Len(f) + j <= Len(f))
        /\ Len(f) + j - Len(f) = j
    BY <1>5
  <2>2. g[Len(f) + j] = p[j]
    BY ONLY <2>1, <1>5, <1>4
  <2>3. Len(f) + j \in 1 .. Len(g)
    BY <2>1, <1>4, <1>5
  <2> QED
    BY <2>2, <2>3, <1>2
<1> QED
  BY <1>1, <1>2, <1>4, <1>5, <1>6 DEF f, g, h, p, Lies

-----------------------------------------------------------------------------
(* A packet is recognised.                                                 *)

TypeNames == {"getinfo", "getstatus", "getchallenge", "connect", "getservers", "infoResponse",
              "statusResponse", "challengeResponse", "connectResponse", "getserversResponse",
              "rcon", "print", "disconnect"}

LEMMA TypesAre ==
  /\ DOMAIN CONNLESS_PACKETS = TypeNames
  /\ \A type \in TypeNames : type \notin CONNLESS_SEPARATORS
  /\ \A type \in TypeNames :
       CONNLESS_PACKETS[type] = << >> \/ \E c \in CONNLESS_SEPARATORS : CONNLESS_PACKETS[type] = <<c>>
<1>1. DOMAIN CONNLESS_PACKETS = TypeNames
  BY DEF CONNLESS_PACKETS, TypeNames
<1>2. \A type \in TypeNames : type \notin CONNLESS_SEPARATORS
  BY DEF CONNLESS_SEPARATORS, Space, Newline, Backslash, TypeNames
<1>3. \A type \in TypeNames :
       CONNLESS_PACKETS[type] = << >> \/ \E c \in CONNLESS_SEPARATORS : CONNLESS_PACKETS[type] = <<c>>
  BY DEF CONNLESS_SEPARATORS, CONNLESS_PACKETS, TypeNames
<1> QED
  BY <1>1, <1>2, <1>3

LEMMA SubSeqIs ==
  ASSUME NEW C, NEW s \in Seq(C), NEW m \in Nat, NEW n \in Nat, NEW t \in Seq(C),
         Len(t) = n - m, n <= Len(s), m <= n, \A j \in 1 .. Len(t) : s[m + j] = t[j]
  PROVE  SubSeq(s, m + 1, n) = t
<1>1. \A i \in m + 1 .. n : s[i] \in C
  OBVIOUS
<1> DEFINE u == SubSeq(s, m + 1, n)
<1>2. /\ u \in Seq(C) /\ Len(u) = IF m + 1 <= n THEN n - (m + 1) + 1 ELSE 0
      /\ \A i \in 1 .. n - (m + 1) + 1 : u[i] = s[m + 1 + i - 1]
  <2>1. m + 1 \in Int /\ n \in Int
    OBVIOUS
  <2> QED
    BY SMTT(30), <1>1, <2>1, SubSeqProperties
<1> HIDE DEF u
<1>3. Len(u) = Len(t)
  BY <1>2
<1>4. ASSUME NEW i \in 1 .. Len(u) PROVE u[i] = t[i]
  <2>1. i \in 1 .. n - m
    BY <1>3
  <2>2. i \in 1 .. n - (m + 1) + 1 /\ m + 1 + i - 1 = m + i
    BY ONLY <2>1, m \in Nat, n \in Nat
  <2>3. u[i] = s[m + i]
    BY <1>2, <2>2
  <2>4. i \in 1 .. Len(t)
    BY <2>1
  <2> QED
    BY <2>3, <2>4
<1>5. u = t
  BY <1>2, <1>3, <1>4, SeqEqual
<1> QED
  BY <1>5 DEF u

\* A packet is recognised by its name, whatever its data.
LEMMA PacketIsRead ==
  ASSUME NEW C, NEW type \in DOMAIN CONNLESS_PACKETS, NEW data \in Seq(C),
         CONNLESS_PACKETS[type] = << >> => data = << >>, type \in WithoutData => data = << >>
  PROVE  parsePacket(getRawPacket(type, data)) = parse(type, data)
         /\ getRawPacket(type, data) # << >>
<1> DEFINE rest == IF data = << >> \/ type \in WithoutData THEN << >>
                   ELSE CONNLESS_PACKETS[type] \o data
           rawPacket == <<PREFIX, type>> \o rest
           packet == Tail(rawPacket)
           T == {PREFIX, type} \cup CONNLESS_SEPARATORS \cup C
           two == <<PREFIX, type>>
           seps == {i \in DOMAIN packet : packet[i] \in CONNLESS_SEPARATORS}
           at == Min(seps \cup {Len(packet) + 1})
<1>1. getRawPacket(type, data) = rawPacket
  BY DEF getRawPacket
<1>2. type \notin CONNLESS_SEPARATORS
  BY TypesAre
<1>3. data \in Seq(T) /\ type \in T /\ two \in Seq(T) /\ Len(two) = 2 /\ Len(data) \in Nat
      /\ two[1] = PREFIX /\ two[2] = type
  <2>1. data \in Seq(T)
    BY SeqMonotonic
  <2> QED
    BY <2>1
<1>4. /\ rest \in Seq(T) /\ Len(rest) \in Nat
      /\ \/ rest = << >> /\ data = << >>
         \/ /\ Len(rest) = Len(data) + 1 /\ rest[1] \in CONNLESS_SEPARATORS
            /\ CONNLESS_PACKETS[type] # << >>
            /\ \A j \in 1 .. Len(data) : rest[1 + j] = data[j]
  <2>1. CASE data = << >> \/ type \in WithoutData
    BY <2>1
  <2>2. CASE ~(data = << >> \/ type \in WithoutData)
    <3>1. PICK c \in CONNLESS_SEPARATORS : CONNLESS_PACKETS[type] = <<c>>
      BY <2>2, TypesAre
    <3> DEFINE one == <<c>>
    <3>2. one \in Seq(T) /\ Len(one) = 1 /\ one[1] = c
      OBVIOUS
    <3>3. rest = one \o data
      BY <2>2, <3>1
    <3> HIDE DEF one, T, rest
    <3>4. /\ one \o data \in Seq(T) /\ Len(one \o data) = Len(one) + Len(data)
          /\ \A j \in 1 .. Len(one) + Len(data) :
               (one \o data)[j] = IF j <= Len(one) THEN one[j] ELSE data[j - Len(one)]
      BY ONLY <1>3, <3>2, ConcatProperties
    <3>5. rest[1] = c
      BY <1>3, <3>2, <3>3, <3>4
    <3>6. \A j \in 1 .. Len(data) : rest[1 + j] = data[j]
      BY <1>3, <3>2, <3>3, <3>4
    <3>7. CONNLESS_PACKETS[type] # << >>
      BY <2>2
    <3> QED
      BY <1>3, <3>2, <3>3, <3>4, <3>5, <3>6, <3>7
  <2> QED
    BY <2>1, <2>2
<1> HIDE DEF rest, two, T
<1>5. /\ rawPacket \in Seq(T) /\ Len(rawPacket) = 2 + Len(rest)
      /\ rawPacket[1] = PREFIX /\ rawPacket[2] = type
      /\ \A j \in 1 .. Len(rest) : rawPacket[2 + j] = rest[j]
  <2>1. /\ two \o rest \in Seq(T) /\ Len(two \o rest) = Len(two) + Len(rest)
        /\ \A j \in 1 .. Len(two) + Len(rest) :
             (two \o rest)[j] = IF j <= Len(two) THEN two[j] ELSE rest[j - Len(two)]
    BY ONLY <1>3, <1>4, ConcatProperties
  <2>2. rawPacket = two \o rest
    BY DEF two
  <2> HIDE DEF rawPacket
  <2>3. \A j \in 1 .. Len(rest) : j + 2 \in 1 .. 2 + Len(rest) /\ ~(2 + j <= 2) /\ 2 + j - 2 = j
    BY <1>4
  <2>4. \A j \in 1 .. Len(rest) : rawPacket[2 + j] = rest[j]
    BY <2>1, <2>2, <2>3, <1>3, <1>4
  <2>5. 1 \in 1 .. 2 + Len(rest) /\ 2 \in 1 .. 2 + Len(rest)
    BY <1>4
  <2> QED
    BY <2>1, <2>2, <2>4, <2>5, <1>3
<1> HIDE DEF rawPacket
<1>6. /\ Head(rawPacket) = PREFIX /\ rawPacket # << >> /\ ~(Len(rawPacket) <= 1)
      /\ packet \in Seq(T) /\ Len(packet) = 1 + Len(rest) /\ packet[1] = type
      /\ \A j \in 1 .. Len(rest) : packet[1 + j] = rest[j]
  <2>1. rawPacket # << >> /\ ~(Len(rawPacket) <= 1) /\ Head(rawPacket) = PREFIX
    BY <1>4, <1>5
  <2>2. /\ packet \in Seq(T) /\ Len(packet) = Len(rawPacket) - 1
        /\ \A i \in 1 .. Len(packet) : packet[i] = rawPacket[i + 1]
    BY <2>1, <1>5, HeadTailProperties
  <2> HIDE DEF packet
  <2>3. Len(packet) = 1 + Len(rest)
    BY <2>2, <1>4, <1>5
  <2>4. packet[1] = type
    BY <2>2, <2>3, <1>4, <1>5
  <2>5. ASSUME NEW j \in 1 .. Len(rest) PROVE packet[1 + j] = rest[j]
    <3>1. 1 + j \in 1 .. Len(packet) /\ 1 + j + 1 = 2 + j
      BY <2>3, <1>4
    <3> QED
      BY <3>1, <2>2, <1>5
  <2> QED
    BY <2>1, <2>2, <2>3, <2>4, <2>5
<1> HIDE DEF packet
<1>7. at = 2
  <2>1. DOMAIN packet = 1 .. 1 + Len(rest)
    BY <1>6
  <2>2. 1 \notin seps
    BY <1>2, <1>6
  <2>3. 2 \in seps \cup {Len(packet) + 1}
    <3>1. CASE rest = << >>
      BY <3>1, <1>6
    <3>2. CASE rest # << >>
      BY <2>1, <3>2, <1>4, <1>6
    <3> QED
      BY <3>1, <3>2
  <2>4. seps \cup {Len(packet) + 1} \in SUBSET Nat
    BY <2>1, <1>4, <1>6
  <2>5. \A j \in seps \cup {Len(packet) + 1} : j >= 2
    BY <2>1, <2>2, <1>4, <1>6
  <2> HIDE DEF seps
  <2>6. at \in seps \cup {Len(packet) + 1} /\ \A j \in seps \cup {Len(packet) + 1} : at <= j
    BY ONLY <2>3, <2>4, MinIsLeast
  <2> HIDE DEF at
  <2>7. at \in Nat /\ at <= 2 /\ at >= 2
    BY <2>3, <2>4, <2>5, <2>6
  <2> QED
    BY <2>7
<1> HIDE DEF at
<1>8. Before(packet, at) = <<type>>
  <2>1. <<type>> \in Seq(T) /\ Len(<<type>>) = 1 /\ <<type>>[1] = type
    BY <1>3
  <2>2. SubSeq(packet, 0 + 1, 1) = <<type>>
    <3> DEFINE one == <<type>>
    <3>1. /\ 0 \in Nat /\ 1 \in Nat /\ one \in Seq(T) /\ Len(one) = 1 - 0 /\ 1 <= Len(packet)
          /\ 0 <= 1 /\ \A j \in 1 .. Len(one) : packet[0 + j] = one[j]
      BY <2>1, <1>4, <1>6
    <3> HIDE DEF one
    <3>2. SubSeq(packet, 0 + 1, 1) = one
      BY ONLY <3>1, <1>6, SubSeqIs
    <3> QED
      BY <3>2 DEF one
  <2> QED
    BY <2>2, <1>7 DEF Before
<1>9. DataBehind(packet, type, at) = data
  <2>1. CASE rest = << >> /\ data = << >>
    <3>1. Len(packet) = 1
      BY <2>1, <1>6
    <3> QED
      BY <2>1, <3>1, <1>7 DEF DataBehind
  <2>2. CASE ~(rest = << >> /\ data = << >>)
    <3>1. /\ Len(rest) = Len(data) + 1 /\ CONNLESS_PACKETS[type] # << >>
          /\ \A j \in 1 .. Len(data) : rest[1 + j] = data[j]
      BY <2>2, <1>4
    <3>2. ASSUME NEW j \in 1 .. Len(data) PROVE packet[2 + j] = data[j]
      <4>1. 1 + j \in 1 .. Len(rest) /\ 1 + (1 + j) = 2 + j
        BY <3>1, <1>3
      <4> QED
        BY <4>1, <3>1, <1>6
    <3>3. 2 \in Nat /\ Len(packet) \in Nat /\ Len(data) = Len(packet) - 2 /\ 2 <= Len(packet)
          /\ Len(packet) <= Len(packet)
      BY <3>1, <1>3, <1>6
    <3>4. SubSeq(packet, 2 + 1, Len(packet)) = data
      BY ONLY <3>2, <3>3, <1>3, <1>6, SubSeqIs
    <3> QED
      BY <3>1, <3>3, <3>4, <1>7 DEF DataBehind, Behind
  <2> QED
    BY <2>1, <2>2
<1>10. parsePacket(rawPacket) = parse(type, data)
  <2>1. Len(<<type>>) = 1 /\ <<type>>[1] = type
    OBVIOUS
  <2> QED
    BY <1>6, <1>8, <1>9, <2>1 DEF parsePacket, at, seps, packet
<1> QED
  BY <1>1, <1>6, <1>10

-----------------------------------------------------------------------------
(* Infostrings.                                                            *)

\* What is read from place i on, given what is read from later ones.
InfoAt(str, f, i) ==
  LET keyEnd   == find(str, Backslash, i)
      valueEnd == find(str, Backslash, keyEnd + 1)
  IN  IF keyEnd >= Len(str) THEN << >>
      ELSE WithField(IF valueEnd > Len(str) THEN << >> ELSE f[valueEnd + 1],
                     Lowered(SubSeq(str, i, keyEnd - 1)),
                     SubSeq(str, keyEnd + 1, valueEnd - 1))

AreInfos(str, f, n) == f = [i \in n .. Len(str) + 1 |-> InfoAt(str, f, i)]

LEMMA FoundBehind ==
  ASSUME NEW str, Len(str) \in Nat, NEW char, NEW start \in Nat \ {0}
  PROVE  find(str, char, start) \in Nat /\ find(str, char, start) >= start
BY FoundOrNot

LEMMA InfosExist ==
  ASSUME NEW str, Len(str) \in Nat, NEW first \in 1 .. Len(str) + 1
  PROVE  \E f : AreInfos(str, f, first)
<1> DEFINE L == Len(str) + 1
           S == {d \in Nat : d <= L - first => \E f : AreInfos(str, f, L - d)}
<1>1. 0 \in S
  <2> DEFINE f == [i \in L .. L |-> << >>]
  <2>1. \A x : InfoAt(str, x, L) = << >>
    <3>1. find(str, Backslash, L) >= Len(str)
      BY FoundBehind
    <3> QED
      BY <3>1 DEF InfoAt
  <2>2. f = [i \in L .. L |-> InfoAt(str, f, i)]
    <3>1. \A i \in L .. L : i = L
      OBVIOUS
    <3> QED
      BY <2>1, <3>1
  <2> HIDE DEF f
  <2>3. AreInfos(str, f, L)
    BY <2>2 DEF AreInfos
  <2>4. L - 0 = L
    OBVIOUS
  <2> QED
    BY <2>3, <2>4
<1>2. ASSUME NEW d \in S PROVE d + 1 \in S
  <2>1. SUFFICES ASSUME d + 1 <= L - first PROVE \E f : AreInfos(str, f, L - (d + 1))
    OBVIOUS
  <2>2. d \in Nat /\ d <= L - first
    BY <2>1
  <2>3. PICK f : AreInfos(str, f, L - d)
    BY <2>2
  <2>4. PICK n \in Nat : n = L - (d + 1) /\ n + 1 = L - d /\ 1 <= n /\ n <= Len(str)
    <3>1. L \in Nat /\ Len(str) = L - 1 /\ first \in Nat /\ 1 <= first /\ first <= L
      OBVIOUS
    <3> HIDE DEF L
    <3>2. L - (d + 1) \in Nat /\ (L - (d + 1)) + 1 = L - d /\ 1 <= L - (d + 1)
          /\ L - (d + 1) <= L - 1
      BY <2>1, <2>2, <3>1
    <3> QED
      BY <3>1, <3>2
  <2> DEFINE h == [i \in n .. L |-> IF i = n THEN InfoAt(str, f, n) ELSE f[i]]
  <2>5. f = [i \in n + 1 .. L |-> InfoAt(str, f, i)]
    BY <2>3, <2>4 DEF AreInfos
  <2>6. ASSUME NEW i \in n .. L PROVE InfoAt(str, h, i) = InfoAt(str, f, i)
    <3> DEFINE keyEnd   == find(str, Backslash, i)
               valueEnd == find(str, Backslash, keyEnd + 1)
    <3>1. keyEnd \in Nat /\ keyEnd >= i /\ valueEnd \in Nat /\ valueEnd >= keyEnd + 1
      <4>1. i \in Nat \ {0}
        BY <2>4
      <4>2. keyEnd \in Nat /\ keyEnd >= i
        BY <4>1, FoundBehind
      <4> HIDE DEF keyEnd
      <4>3. keyEnd + 1 \in Nat \ {0}
        BY <4>2
      <4> QED
        BY <4>2, <4>3, FoundBehind
    <3>2. valueEnd > Len(str) \/ h[valueEnd + 1] = f[valueEnd + 1]
      <4> HIDE DEF valueEnd
      <4>1. SUFFICES ASSUME ~(valueEnd > Len(str)) PROVE h[valueEnd + 1] = f[valueEnd + 1]
        OBVIOUS
      <4>2. valueEnd + 1 \in n .. L /\ valueEnd + 1 # n
        BY <3>1, <4>1, <2>4
      <4> QED
        BY <4>2
    <3> HIDE DEF h
    <3> QED
      BY <3>2 DEF InfoAt
  <2>7. ASSUME NEW i \in n .. L PROVE h[i] = InfoAt(str, h, i)
    <3>1. CASE i = n
      <4>1. h[i] = InfoAt(str, f, n)
        BY <3>1
      <4> HIDE DEF h
      <4> QED
        BY <4>1, <3>1, <2>6
    <3>2. CASE i # n
      <4>1. h[i] = f[i] /\ i \in n + 1 .. L
        BY <3>2, <2>4
      <4>2. f[i] = InfoAt(str, f, i)
        BY <4>1, <2>5
      <4> HIDE DEF h
      <4> QED
        BY <4>1, <4>2, <2>6
    <3> QED
      BY <3>1, <3>2
  <2>8. h = [i \in n .. L |-> h[i]]
    OBVIOUS
  <2> HIDE DEF h
  <2>9. h = [i \in n .. L |-> InfoAt(str, h, i)]
    BY <2>7, <2>8
  <2>10. AreInfos(str, h, n)
    BY <2>9 DEF AreInfos
  <2> QED
    BY <2>4, <2>10
<1>3. S = Nat
  <2>1. S \in SUBSET Nat
    OBVIOUS
  <2> HIDE DEF S
  <2> QED
    BY <1>1, <1>2, <2>1, SetInduction
<1>4. L - first \in Nat /\ L - (L - first) = first
  OBVIOUS
<1>5. \A d \in Nat : d <= L - first => \E f : AreInfos(str, f, L - d)
  BY <1>3
<1> HIDE DEF L
<1>6. \E f : AreInfos(str, f, L - (L - first))
  <2>1. PICK d \in Nat : d = L - first /\ d <= L - first
    BY <1>4
  <2> QED
    BY <1>5, <2>1
<1> QED
  BY <1>4, <1>6

LEMMA InfoIs ==
  ASSUME NEW str, Len(str) \in Nat, Len(str) >= 2, str[1] = Backslash
  PROVE  \E f : /\ \A i \in 2 .. Len(str) + 1 : f[i] = InfoAt(str, f, i)
                /\ fromInfostring(str) = f[2]
<1> DEFINE f == CHOOSE g : AreInfos(str, g, 2)
<1>1. AreInfos(str, f, 2)
  <2>1. 2 \in 1 .. Len(str) + 1
    OBVIOUS
  <2> QED
    BY <2>1, InfosExist
<1>2. fromInfostring(str) = f[2]
  BY DEF fromInfostring, AreInfos, InfoAt
<1> HIDE DEF f
<1>3. \A i \in 2 .. Len(str) + 1 : f[i] = InfoAt(str, f, i)
  BY <1>1 DEF AreInfos
<1> QED
  BY <1>2, <1>3

\* The provers do not know of a literal that it is in STRING.
Symbols == STRING \cup {Backslash, Newline, Space, Quote, "a", "E", "O", "T"}

LEMMA AreSymbols ==
  ASSUME NEW chars, NEW text \in Without(chars)
  PROVE  text \in Seq(Symbols)
<1>1. STRING \subseteq Symbols
  BY DEF Symbols
<1>2. text \in Seq(STRING)
  BY DEF Without
<1> QED
  BY <1>1, <1>2, SeqMonotonic

FieldText(key, value) == <<Backslash>> \o key \o <<Backslash>> \o value

LEMMA FieldTextIs ==
  ASSUME NEW key \in Seq(Symbols), NEW value \in Seq(Symbols)
  PROVE  /\ FieldText(key, value) \in Seq(Symbols)
         /\ Len(key) \in Nat /\ Len(value) \in Nat
         /\ Len(FieldText(key, value)) = 2 + Len(key) + Len(value)
         /\ FieldText(key, value)[1] = Backslash
         /\ FieldText(key, value)[2 + Len(key)] = Backslash
         /\ \A j \in 1 .. Len(key) : FieldText(key, value)[1 + j] = key[j]
         /\ \A j \in 1 .. Len(value) : FieldText(key, value)[2 + Len(key) + j] = value[j]
<1> DEFINE one == <<Backslash>>
           a == one \o key
           b == a \o one
           p == b \o value
<1>1. FieldText(key, value) = p
  BY DEF FieldText, p, b, a, one
<1>2. one \in Seq(Symbols) /\ Len(one) = 1 /\ one[1] = Backslash
  <2>1. Backslash \in Symbols
    BY DEF Symbols
  <2> QED
    BY <2>1
<1>3. Len(key) \in Nat /\ Len(value) \in Nat
  OBVIOUS
<1> HIDE DEF one, a, b, p
<1>4. /\ a \in Seq(Symbols) /\ Len(a) = 1 + Len(key)
      /\ \A i \in 1 .. 1 + Len(key) : a[i] = IF i <= 1 THEN one[i] ELSE key[i - 1]
  <2>1. /\ one \o key \in Seq(Symbols) /\ Len(one \o key) = Len(one) + Len(key)
        /\ \A i \in 1 .. Len(one) + Len(key) :
             (one \o key)[i] = IF i <= Len(one) THEN one[i] ELSE key[i - Len(one)]
    BY ONLY <1>2, key \in Seq(Symbols), ConcatProperties
  <2> QED
    BY <2>1, <1>2, <1>3 DEF a
<1>5. /\ b \in Seq(Symbols) /\ Len(b) = Len(a) + Len(one)
      /\ \A i \in 1 .. Len(a) + Len(one) : b[i] = IF i <= Len(a) THEN a[i] ELSE one[i - Len(a)]
  <2>1. /\ a \o one \in Seq(Symbols) /\ Len(a \o one) = Len(a) + Len(one)
        /\ \A i \in 1 .. Len(a) + Len(one) :
             (a \o one)[i] = IF i <= Len(a) THEN a[i] ELSE one[i - Len(a)]
    BY ONLY <1>2, <1>4, ConcatProperties
  <2> QED
    BY <2>1 DEF b
<1>6. /\ p \in Seq(Symbols) /\ Len(p) = Len(b) + Len(value)
      /\ \A i \in 1 .. Len(b) + Len(value) : p[i] = IF i <= Len(b) THEN b[i] ELSE value[i - Len(b)]
  <2>1. /\ b \o value \in Seq(Symbols) /\ Len(b \o value) = Len(b) + Len(value)
        /\ \A i \in 1 .. Len(b) + Len(value) :
             (b \o value)[i] = IF i <= Len(b) THEN b[i] ELSE value[i - Len(b)]
    <3>1. b \in Seq(Symbols) /\ value \in Seq(Symbols)
      BY <1>5
    <3> QED
      BY ONLY <3>1, ConcatProperties
  <2> QED
    BY <2>1 DEF p
<1>7. Len(b) = 2 + Len(key) /\ Len(p) = 2 + Len(key) + Len(value)
  BY <1>2, <1>3, <1>4, <1>5, <1>6
<1>8. p[1] = Backslash
  <2>1. p[1] = b[1] /\ b[1] = a[1] /\ a[1] = one[1]
    BY <1>2, <1>3, <1>4, <1>5, <1>6, <1>7
  <2> QED
    BY <2>1, <1>2
<1>9. p[2 + Len(key)] = Backslash
  <2>1. p[2 + Len(key)] = b[2 + Len(key)]
    BY <1>3, <1>6, <1>7
  <2>2. b[2 + Len(key)] = one[1]
    BY <1>2, <1>3, <1>4, <1>5
  <2> QED
    BY <2>1, <2>2, <1>2
<1>10. ASSUME NEW j \in 1 .. Len(key) PROVE p[1 + j] = key[j]
  <2>1. p[1 + j] = b[1 + j]
    BY <1>3, <1>6, <1>7
  <2>2. b[1 + j] = a[1 + j]
    BY <1>2, <1>3, <1>4, <1>5
  <2>3. a[1 + j] = key[j]
    BY <1>3, <1>4
  <2> QED
    BY <2>1, <2>2, <2>3
<1>11. ASSUME NEW j \in 1 .. Len(value) PROVE p[2 + Len(key) + j] = value[j]
  <2>1. /\ 2 + Len(key) + j \in 1 .. Len(b) + Len(value) /\ ~(2 + Len(key) + j <= Len(b))
        /\ 2 + Len(key) + j - Len(b) = j
    BY <1>3, <1>7
  <2> QED
    BY <2>1, <1>6
<1> QED
  BY <1>1, <1>3, <1>6, <1>7, <1>8, <1>9, <1>10, <1>11 DEF p

\* Where a field of an infostring lies, and what is found there.
IsField(str, at, n, i, key, value) ==
  /\ str \in Seq(Symbols) /\ Len(str) = at[n]
  /\ at[i] \in Nat /\ at[i - 1] \in Nat /\ Len(key) \in Nat /\ Len(value) \in Nat
  /\ at[i] = at[i - 1] + 2 + Len(key) + Len(value)
  /\ at[i] <= Len(str) /\ (i < n => at[i] + 2 <= Len(str))
  /\ str[at[i - 1] + 1] = Backslash
  /\ find(str, Backslash, at[i - 1] + 2) = at[i - 1] + 2 + Len(key)
  /\ SubSeq(str, at[i - 1] + 2, at[i - 1] + 1 + Len(key)) = key
  /\ find(str, Backslash, at[i - 1] + 3 + Len(key)) =
       IF i < n THEN at[i] + 1
       ELSE IF at[i - 1] + 3 + Len(key) >= Len(str) + 1 THEN at[i - 1] + 3 + Len(key)
       ELSE Len(str) + 1
  /\ SubSeq(str, at[i - 1] + 3 + Len(key), at[i]) = value

LEMMA FieldLies ==
  ASSUME NEW n \in Nat \ {0},
         NEW keys \in [1 .. n -> Without({Backslash})],
         NEW values \in [1 .. n -> Without({Backslash})],
         NEW parts, \A i \in 1 .. n : parts[i] = FieldText(keys[i], values[i]),
         NEW str, str = Flat(parts, n),
         NEW at, at = [i \in 0 .. n |-> Len(Flat(parts, i))],
         NEW i \in 1 .. n
  PROVE  IsField(str, at, n, i, keys[i], values[i])
<1> DEFINE key   == keys[i]
           value == values[i]
           p     == parts[i]
           b     == at[i - 1]
           k     == Len(key)
           v     == Len(value)
<1>1. \A x \in 1 .. n : parts[x] \in Seq(Symbols) /\ Len(parts[x]) \in Nat /\ Len(parts[x]) >= 2
                         /\ parts[x][1] = Backslash
  <2>1. TAKE x \in 1 .. n
  <2>2. keys[x] \in Seq(Symbols) /\ values[x] \in Seq(Symbols)
    <3>1. keys[x] \in Without({Backslash}) /\ values[x] \in Without({Backslash})
      OBVIOUS
    <3> QED
      BY <3>1, AreSymbols
  <2>3. parts[x] = FieldText(keys[x], values[x])
    OBVIOUS
  <2>4. /\ FieldText(keys[x], values[x]) \in Seq(Symbols)
        /\ Len(keys[x]) \in Nat /\ Len(values[x]) \in Nat
        /\ Len(FieldText(keys[x], values[x])) = 2 + Len(keys[x]) + Len(values[x])
        /\ FieldText(keys[x], values[x])[1] = Backslash
    BY ONLY <2>2, FieldTextIs
  <2> QED
    BY <2>3, <2>4
<1>2. /\ key \in Seq(Symbols) /\ value \in Seq(Symbols) /\ k \in Nat /\ v \in Nat
      /\ \A j \in 1 .. k : key[j] # Backslash
      /\ \A j \in 1 .. v : value[j] # Backslash
  <2>1. key \in Without({Backslash}) /\ value \in Without({Backslash})
    OBVIOUS
  <2>2. key \in Seq(Symbols) /\ value \in Seq(Symbols)
    BY <2>1, AreSymbols
  <2> QED
    BY <2>1, <2>2 DEF Without, HasAny
<1>3. /\ p \in Seq(Symbols) /\ Len(p) = 2 + k + v
      /\ p[1] = Backslash /\ p[2 + k] = Backslash
      /\ \A j \in 1 .. k : p[1 + j] = key[j]
      /\ \A j \in 1 .. v : p[2 + k + j] = value[j]
  <2>1. p = FieldText(key, value)
    OBVIOUS
  <2>2. key \in Seq(Symbols) /\ value \in Seq(Symbols)
    BY <1>2
  <2> HIDE DEF key, value, p
  <2>3. /\ FieldText(key, value) \in Seq(Symbols)
        /\ Len(FieldText(key, value)) = 2 + Len(key) + Len(value)
        /\ FieldText(key, value)[1] = Backslash
        /\ FieldText(key, value)[2 + Len(key)] = Backslash
        /\ \A j \in 1 .. Len(key) : FieldText(key, value)[1 + j] = key[j]
        /\ \A j \in 1 .. Len(value) : FieldText(key, value)[2 + Len(key) + j] = value[j]
    BY ONLY <2>2, FieldTextIs
  <2> QED
    BY <2>1, <2>3
<1>4. /\ at[i] = b + Len(p) /\ b \in Nat /\ at[n] = Len(str) /\ at[i] <= Len(str)
      /\ \A j \in 1 .. Len(p) : str[b + j] = p[j]
  <2>1. Lies(parts, i, n)
    <3>1. n \in Nat /\ n \in i .. n /\ \A x \in 1 .. n : parts[x] \in Seq(Symbols)
      BY <1>1
    <3> QED
      BY ONLY <3>1, i \in 1 .. n, PartLies
  <2>2. b = Len(Flat(parts, i - 1)) /\ at[i] = Len(Flat(parts, i)) /\ at[n] = Len(Flat(parts, n))
    <3>1. i - 1 \in 0 .. n /\ i \in 0 .. n /\ n \in 0 .. n
      OBVIOUS
    <3> QED
      BY <3>1
  <2> QED
    BY <2>1, <2>2 DEF Lies
<1>5. str \in Seq(Symbols) /\ Len(str) \in Nat
  <2>1. n \in Nat /\ \A x \in 1 .. n : parts[x] \in Seq(Symbols)
    BY <1>1
  <2>2. Flat(parts, n) \in Seq(Symbols)
    BY ONLY <2>1, FlatType
  <2> QED
    BY <2>2
<1>6. ASSUME i < n PROVE at[i] + 2 <= Len(str) /\ str[at[i] + 1] = Backslash
  <2>1. PICK m \in 1 .. n : m = i + 1 /\ m - 1 = i
    BY <1>6
  <2>2. Lies(parts, m, n)
    <3>1. n \in Nat /\ n \in m .. n /\ \A x \in 1 .. n : parts[x] \in Seq(Symbols)
      BY <1>1
    <3> QED
      BY ONLY <3>1, m \in 1 .. n, PartLies
  <2>3. at[i] = Len(Flat(parts, i)) /\ at[n] = Len(Flat(parts, n))
    <3>1. i \in 0 .. n /\ n \in 0 .. n
      OBVIOUS
    <3> QED
      BY <3>1
  <2>4. Len(parts[m]) \in Nat /\ Len(parts[m]) >= 2 /\ parts[m][1] = Backslash
    BY <1>1
  <2>5. 1 \in 1 .. Len(parts[m])
    BY <2>4
  <2>6. /\ at[n] = Len(str) /\ at[i] \in Nat /\ at[n] >= at[i] + Len(parts[m])
        /\ Flat(parts, n)[at[i] + 1] = parts[m][1]
    <3>1. Len(Flat(parts, m)) = at[i] + Len(parts[m]) /\ at[i] \in Nat
          /\ Len(Flat(parts, m)) <= at[n] /\ Flat(parts, n)[at[i] + 1] = parts[m][1]
      BY ZenonT(40), <2>1, <2>2, <2>3, <2>5 DEF Lies
    <3>2. at[n] = Len(str)
      BY <1>4
    <3> QED
      BY ONLY <3>1, <3>2
  <2>7. str[at[i] + 1] = Backslash
    BY <2>4, <2>6
  <2> HIDE DEF p, b
  <2>8. at[i] + 2 <= Len(str)
    <3>1. at[n] = Len(str) /\ Len(parts[m]) >= 2 /\ at[i] \in Nat /\ Len(parts[m]) \in Nat
          /\ at[n] >= at[i] + Len(parts[m]) /\ Len(str) \in Nat
      BY <1>5, <2>4, <2>6
    <3> QED
      BY ONLY <3>1
  <2> QED
    BY <2>7, <2>8
<1> HIDE DEF key, value, p, b, k, v
<1>7. /\ b + 2 + k \in Nat /\ b + 3 + k \in Nat \ {0} /\ b + 2 \in Nat \ {0}
      /\ at[i] = b + 2 + k + v /\ at[i] \in Nat
  BY <1>2, <1>3, <1>4
<1>8. str[b + 1] = Backslash
  <2>1. 1 \in 1 .. Len(p)
    BY <1>2, <1>3
  <2> QED
    BY <2>1, <1>3, <1>4
<1>9. \A j \in 1 .. k : str[(b + 1) + j] = key[j]
  <2>1. TAKE j \in 1 .. k
  <2>2. 1 + j \in 1 .. Len(p) /\ b + (1 + j) = (b + 1) + j
    BY <1>2, <1>3, <1>4
  <2> QED
    BY <2>2, <1>3, <1>4
<1>10. \A j \in 1 .. v : str[(b + 2 + k) + j] = value[j]
  <2>1. TAKE j \in 1 .. v
  <2>2. 2 + k + j \in 1 .. Len(p) /\ b + (2 + k + j) = (b + 2 + k) + j
    BY <1>2, <1>3, <1>4
  <2> QED
    BY <2>2, <1>3, <1>4
<1>11. str[b + 2 + k] = Backslash
  <2>1. 2 + k \in 1 .. Len(p) /\ b + (2 + k) = b + 2 + k
    BY <1>2, <1>3, <1>4
  <2> QED
    BY <2>1, <1>3, <1>4
<1>12. find(str, Backslash, b + 2) = b + 2 + k
  <2>1. b + 2 + k \in b + 2 .. Len(str)
    BY <1>2, <1>4, <1>5, <1>7
  <2>2. ASSUME NEW j \in b + 2 .. (b + 2 + k) - 1 PROVE str[j] # Backslash
    <3>1. j - (b + 1) \in 1 .. k /\ (b + 1) + (j - (b + 1)) = j
      BY <1>2, <1>4
    <3> QED
      BY <3>1, <1>2, <1>9
  <2> QED
    BY ONLY <2>1, <2>2, <1>5, <1>7, <1>11, IsFound
<1>13. \A j \in b + 3 + k .. at[i] : str[j] # Backslash
  <2>1. TAKE j \in b + 3 + k .. at[i]
  <2>2. j - (b + 2 + k) \in 1 .. v /\ (b + 2 + k) + (j - (b + 2 + k)) = j
    BY <1>2, <1>4, <1>7
  <2> QED
    BY <2>2, <1>2, <1>10
<1>14. i < n => find(str, Backslash, b + 3 + k) = at[i] + 1
  <2>1. SUFFICES ASSUME i < n PROVE find(str, Backslash, b + 3 + k) = at[i] + 1
    OBVIOUS
  <2>2. at[i] + 1 \in b + 3 + k .. Len(str) /\ (at[i] + 1) - 1 = at[i]
        /\ str[at[i] + 1] = Backslash
    <3>1. at[i] + 2 <= Len(str) /\ str[at[i] + 1] = Backslash
      BY <1>6, <2>1
    <3>2. at[i] + 1 \in b + 3 + k .. Len(str) /\ (at[i] + 1) - 1 = at[i]
      <4>1. PICK a \in Nat, d \in Nat : a = at[i] /\ d = Len(str)
        BY <1>5, <1>7
      <4>2. a = b + 2 + k + v /\ a + 2 <= d /\ b \in Nat /\ k \in Nat /\ v \in Nat
        BY <1>2, <1>4, <1>7, <3>1, <4>1
      <4>3. a + 1 \in b + 3 + k .. d /\ (a + 1) - 1 = a
        BY ONLY a \in Nat, d \in Nat, <4>2
      <4> QED
        BY <4>1, <4>3
    <3> QED
      BY <3>1, <3>2
  <2>3. \A j \in b + 3 + k .. (at[i] + 1) - 1 : str[j] # Backslash
    BY <2>2, <1>13
  <2> QED
    BY ONLY <2>2, <2>3, <1>5, <1>7, IsFound
<1>15. i = n => find(str, Backslash, b + 3 + k)
                  = IF b + 3 + k >= Len(str) + 1 THEN b + 3 + k ELSE Len(str) + 1
  <2>1. SUFFICES ASSUME i = n
                 PROVE  find(str, Backslash, b + 3 + k)
                          = IF b + 3 + k >= Len(str) + 1 THEN b + 3 + k ELSE Len(str) + 1
    OBVIOUS
  <2>2. \A j \in b + 3 + k .. Len(str) : str[j] # Backslash
    BY <2>1, <1>4, <1>13
  <2> QED
    BY ONLY <2>2, <1>5, <1>7, IsNotFound
<1>16. SubSeq(str, (b + 1) + 1, b + 1 + k) = key
  <2>1. /\ b + 1 \in Nat /\ b + 1 + k \in Nat /\ k = (b + 1 + k) - (b + 1)
        /\ b + 1 + k <= Len(str) /\ b + 1 <= b + 1 + k
    BY <1>2, <1>4, <1>5, <1>7
  <2>2. Len(key) = (b + 1 + k) - (b + 1) /\ \A j \in 1 .. Len(key) : str[(b + 1) + j] = key[j]
    BY <2>1, <1>9 DEF k
  <2> QED
    BY ONLY <2>1, <2>2, <1>2, <1>5, SubSeqIs
<1>17. SubSeq(str, (b + 2 + k) + 1, at[i]) = value
  <2>1. /\ at[i] \in Nat /\ v = at[i] - (b + 2 + k)
        /\ at[i] <= Len(str) /\ b + 2 + k <= at[i]
    BY <1>2, <1>4, <1>5, <1>7
  <2>2. Len(value) = at[i] - (b + 2 + k)
        /\ \A j \in 1 .. Len(value) : str[(b + 2 + k) + j] = value[j]
    BY <2>1, <1>10 DEF v
  <2> QED
    BY ONLY <2>1, <2>2, <1>2, <1>5, <1>7, SubSeqIs
<1>18. (b + 1) + 1 = b + 2 /\ (b + 2 + k) + 1 = b + 3 + k
  BY <1>2, <1>4
<1>19. find(str, Backslash, b + 3 + k) =
         IF i < n THEN at[i] + 1 ELSE IF b + 3 + k >= Len(str) + 1 THEN b + 3 + k ELSE Len(str) + 1
  <2>1. i < n \/ (i = n /\ ~(i < n))
    OBVIOUS
  <2> QED
    BY <2>1, <1>14, <1>15
<1>20. /\ SubSeq(str, b + 2, b + 1 + k) = key
       /\ SubSeq(str, b + 3 + k, at[i]) = value
  BY <1>16, <1>17, <1>18
<1>21. /\ str \in Seq(Symbols) /\ Len(str) = at[n]
       /\ at[i] \in Nat /\ b \in Nat /\ k \in Nat /\ v \in Nat
       /\ at[i] = b + 2 + k + v
       /\ at[i] <= Len(str) /\ (i < n => at[i] + 2 <= Len(str))
  BY <1>2, <1>4, <1>5, <1>6, <1>7
<1> QED
  BY ONLY <1>8, <1>12, <1>19, <1>20, <1>21 DEF IsField, key, value, b, k, v

\* An info holds fields from the i-th on, under their keys in lower case, and for each
\* key one of them; only the last one may be missing, if it is empty.
HoldsFrom(info, keys, values, i, n) ==
  /\ \A name \in DOMAIN info :
       \E j \in i .. n : name = Lowered(keys[j]) /\ info[name] = values[j]
  /\ \A j \in i .. n : Lowered(keys[j]) \in DOMAIN info \/ (j = n /\ values[j] = << >>)

LEMMA FieldJoins ==
  ASSUME NEW n \in Nat \ {0}, NEW keys, NEW values, NEW i \in 1 .. n,
         NEW info, HoldsFrom(info, keys, values, i + 1, n)
  PROVE  HoldsFrom(WithField(info, Lowered(keys[i]), values[i]), keys, values, i, n)
<1> DEFINE key == Lowered(keys[i])
           new == WithField(info, key, values[i])
<1>1. DOMAIN new = DOMAIN info \cup {key}
  BY DEF WithField
<1>2. \A k \in DOMAIN info : new[k] = info[k]
  BY DEF WithField
<1>3. key \notin DOMAIN info => new[key] = values[i]
  BY DEF WithField
<1>4. i \in i .. n /\ \A j \in i + 1 .. n : j \in i .. n
  OBVIOUS
<1>5. \A j \in i .. n : j = i \/ j \in i + 1 .. n
  OBVIOUS
<1> HIDE DEF new
<1>6. ASSUME NEW name \in DOMAIN new
      PROVE  \E j \in i .. n : name = Lowered(keys[j]) /\ new[name] = values[j]
  <2>1. CASE name \in DOMAIN info
    BY <1>2, <1>4, <2>1 DEF HoldsFrom
  <2>2. CASE name \notin DOMAIN info
    BY <1>1, <1>3, <1>4, <2>2
  <2> QED
    BY <2>1, <2>2
<1>7. ASSUME NEW j \in i .. n
      PROVE  Lowered(keys[j]) \in DOMAIN new \/ (j = n /\ values[j] = << >>)
  BY <1>1, <1>5 DEF HoldsFrom
<1> QED
  BY <1>6, <1>7 DEF HoldsFrom, new, key

LEMMA FieldIsRead ==
  ASSUME NEW n \in Nat \ {0}, NEW keys, NEW values, NEW i \in 1 .. n,
         values[i] \in Seq(Symbols),
         NEW str, NEW at, IsField(str, at, n, i, keys[i], values[i]),
         NEW f, \A j \in 2 .. Len(str) + 1 : f[j] = InfoAt(str, f, j),
         i < n => HoldsFrom(f[at[i] + 2], keys, values, i + 1, n)
  PROVE  HoldsFrom(f[at[i - 1] + 2], keys, values, i, n)
<1> DEFINE k == Len(keys[i])
           v == Len(values[i])
           b == at[i - 1]
           e == at[i]
           L == Len(str)
           valueEnd == IF i < n THEN e + 1 ELSE IF b + 3 + k >= L + 1 THEN b + 3 + k ELSE L + 1
           rest == IF valueEnd > L THEN << >> ELSE f[valueEnd + 1]
<1>1. /\ L = at[n] /\ e \in Nat /\ b \in Nat /\ k \in Nat /\ v \in Nat /\ e = b + 2 + k + v
      /\ e <= L /\ (i < n => e + 2 <= L) /\ L \in Nat
      /\ find(str, Backslash, b + 2) = b + 2 + k
      /\ SubSeq(str, b + 2, b + 1 + k) = keys[i]
      /\ find(str, Backslash, b + 3 + k) = valueEnd
      /\ SubSeq(str, b + 3 + k, e) = values[i]
  <2>1. L \in Nat
    BY DEF IsField
  <2>2. /\ L = at[n] /\ e \in Nat /\ b \in Nat /\ k \in Nat /\ v \in Nat /\ e = b + 2 + k + v
        /\ e <= L /\ (i < n => e + 2 <= L)
    BY DEF IsField
  <2>3. /\ find(str, Backslash, b + 2) = b + 2 + k
        /\ SubSeq(str, b + 2, b + 1 + k) = keys[i]
        /\ find(str, Backslash, b + 3 + k) = valueEnd
        /\ SubSeq(str, b + 3 + k, e) = values[i]
    BY DEF IsField
  <2> HIDE DEF valueEnd, L, e, b, k, v
  <2> QED
    BY <2>1, <2>2, <2>3
<1>2. f[b + 2] = InfoAt(str, f, b + 2)
  <2>1. b + 2 \in 2 .. Len(str) + 1
    <3> HIDE DEF b, k, v, e
    <3> QED
      BY <1>1
  <2> QED
    BY <2>1
<1>3. i = n => e = L
  BY <1>1
<1> HIDE DEF k, v, b, e, L, valueEnd, rest
<1>4. (b + 2 + k) - 1 = b + 1 + k /\ (b + 2 + k) + 1 = b + 3 + k
  BY <1>1
<1>5. CASE b + 2 + k >= L
  <2>1. InfoAt(str, f, b + 2) = << >>
    BY <1>1, <1>5 DEF InfoAt, L
  <2>2. i = n /\ v = 0
    BY <1>1, <1>3, <1>5
  <2>3. values[i] = << >>
    BY <2>2 DEF v
  <2>4. HoldsFrom(<< >>, keys, values, i, n)
    <3>1. \A j \in i .. n : j = i
      BY <2>2
    <3>2. DOMAIN << >> = {}
      OBVIOUS
    <3> QED
      BY <2>2, <2>3, <3>1, <3>2 DEF HoldsFrom
  <2> QED
    BY <1>2, <2>1, <2>4 DEF b
<1>6. CASE ~(b + 2 + k >= L)
  <2>1. valueEnd - 1 = e
    BY <1>1, <1>3, <1>6 DEF valueEnd
  <2>2. InfoAt(str, f, b + 2) = WithField(rest, Lowered(keys[i]), values[i])
    <3>1. SubSeq(str, b + 2, (b + 2 + k) - 1) = keys[i]
      BY <1>1, <1>4
    <3>2. find(str, Backslash, (b + 2 + k) + 1) = valueEnd
      BY <1>1, <1>4
    <3>3. SubSeq(str, (b + 2 + k) + 1, valueEnd - 1) = values[i]
      BY <1>1, <1>4, <2>1
    <3> QED
      BY <1>1, <1>6, <3>1, <3>2, <3>3 DEF InfoAt, rest, L
  <2>3. HoldsFrom(rest, keys, values, i + 1, n)
    <3>1. CASE i < n
      <4>1. valueEnd = e + 1 /\ ~(valueEnd > L) /\ valueEnd + 1 = e + 2
        BY <1>1, <3>1 DEF valueEnd
      <4> QED
        BY <3>1, <4>1 DEF rest, e
    <3>2. CASE ~(i < n)
      <4>1. valueEnd > L
        BY <1>1, <3>2 DEF valueEnd
      <4>2. i + 1 .. n = {}
        BY <3>2
      <4>3. DOMAIN << >> = {}
        OBVIOUS
      <4> QED
        BY <4>1, <4>2, <4>3 DEF rest, HoldsFrom
    <3> QED
      BY <3>1, <3>2
  <2>4. HoldsFrom(WithField(rest, Lowered(keys[i]), values[i]), keys, values, i, n)
    BY <2>3, FieldJoins
  <2> QED
    BY <1>2, <2>2, <2>4 DEF b
<1> QED
  BY <1>5, <1>6

LEMMA FieldsAreRead ==
  ASSUME NEW n \in Nat \ {0},
         NEW keys \in [1 .. n -> Without({Backslash})],
         NEW values \in [1 .. n -> Without({Backslash})],
         NEW parts, \A i \in 1 .. n : parts[i] = FieldText(keys[i], values[i])
  PROVE  /\ Flat(parts, n) \in Seq(Symbols)
         /\ HoldsFrom(fromInfostring(Flat(parts, n)), keys, values, 1, n)
<1> DEFINE str == Flat(parts, n)
           at  == [i \in 0 .. n |-> Len(Flat(parts, i))]
<1>1. ASSUME NEW i \in 1 .. n PROVE IsField(str, at, n, i, keys[i], values[i])
  <2>1. str = Flat(parts, n) /\ at = [j \in 0 .. n |-> Len(Flat(parts, j))]
    OBVIOUS
  <2> HIDE DEF str, at
  <2> QED
    BY <2>1, FieldLies
<1>2. at[0] = 0
  BY FlatNone
<1> HIDE DEF str, at
<1>3. /\ str \in Seq(Symbols) /\ Len(str) \in Nat /\ Len(str) >= 2 /\ str[1] = Backslash
  <2>1. PICK i \in 1 .. n : i = 1 /\ i - 1 = 0
    OBVIOUS
  <2>2. IsField(str, at, n, i, keys[i], values[i])
    BY <1>1
  <2>3. str \in Seq(Symbols) /\ at[i] = at[0] + 2 + Len(keys[i]) + Len(values[i])
        /\ Len(keys[i]) \in Nat /\ Len(values[i]) \in Nat /\ at[i] <= Len(str)
        /\ str[at[0] + 1] = Backslash
    BY <2>1, <2>2 DEF IsField
  <2> QED
    BY <1>2, <2>3
<1>4. PICK f : /\ \A j \in 2 .. Len(str) + 1 : f[j] = InfoAt(str, f, j)
               /\ fromInfostring(str) = f[2]
  BY <1>3, InfoIs
<1> DEFINE S == {d \in Nat : d < n => HoldsFrom(f[at[n - d - 1] + 2], keys, values, n - d, n)}
<1>5. ASSUME NEW i \in 1 .. n, i < n => HoldsFrom(f[at[i] + 2], keys, values, i + 1, n)
      PROVE  HoldsFrom(f[at[i - 1] + 2], keys, values, i, n)
  <2>1. IsField(str, at, n, i, keys[i], values[i])
    BY <1>1
  <2>2. values[i] \in Seq(Symbols)
    <3>1. values[i] \in Without({Backslash})
      OBVIOUS
    <3> QED
      BY <3>1, AreSymbols
  <2> QED
    BY ONLY <1>4, <1>5, <2>1, <2>2, n \in Nat \ {0}, FieldIsRead
<1>6. 0 \in S
  <2>1. PICK i \in 1 .. n : i = n /\ ~(i < n) /\ i - 1 = n - 0 - 1 /\ n - 0 = i
    OBVIOUS
  <2>2. HoldsFrom(f[at[i - 1] + 2], keys, values, i, n)
    BY <1>5, <2>1
  <2> QED
    BY <2>1, <2>2
<1>7. ASSUME NEW d \in S PROVE d + 1 \in S
  <2>1. SUFFICES ASSUME d + 1 < n
                 PROVE HoldsFrom(f[at[n - (d + 1) - 1] + 2], keys, values, n - (d + 1), n)
    OBVIOUS
  <2>2. d \in Nat /\ d < n /\ HoldsFrom(f[at[n - d - 1] + 2], keys, values, n - d, n)
    BY <2>1
  <2>3. PICK i \in 1 .. n : i = n - d - 1 /\ i + 1 = n - d /\ i = n - (d + 1)
                            /\ i - 1 = n - (d + 1) - 1
    BY <2>1, <2>2
  <2>4. HoldsFrom(f[at[i] + 2], keys, values, i + 1, n)
    BY <2>2, <2>3
  <2>5. HoldsFrom(f[at[i - 1] + 2], keys, values, i, n)
    BY <1>5, <2>4
  <2> QED
    BY <2>3, <2>5
<1>8. S = Nat
  <2>1. S \in SUBSET Nat
    OBVIOUS
  <2> HIDE DEF S
  <2> QED
    BY <1>6, <1>7, <2>1, SetInduction
<1>9. HoldsFrom(f[2], keys, values, 1, n)
  <2>1. PICK d \in Nat : d = n - 1 /\ d < n /\ n - d - 1 = 0 /\ n - d = 1
    OBVIOUS
  <2>2. d \in S
    BY <1>8
  <2> QED
    BY <2>1, <2>2, <1>2
<1> QED
  BY <1>3, <1>4, <1>9 DEF str

LEMMA InfoIsRead ==
  ASSUME NEW info \in Infos
  PROVE  /\ toInfostring(info) \in Seq(Symbols)
         /\ \A name :
              getField(fromInfostring(toInfostring(info)), name) \in ValuesTold(info, name)
<1> DEFINE D == DOMAIN info
           n == Cardinality(D)
           keys == SetToSeq(D)
           values == [i \in 1 .. n |-> info[keys[i]]]
           parts == [i \in 1 .. n |-> FieldText(keys[i], values[i])]
           str == toInfostring(info)
<1>1. D \subseteq Keys /\ IsFiniteSet(D) /\ D \subseteq Without({Backslash})
      /\ \A k \in D : info[k] \in Without({Backslash})
  <2>1. PICK ks \in SUBSET Keys : info \in [ks -> Values]
    BY DEF Infos
  <2>2. D = ks /\ \A k \in D : info[k] \in Values
    BY <2>1
  <2>3. IsFiniteSet(D)
    BY <2>2, FS_Subset, PacketsAssumption
  <2> QED
    BY <2>2, <2>3, PacketsAssumption
<1> HIDE DEF D
<1>2. n \in Nat /\ \E f \in [1 .. n -> D] : IsInjective(f)
  <2>1. n \in Nat /\ ExistsBijection(1 .. n, D)
    BY <1>1, FS_CardinalityType
  <2> QED
    BY <2>1 DEF ExistsBijection, Bijection, Injection
<1>3. keys \in [1 .. n -> D] /\ IsInjective(keys)
  BY <1>2 DEF SetToSeq
<1>4. \A k \in D : \E i \in 1 .. n : keys[i] = k
  <2>1. keys \in Injection(1 .. n, D)
    BY <1>3 DEF Injection
  <2>2. IsFiniteSet(1 .. n) /\ Cardinality(1 .. n) = n
    BY <1>2, FS_Interval
  <2> HIDE DEF n, keys
  <2>3. keys \in Surjection(1 .. n, D)
    BY <1>1, <2>1, <2>2, FS_Injection DEF n
  <2> QED
    BY <2>3 DEF Surjection
<1>5. str = Flat(parts, n)
  BY DEF toInfostring, FieldText, Flat, D
<1> HIDE DEF n, keys, str
<1>6. CASE n = 0
  <2>1. str = << >>
    BY <1>5, <1>6, FlatNone
  <2>2. D = {}
    BY <1>4, <1>6
  <2>3. fromInfostring(str) = << >>
    BY <2>1 DEF fromInfostring
  <2>4. << >> \in Seq(Symbols) /\ DOMAIN << >> = {}
    OBVIOUS
  <2>5. \A name : ValuesTold(info, name) = {<< >>}
    BY <2>2 DEF ValuesTold, D
  <2>6. \A name : getField(<< >>, name) = << >>
    BY <2>4 DEF getField
  <2> QED
    BY <2>1, <2>3, <2>4, <2>5, <2>6 DEF str
<1>7. CASE n # 0
  <2>1. keys \in [1 .. n -> Without({Backslash})] /\ values \in [1 .. n -> Without({Backslash})]
    BY <1>1, <1>3
  <2>2. \A i \in 1 .. n : keys[i] \in D
    BY <1>3
  <2>3. \A i \in 1 .. n : parts[i] = FieldText(keys[i], values[i])
    OBVIOUS
  <2>4. \A i \in 1 .. n : values[i] = info[keys[i]]
    OBVIOUS
  <2>5. n \in Nat \ {0}
    BY <1>2, <1>7
  <2> HIDE DEF values, parts
  <2>6. str \in Seq(Symbols) /\ HoldsFrom(fromInfostring(str), keys, values, 1, n)
    BY ONLY <1>5, <2>1, <2>3, <2>5, FieldsAreRead
  <2>7. ASSUME NEW name PROVE getField(fromInfostring(str), name) \in ValuesTold(info, name)
    <3> DEFINE found == fromInfostring(str)
               told  == {info[key] : key \in {k \in DOMAIN info : Lowered(k) = name}}
    <3>1. ValuesTold(info, name) = IF told = {} THEN {<< >>} ELSE told
      BY DEF ValuesTold
    <3>2. \A i \in 1 .. n : Lowered(keys[i]) = name => values[i] \in told
      BY <2>2, <2>4 DEF D
    <3>3. ASSUME told # {} PROVE \E i \in 1 .. n : Lowered(keys[i]) = name
      <4>1. PICK k \in D : Lowered(k) = name
        BY <3>3 DEF D
      <4> QED
        BY <1>4, <4>1
    <3> HIDE DEF told, found
    <3>4. CASE name \in DOMAIN found
      <4>1. PICK i \in 1 .. n : name = Lowered(keys[i]) /\ found[name] = values[i]
        BY <2>6, <3>4 DEF HoldsFrom, found
      <4>2. found[name] \in told
        BY <3>2, <4>1
      <4> QED
        BY <3>1, <3>4, <4>2 DEF getField, found
    <3>5. CASE name \notin DOMAIN found
      <4>1. getField(found, name) = << >>
        BY <3>5 DEF getField
      <4>2. CASE told = {}
        BY <3>1, <4>1, <4>2 DEF found
      <4>3. CASE told # {}
        <5>1. PICK i \in 1 .. n : Lowered(keys[i]) = name
          BY <3>3, <4>3
        <5>2. values[i] = << >>
          BY <2>6, <3>5, <5>1 DEF HoldsFrom, found
        <5> QED
          BY <3>1, <3>2, <4>1, <4>3, <5>1, <5>2 DEF found
      <4> QED
        BY <4>2, <4>3
    <3> QED
      BY <3>4, <3>5
  <2> QED
    BY <2>6, <2>7 DEF str
<1> QED
  BY <1>6, <1>7

-----------------------------------------------------------------------------
(* The servers of a list.                                                  *)

\* What is read from place i on, given what is read from later ones.
ServersAt(data, f, i) ==
  LET start == find(data, Backslash, i) + 1
      next  == start + AddressSize
      ends  == next + 3 <= Len(data) /\ SubSeq(data, next + 1, next + 3) = EOT
  IN  IF i >= Len(data) \/ ~ServersFit(data, start) \/ data[next] # Backslash THEN << >>
      ELSE <<SubSeq(data, start, next - 1)>> \o (IF ends THEN << >> ELSE f[next])

AreServers(data, f, n) == f = [i \in n .. Len(data) + 2 |-> ServersAt(data, f, i)]

LEMMA ServersExist ==
  ASSUME NEW data, Len(data) \in Nat
  PROVE  \E f : AreServers(data, f, 1)
<1> DEFINE L == Len(data) + 2
           S == {d \in Nat : d <= L - 1 => \E f : AreServers(data, f, L - d)}
<1>1. 0 \in S
  <2> DEFINE f == [i \in L .. L |-> << >>]
  <2>1. \A x : ServersAt(data, x, L) = << >>
    <3>1. L >= Len(data)
      OBVIOUS
    <3> QED
      BY <3>1 DEF ServersAt
  <2>2. f = [i \in L .. L |-> ServersAt(data, f, i)]
    <3>1. \A i \in L .. L : i = L
      OBVIOUS
    <3> QED
      BY <2>1, <3>1
  <2> HIDE DEF f
  <2>3. AreServers(data, f, L)
    BY <2>2 DEF AreServers
  <2>4. L - 0 = L
    OBVIOUS
  <2> QED
    BY <2>3, <2>4
<1>2. ASSUME NEW d \in S PROVE d + 1 \in S
  <2>1. SUFFICES ASSUME d + 1 <= L - 1 PROVE \E f : AreServers(data, f, L - (d + 1))
    OBVIOUS
  <2>2. d \in Nat /\ d <= L - 1
    BY <2>1
  <2>3. PICK f : AreServers(data, f, L - d)
    BY <2>2
  <2>4. PICK n \in Nat : n = L - (d + 1) /\ n + 1 = L - d /\ 1 <= n /\ n <= Len(data) + 1
    <3>1. L \in Nat /\ Len(data) + 1 = L - 1
      OBVIOUS
    <3> HIDE DEF L
    <3>2. L - (d + 1) \in Nat /\ (L - (d + 1)) + 1 = L - d /\ 1 <= L - (d + 1)
          /\ L - (d + 1) <= L - 1
      BY <2>1, <2>2, <3>1
    <3> QED
      BY <3>1, <3>2
  <2> DEFINE h == [i \in n .. L |-> IF i = n THEN ServersAt(data, f, n) ELSE f[i]]
  <2>5. f = [i \in n + 1 .. L |-> ServersAt(data, f, i)]
    BY <2>3, <2>4 DEF AreServers
  <2>6. ASSUME NEW i \in n .. L PROVE ServersAt(data, h, i) = ServersAt(data, f, i)
    <3> DEFINE next == find(data, Backslash, i) + 1 + AddressSize
    <3>1. find(data, Backslash, i) \in Nat /\ find(data, Backslash, i) >= i
      <4>1. i \in Nat \ {0}
        BY <2>4
      <4> QED
        BY <4>1, FoundBehind
    <3>2. next > Len(data) \/ h[next] = f[next]
      <4>1. next \in Nat /\ next > i
        BY <3>1 DEF AddressSize
      <4> HIDE DEF next
      <4>2. SUFFICES ASSUME ~(next > Len(data)) PROVE h[next] = f[next]
        OBVIOUS
      <4>3. next \in n .. L /\ next # n
        BY <4>1, <4>2, <2>4
      <4> QED
        BY <4>3
    <3>3. ServersFit(data, find(data, Backslash, i) + 1) => ~(next > Len(data))
      BY <3>1 DEF ServersFit, AddressSize
    <3> HIDE DEF h
    <3> QED
      BY <3>2, <3>3 DEF ServersAt
  <2>7. ASSUME NEW i \in n .. L PROVE h[i] = ServersAt(data, h, i)
    <3>1. CASE i = n
      <4>1. h[i] = ServersAt(data, f, n)
        BY <3>1
      <4> HIDE DEF h
      <4> QED
        BY <4>1, <3>1, <2>6
    <3>2. CASE i # n
      <4>1. h[i] = f[i] /\ i \in n + 1 .. L
        BY <3>2, <2>4
      <4>2. f[i] = ServersAt(data, f, i)
        BY <4>1, <2>5
      <4> HIDE DEF h
      <4> QED
        BY <4>1, <4>2, <2>6
    <3> QED
      BY <3>1, <3>2
  <2>8. h = [i \in n .. L |-> h[i]]
    OBVIOUS
  <2> HIDE DEF h
  <2>9. h = [i \in n .. L |-> ServersAt(data, h, i)]
    BY <2>7, <2>8
  <2>10. AreServers(data, h, n)
    BY <2>9 DEF AreServers
  <2> QED
    BY <2>4, <2>10
<1>3. S = Nat
  <2>1. S \in SUBSET Nat
    OBVIOUS
  <2> HIDE DEF S
  <2> QED
    BY <1>1, <1>2, <2>1, SetInduction
<1>4. L - 1 \in Nat /\ L - (L - 1) = 1
  OBVIOUS
<1>5. \A d \in Nat : d <= L - 1 => \E f : AreServers(data, f, L - d)
  BY <1>3
<1> HIDE DEF L
<1>6. \E f : AreServers(data, f, L - (L - 1))
  <2>1. PICK d \in Nat : d = L - 1 /\ d <= L - 1
    BY <1>4
  <2> QED
    BY <1>5, <2>1
<1> QED
  BY <1>4, <1>6

LEMMA ServersAre ==
  ASSUME NEW data, Len(data) \in Nat
  PROVE  \E f : /\ \A i \in 1 .. Len(data) + 2 : f[i] = ServersAt(data, f, i)
                /\ parseServers(data) = f[1]
<1> DEFINE f == CHOOSE g : AreServers(data, g, 1)
<1>1. AreServers(data, f, 1)
  BY ServersExist
<1>2. parseServers(data) = f[1]
  BY DEF parseServers, AreServers, ServersAt
<1> HIDE DEF f
<1>3. \A i \in 1 .. Len(data) + 2 : f[i] = ServersAt(data, f, i)
  BY <1>1 DEF AreServers
<1> QED
  BY <1>2, <1>3

ServerText(address) == <<Backslash>> \o address

\* How the n servers of a list lie in its data, and what is behind them.
AreListed(data, servers, n, end) ==
  /\ data \in Seq(Symbols) /\ Len(data) = 7 * n + 1 + Len(end) /\ Len(end) \in Nat
  /\ \A i \in 1 .. n : \A j \in 1 .. AddressSize : data[7 * (i - 1) + 1 + j] = servers[i][j]
  /\ \A i \in 1 .. n + 1 : data[7 * (i - 1) + 1] = Backslash
  /\ \A j \in 1 .. Len(end) : data[7 * n + 1 + j] = end[j]

LEMMA EndIsText == EOT \in Seq(Symbols) /\ Len(EOT) = 3
<1>1. "E" \in Symbols /\ "O" \in Symbols /\ "T" \in Symbols
  BY DEF Symbols
<1> QED
  BY <1>1 DEF EOT

LEMMA AddressIs ==
  \A address \in Addresses : address \in Seq(Symbols) /\ Len(address) = 6
<1> TAKE address \in Addresses
<1>1. address \in [1 .. 6 -> STRING]
  BY PacketsAssumption DEF AddressSize
<1>2. address \in [1 .. 6 -> Symbols]
  BY <1>1 DEF Symbols
<1>3. address = [i \in 1 .. 6 |-> address[i]] /\ \A i \in 1 .. 6 : address[i] \in Symbols
  BY <1>2
<1>4. [i \in 1 .. 6 |-> address[i]] \in Seq(Symbols) /\ Len([i \in 1 .. 6 |-> address[i]]) = 6
  BY <1>3
<1> QED
  BY <1>3, <1>4

LEMMA ServersLie ==
  ASSUME NEW n \in Nat, NEW servers, \A i \in 1 .. n : servers[i] \in Addresses,
         NEW parts, \A i \in 1 .. n : parts[i] = ServerText(servers[i]),
         NEW end \in {<< >>, EOT}
  PROVE  AreListed(Flat(parts, n) \o ServerText(end), servers, n, end)
<1> DEFINE flat == Flat(parts, n)
           last == ServerText(end)
           data == flat \o last
           one  == <<Backslash>>
<1>1. one \in Seq(Symbols) /\ Len(one) = 1 /\ one[1] = Backslash
  <2>1. Backslash \in Symbols
    BY DEF Symbols
  <2> QED
    BY <2>1
<1> HIDE DEF one
<1>2. ASSUME NEW text \in Seq(Symbols)
      PROVE  /\ ServerText(text) \in Seq(Symbols) /\ Len(ServerText(text)) = 1 + Len(text)
             /\ Len(text) \in Nat /\ ServerText(text)[1] = Backslash
             /\ \A j \in 1 .. Len(text) : ServerText(text)[1 + j] = text[j]
  <2>1. /\ one \o text \in Seq(Symbols) /\ Len(one \o text) = Len(one) + Len(text)
        /\ \A i \in 1 .. Len(one) + Len(text) :
             (one \o text)[i] = IF i <= Len(one) THEN one[i] ELSE text[i - Len(one)]
    BY ONLY <1>1, <1>2, ConcatProperties
  <2>2. ServerText(text) = one \o text /\ Len(text) \in Nat
    BY DEF ServerText, one
  <2> QED
    BY <1>1, <2>1, <2>2
<1>3. \A i \in 1 .. n : servers[i] \in Seq(Symbols) /\ Len(servers[i]) = 6
  <2>1. TAKE i \in 1 .. n
  <2> QED
    BY AddressIs
<1>4. \A i \in 1 .. n : /\ parts[i] \in Seq(Symbols) /\ Len(parts[i]) = 7 /\ parts[i][1] = Backslash
                         /\ \A j \in 1 .. 6 : parts[i][1 + j] = servers[i][j]
  <2>1. TAKE i \in 1 .. n
  <2>2. parts[i] = ServerText(servers[i]) /\ servers[i] \in Seq(Symbols) /\ Len(servers[i]) = 6
    BY <1>3
  <2>3. /\ ServerText(servers[i]) \in Seq(Symbols)
        /\ Len(ServerText(servers[i])) = 1 + Len(servers[i])
        /\ ServerText(servers[i])[1] = Backslash
        /\ \A j \in 1 .. Len(servers[i]) : ServerText(servers[i])[1 + j] = servers[i][j]
    BY <1>2, <2>2
  <2> QED
    BY <2>2, <2>3
<1>5. \A i \in 1 .. n : Lies(parts, i, n)
  <2>1. TAKE i \in 1 .. n
  <2>2. \A x \in 1 .. n : parts[x] \in Seq(Symbols)
    BY <1>4
  <2>3. n \in i .. n
    OBVIOUS
  <2> QED
    BY ONLY <2>2, <2>3, n \in Nat, i \in 1 .. n, PartLies
<1>6. \A k \in 0 .. n : Len(Flat(parts, k)) = 7 * k
  <2> DEFINE S == {k \in Nat : k <= n => Len(Flat(parts, k)) = 7 * k}
  <2>1. 0 \in S
    BY FlatNone
  <2>2. ASSUME NEW k \in S PROVE k + 1 \in S
    <3>1. SUFFICES ASSUME k + 1 <= n PROVE Len(Flat(parts, k + 1)) = 7 * (k + 1)
      OBVIOUS
    <3>2. k \in Nat /\ Len(Flat(parts, k)) = 7 * k
      BY <3>1
    <3>3. PICK i \in 1 .. n : i = k + 1 /\ i - 1 = k
      BY <3>1, <3>2
    <3>4. Len(Flat(parts, i)) = Len(Flat(parts, i - 1)) + 7
      BY <1>4, <1>5 DEF Lies
    <3>5. Len(Flat(parts, k + 1)) = 7 * k + 7
      BY <3>2, <3>3, <3>4
    <3> QED
      BY ONLY <3>2, <3>5
  <2>3. S = Nat
    <3>1. S \in SUBSET Nat
      OBVIOUS
    <3> HIDE DEF S
    <3> QED
      BY <2>1, <2>2, <3>1, SetInduction
  <2>4. \A k \in 0 .. n : k \in S /\ k <= n
    BY <2>3
  <2> QED
    BY <2>4
<1>7. flat \in Seq(Symbols) /\ Len(flat) = 7 * n
  <2>1. \A x \in 1 .. n : parts[x] \in Seq(Symbols)
    BY <1>4
  <2>2. flat \in Seq(Symbols)
    BY ONLY <2>1, n \in Nat, FlatType
  <2>3. n \in 0 .. n
    OBVIOUS
  <2> QED
    BY <1>6, <2>2, <2>3
<1>8. end \in Seq(Symbols)
  <2>1. << >> \in Seq(Symbols)
    OBVIOUS
  <2>2. EOT \in Seq(Symbols)
    <3>1. "E" \in Symbols /\ "O" \in Symbols /\ "T" \in Symbols
      BY DEF Symbols
    <3> QED
      BY <3>1 DEF EOT
  <2> QED
    BY <2>1, <2>2
<1>9. /\ last \in Seq(Symbols) /\ Len(last) = 1 + Len(end) /\ Len(end) \in Nat
      /\ last[1] = Backslash /\ \A j \in 1 .. Len(end) : last[1 + j] = end[j]
  BY <1>2, <1>8
<1> HIDE DEF flat, last
<1>10. /\ flat \o last \in Seq(Symbols) /\ Len(flat \o last) = Len(flat) + Len(last)
       /\ \A i \in 1 .. Len(flat) + Len(last) :
            (flat \o last)[i] = IF i <= Len(flat) THEN flat[i] ELSE last[i - Len(flat)]
  <2>1. flat \in Seq(Symbols) /\ last \in Seq(Symbols)
    BY <1>7, <1>9
  <2> QED
    BY ONLY <2>1, ConcatProperties
<1>11. ASSUME NEW i \in 1 .. n, NEW j \in 1 .. 7 PROVE data[7 * (i - 1) + j] = parts[i][j]
  <2>1. i - 1 \in 0 .. n /\ 7 * (i - 1) + j \in 1 .. 7 * n
    OBVIOUS
  <2>2. flat[7 * (i - 1) + j] = parts[i][j]
    <3>1. Lies(parts, i, n) /\ Len(Flat(parts, i - 1)) = 7 * (i - 1) /\ Len(parts[i]) = 7
      BY <1>4, <1>5, <1>6, <2>1
    <3> QED
      BY <3>1 DEF Lies, flat
  <2>3. 7 * (i - 1) + j \in 1 .. Len(flat) + Len(last) /\ 7 * (i - 1) + j <= Len(flat)
    BY <1>7, <1>9, <2>1
  <2> QED
    BY <1>10, <2>2, <2>3
<1>12. ASSUME NEW j \in 1 .. 1 + Len(end) PROVE data[7 * n + j] = last[j]
  <2>1. /\ 7 * n + j \in 1 .. Len(flat) + Len(last) /\ ~(7 * n + j <= Len(flat))
        /\ 7 * n + j - Len(flat) = j
    BY <1>7, <1>9
  <2> QED
    BY <1>10, <2>1
<1> HIDE DEF data
<1>13. data \in Seq(Symbols) /\ Len(data) = 7 * n + 1 + Len(end)
  BY <1>7, <1>9, <1>10 DEF data
<1>14. ASSUME NEW i \in 1 .. n, NEW j \in 1 .. 6 PROVE data[7 * (i - 1) + 1 + j] = servers[i][j]
  <2>1. 1 + j \in 1 .. 7 /\ 7 * (i - 1) + (1 + j) = 7 * (i - 1) + 1 + j
    OBVIOUS
  <2>2. data[7 * (i - 1) + (1 + j)] = parts[i][1 + j]
    BY <1>11, <2>1
  <2> QED
    BY <1>4, <2>1, <2>2
<1>15. ASSUME NEW i \in 1 .. n + 1 PROVE data[7 * (i - 1) + 1] = Backslash
  <2>1. CASE i \in 1 .. n
    <3>1. 1 \in 1 .. 7
      OBVIOUS
    <3> QED
      BY <1>4, <1>11, <2>1, <3>1
  <2>2. CASE i \notin 1 .. n
    <3>1. i - 1 = n /\ 1 \in 1 .. 1 + Len(end)
      BY <1>9, <2>2
    <3> QED
      BY <1>9, <1>12, <3>1
  <2> QED
    BY <2>1, <2>2
<1>16. ASSUME NEW j \in 1 .. Len(end) PROVE data[7 * n + 1 + j] = end[j]
  <2>1. 1 + j \in 1 .. 1 + Len(end) /\ 7 * n + (1 + j) = 7 * n + 1 + j
    BY <1>9
  <2> QED
    BY <1>9, <1>12, <2>1
<1> QED
  BY <1>9, <1>13, <1>14, <1>15, <1>16 DEF AreListed, AddressSize, data, flat, last

\* A list has the servers from the i-th on.
ListsFrom(list, servers, i, n) ==
  /\ list \in Seq(Addresses) /\ Len(list) = n + 1 - i
  /\ \A j \in 1 .. n + 1 - i : list[j] = servers[i + j - 1]

LEMMA ListsNone ==
  ASSUME NEW servers, NEW n \in Nat
  PROVE  ListsFrom(<< >>, servers, n + 1, n)
<1>1. << >> \in Seq(Addresses) /\ Len(<< >>) = 0 /\ n + 1 - (n + 1) = 0
  OBVIOUS
<1>2. 1 .. 0 = {}
  OBVIOUS
<1> QED
  BY <1>1, <1>2 DEF ListsFrom

LEMMA ServerIsRead ==
  ASSUME NEW n \in Nat, NEW servers, \A i \in 1 .. n : servers[i] \in Addresses,
         NEW end \in {<< >>, EOT}, NEW data, AreListed(data, servers, n, end),
         NEW f, \A j \in 1 .. Len(data) + 2 : f[j] = ServersAt(data, f, j),
         NEW i \in 1 .. n, i < n => ListsFrom(f[7 * i + 1], servers, i + 1, n)
  PROVE  ListsFrom(f[7 * (i - 1) + 1], servers, i, n)
<1> DEFINE p    == 7 * (i - 1) + 1
           next == 7 * i + 1
           L    == Len(data)
           ends == next + 3 <= L /\ SubSeq(data, next + 1, next + 3) = EOT
           rest == IF ends THEN << >> ELSE f[next]
<1>1. /\ p \in Nat \ {0} /\ next \in Nat /\ next = p + 7 /\ next <= 7 * n + 1
      /\ L = 7 * n + 1 + Len(end) /\ Len(end) \in Nat /\ L \in Nat /\ data \in Seq(Symbols)
      /\ (i < n => next + 7 <= 7 * n + 1) /\ (i = n => next = 7 * n + 1)
  <2>1. L = 7 * n + 1 + Len(end) /\ Len(end) \in Nat /\ data \in Seq(Symbols)
    BY DEF AreListed
  <2> HIDE DEF L
  <2> QED
    BY <2>1
<1>2. /\ data[p] = Backslash /\ data[next] = Backslash
      /\ \A j \in 1 .. 6 : data[p + j] = servers[i][j]
      /\ \A j \in 1 .. Len(end) : data[7 * n + 1 + j] = end[j]
      /\ i < n => \A j \in 1 .. 6 : data[next + j] = servers[i + 1][j]
  <2>1. /\ \A k \in 1 .. n : \A j \in 1 .. 6 : data[7 * (k - 1) + 1 + j] = servers[k][j]
        /\ \A k \in 1 .. n + 1 : data[7 * (k - 1) + 1] = Backslash
        /\ \A j \in 1 .. Len(end) : data[7 * n + 1 + j] = end[j]
    BY DEF AreListed, AddressSize
  <2>2. i + 1 \in 1 .. n + 1 /\ (i + 1) - 1 = i /\ i \in 1 .. n + 1 /\ (i < n => i + 1 \in 1 .. n)
    OBVIOUS
  <2>3. data[p] = Backslash /\ \A j \in 1 .. 6 : data[p + j] = servers[i][j]
    BY <2>1, <2>2
  <2>4. data[next] = Backslash
    BY <2>1, <2>2
  <2>5. i < n => \A j \in 1 .. 6 : data[next + j] = servers[i + 1][j]
    <3>1. SUFFICES ASSUME i < n, NEW j \in 1 .. 6 PROVE data[next + j] = servers[i + 1][j]
      OBVIOUS
    <3>2. data[7 * ((i + 1) - 1) + 1 + j] = servers[i + 1][j]
      BY <2>1, <2>2, <3>1
    <3> QED
      BY <2>2, <3>2
  <2> QED
    BY <2>1, <2>3, <2>4, <2>5
<1> HIDE DEF p, next, L, ends
<1>3. f[p] = ServersAt(data, f, p)
  <2>1. p \in 1 .. L + 2
    BY <1>1
  <2> QED
    BY <2>1 DEF L
<1>4. find(data, Backslash, p) = p
  <2>1. p \in p .. Len(data) /\ Len(data) \in Nat /\ \A j \in p .. p - 1 : data[j] # Backslash
    BY <1>1 DEF L
  <2> QED
    BY ONLY <1>1, <1>2, <2>1, IsFound
<1>5. servers[i] \in Addresses /\ servers[i] \in Seq(Symbols) /\ Len(servers[i]) = 6
  BY AddressIs
<1>6. SubSeq(data, p + 1, next - 1) = servers[i]
  <2>1. next - 1 \in Nat /\ Len(servers[i]) = (next - 1) - p /\ next - 1 <= Len(data)
        /\ p <= next - 1 /\ \A j \in 1 .. Len(servers[i]) : data[p + j] = servers[i][j]
    BY <1>1, <1>2, <1>5 DEF L
  <2>2. p \in Nat
    BY <1>1
  <2> QED
    BY ONLY <1>1, <1>5, <2>1, <2>2, SubSeqIs
<1>7. f[p] = <<servers[i]>> \o rest
  <2>1. (p + 1) + AddressSize = next
    BY <1>1 DEF AddressSize
  <2>2. ~(p >= L) /\ ServersFit(data, p + 1)
    BY <1>1 DEF ServersFit, AddressSize, L
  <2> QED
    BY <1>2, <1>3, <1>4, <1>6, <2>1, <2>2 DEF ServersAt, L, ends
<1>8. ListsFrom(rest, servers, i + 1, n)
  <2>1. CASE i < n
    <3>1. ~ends
      <4>1. SUFFICES ASSUME ends PROVE FALSE
        OBVIOUS
      <4>2. i + 1 \in 1 .. n
        BY <2>1
      <4>3. servers[i + 1] \in Addresses /\ servers[i + 1] \in Seq(Symbols)
            /\ Len(servers[i + 1]) = 6
        BY <4>2, AddressIs
      <4>4. EOT \in Seq(Symbols) /\ Len(EOT) = 3
        BY EndIsText
      <4>5. \A j \in 1 .. 3 : EOT[j] = data[next + j]
        <5> DEFINE u == SubSeq(data, next + 1, next + 3)
        <5>1. u = EOT
          BY <4>1 DEF ends
        <5>2. \A k \in next + 1 .. next + 3 : data[k] \in Symbols
          BY <1>1, <2>1 DEF L
        <5>3. next + 1 \in Int /\ next + 3 \in Int
          BY <1>1
        <5>4. \A j \in 1 .. (next + 3) - (next + 1) + 1 : u[j] = data[(next + 1) + j - 1]
          BY ONLY <5>2, <5>3, SubSeqProperties
        <5> HIDE DEF u
        <5>5. \A j \in 1 .. 3 : j \in 1 .. (next + 3) - (next + 1) + 1
                                 /\ (next + 1) + j - 1 = next + j
          BY <1>1
        <5> QED
          BY <5>1, <5>4, <5>5
      <4>6. SubSeq(servers[i + 1], 0 + 1, 3) = EOT
        <5>1. \A j \in 1 .. 3 : servers[i + 1][j] = EOT[j]
          BY <1>2, <2>1, <4>5
        <5>2. /\ 0 \in Nat /\ 3 \in Nat /\ Len(EOT) = 3 - 0 /\ 3 <= Len(servers[i + 1]) /\ 0 <= 3
              /\ \A j \in 1 .. Len(EOT) : servers[i + 1][0 + j] = EOT[j]
          BY <4>3, <4>4, <5>1
        <5> QED
          BY ONLY <4>3, <4>4, <5>2, SubSeqIs
      <4>7. SubSeq(servers[i + 1], 1, 3) = EOT
        BY <4>6
      <4> QED
        BY <4>3, <4>7, PacketsAssumption
    <3> QED
      BY <2>1, <3>1 DEF next
  <2>2. CASE i = n /\ end = EOT
    <3>1. EOT \in Seq(Symbols) /\ Len(EOT) = 3
      BY EndIsText
    <3>2. next = 7 * n + 1 /\ L = next + 3
      BY <1>1, <2>2, <3>1
    <3>3. SubSeq(data, next + 1, next + 3) = EOT
      <4>1. /\ next + 3 \in Nat /\ Len(EOT) = (next + 3) - next /\ next + 3 <= Len(data)
            /\ next <= next + 3 /\ \A j \in 1 .. Len(EOT) : data[next + j] = EOT[j]
        <5>1. next \in Nat /\ next + 3 = Len(data)
          BY <1>1, <3>2 DEF L
        <5>2. next + 3 \in Nat /\ 3 = (next + 3) - next /\ next <= next + 3
          BY ONLY <5>1
        <5>3. \A j \in 1 .. Len(EOT) : data[next + j] = EOT[j]
          BY <1>1, <1>2, <2>2, <3>1, <3>2 DEF L
        <5> QED
          BY <3>1, <5>1, <5>2, <5>3
      <4> QED
        BY ONLY <1>1, <3>1, <4>1, SubSeqIs
    <3>4. ends
      BY <1>1, <3>2, <3>3 DEF ends
    <3> QED
      BY <2>2, <3>4, ListsNone
  <2>3. CASE i = n /\ end = << >>
    <3>1. Len(end) = 0
      BY <2>3
    <3>2. next = L
      BY <1>1, <2>3, <3>1
    <3>3. ~ends
      BY <1>1, <3>2 DEF ends
    <3>4. f[next] = ServersAt(data, f, next)
      <4>1. next \in 1 .. L + 2
        BY <1>1, <3>2
      <4> QED
        BY <4>1 DEF L
    <3>5. f[next] = << >>
      <4>1. next >= Len(data)
        BY <1>1, <3>2 DEF L
      <4> QED
        BY <3>4, <4>1 DEF ServersAt
    <3> QED
      BY <2>3, <3>3, <3>5, ListsNone
  <2>4. i < n \/ i = n
    OBVIOUS
  <2> QED
    BY <2>1, <2>2, <2>3, <2>4
<1> HIDE DEF rest
<1>9. ListsFrom(<<servers[i]>> \o rest, servers, i, n)
  <2> DEFINE one  == <<servers[i]>>
             list == one \o rest
  <2>1. one \in Seq(Addresses) /\ Len(one) = 1 /\ one[1] = servers[i]
    BY <1>5
  <2>2. rest \in Seq(Addresses) /\ Len(rest) = n + 1 - (i + 1)
        /\ \A j \in 1 .. n + 1 - (i + 1) : rest[j] = servers[(i + 1) + j - 1]
    BY <1>8 DEF ListsFrom
  <2> HIDE DEF one
  <2>3. /\ one \o rest \in Seq(Addresses) /\ Len(one \o rest) = Len(one) + Len(rest)
        /\ \A j \in 1 .. Len(one) + Len(rest) :
             (one \o rest)[j] = IF j <= Len(one) THEN one[j] ELSE rest[j - Len(one)]
    <3>1. one \in Seq(Addresses) /\ rest \in Seq(Addresses)
      BY <2>1, <2>2
    <3> QED
      BY ONLY <3>1, ConcatProperties
  <2>4. ASSUME NEW j \in 1 .. n + 1 - i PROVE list[j] = servers[i + j - 1]
    <3>1. j \in 1 .. Len(one) + Len(rest)
      BY <2>1, <2>2
    <3>2. CASE j = 1
      <4>1. i + j - 1 = i /\ j <= Len(one)
        BY <2>1, <3>2
      <4> QED
        BY <2>1, <2>3, <3>1, <3>2, <4>1
    <3>3. CASE j # 1
      <4>1. j - 1 \in 1 .. n + 1 - (i + 1) /\ (i + 1) + (j - 1) - 1 = i + j - 1 /\ ~(j <= 1)
        BY <3>3
      <4> QED
        BY <2>1, <2>2, <2>3, <3>1, <4>1
    <3> QED
      BY <3>2, <3>3
  <2>5. Len(list) = n + 1 - i
    BY <2>1, <2>2, <2>3
  <2> QED
    BY <2>3, <2>4, <2>5 DEF ListsFrom, one
<1> QED
  BY <1>7, <1>9 DEF p

LEMMA ServersAreRead ==
  ASSUME NEW n \in Nat, NEW servers \in [1 .. n -> Addresses], NEW end \in {<< >>, EOT},
         NEW data,
         data = FlattenSeq([i \in DOMAIN servers |-> <<Backslash>> \o servers[i]])
                \o (<<Backslash>> \o end)
  PROVE  data \in Seq(Symbols) /\ parseServers(data) = servers
<1> DEFINE parts == [i \in 1 .. n |-> ServerText(servers[i])]
<1>1. data = Flat(parts, n) \o ServerText(end)
  <2>1. [i \in 1 .. n |-> parts[i]] = [i \in DOMAIN servers |-> <<Backslash>> \o servers[i]]
    BY DEF ServerText
  <2> QED
    BY <2>1 DEF Flat, ServerText
<1>2. \A i \in 1 .. n : parts[i] = ServerText(servers[i])
  OBVIOUS
<1>3. \A i \in 1 .. n : servers[i] \in Addresses
  OBVIOUS
<1> HIDE DEF parts
<1>4. AreListed(data, servers, n, end)
  BY <1>1, <1>2, <1>3, ServersLie
<1>5. /\ data \in Seq(Symbols) /\ Len(data) \in Nat
      /\ Len(data) = 7 * n + 1 + Len(end) /\ Len(end) \in Nat /\ data[7 * n + 1] = Backslash
  <2>1. n + 1 \in 1 .. n + 1 /\ 7 * ((n + 1) - 1) + 1 = 7 * n + 1
    OBVIOUS
  <2>2. /\ data \in Seq(Symbols) /\ Len(data) = 7 * n + 1 + Len(end) /\ Len(end) \in Nat
        /\ \A i \in 1 .. n + 1 : data[7 * (i - 1) + 1] = Backslash
    BY ONLY <1>4 DEF AreListed
  <2>3. data[7 * ((n + 1) - 1) + 1] = Backslash
    BY ONLY <2>1, <2>2
  <2>4. Len(data) \in Nat
    BY ONLY <2>2
  <2> QED
    BY ONLY <2>1, <2>2, <2>3, <2>4
<1>6. PICK f : /\ \A i \in 1 .. Len(data) + 2 : f[i] = ServersAt(data, f, i)
               /\ parseServers(data) = f[1]
  BY <1>5, ServersAre
<1> DEFINE S == {d \in Nat : d < n => ListsFrom(f[7 * (n - d - 1) + 1], servers, n - d, n)}
<1>7. ASSUME NEW i \in 1 .. n, i < n => ListsFrom(f[7 * i + 1], servers, i + 1, n)
      PROVE  ListsFrom(f[7 * (i - 1) + 1], servers, i, n)
  BY ONLY <1>3, <1>4, <1>6, <1>7, n \in Nat, end \in {<< >>, EOT}, ServerIsRead
<1>8. 0 \in S
  <2>1. SUFFICES ASSUME 0 < n PROVE ListsFrom(f[7 * (n - 0 - 1) + 1], servers, n - 0, n)
    OBVIOUS
  <2>2. PICK i \in 1 .. n : i = n /\ ~(i < n) /\ i - 1 = n - 0 - 1 /\ n - 0 = i
    BY <2>1
  <2>3. ListsFrom(f[7 * (i - 1) + 1], servers, i, n)
    BY <1>7, <2>2
  <2> QED
    BY <2>2, <2>3
<1>9. ASSUME NEW d \in S PROVE d + 1 \in S
  <2>1. SUFFICES ASSUME d + 1 < n
                 PROVE ListsFrom(f[7 * (n - (d + 1) - 1) + 1], servers, n - (d + 1), n)
    OBVIOUS
  <2>2. d \in Nat /\ d < n /\ ListsFrom(f[7 * (n - d - 1) + 1], servers, n - d, n)
    BY <2>1
  <2>3. PICK i \in 1 .. n : i = n - d - 1 /\ i + 1 = n - d /\ i = n - (d + 1)
                            /\ i - 1 = n - (d + 1) - 1
    BY <2>1, <2>2
  <2>4. ListsFrom(f[7 * i + 1], servers, i + 1, n)
    BY <2>2, <2>3
  <2>5. ListsFrom(f[7 * (i - 1) + 1], servers, i, n)
    BY <1>7, <2>4
  <2> QED
    BY <2>3, <2>5
<1>10. S = Nat
  <2>1. S \in SUBSET Nat
    OBVIOUS
  <2> HIDE DEF S
  <2> QED
    BY <1>8, <1>9, <2>1, SetInduction
<1>11. ListsFrom(f[1], servers, 1, n)
  <2>1. CASE n = 0
    <3>1. f[1] = ServersAt(data, f, 1)
      <4>1. 1 \in 1 .. Len(data) + 2
        BY <1>5
      <4> QED
        BY <1>6, <4>1
    <3>2. 1 >= Len(data) \/ ~ServersFit(data, find(data, Backslash, 1) + 1)
      <4>1. Len(data) <= 4
        <5>1. Len(end) = 0 \/ Len(end) = 3
          BY EndIsText
        <5>2. Len(data) = 1 + Len(end)
          <6>1. 7 * n = 0
            BY <2>1
          <6> QED
            BY <1>5, <6>1
        <5>3. CASE Len(end) = 0
          BY <5>2, <5>3
        <5>4. CASE Len(end) = 3
          BY <5>2, <5>4
        <5> QED
          BY <5>1, <5>3, <5>4
      <4>2. find(data, Backslash, 1) \in Nat
        <5>1. Len(data) \in Nat /\ 1 \in Nat \ {0}
          BY ONLY <1>5
        <5> QED
          BY ONLY <5>1, FoundBehind
      <4> QED
        BY <1>5, <4>1, <4>2 DEF ServersFit, AddressSize
    <3>3. f[1] = << >>
      BY <3>1, <3>2 DEF ServersAt
    <3>4. ListsFrom(<< >>, servers, n + 1, n)
      BY ListsNone
    <3> QED
      BY <2>1, <3>3, <3>4
  <2>2. CASE n # 0
    <3>1. PICK d \in Nat : d = n - 1 /\ d < n /\ n - d - 1 = 0 /\ n - d = 1
      BY <2>2
    <3>2. d \in S
      BY <1>10
    <3> QED
      BY <3>1, <3>2
  <2> QED
    BY <2>1, <2>2
<1>12. f[1] = servers
  <2>1. f[1] \in Seq(Addresses) /\ Len(f[1]) = n
        /\ \A j \in 1 .. n : f[1][j] = servers[j]
    <3>1. n + 1 - 1 = n /\ \A j \in 1 .. n : 1 + j - 1 = j
      OBVIOUS
    <3> QED
      BY <1>11, <3>1 DEF ListsFrom
  <2>2. servers = [j \in 1 .. n |-> servers[j]]
    OBVIOUS
  <2>3. f[1] = [j \in 1 .. n |-> f[1][j]]
    BY <2>1
  <2> QED
    BY <2>1, <2>2, <2>3
<1> QED
  BY <1>5, <1>6, <1>12

-----------------------------------------------------------------------------
(* What the data of a status are.                                          *)

Heading(value) == <<Backslash, "a", Backslash>> \o value

LEMMA HeadingIs ==
  ASSUME NEW value \in Without({Backslash})
  PROVE  /\ Heading(value) \in Seq(Symbols) /\ Len(Heading(value)) = 3 + Len(value)
         /\ Len(value) \in Nat
         /\ Heading(value)[1] = Backslash /\ Heading(value)[2] = "a"
         /\ Heading(value)[3] = Backslash
         /\ \A j \in 1 .. Len(value) : Heading(value)[3 + j] = value[j]
<1> DEFINE front == <<Backslash, "a", Backslash>>
<1>1. front \in Seq(Symbols) /\ Len(front) = 3
      /\ front[1] = Backslash /\ front[2] = "a" /\ front[3] = Backslash
  <2>1. Backslash \in Symbols /\ "a" \in Symbols
    BY DEF Symbols
  <2> QED
    BY <2>1
<1>2. value \in Seq(Symbols) /\ Len(value) \in Nat
  BY AreSymbols
<1> HIDE DEF front
<1>3. /\ front \o value \in Seq(Symbols) /\ Len(front \o value) = Len(front) + Len(value)
      /\ \A i \in 1 .. Len(front) + Len(value) :
           (front \o value)[i] = IF i <= Len(front) THEN front[i] ELSE value[i - Len(front)]
  BY ONLY <1>1, <1>2, ConcatProperties
<1>4. Heading(value) = front \o value
  BY DEF Heading, front
<1>5. \A j \in 1 .. Len(value) : 3 + j \in 1 .. Len(front) + Len(value) /\ ~(3 + j <= 3)
                                  /\ 3 + j - 3 = j
  BY <1>1, <1>2
<1>6. \A j \in 1 .. 3 : j \in 1 .. Len(front) + Len(value)
  BY <1>1, <1>2
<1> QED
  BY <1>1, <1>2, <1>3, <1>4, <1>5, <1>6

LEMMA JoinIsText ==
  ASSUME NEW s \in Seq(Symbols), NEW t \in Seq(Symbols)
  PROVE  /\ s \o t \in Seq(Symbols) /\ Len(s) \in Nat /\ Len(t) \in Nat
         /\ Len(s \o t) = Len(s) + Len(t)
         /\ \A j \in 1 .. Len(s) : (s \o t)[j] = s[j]
         /\ \A j \in 1 .. Len(t) : (s \o t)[Len(s) + j] = t[j]
<1>1. /\ s \o t \in Seq(Symbols) /\ Len(s \o t) = Len(s) + Len(t)
      /\ \A i \in 1 .. Len(s) + Len(t) :
           (s \o t)[i] = IF i <= Len(s) THEN s[i] ELSE t[i - Len(s)]
  BY ONLY s \in Seq(Symbols), t \in Seq(Symbols), ConcatProperties
<1>2. Len(s) \in Nat /\ Len(t) \in Nat
  OBVIOUS
<1>3. ASSUME NEW j \in 1 .. Len(s) PROVE (s \o t)[j] = s[j]
  <2>1. j \in 1 .. Len(s) + Len(t) /\ j <= Len(s)
    BY <1>2
  <2> QED
    BY <1>1, <2>1
<1>4. ASSUME NEW j \in 1 .. Len(t) PROVE (s \o t)[Len(s) + j] = t[j]
  <2>1. /\ Len(s) + j \in 1 .. Len(s) + Len(t) /\ ~(Len(s) + j <= Len(s))
        /\ Len(s) + j - Len(s) = j
    BY <1>2
  <2> QED
    BY <1>1, <2>1
<1> QED
  BY <1>1, <1>2, <1>3, <1>4

PlayerText(name, score, ping) ==
  score \o <<Space>> \o ping \o <<Space, Quote>> \o name \o <<Quote>>

\* Where the parts of a player's line lie.
IsPlayerText(text, name, score, ping) ==
  /\ text \in Seq(Symbols)
  /\ Len(score) \in Nat /\ Len(ping) \in Nat /\ Len(name) \in Nat
  /\ Len(text) = Len(score) + Len(ping) + Len(name) + 4
  /\ \A j \in 1 .. Len(score) : text[j] = score[j]
  /\ text[Len(score) + 1] = Space
  /\ \A j \in 1 .. Len(ping) : text[Len(score) + 1 + j] = ping[j]
  /\ text[Len(score) + Len(ping) + 2] = Space
  /\ text[Len(score) + Len(ping) + 3] = Quote
  /\ \A j \in 1 .. Len(name) : text[Len(score) + Len(ping) + 3 + j] = name[j]
  /\ text[Len(score) + Len(ping) + Len(name) + 4] = Quote

LEMMA PlayerTextIs ==
  ASSUME NEW name \in Seq(Symbols), NEW score \in Seq(Symbols), NEW ping \in Seq(Symbols)
  PROVE  IsPlayerText(PlayerText(name, score, ping), name, score, ping)
<1> DEFINE space == <<Space>>
           quote == <<Quote>>
           both  == <<Space, Quote>>
           t1 == score \o space
           t2 == t1 \o ping
           t3 == t2 \o both
           t4 == t3 \o name
           t5 == t4 \o quote
           a == Len(score)
           b == Len(ping)
           c == Len(name)
<1>1. /\ space \in Seq(Symbols) /\ Len(space) = 1 /\ space[1] = Space
      /\ quote \in Seq(Symbols) /\ Len(quote) = 1 /\ quote[1] = Quote
      /\ both \in Seq(Symbols) /\ Len(both) = 2 /\ both[1] = Space /\ both[2] = Quote
  <2>1. Space \in Symbols /\ Quote \in Symbols
    BY DEF Symbols
  <2> QED
    BY <2>1
<1>2. PlayerText(name, score, ping) = t5
  BY DEF PlayerText
<1>3. a \in Nat /\ b \in Nat /\ c \in Nat
  OBVIOUS
<1> HIDE DEF space, quote, both, t1, t2, t3, t4, t5
<1>4. /\ t1 \in Seq(Symbols) /\ Len(t1) = a + 1
      /\ \A j \in 1 .. a : t1[j] = score[j]
      /\ t1[a + 1] = Space
  <2>1. /\ t1 \in Seq(Symbols) /\ Len(t1) = Len(score) + Len(space)
        /\ \A j \in 1 .. Len(score) : t1[j] = score[j]
        /\ \A j \in 1 .. Len(space) : t1[Len(score) + j] = space[j]
    BY <1>1, JoinIsText DEF t1
  <2>2. 1 \in 1 .. Len(space)
    BY <1>1
  <2> QED
    BY <1>1, <2>1, <2>2
<1>5. /\ t2 \in Seq(Symbols) /\ Len(t2) = a + 1 + b
      /\ \A j \in 1 .. a + 1 : t2[j] = t1[j]
      /\ \A j \in 1 .. b : t2[a + 1 + j] = ping[j]
  <2>1. /\ t2 \in Seq(Symbols) /\ Len(t2) = Len(t1) + Len(ping)
        /\ \A j \in 1 .. Len(t1) : t2[j] = t1[j]
        /\ \A j \in 1 .. Len(ping) : t2[Len(t1) + j] = ping[j]
    BY <1>4, JoinIsText DEF t2
  <2> QED
    BY <1>4, <2>1
<1>6. /\ t3 \in Seq(Symbols) /\ Len(t3) = a + b + 3
      /\ \A j \in 1 .. a + 1 + b : t3[j] = t2[j]
      /\ t3[a + b + 2] = Space /\ t3[a + b + 3] = Quote
  <2>1. /\ t3 \in Seq(Symbols) /\ Len(t3) = Len(t2) + Len(both)
        /\ \A j \in 1 .. Len(t2) : t3[j] = t2[j]
        /\ \A j \in 1 .. Len(both) : t3[Len(t2) + j] = both[j]
    BY ZenonT(40), <1>1, <1>5, JoinIsText DEF t3
  <2>2. 1 \in 1 .. Len(both) /\ 2 \in 1 .. Len(both)
    BY <1>1
  <2>3. t3[(a + 1 + b) + 1] = Space /\ t3[(a + 1 + b) + 2] = Quote
    BY <1>1, <1>5, <2>1, <2>2
  <2> HIDE DEF a, b, c
  <2>4. (a + 1 + b) + 1 = a + b + 2 /\ (a + 1 + b) + 2 = a + b + 3
    BY ONLY <1>3
  <2>5. t3[a + b + 2] = Space /\ t3[a + b + 3] = Quote
    BY ONLY <2>3, <2>4
  <2>6. Len(t3) = a + b + 3
    BY ONLY <1>1, <1>3, <1>5, <2>1
  <2> QED
    BY ONLY <1>5, <2>1, <2>5, <2>6
<1>7. /\ t4 \in Seq(Symbols) /\ Len(t4) = a + b + 3 + c
      /\ \A j \in 1 .. a + b + 3 : t4[j] = t3[j]
      /\ \A j \in 1 .. c : t4[a + b + 3 + j] = name[j]
  <2>1. /\ t4 \in Seq(Symbols) /\ Len(t4) = Len(t3) + Len(name)
        /\ \A j \in 1 .. Len(t3) : t4[j] = t3[j]
        /\ \A j \in 1 .. Len(name) : t4[Len(t3) + j] = name[j]
    BY <1>6, JoinIsText DEF t4
  <2> QED
    BY <1>6, <2>1
<1>8. /\ t5 \in Seq(Symbols) /\ Len(t5) = a + b + c + 4
      /\ \A j \in 1 .. a + b + 3 + c : t5[j] = t4[j]
      /\ t5[a + b + c + 4] = Quote
  <2>1. /\ t5 \in Seq(Symbols) /\ Len(t5) = Len(t4) + Len(quote)
        /\ \A j \in 1 .. Len(t4) : t5[j] = t4[j]
        /\ \A j \in 1 .. Len(quote) : t5[Len(t4) + j] = quote[j]
    BY ZenonT(40), <1>1, <1>7, JoinIsText DEF t5
  <2> HIDE DEF a, b, c
  <2>2. 1 \in 1 .. Len(quote) /\ a + b + 3 + c + 1 = a + b + c + 4
    BY ONLY <1>1, <1>3
  <2>3. t5[a + b + 3 + c + 1] = Quote
    BY ONLY <1>1, <1>7, <2>1, <2>2
  <2> QED
    BY ONLY <1>1, <1>7, <2>1, <2>2, <2>3
<1> HIDE DEF a, b, c
<1>9. \A j \in 1 .. a + 1 : t5[j] = t1[j]
  <2>1. TAKE j \in 1 .. a + 1
  <2>2. j \in 1 .. a + 1 + b /\ j \in 1 .. a + b + 3 /\ j \in 1 .. a + b + 3 + c
    BY <1>3
  <2> QED
    BY <1>5, <1>6, <1>7, <1>8, <2>2
<1>10. \A j \in 1 .. b : t5[a + 1 + j] = ping[j]
  <2>1. TAKE j \in 1 .. b
  <2>2. /\ a + 1 + j \in 1 .. a + 1 + b /\ a + 1 + j \in 1 .. a + b + 3
        /\ a + 1 + j \in 1 .. a + b + 3 + c
    BY <1>3
  <2> QED
    BY <1>5, <1>6, <1>7, <1>8, <2>2
<1>11. t5[a + b + 2] = Space /\ t5[a + b + 3] = Quote
  <2>1. /\ a + b + 2 \in 1 .. a + b + 3 /\ a + b + 2 \in 1 .. a + b + 3 + c
        /\ a + b + 3 \in 1 .. a + b + 3 /\ a + b + 3 \in 1 .. a + b + 3 + c
    BY <1>3
  <2> QED
    BY <1>6, <1>7, <1>8, <2>1
<1>12. \A j \in 1 .. c : t5[a + b + 3 + j] = name[j]
  <2>1. TAKE j \in 1 .. c
  <2>2. a + b + 3 + j \in 1 .. a + b + 3 + c
    BY <1>3
  <2> QED
    BY <1>7, <1>8, <2>2
<1>13. \A j \in 1 .. a : t5[j] = score[j]
  <2>1. \A j \in 1 .. a : j \in 1 .. a + 1
    BY <1>3
  <2> QED
    BY <1>4, <1>9, <2>1
<1>14. t5[a + 1] = Space
  <2>1. a + 1 \in 1 .. a + 1
    BY <1>3
  <2> QED
    BY <1>4, <1>9, <2>1
<1> QED
  BY <1>2, <1>3, <1>8, <1>10, <1>11, <1>12, <1>13, <1>14 DEF IsPlayerText, a, b, c

LEMMA LineIsText ==
  ASSUME NEW row \in Lines
  PROVE  row.text \in Seq(Symbols)
<1>1. CASE \E name \in Names, score \in Scores, ping \in Pings :
             row = PlayerLine(name, score, ping)
  <2>1. PICK name \in Names, score \in Scores, ping \in Pings :
             row = PlayerLine(name, score, ping)
    BY <1>1
  <2>2. name \in Seq(Symbols) /\ score \in Seq(Symbols) /\ ping \in Seq(Symbols)
    BY PacketsAssumption, AreSymbols
  <2>3. row.text = PlayerText(name, score, ping)
    BY <2>1 DEF PlayerLine, PlayerText
  <2> QED
    BY <2>2, <2>3, PlayerTextIs DEF IsPlayerText
<1>2. CASE row \in [text : Junk, players : {<< >>}]
  <2>1. row.text \in Junk
    BY <1>2
  <2>2. row.text \in Without({Newline, Backslash})
    BY <2>1, PacketsAssumption
  <2> QED
    BY <2>2, AreSymbols
<1> QED
  BY <1>1, <1>2 DEF Lines

Text(lines, k) == lines[k].text

\* Where the lines of a status lie in its data: the newline before the k-th is at at[k].
IsStatus(data, value, lines, n, at, end) ==
  /\ data \in Seq(Symbols) /\ Len(value) \in Nat /\ Len(end) \in 0 .. 1
  /\ at \in [1 .. n + 1 -> Nat] /\ Len(data) = at[n + 1] - 1 + Len(end)
  /\ at[1] = 4 + Len(value)
  /\ \A k \in 1 .. n : Len(Text(lines, k)) \in Nat /\ at[k + 1] = at[k] + 1 + Len(Text(lines, k))
  /\ data[1] = Backslash /\ data[2] = "a" /\ data[3] = Backslash
  /\ \A j \in 1 .. Len(value) : data[3 + j] = value[j]
  /\ \A k \in 1 .. n : data[at[k]] = Newline
  /\ \A k \in 1 .. n : \A j \in 1 .. Len(Text(lines, k)) : data[at[k] + j] = Text(lines, k)[j]
  /\ Len(end) = 1 => data[at[n + 1]] = Newline

StatusText(value, lines, end) ==
  <<Backslash, "a", Backslash>> \o value
  \o FlattenSeq([i \in DOMAIN lines |-> <<Newline>> \o lines[i].text]) \o end

LEMMA StatusLies ==
  ASSUME NEW value \in Without({Backslash}), NEW n \in Nat, NEW lines \in [1 .. n -> Lines],
         NEW end \in {<< >>, <<Newline>>}
  PROVE  \E at : IsStatus(StatusText(value, lines, end), value, lines, n, at, end)
<1> DEFINE one   == <<Newline>>
           parts == [i \in 1 .. n |-> one \o lines[i].text]
           head  == Heading(value)
           flat  == Flat(parts, n)
           front == head \o flat
           data  == front \o end
           h     == 3 + Len(value)
           e(k)  == Len(Flat(parts, k))
           at    == [k \in 1 .. n + 1 |-> h + 1 + e(k - 1)]
<1>1. StatusText(value, lines, end) = data
  <2>1. [i \in 1 .. n |-> parts[i]] = [i \in DOMAIN lines |-> <<Newline>> \o lines[i].text]
    OBVIOUS
  <2> QED
    BY <2>1 DEF StatusText, Heading, Flat
<1>2. one \in Seq(Symbols) /\ Len(one) = 1 /\ one[1] = Newline
  <2>1. Newline \in Symbols
    BY DEF Symbols
  <2> QED
    BY <2>1
<1>3. end \in Seq(Symbols) /\ Len(end) \in 0 .. 1 /\ (Len(end) = 1 => end[1] = Newline)
  <2>1. Newline \in Symbols
    BY DEF Symbols
  <2>2. << >> \in Seq(Symbols) /\ Len(<< >>) = 0
    OBVIOUS
  <2>3. <<Newline>> \in Seq(Symbols) /\ Len(<<Newline>>) = 1 /\ <<Newline>>[1] = Newline
    BY <2>1
  <2>4. CASE end = << >>
    BY <2>2, <2>4
  <2>5. CASE end = <<Newline>>
    BY <2>3, <2>5
  <2> QED
    BY <2>4, <2>5
<1>4. \A k \in 1 .. n : parts[k] = one \o Text(lines, k) /\ Text(lines, k) \in Seq(Symbols)
  BY LineIsText DEF Text
<1> HIDE DEF one, parts
<1>5. \A k \in 1 .. n : /\ parts[k] \in Seq(Symbols) /\ Len(parts[k]) = 1 + Len(Text(lines, k))
                         /\ Len(Text(lines, k)) \in Nat /\ parts[k][1] = Newline
                         /\ \A j \in 1 .. Len(Text(lines, k)) : parts[k][1 + j] = Text(lines, k)[j]
  <2>1. TAKE k \in 1 .. n
  <2> DEFINE t == Text(lines, k)
  <2>2. parts[k] = one \o t /\ t \in Seq(Symbols)
    BY <1>4
  <2> HIDE DEF t
  <2>3. /\ one \o t \in Seq(Symbols) /\ Len(t) \in Nat
        /\ Len(one \o t) = Len(one) + Len(t)
        /\ \A j \in 1 .. Len(one) : (one \o t)[j] = one[j]
        /\ \A j \in 1 .. Len(t) : (one \o t)[Len(one) + j] = t[j]
    BY ONLY <1>2, <2>2, JoinIsText
  <2>4. 1 \in 1 .. Len(one)
    BY <1>2
  <2> QED
    BY <1>2, <2>2, <2>3, <2>4 DEF t
<1>6. \A k \in 1 .. n : Lies(parts, k, n)
  <2>1. TAKE k \in 1 .. n
  <2>2. \A x \in 1 .. n : parts[x] \in Seq(Symbols)
    BY <1>5
  <2>3. n \in k .. n
    OBVIOUS
  <2> QED
    BY ONLY <2>2, <2>3, n \in Nat, k \in 1 .. n, PartLies
<1>7. \A k \in 0 .. n : e(k) \in Nat
  <2>1. TAKE k \in 0 .. n
  <2>2. k \in Nat /\ \A x \in 1 .. k : parts[x] \in Seq(Symbols)
    BY <1>5
  <2>3. Flat(parts, k) \in Seq(Symbols)
    BY ONLY <2>2, FlatType
  <2> QED
    BY <2>3
<1>8. flat \in Seq(Symbols) /\ Len(flat) = e(n)
  <2>1. n \in Nat /\ \A x \in 1 .. n : parts[x] \in Seq(Symbols)
    BY <1>5
  <2>2. Flat(parts, n) \in Seq(Symbols)
    BY ONLY <2>1, FlatType
  <2> QED
    BY <2>2
<1>9. /\ head \in Seq(Symbols) /\ Len(head) = h /\ Len(value) \in Nat /\ h \in Nat
      /\ head[1] = Backslash /\ head[2] = "a" /\ head[3] = Backslash
      /\ \A j \in 1 .. Len(value) : head[3 + j] = value[j]
  <2>1. /\ Heading(value) \in Seq(Symbols) /\ Len(Heading(value)) = 3 + Len(value)
        /\ Len(value) \in Nat
        /\ Heading(value)[1] = Backslash /\ Heading(value)[2] = "a"
        /\ Heading(value)[3] = Backslash
        /\ \A j \in 1 .. Len(value) : Heading(value)[3 + j] = value[j]
    BY ONLY value \in Without({Backslash}), HeadingIs
  <2>2. h \in Nat
    BY <2>1
  <2> QED
    BY <2>1, <2>2
<1>10. \A k \in 1 .. n : e(k) = e(k - 1) + 1 + Len(Text(lines, k))
  <2>1. TAKE k \in 1 .. n
  <2>2. e(k) = e(k - 1) + Len(parts[k]) /\ e(k - 1) \in Nat
    BY <1>6 DEF Lies
  <2>3. Len(parts[k]) = 1 + Len(Text(lines, k)) /\ Len(Text(lines, k)) \in Nat
    BY <1>5
  <2> HIDE DEF e
  <2> QED
    BY <2>2, <2>3
<1>11. /\ at \in [1 .. n + 1 -> Nat] /\ at[1] = 4 + Len(value)
       /\ \A k \in 1 .. n : at[k] = h + 1 + e(k - 1) /\ at[k + 1] = h + 1 + e(k)
       /\ at[n + 1] = h + 1 + e(n)
  <2>1. \A k \in 1 .. n + 1 : k - 1 \in 0 .. n
    OBVIOUS
  <2>2. \A k \in 1 .. n + 1 : h + 1 + e(k - 1) \in Nat
    BY <1>7, <1>9, <2>1
  <2>3. e(1 - 1) = 0
    BY FlatNone
  <2>4. /\ at[1] = h + 1 + e(1 - 1) /\ at[n + 1] = h + 1 + e(n)
        /\ \A k \in 1 .. n : at[k] = h + 1 + e(k - 1) /\ at[k + 1] = h + 1 + e(k)
    <3>1. 1 \in 1 .. n + 1 /\ n + 1 \in 1 .. n + 1 /\ (n + 1) - 1 = n
      OBVIOUS
    <3>2. \A k \in 1 .. n : k \in 1 .. n + 1 /\ k + 1 \in 1 .. n + 1 /\ (k + 1) - 1 = k
      OBVIOUS
    <3> QED
      BY <3>1, <3>2
  <2>5. at \in [1 .. n + 1 -> Nat]
    BY <2>2
  <2> QED
    BY <1>9, <2>3, <2>4, <2>5
<1> HIDE DEF head, flat, e, at, h
<1>12. /\ front \in Seq(Symbols) /\ Len(front) = h + e(n)
       /\ \A j \in 1 .. h : front[j] = head[j]
       /\ \A j \in 1 .. Len(flat) : front[h + j] = flat[j]
  <2>1. /\ head \o flat \in Seq(Symbols) /\ Len(head \o flat) = Len(head) + Len(flat)
        /\ \A j \in 1 .. Len(head) : (head \o flat)[j] = head[j]
        /\ \A j \in 1 .. Len(flat) : (head \o flat)[Len(head) + j] = flat[j]
    <3>1. head \in Seq(Symbols) /\ flat \in Seq(Symbols)
      BY <1>8, <1>9
    <3> QED
      BY ONLY <3>1, JoinIsText
  <2> QED
    BY <1>8, <1>9, <2>1
<1> HIDE DEF front
<1>13. /\ data \in Seq(Symbols) /\ Len(data) = Len(front) + Len(end)
       /\ \A j \in 1 .. Len(front) : data[j] = front[j]
       /\ \A j \in 1 .. Len(end) : data[Len(front) + j] = end[j]
  <2>1. front \in Seq(Symbols) /\ end \in Seq(Symbols)
    BY <1>3, <1>12
  <2> QED
    BY ONLY <2>1, JoinIsText
<1> HIDE DEF data
<1>14. Len(data) = at[n + 1] - 1 + Len(end) /\ e(n) \in Nat
  <2>1. n \in 0 .. n
    OBVIOUS
  <2>2. e(n) \in Nat
    BY <1>7, <2>1
  <2> QED
    BY <1>3, <1>9, <1>11, <1>12, <1>13, <2>2
<1>15. \A j \in 1 .. h : data[j] = head[j]
  <2>1. \A j \in 1 .. h : j \in 1 .. Len(front)
    BY <1>9, <1>12, <1>14
  <2> QED
    BY <1>12, <1>13, <2>1
<1>16. data[1] = Backslash /\ data[2] = "a" /\ data[3] = Backslash
  <2>1. 1 \in 1 .. h /\ 2 \in 1 .. h /\ 3 \in 1 .. h
    BY <1>9 DEF h
  <2> QED
    BY <1>9, <1>15, <2>1
<1>17. \A j \in 1 .. Len(value) : data[3 + j] = value[j]
  <2>1. \A j \in 1 .. Len(value) : 3 + j \in 1 .. h
    BY <1>9 DEF h
  <2> QED
    BY <1>9, <1>15, <2>1
<1>18. ASSUME NEW k \in 1 .. n, NEW j \in 0 .. Len(Text(lines, k))
       PROVE  data[at[k] + j] = parts[k][1 + j]
  <2>1. 1 + j \in 1 .. Len(parts[k])
    BY <1>5
  <2>2. flat[e(k - 1) + (1 + j)] = parts[k][1 + j] /\ e(k - 1) \in Nat /\ e(k) <= e(n)
    BY <1>6, <2>1 DEF Lies, flat, e
  <2>3. e(k - 1) + (1 + j) \in 1 .. Len(flat)
    <3>1. e(k) = e(k - 1) + 1 + Len(Text(lines, k)) /\ Len(Text(lines, k)) \in Nat
          /\ Len(flat) = e(n) /\ e(n) \in Nat /\ j \in Nat /\ j <= Len(Text(lines, k))
      BY <1>5, <1>8, <1>10, <1>14
    <3> QED
      BY ONLY <2>2, <3>1
  <2>4. front[h + (e(k - 1) + (1 + j))] = parts[k][1 + j]
    BY <1>12, <2>2, <2>3
  <2>5. at[k] + j = h + (e(k - 1) + (1 + j)) /\ at[k] + j \in 1 .. Len(front)
    <3>1. at[k] = h + 1 + e(k - 1) /\ h \in Nat /\ e(k - 1) \in Nat /\ j \in Nat
          /\ Len(front) = h + e(n) /\ Len(flat) = e(n) /\ e(n) \in Nat
      BY <1>5, <1>8, <1>9, <1>11, <1>12, <1>14, <2>2
    <3> QED
      BY ONLY SMTT(30), <2>3, <3>1
  <2> QED
    BY <1>13, <2>4, <2>5
<1>19. ASSUME NEW k \in 1 .. n PROVE data[at[k]] = Newline
  <2>1. at[k] \in Nat /\ Len(Text(lines, k)) \in Nat
    <3>1. k \in 1 .. n + 1
      OBVIOUS
    <3> QED
      BY <1>5, <1>11, <3>1
  <2>2. 0 \in 0 .. Len(Text(lines, k)) /\ at[k] + 0 = at[k] /\ 1 + 0 = 1
    BY ONLY <2>1
  <2>3. data[at[k] + 0] = parts[k][1 + 0]
    BY <1>18, <2>2
  <2>4. parts[k][1] = Newline
    BY <1>5
  <2> QED
    BY ONLY <2>2, <2>3, <2>4
<1>20. ASSUME NEW k \in 1 .. n, NEW j \in 1 .. Len(Text(lines, k))
       PROVE  data[at[k] + j] = Text(lines, k)[j]
  <2>1. j \in 0 .. Len(Text(lines, k))
    BY <1>5
  <2> QED
    BY <1>5, <1>18, <2>1
<1>21. Len(end) = 1 => data[at[n + 1]] = Newline
  <2>1. SUFFICES ASSUME Len(end) = 1 PROVE data[at[n + 1]] = Newline
    OBVIOUS
  <2>2. 1 \in 1 .. Len(end) /\ at[n + 1] = Len(front) + 1
    BY <1>9, <1>11, <1>12, <1>14, <2>1
  <2> QED
    BY <1>3, <1>13, <2>1, <2>2
<1>22. \A k \in 1 .. n : at[k + 1] = at[k] + 1 + Len(Text(lines, k))
  <2>1. TAKE k \in 1 .. n
  <2>2. k - 1 \in 0 .. n
    OBVIOUS
  <2>3. e(k - 1) \in Nat /\ Len(Text(lines, k)) \in Nat
    BY <1>5, <1>7, <2>2
  <2>4. at[k] = h + 1 + e(k - 1) /\ at[k + 1] = h + 1 + e(k)
        /\ e(k) = e(k - 1) + 1 + Len(Text(lines, k)) /\ h \in Nat
    BY <1>9, <1>10, <1>11
  <2> QED
    BY ONLY SMTT(30), <2>3, <2>4
<1>23. IsStatus(data, value, lines, n, at, end)
  <2>1. data \in Seq(Symbols) /\ Len(value) \in Nat /\ Len(end) \in 0 .. 1
    BY <1>3, <1>9, <1>13
  <2>2. at \in [1 .. n + 1 -> Nat] /\ Len(data) = at[n + 1] - 1 + Len(end)
        /\ at[1] = 4 + Len(value)
    BY <1>11, <1>14
  <2>3. \A k \in 1 .. n : Len(Text(lines, k)) \in Nat /\ at[k + 1] = at[k] + 1 + Len(Text(lines, k))
    BY <1>5, <1>22
  <2>4. /\ \A k \in 1 .. n : data[at[k]] = Newline
        /\ \A k \in 1 .. n : \A j \in 1 .. Len(Text(lines, k)) : data[at[k] + j] = Text(lines, k)[j]
    BY <1>19, <1>20
  <2> QED
    BY ONLY <1>16, <1>17, <1>21, <2>1, <2>2, <2>3, <2>4 DEF IsStatus
<1> QED
  BY <1>1, <1>23

-----------------------------------------------------------------------------
(* What is sent is read.                                                   *)

Packets == PlainPackets \cup InfoPackets \cup ServerPackets \cup StatusPackets

LEMMA PlainIsText ==
  ASSUME NEW packet \in PlainPackets
  PROVE  /\ packet.type \in TypeNames \ {"statusResponse"} /\ packet.data \in Seq(Symbols)
         /\ packet.type \in {"disconnect"} \cup WithoutData => packet.data = << >>
         /\ "info" \notin DOMAIN packet /\ "servers" \notin DOMAIN packet
         /\ "lines" \notin DOMAIN packet
<1>1. "disconnect" \in TypeNames /\ WithoutData \subseteq TypeNames
      /\ DOMAIN CONNLESS_PACKETS = TypeNames /\ "statusResponse" \notin WithoutData
  BY TypesAre DEF TypeNames, WithoutData
<1>2. << >> \in Seq(Symbols)
  OBVIOUS
<1>3. CASE packet \in [type : DOMAIN CONNLESS_PACKETS
                                \ ({"disconnect", "statusResponse"} \cup WithoutData),
                       data : Texts(Characters, MaxData)]
  <2>1. packet.data \in Texts(Characters, MaxData)
    BY <1>3
  <2>2. PICK k \in 0 .. MaxData : packet.data \in [1 .. k -> Characters]
    BY <2>1 DEF Texts
  <2>3. packet.data = [i \in 1 .. k |-> packet.data[i]]
        /\ \A i \in 1 .. k : packet.data[i] \in Symbols
    BY <2>2, PacketsAssumption DEF Symbols
  <2>4. k \in Nat
    BY PacketsAssumption
  <2>5. [i \in 1 .. k |-> packet.data[i]] \in Seq(Symbols)
    BY <2>3, <2>4
  <2> QED
    BY <1>1, <1>3, <2>3, <2>5
<1>4. CASE packet \in [type : {"disconnect"} \cup WithoutData, data : {<< >>}]
  BY <1>1, <1>2, <1>4
<1> QED
  BY <1>3, <1>4 DEF PlainPackets

StatusOf(packet, n, at, end) ==
  /\ n \in Nat /\ packet.lines \in [1 .. n -> Lines]
  /\ packet.value \in Without({Backslash}) /\ packet.value \in Without({Quote})
  /\ IsStatus(packet.data, packet.value, packet.lines, n, at, end)

LEMMA StatusIsText ==
  ASSUME NEW packet \in StatusPackets
  PROVE  /\ packet.type = "statusResponse"
         /\ packet.data \in Seq(Symbols) /\ packet.data # << >> /\ packet.data[1] = Backslash
         /\ "info" \notin DOMAIN packet /\ "servers" \notin DOMAIN packet
         /\ \E n, at, end : StatusOf(packet, n, at, end)
<1>1. PICK ls \in Texts(Lines, MaxLines), v \in WithoutQuotes,
           end \in {<< >>, <<Newline>>} :
             packet = [type |-> "statusResponse", lines |-> ls, value |-> v,
                       data |-> StatusText(v, ls, end)]
  <2>1. PICK ls \in Texts(Lines, MaxLines), v \in WithoutQuotes,
             end \in {<< >>, <<Newline>>} : packet = StatusPacket(ls, v, end)
    BY DEF StatusPackets
  <2> QED
    BY <2>1 DEF StatusPacket, StatusText
<1>2. PICK n \in 0 .. MaxLines : ls \in [1 .. n -> Lines]
  BY DEF Texts
<1>3. n \in Nat /\ v \in Without({Backslash}) /\ v \in Without({Quote})
  <2>1. MaxLines \in Nat /\ \A x \in Values : x \in Without({Backslash})
    BY PacketsAssumption
  <2>2. v \in Values /\ ~HasAny(v, {Quote})
    BY DEF WithoutQuotes
  <2>3. v \in Without({Backslash})
    BY <2>1, <2>2
  <2>4. v \in Seq(STRING)
    BY <2>3 DEF Without
  <2>5. v \in Without({Quote})
    BY <2>2, <2>4 DEF Without
  <2>6. n \in Nat
    BY <2>1
  <2> QED
    BY <2>3, <2>5, <2>6
<1>4. PICK at : IsStatus(StatusText(v, ls, end), v, ls, n, at, end)
  BY <1>2, <1>3, StatusLies
<1>5. /\ packet.type = "statusResponse" /\ packet.lines = ls /\ packet.value = v
      /\ packet.data = StatusText(v, ls, end)
      /\ "info" \notin DOMAIN packet /\ "servers" \notin DOMAIN packet
  BY <1>1
<1>6. packet.data \in Seq(Symbols) /\ packet.data[1] = Backslash /\ packet.data # << >>
  <2>1. packet.data \in Seq(Symbols) /\ packet.data[1] = Backslash
    BY <1>4, <1>5 DEF IsStatus
  <2>2. at[1] = 4 + Len(v) /\ Len(v) \in Nat
    BY <1>4 DEF IsStatus
  <2>3. Len(packet.data) > 0
    <3> DEFINE S == {k \in Nat : k <= n => at[k + 1] > 1}
    <3>1. 0 \in S
      BY <2>2
    <3>2. ASSUME NEW k \in S PROVE k + 1 \in S
      <4>1. SUFFICES ASSUME k + 1 <= n PROVE at[(k + 1) + 1] > 1
        OBVIOUS
      <4>2. PICK i \in 1 .. n : i = k + 1
        BY <1>3, <4>1
      <4>3. at[i] > 1 /\ at[i] \in Nat
        BY <1>4, <4>2 DEF IsStatus
      <4>4. at[i + 1] = at[i] + 1 + Len(Text(ls, i)) /\ Len(Text(ls, i)) \in Nat
        BY <1>4 DEF IsStatus
      <4> QED
        BY <4>2, <4>3, <4>4
    <3>3. S = Nat
      <4>1. S \in SUBSET Nat
        OBVIOUS
      <4> HIDE DEF S
      <4> QED
        BY <3>1, <3>2, <4>1, SetInduction
    <3>4. n \in S
      BY <1>3, <3>3
    <3>5. at[n + 1] > 1
      BY <1>3, <3>4
    <3>6. Len(packet.data) = at[n + 1] - 1 + Len(end) /\ Len(end) \in 0 .. 1
          /\ at \in [1 .. n + 1 -> Nat]
      BY <1>4, <1>5 DEF IsStatus
    <3>7. at[n + 1] \in Nat
      BY <1>3, <3>6
    <3> QED
      BY ONLY <3>5, <3>6, <3>7
  <2> QED
    BY <2>1, <2>3
<1>7. StatusOf(packet, n, at, end)
  BY <1>2, <1>3, <1>4, <1>5 DEF StatusOf
<1> QED
  BY <1>5, <1>6, <1>7

LEMMA InfoPacketIs ==
  ASSUME NEW packet \in InfoPackets
  PROVE  /\ packet.type = "infoResponse" /\ packet.data \in Seq(Symbols)
         /\ "lines" \notin DOMAIN packet /\ "servers" \notin DOMAIN packet
         /\ \A name : getField(fromInfostring(packet.data), name) \in ValuesTold(packet.info, name)
<1>1. PICK i \in Infos :
             packet = [type |-> "infoResponse", info |-> i, data |-> toInfostring(i)]
  BY DEF InfoPackets
<1> QED
  BY <1>1, InfoIsRead

ServersText(servers, end) ==
  FlattenSeq([i \in DOMAIN servers |-> <<Backslash>> \o servers[i]]) \o (<<Backslash>> \o end)

LEMMA ServerPacketIs ==
  ASSUME NEW packet \in ServerPackets
  PROVE  /\ packet.type = "getserversResponse" /\ packet.data \in Seq(Symbols)
         /\ "lines" \notin DOMAIN packet /\ "info" \notin DOMAIN packet
         /\ parseServers(packet.data) = packet.servers
<1>1. PICK s \in Texts(Addresses, MaxServers), end \in {<< >>, EOT} :
             packet = [type |-> "getserversResponse", servers |-> s, data |-> ServersText(s, end)]
  <2>1. PICK s \in Texts(Addresses, MaxServers), end \in {<< >>, EOT} :
             packet = ServerPacket(s, end)
    BY DEF ServerPackets
  <2> QED
    BY <2>1 DEF ServerPacket, ServersText
<1>2. PICK n \in 0 .. MaxServers : s \in [1 .. n -> Addresses]
  BY DEF Texts
<1>3. n \in Nat
  BY PacketsAssumption
<1>4. packet.data \in Seq(Symbols) /\ parseServers(packet.data) = s
  <2>1. packet.data = FlattenSeq([i \in DOMAIN s |-> <<Backslash>> \o s[i]])
                      \o (<<Backslash>> \o end)
    BY <1>1 DEF ServersText
  <2> QED
    BY <1>2, <1>3, <2>1, ServersAreRead
<1> QED
  BY <1>1, <1>4

LEMMA PacketIsText ==
  ASSUME NEW packet \in Packets
  PROVE  /\ packet.type \in DOMAIN CONNLESS_PACKETS /\ packet.data \in Seq(Symbols)
         /\ packet.type \in {"disconnect"} \cup WithoutData => packet.data = << >>
         /\ packet.type = "statusResponse" <=> packet \in StatusPackets
         /\ "info" \in DOMAIN packet => packet \in InfoPackets
         /\ "servers" \in DOMAIN packet => packet \in ServerPackets
         /\ "lines" \in DOMAIN packet => packet \in StatusPackets
<1>1. {"infoResponse", "statusResponse", "getserversResponse"}
         \subseteq TypeNames \ ({"disconnect"} \cup WithoutData)
      /\ DOMAIN CONNLESS_PACKETS = TypeNames
  BY TypesAre DEF TypeNames, WithoutData
<1>2. CASE packet \in PlainPackets
  <2>1. packet \notin StatusPackets
    BY <1>2, PlainIsText, StatusIsText
  <2> QED
    BY <1>1, <1>2, <2>1, PlainIsText
<1>3. CASE packet \in InfoPackets
  <2>1. packet.type # "statusResponse" /\ packet \notin StatusPackets
    BY <1>3, InfoPacketIs, StatusIsText
  <2> QED
    BY <1>1, <1>3, <2>1, InfoPacketIs
<1>4. CASE packet \in ServerPackets
  <2>1. packet.type # "statusResponse" /\ packet \notin StatusPackets
    BY <1>4, ServerPacketIs, StatusIsText
  <2> QED
    BY <1>1, <1>4, <2>1, ServerPacketIs
<1>5. CASE packet \in StatusPackets
  BY <1>1, <1>5, StatusIsText
<1> QED
  BY <1>2, <1>3, <1>4, <1>5 DEF Packets

PacketInv ==
  /\ sent \in Packets
  /\ raw = << >> => parsed = NotYet
  /\ raw # << >> => raw = getRawPacket(sent.type, sent.data)
  /\ parsed # NotYet =>
       /\ "type" \in DOMAIN parsed /\ parsed.type = sent.type
       /\ sent.type # "statusResponse" => parsed = parse(sent.type, sent.data)

LEMMA PacketIsParsed ==
  ASSUME NEW packet \in Packets
  PROVE  /\ parsePacket(getRawPacket(packet.type, packet.data)) = parse(packet.type, packet.data)
         /\ getRawPacket(packet.type, packet.data) # << >>
         /\ "type" \in DOMAIN parse(packet.type, packet.data)
         /\ parse(packet.type, packet.data).type = packet.type
<1> DEFINE type == packet.type
           data == packet.data
<1>1. /\ type \in DOMAIN CONNLESS_PACKETS /\ data \in Seq(Symbols)
      /\ type \in {"disconnect"} \cup WithoutData => data = << >>
      /\ type = "statusResponse" => packet \in StatusPackets
  BY PacketIsText
<1>2. CONNLESS_PACKETS[type] = << >> => type \in {"disconnect"} \cup WithoutData
  <2>1. \A t \in TypeNames : CONNLESS_PACKETS[t] = << >> => t \in {"disconnect"} \cup WithoutData
    BY DEF CONNLESS_PACKETS, TypeNames, WithoutData
  <2> QED
    BY <1>1, <2>1, TypesAre
<1>3. "type" \in DOMAIN parse(type, data) /\ parse(type, data).type = type
  <2>1. CASE type = "statusResponse"
    <3>1. rfind(data, Backslash) # 0
      <4>1. data # << >> /\ data[1] = Backslash
        BY <1>1, <2>1, StatusIsText
      <4> DEFINE S == {0} \cup {i \in DOMAIN data : data[i] = Backslash}
      <4>2. S \in SUBSET Nat /\ 1 \in S /\ Len(data) \in Nat /\ \A j \in S : j <= Len(data)
        BY <1>1, <4>1
      <4> HIDE DEF S
      <4>3. \A j \in S : j <= Max(S)
        <5>1. S # {}
          BY <4>2
        <5> QED
          BY ONLY <4>2, <5>1, MaxIsGreatest
      <4> QED
        BY <4>2, <4>3 DEF rfind, S
    <3>2. ~(type \in WithoutData)
      BY <2>1 DEF WithoutData
    <3> HIDE DEF type, data
    <3> QED
      BY <2>1, <3>1, <3>2 DEF parse
  <2>2. CASE type # "statusResponse"
    <3> HIDE DEF type, data
    <3> QED
      BY <2>2 DEF parse
  <2> QED
    BY <2>1, <2>2
<1> HIDE DEF type, data
<1>4. parsePacket(getRawPacket(type, data)) = parse(type, data) /\ getRawPacket(type, data) # << >>
  <2>1. /\ CONNLESS_PACKETS[type] = << >> => data = << >>
        /\ type \in WithoutData => data = << >>
    BY <1>1, <1>2
  <2> QED
    BY ONLY <1>1, <2>1, PacketIsRead
<1> QED
  BY <1>3, <1>4 DEF type, data

LEMMA PacketInvHolds == PacketsSpec => []PacketInv
<1>1. PacketsInit => PacketInv
  BY DEF PacketsInit, PacketInv, Packets
<1>2. PacketInv /\ [PacketsNext]_packetVars => PacketInv'
  <2> SUFFICES ASSUME PacketInv, [PacketsNext]_packetVars PROVE PacketInv'
    OBVIOUS
  <2>1. CASE Make
    BY <2>1, PacketIsParsed DEF Make, PacketInv
  <2>2. CASE Receive
    BY <2>2, PacketIsParsed DEF Receive, PacketInv
  <2>3. ASSUME UNCHANGED <<sent, raw>>, IsParsing, parsed # NotYet,
               DOMAIN parsed' = DOMAIN parsed, parsed'.type = parsed.type
        PROVE  PacketInv'
    BY <2>3 DEF PacketInv, IsParsing
  <2>4. IsParsing => parsed # NotYet
    <3>1. NotYet.type # "statusResponse"
      BY DEF NotYet
    <3>2. IsParsing => parsed.type = "statusResponse"
      BY Zenon DEF IsParsing
    <3> QED
      BY <3>1, <3>2
  <2>5. CASE ParseLine
    <3>1. UNCHANGED <<sent, raw>> /\ IsParsing
      BY <2>5 DEF ParseLine
    <3>2. DOMAIN parsed' = DOMAIN parsed /\ ("type" \in DOMAIN parsed => parsed'.type = parsed.type)
      BY <2>5 DEF ParseLine
    <3> QED
      BY <2>3, <2>4, <3>1, <3>2 DEF PacketInv
  <2>6. CASE EndStatus
    <3>1. UNCHANGED <<sent, raw>> /\ IsParsing
      BY <2>6 DEF EndStatus
    <3>2. DOMAIN parsed' = DOMAIN parsed /\ ("type" \in DOMAIN parsed => parsed'.type = parsed.type)
      BY <2>6 DEF EndStatus
    <3> QED
      BY <2>3, <2>4, <3>1, <3>2 DEF PacketInv
  <2>7. CASE UNCHANGED packetVars
    BY <2>7 DEF packetVars, PacketInv
  <2> QED
    BY <2>1, <2>2, <2>5, <2>6, <2>7 DEF PacketsNext
<1> QED
  BY <1>1, <1>2, PTL DEF PacketsSpec

\* A packet is parsed to its type and data; an info to its fields under their keys in
\* lower case, whether their values are empty or not, and to one of the fields whose
\* keys differ in case only; and a list to its servers, whatever bytes their addresses
\* have (ConnlessPacketFactory.cpp lines 9-50, JKAInfo.cpp lines 14-72, Getservers.h
\* lines 62-108).
THEOREM PacketsAreReadBack == PacketsSpec => []PacketsReadBack
<1>1. PacketInv => PacketsReadBack
  <2> SUFFICES ASSUME PacketInv PROVE PacketsReadBack
    OBVIOUS
  <2>1. sent \in Packets
    BY DEF PacketInv
  <2>2. ASSUME parsed # NotYet, sent.type # "statusResponse" PROVE parsed.data = sent.data
    <3>1. parsed = parse(sent.type, sent.data)
      BY <2>2 DEF PacketInv
    <3>2. sent.type \in WithoutData => sent.data = << >>
      BY <2>1, PacketIsText
    <3> QED
      BY <2>2, <3>1, <3>2 DEF parse
  <2>3. ASSUME Has("info"), NEW name
        PROVE  getField(parsed.info, name) \in ValuesTold(sent.info, name)
    <3>1. sent \in InfoPackets /\ parsed # NotYet
      BY <2>1, <2>3, PacketIsText DEF Has, IsParsed
    <3>2. sent.type = "infoResponse"
      BY <3>1, InfoPacketIs
    <3>3. parsed = parse("infoResponse", sent.data)
      BY <3>1, <3>2 DEF PacketInv
    <3>4. parsed.info = fromInfostring(sent.data)
      BY <3>3 DEF parse, WithoutData
    <3> QED
      BY <3>1, <3>4, InfoPacketIs
  <2>4. ASSUME Has("servers") PROVE parsed.servers = sent.servers
    <3>1. sent \in ServerPackets /\ parsed # NotYet
      BY <2>1, <2>4, PacketIsText DEF Has, IsParsed
    <3>2. sent.type = "getserversResponse"
      BY <3>1, ServerPacketIs
    <3>3. parsed = parse("getserversResponse", sent.data)
      BY <3>1, <3>2 DEF PacketInv
    <3>4. parsed.servers = parseServers(sent.data)
      BY <3>3 DEF parse, WithoutData
    <3> QED
      BY <3>1, <3>4, ServerPacketIs
  <2> QED
    BY <2>2, <2>3, <2>4 DEF PacketsReadBack, PacketInv
<1> QED
  BY <1>1, PacketInvHolds, PTL

-----------------------------------------------------------------------------
(* The parts of a text.                                                    *)

LEMMA BehindIs ==
  ASSUME NEW s \in Seq(Symbols), NEW p \in 0 .. Len(s)
  PROVE  /\ Behind(s, p) \in Seq(Symbols) /\ Len(s) \in Nat /\ Len(Behind(s, p)) = Len(s) - p
         /\ \A j \in 1 .. Len(s) - p : Behind(s, p)[j] = s[p + j]
<1> DEFINE u == SubSeq(s, p + 1, Len(s))
<1>1. Len(s) \in Nat /\ p + 1 \in Int /\ Len(s) \in Int /\ p \in Nat /\ p <= Len(s)
      /\ \A i \in p + 1 .. Len(s) : s[i] \in Symbols
  OBVIOUS
<1>2. /\ u \in Seq(Symbols)
      /\ Len(u) = IF p + 1 <= Len(s) THEN Len(s) - (p + 1) + 1 ELSE 0
      /\ \A i \in 1 .. Len(s) - (p + 1) + 1 : u[i] = s[(p + 1) + i - 1]
  BY ONLY <1>1, SubSeqProperties
<1> HIDE DEF u
<1>3. Len(u) = Len(s) - p
  BY ONLY <1>1, <1>2
<1>4. ASSUME NEW j \in 1 .. Len(s) - p PROVE u[j] = s[p + j]
  <2>1. j \in 1 .. Len(s) - (p + 1) + 1 /\ (p + 1) + j - 1 = p + j
    BY <1>1
  <2> QED
    BY <1>2, <2>1
<1> QED
  BY <1>1, <1>2, <1>3, <1>4 DEF u, Behind

LEMMA BeforeIs ==
  ASSUME NEW s \in Seq(Symbols), NEW i \in 1 .. Len(s) + 1
  PROVE  /\ Before(s, i) \in Seq(Symbols) /\ Len(s) \in Nat /\ Len(Before(s, i)) = i - 1
         /\ \A j \in 1 .. i - 1 : Before(s, i)[j] = s[j]
<1> DEFINE u == SubSeq(s, 1, i - 1)
<1>1. Len(s) \in Nat /\ 1 \in Int /\ i - 1 \in Int /\ i \in Nat /\ 1 <= i /\ i <= Len(s) + 1
      /\ \A j \in 1 .. i - 1 : s[j] \in Symbols
  OBVIOUS
<1>2. /\ u \in Seq(Symbols)
      /\ Len(u) = IF 1 <= i - 1 THEN (i - 1) - 1 + 1 ELSE 0
      /\ \A j \in 1 .. (i - 1) - 1 + 1 : u[j] = s[1 + j - 1]
  BY ONLY <1>1, SubSeqProperties
<1> HIDE DEF u
<1>3. Len(u) = i - 1
  BY ONLY <1>1, <1>2
<1>4. ASSUME NEW j \in 1 .. i - 1 PROVE u[j] = s[j]
  <2>1. j \in 1 .. (i - 1) - 1 + 1 /\ 1 + j - 1 = j
    BY <1>1
  <2> QED
    BY <1>2, <2>1
<1> QED
  BY <1>1, <1>2, <1>3, <1>4 DEF u, Before

LEMMA BehindBehind ==
  ASSUME NEW s \in Seq(Symbols), NEW p \in 0 .. Len(s), NEW q \in 0 .. Len(s) - p
  PROVE  Behind(Behind(s, p), q) = Behind(s, p + q)
<1> DEFINE r == Behind(s, p)
           u == Behind(r, q)
           v == Behind(s, p + q)
<1>1. Len(s) \in Nat /\ p \in Nat /\ q \in Nat /\ p + q \in 0 .. Len(s)
  OBVIOUS
<1>2. /\ r \in Seq(Symbols) /\ Len(r) = Len(s) - p
      /\ \A j \in 1 .. Len(s) - p : r[j] = s[p + j]
  BY BehindIs
<1>3. /\ v \in Seq(Symbols) /\ Len(v) = Len(s) - (p + q)
      /\ \A j \in 1 .. Len(s) - (p + q) : v[j] = s[p + q + j]
  BY <1>1, BehindIs
<1> HIDE DEF r, v
<1>4. /\ u \in Seq(Symbols) /\ Len(u) = Len(r) - q
      /\ \A j \in 1 .. Len(r) - q : u[j] = r[q + j]
  <2>1. q \in 0 .. Len(r)
    BY <1>2
  <2> QED
    BY <1>2, <2>1, BehindIs
<1> HIDE DEF u
<1>5. Len(u) = Len(v)
  BY <1>1, <1>2, <1>3, <1>4
<1>6. ASSUME NEW j \in 1 .. Len(v) PROVE u[j] = v[j]
  <2>1. j \in 1 .. Len(r) - q /\ q + j \in 1 .. Len(s) - p /\ p + (q + j) = p + q + j
        /\ j \in 1 .. Len(s) - (p + q)
    BY <1>1, <1>2, <1>3
  <2>2. u[j] = r[q + j] /\ r[q + j] = s[p + (q + j)] /\ v[j] = s[p + q + j]
    BY <1>2, <1>3, <1>4, <2>1
  <2> QED
    BY <2>1, <2>2
<1>7. u = v
  BY ONLY <1>3, <1>4, <1>5, <1>6, SeqEqual
<1> QED
  BY <1>7 DEF u, v, r

\* What precedes a newline, with the line behind it.
LEMMA BeforeGrows ==
  ASSUME NEW s \in Seq(Symbols), NEW p \in 1 .. Len(s), s[p] = Newline,
         NEW q \in 1 .. Len(s) - p + 1
  PROVE  Before(s, p) \o (<<Newline>> \o Before(Behind(s, p), q)) = Before(s, p + q)
<1> DEFINE a == Before(s, p)
           one == <<Newline>>
           r == Behind(s, p)
           b == Before(r, q)
           c == one \o b
           u == a \o c
           v == Before(s, p + q)
<1>1. Len(s) \in Nat /\ p \in Nat /\ q \in Nat /\ p \in 0 .. Len(s) /\ p \in 1 .. Len(s) + 1
      /\ p + q \in 1 .. Len(s) + 1
  OBVIOUS
<1>2. a \in Seq(Symbols) /\ Len(a) = p - 1 /\ \A j \in 1 .. p - 1 : a[j] = s[j]
  BY <1>1, BeforeIs
<1>3. v \in Seq(Symbols) /\ Len(v) = p + q - 1 /\ \A j \in 1 .. p + q - 1 : v[j] = s[j]
  BY <1>1, BeforeIs
<1>4. one \in Seq(Symbols) /\ Len(one) = 1 /\ one[1] = Newline
  <2>1. Newline \in Symbols
    BY DEF Symbols
  <2> QED
    BY <2>1
<1>5. r \in Seq(Symbols) /\ Len(r) = Len(s) - p /\ \A j \in 1 .. Len(s) - p : r[j] = s[p + j]
  BY <1>1, BehindIs
<1> HIDE DEF a, one, r, v
<1>6. b \in Seq(Symbols) /\ Len(b) = q - 1 /\ \A j \in 1 .. q - 1 : b[j] = r[j]
  <2>1. q \in 1 .. Len(r) + 1
    BY <1>1, <1>5
  <2> QED
    BY <1>5, <2>1, BeforeIs
<1> HIDE DEF b
<1>7. /\ c \in Seq(Symbols) /\ Len(c) = 1 + (q - 1) /\ c[1] = Newline
      /\ \A j \in 1 .. q - 1 : c[1 + j] = b[j]
  <2>1. /\ one \o b \in Seq(Symbols) /\ Len(one \o b) = Len(one) + Len(b)
        /\ \A j \in 1 .. Len(one) : (one \o b)[j] = one[j]
        /\ \A j \in 1 .. Len(b) : (one \o b)[Len(one) + j] = b[j]
    BY ONLY <1>4, <1>6, JoinIsText
  <2>2. 1 \in 1 .. Len(one)
    BY <1>4
  <2> QED
    BY <1>4, <1>6, <2>1, <2>2
<1> HIDE DEF c
<1>8. /\ u \in Seq(Symbols) /\ Len(u) = (p - 1) + (1 + (q - 1))
      /\ \A j \in 1 .. p - 1 : u[j] = a[j]
      /\ \A j \in 1 .. 1 + (q - 1) : u[(p - 1) + j] = c[j]
  <2>1. /\ a \o c \in Seq(Symbols) /\ Len(a \o c) = Len(a) + Len(c)
        /\ \A j \in 1 .. Len(a) : (a \o c)[j] = a[j]
        /\ \A j \in 1 .. Len(c) : (a \o c)[Len(a) + j] = c[j]
    BY ONLY <1>2, <1>7, JoinIsText
  <2> QED
    BY <1>2, <1>7, <2>1
<1> HIDE DEF u
<1>9. ASSUME NEW j \in 1 .. p + q - 1 PROVE u[j] = v[j]
  <2>1. CASE j < p
    <3>1. j \in 1 .. p - 1
      BY <1>1, <2>1
    <3> QED
      BY <1>2, <1>3, <1>8, <3>1
  <2>2. CASE j = p
    <3>1. 1 \in 1 .. 1 + (q - 1) /\ (p - 1) + 1 = p
      BY <1>1
    <3> QED
      BY <1>3, <1>7, <1>8, <2>2, <3>1
  <2>3. CASE j > p
    <3>1. PICK d \in 1 .. q - 1 : d = j - p /\ p + d = j /\ (p - 1) + (1 + d) = j
      BY <1>1, <2>3
    <3>2. 1 + d \in 1 .. 1 + (q - 1) /\ d \in 1 .. Len(s) - p
      BY <1>1
    <3>3. u[j] = c[1 + d] /\ c[1 + d] = b[d] /\ b[d] = r[d] /\ r[d] = s[p + d]
      BY <1>5, <1>6, <1>7, <1>8, <3>1, <3>2
    <3> QED
      BY <1>3, <3>1, <3>3
  <2> QED
    BY <1>1, <2>1, <2>2, <2>3
<1>10. Len(u) = Len(v) /\ Len(v) = p + q - 1
  BY <1>1, <1>3, <1>8
<1>11. u = v
  <2>1. \A j \in 1 .. Len(u) : u[j] = v[j]
    BY <1>9, <1>10
  <2> QED
    BY ONLY <1>3, <1>8, <1>10, <2>1, SeqEqual
<1> QED
  BY <1>11 DEF u, v, c, a, one, b, r

-----------------------------------------------------------------------------
(* The lines of a status.                                                  *)

LEMMA LinesInOrder ==
  ASSUME NEW n \in Nat, NEW data, NEW value, NEW lines, NEW at, NEW end,
         IsStatus(data, value, lines, n, at, end),
         NEW i \in 1 .. n + 1, NEW j \in i .. n + 1
  PROVE  at[i] \in Nat /\ at[j] \in Nat /\ at[i] <= at[j]
<1> DEFINE S == {d \in Nat : i + d <= n + 1 => at[i] <= at[i + d]}
<1>1. \A k \in 1 .. n + 1 : at[k] \in Nat
  BY DEF IsStatus
<1>2. \A k \in 1 .. n : at[k + 1] > at[k]
  <2>1. TAKE k \in 1 .. n
  <2>2. Len(Text(lines, k)) \in Nat /\ at[k + 1] = at[k] + 1 + Len(Text(lines, k))
    BY DEF IsStatus
  <2>3. k \in 1 .. n + 1
    OBVIOUS
  <2>4. at[k] \in Nat
    BY ONLY <1>1, <2>3
  <2> QED
    BY ONLY <2>2, <2>4
<1>3. 0 \in S
  <2>1. i + 0 = i /\ at[i] \in Nat
    BY <1>1
  <2> QED
    BY <2>1
<1>4. ASSUME NEW d \in S PROVE d + 1 \in S
  <2>1. SUFFICES ASSUME i + (d + 1) <= n + 1 PROVE at[i] <= at[i + (d + 1)]
    OBVIOUS
  <2>2. PICK k \in 1 .. n : k = i + d /\ k + 1 = i + (d + 1) /\ k + 1 \in 1 .. n + 1
                             /\ k \in 1 .. n + 1
    BY <2>1
  <2>3. at[i] <= at[k] /\ at[k + 1] > at[k]
    BY <1>2, <2>2
  <2>4. at[i] \in Nat /\ at[k] \in Nat /\ at[k + 1] \in Nat
    BY <1>1, <2>2
  <2>5. at[i] <= at[k + 1]
    BY ONLY <2>3, <2>4
  <2> QED
    BY <2>2, <2>5
<1>5. S = Nat
  <2>1. S \in SUBSET Nat
    OBVIOUS
  <2> HIDE DEF S
  <2> QED
    BY <1>3, <1>4, <2>1, SetInduction
<1>6. PICK d \in Nat : d = j - i /\ i + d = j /\ j <= n + 1
  OBVIOUS
<1>7. d \in S
  BY <1>5
<1> QED
  BY <1>1, <1>6, <1>7

\* What can be told of a player.
IsPlayer(row, name, score, ping) ==
  /\ IsPlayerText(row.text, name, score, ping)
  /\ row.players = <<[name |-> name, score |-> score, ping |-> ping, valid |-> TRUE]>>
  /\ name \in Seq(Symbols) /\ score \in Seq(Symbols) /\ ping \in Seq(Symbols)
  /\ parseAsInt(score) /\ parseAsInt(ping)
  /\ \A j \in 1 .. Len(name) : name[j] \notin {Quote, Backslash}
  /\ \A j \in 1 .. Len(score) : score[j] \notin {Space, Newline, Quote, Backslash}
  /\ \A j \in 1 .. Len(ping) : ping[j] \notin {Space, Newline, Quote, Backslash}

IsJunk(row) ==
  /\ row.text \in Seq(Symbols) /\ row.players = << >> /\ IsMalformed(row.text)
  /\ \A j \in 1 .. Len(row.text) : row.text[j] \notin {Newline, Backslash}

LEMMA HasNone ==
  ASSUME NEW chars, NEW text \in Without(chars)
  PROVE  text \in Seq(Symbols) /\ \A j \in 1 .. Len(text) : text[j] \notin chars
<1>1. text \in Seq(Symbols)
  BY AreSymbols
<1>2. ~HasAny(text, chars)
  BY DEF Without
<1> QED
  BY <1>1, <1>2 DEF HasAny

LEMMA LineIs ==
  ASSUME NEW row \in Lines
  PROVE  IsJunk(row) \/ \E name, score, ping : IsPlayer(row, name, score, ping)
<1>1. CASE \E name \in Names, score \in Scores, ping \in Pings :
             row = PlayerLine(name, score, ping)
  <2>1. PICK name \in Names, score \in Scores, ping \in Pings :
             row = PlayerLine(name, score, ping)
    BY <1>1
  <2>2. /\ name \in Without({Quote, Backslash})
        /\ score \in Without({Space, Newline, Quote, Backslash}) /\ parseAsInt(score)
        /\ ping \in Without({Space, Newline, Quote, Backslash}) /\ parseAsInt(ping)
    BY PacketsAssumption
  <2>3. /\ name \in Seq(Symbols) /\ score \in Seq(Symbols) /\ ping \in Seq(Symbols)
        /\ \A j \in 1 .. Len(name) : name[j] \notin {Quote, Backslash}
        /\ \A j \in 1 .. Len(score) : score[j] \notin {Space, Newline, Quote, Backslash}
        /\ \A j \in 1 .. Len(ping) : ping[j] \notin {Space, Newline, Quote, Backslash}
    BY ONLY <2>2, HasNone
  <2>4. row.text = PlayerText(name, score, ping)
        /\ row.players = <<[name |-> name, score |-> score, ping |-> ping, valid |-> TRUE]>>
    BY <2>1 DEF PlayerLine, PlayerText
  <2>5. IsPlayerText(PlayerText(name, score, ping), name, score, ping)
    BY ONLY <2>3, PlayerTextIs
  <2>6. IsPlayer(row, name, score, ping)
    BY <2>2, <2>3, <2>4, <2>5 DEF IsPlayer
  <2> QED
    BY <2>6
<1>2. CASE row \in [text : Junk, players : {<< >>}]
  <2>1. row.text \in Junk /\ row.players = << >>
    BY <1>2
  <2>2. row.text \in Without({Newline, Backslash}) /\ IsMalformed(row.text)
    BY <2>1, PacketsAssumption
  <2>3. /\ row.text \in Seq(Symbols)
        /\ \A j \in 1 .. Len(row.text) : row.text[j] \notin {Newline, Backslash}
    BY <2>2, HasNone
  <2> QED
    BY <2>1, <2>2, <2>3 DEF IsJunk
<1> QED
  BY <1>1, <1>2 DEF Lines

\* Each place of a player's line is in one of its parts.
LEMMA PlaceInPlayer ==
  ASSUME NEW text, NEW name, NEW score, NEW ping, IsPlayerText(text, name, score, ping),
         NEW j \in 1 .. Len(text)
  PROVE  \/ \E i \in 1 .. Len(score) : j = i /\ text[j] = score[i]
         \/ j = Len(score) + 1 /\ text[j] = Space
         \/ \E i \in 1 .. Len(ping) : j = Len(score) + 1 + i /\ text[j] = ping[i]
         \/ j = Len(score) + Len(ping) + 2 /\ text[j] = Space
         \/ j = Len(score) + Len(ping) + 3 /\ text[j] = Quote
         \/ \E i \in 1 .. Len(name) : j = Len(score) + Len(ping) + 3 + i /\ text[j] = name[i]
         \/ j = Len(score) + Len(ping) + Len(name) + 4 /\ text[j] = Quote
<1> DEFINE a == Len(score)
           b == Len(ping)
           c == Len(name)
<1>1. a \in Nat /\ b \in Nat /\ c \in Nat /\ Len(text) = a + b + c + 4
  BY DEF IsPlayerText
<1>2. /\ \A i \in 1 .. a : text[i] = score[i]
      /\ text[a + 1] = Space
      /\ \A i \in 1 .. b : text[a + 1 + i] = ping[i]
      /\ text[a + b + 2] = Space /\ text[a + b + 3] = Quote
      /\ \A i \in 1 .. c : text[a + b + 3 + i] = name[i]
      /\ text[a + b + c + 4] = Quote
  BY DEF IsPlayerText
<1> HIDE DEF a, b, c
<1>3. \/ j \in 1 .. a \/ j = a + 1
      \/ j - (a + 1) \in 1 .. b /\ a + 1 + (j - (a + 1)) = j
      \/ j = a + b + 2 \/ j = a + b + 3
      \/ j - (a + b + 3) \in 1 .. c /\ a + b + 3 + (j - (a + b + 3)) = j
      \/ j = a + b + c + 4
  BY <1>1
<1>4. \/ \E i \in 1 .. a : j = i /\ text[j] = score[i]
      \/ j = a + 1 /\ text[j] = Space
      \/ \E i \in 1 .. b : j = a + 1 + i /\ text[j] = ping[i]
      \/ j = a + b + 2 /\ text[j] = Space
      \/ j = a + b + 3 /\ text[j] = Quote
      \/ \E i \in 1 .. c : j = a + b + 3 + i /\ text[j] = name[i]
      \/ j = a + b + c + 4 /\ text[j] = Quote
  BY <1>2, <1>3
<1> QED
  BY <1>4 DEF a, b, c

LEMMA LineHasNoBackslash ==
  ASSUME NEW row \in Lines, NEW j \in 1 .. Len(row.text)
  PROVE  row.text[j] # Backslash
<1>1. CASE IsJunk(row)
  BY <1>1 DEF IsJunk
<1>2. ASSUME NEW name, NEW score, NEW ping, IsPlayer(row, name, score, ping)
      PROVE  row.text[j] # Backslash
  <2>1. Space # Backslash /\ Quote # Backslash
    BY DEF Space, Quote, Backslash
  <2>2. IsPlayerText(row.text, name, score, ping)
    BY <1>2 DEF IsPlayer
  <2>3. \/ \E i \in 1 .. Len(score) : row.text[j] = score[i]
        \/ row.text[j] = Space
        \/ \E i \in 1 .. Len(ping) : row.text[j] = ping[i]
        \/ row.text[j] = Quote
        \/ \E i \in 1 .. Len(name) : row.text[j] = name[i]
    BY <2>2, PlaceInPlayer
  <2> QED
    BY <1>2, <2>1, <2>3 DEF IsPlayer
<1> QED
  BY <1>1, <1>2, LineIs

\* The player is read from the line: the quotes of the name are at q and at the end.
ReadsPlayer(text, q, name, score, ping) ==
  /\ find(text, Quote, 1) = q
  /\ \A j \in 1 .. q : text[j] # Newline
  /\ find(text, Quote, q + 1) = Len(text)
  /\ parsePlayerString(text, q, Len(text))
       = [name |-> name, score |-> score, ping |-> ping, valid |-> TRUE]

LEMMA PlayerIsRead ==
  ASSUME NEW row, NEW name, NEW score, NEW ping, IsPlayer(row, name, score, ping)
  PROVE  \E q \in 2 .. Len(row.text) - 1 : ReadsPlayer(row.text, q, name, score, ping)
<1> DEFINE text == row.text
           a == Len(score)
           b == Len(ping)
           c == Len(name)
           m == Len(text)
<1>1. IsPlayerText(text, name, score, ping)
  BY DEF IsPlayer
<1>2. /\ text \in Seq(Symbols) /\ a \in Nat /\ b \in Nat /\ c \in Nat /\ m = a + b + c + 4
      /\ text[a + 1] = Space /\ text[a + b + 2] = Space /\ text[a + b + 3] = Quote
      /\ text[a + b + c + 4] = Quote
      /\ \A j \in 1 .. a : text[j] = score[j]
      /\ \A j \in 1 .. b : text[a + 1 + j] = ping[j]
      /\ \A j \in 1 .. c : text[a + b + 3 + j] = name[j]
  BY <1>1 DEF IsPlayerText
<1>3. /\ name \in Seq(Symbols) /\ score \in Seq(Symbols) /\ ping \in Seq(Symbols)
      /\ parseAsInt(score) /\ parseAsInt(ping)
      /\ \A j \in 1 .. c : name[j] # Quote
      /\ \A j \in 1 .. a : score[j] \notin {Space, Newline, Quote}
      /\ \A j \in 1 .. b : ping[j] \notin {Space, Newline, Quote}
  BY DEF IsPlayer
<1>4. Space # Quote /\ Quote # Newline /\ Space # Newline
  BY DEF Space, Quote, Newline
<1> HIDE DEF a, b, c, m, text
<1>0. a \in Nat /\ b \in Nat /\ c \in Nat /\ m = a + b + c + 4
  BY <1>2
<1>5. \A j \in 1 .. a : text[j] \notin {Space, Newline, Quote}
  BY <1>2, <1>3
<1>6. ASSUME NEW j \in a + 2 .. a + b + 1 PROVE text[j] \notin {Space, Newline, Quote}
  <2>1. PICK i \in 1 .. b : a + 1 + i = j
    <3>1. j - (a + 1) \in 1 .. b /\ a + 1 + (j - (a + 1)) = j
      BY <1>2
    <3> QED
      BY <3>1
  <2> QED
    BY <1>2, <1>3, <2>1
<1>7. ASSUME NEW j \in a + b + 4 .. a + b + c + 3 PROVE text[j] # Quote
  <2>1. PICK i \in 1 .. c : a + b + 3 + i = j
    <3>1. j - (a + b + 3) \in 1 .. c /\ a + b + 3 + (j - (a + b + 3)) = j
      BY ONLY <1>0, j \in a + b + 4 .. a + b + c + 3
    <3> QED
      BY <3>1
  <2> QED
    BY <1>2, <1>3, <2>1
<1>8. ASSUME NEW j \in 1 .. a + b + 2 PROVE text[j] \notin {Newline, Quote}
  <2>1. j \in 1 .. a \/ j = a + 1 \/ j \in a + 2 .. a + b + 1 \/ j = a + b + 2
    BY ONLY <1>0, j \in 1 .. a + b + 2
  <2> QED
    BY <1>2, <1>4, <1>5, <1>6, <2>1
<1>9. find(text, Quote, 1) = a + b + 3
  <2>1. a + b + 3 \in 1 .. Len(text) /\ Len(text) \in Nat /\ 1 \in Nat \ {0}
        /\ \A j \in 1 .. (a + b + 3) - 1 : j \in 1 .. a + b + 2
    BY <1>2 DEF m
  <2>2. text[a + b + 3] = Quote /\ \A j \in 1 .. (a + b + 3) - 1 : text[j] # Quote
    BY <1>2, <1>8, <2>1
  <2> QED
    BY ONLY <2>1, <2>2, IsFound
<1>10. find(text, Quote, (a + b + 3) + 1) = m
  <2>1. m \in (a + b + 3) + 1 .. Len(text) /\ Len(text) \in Nat /\ (a + b + 3) + 1 \in Nat \ {0}
        /\ \A j \in (a + b + 3) + 1 .. m - 1 : j \in a + b + 4 .. a + b + c + 3
    BY <1>2 DEF m
  <2>2. text[m] = Quote /\ \A j \in (a + b + 3) + 1 .. m - 1 : text[j] # Quote
    BY <1>2, <1>7, <2>1
  <2> QED
    BY ONLY <2>1, <2>2, IsFound
<1>11. find(text, Space, 1) = a + 1
  <2>1. a + 1 \in 1 .. Len(text) /\ Len(text) \in Nat /\ 1 \in Nat \ {0}
        /\ \A j \in 1 .. (a + 1) - 1 : j \in 1 .. a
    BY <1>2 DEF m
  <2>2. text[a + 1] = Space /\ \A j \in 1 .. (a + 1) - 1 : text[j] # Space
    BY <1>2, <1>5, <2>1
  <2> QED
    BY ONLY <2>1, <2>2, IsFound
<1>12. find(text, Space, (a + 1) + 1) = a + b + 2
  <2>1. a + b + 2 \in (a + 1) + 1 .. Len(text) /\ Len(text) \in Nat /\ (a + 1) + 1 \in Nat \ {0}
        /\ \A j \in (a + 1) + 1 .. (a + b + 2) - 1 : j \in a + 2 .. a + b + 1
    BY <1>2 DEF m
  <2>2. text[a + b + 2] = Space /\ \A j \in (a + 1) + 1 .. (a + b + 2) - 1 : text[j] # Space
    BY <1>2, <1>6, <2>1
  <2> QED
    BY ONLY <2>1, <2>2, IsFound
<1>13. Before(text, a + 1) = score
  <2>1. 0 \in Nat /\ a \in Nat /\ a <= Len(text) /\ Len(score) = a - 0 /\ 0 <= a
        /\ \A j \in 1 .. Len(score) : text[0 + j] = score[j]
    BY <1>2 DEF a, m
  <2>2. SubSeq(text, 0 + 1, a) = score
    BY ONLY <1>2, <1>3, <2>1, SubSeqIs
  <2>3. (a + 1) - 1 = a /\ 0 + 1 = 1
    BY <1>2
  <2> QED
    BY <2>2, <2>3 DEF Before
<1>14. SubSeq(text, (a + 1) + 1, (a + b + 2) - 1) = ping
  <2>1. a + 1 \in Nat /\ a + b + 1 \in Nat /\ a + b + 1 <= m
        /\ b = (a + b + 1) - (a + 1) /\ a + 1 <= a + b + 1
    BY ONLY <1>0
  <2>4. Len(text) = m /\ Len(ping) = b
        /\ \A j \in 1 .. Len(ping) : text[(a + 1) + j] = ping[j]
    BY <1>2 DEF b, m
  <2>2. SubSeq(text, (a + 1) + 1, a + b + 1) = ping
    BY ONLY <1>2, <1>3, <2>1, <2>4, SubSeqIs
  <2>3. (a + b + 2) - 1 = a + b + 1
    BY <1>2
  <2> QED
    BY <2>2, <2>3
<1>15. SubSeq(text, (a + b + 3) + 1, m - 1) = name
  <2>1. a + b + 3 \in Nat /\ m - 1 \in Nat /\ m - 1 <= m
        /\ c = (m - 1) - (a + b + 3) /\ a + b + 3 <= m - 1
    BY ONLY <1>0
  <2>2. Len(text) = m /\ Len(name) = c
        /\ \A j \in 1 .. Len(name) : text[(a + b + 3) + j] = name[j]
    BY <1>2 DEF c, m
  <2> QED
    BY ONLY <1>2, <1>3, <2>1, <2>2, SubSeqIs
<1>16. parsePlayerString(text, a + b + 3, m)
         = [name |-> name, score |-> score, ping |-> ping, valid |-> TRUE]
  <2>1. ~(a + 1 > Len(text)) /\ ~(a + b + 2 > Len(text))
    BY <1>2 DEF m
  <2>2. parsePlayerString(text, a + b + 3, m)
          = [name |-> name, score |-> score, ping |-> ping,
             valid |-> parseAsInt(score) /\ parseAsInt(ping)]
    BY <1>11, <1>12, <1>13, <1>14, <1>15, <2>1 DEF parsePlayerString
  <2>3. (parseAsInt(score) /\ parseAsInt(ping)) = TRUE
    BY <1>3
  <2> QED
    BY <2>2, <2>3
<1>17. /\ a + b + 3 \in 2 .. Len(text) - 1 /\ m = Len(text)
       /\ \A j \in 1 .. a + b + 3 : j \in 1 .. a + b + 2 \/ j = a + b + 3
  BY <1>2 DEF m
<1>18. \A j \in 1 .. a + b + 3 : text[j] # Newline
  BY <1>2, <1>4, <1>8, <1>17
<1> QED
  BY <1>9, <1>10, <1>16, <1>17, <1>18 DEF ReadsPlayer, text

-----------------------------------------------------------------------------
(* A line at the front of what is left.                                    *)

Leads(t, r) ==
  /\ r \in Seq(Symbols) /\ t \in Seq(Symbols) /\ Len(r) \in Nat /\ Len(t) \in 0 .. Len(r)
  /\ \A j \in 1 .. Len(t) : r[j] = t[j]
  /\ Len(r) > Len(t) => r[Len(t) + 1] = Newline

LEMMA FrontIs ==
  ASSUME NEW t, NEW r, Leads(t, r)
  PROVE  Before(r, Len(t) + 1) = t
<1>1. /\ r \in Seq(Symbols) /\ 0 \in Nat /\ Len(t) \in Nat /\ t \in Seq(Symbols)
      /\ Len(t) = Len(t) - 0 /\ Len(t) <= Len(r) /\ 0 <= Len(t)
      /\ \A j \in 1 .. Len(t) : r[0 + j] = t[j]
  BY DEF Leads
<1>2. SubSeq(r, 0 + 1, Len(t)) = t
  BY ONLY <1>1, SubSeqIs
<1>3. (Len(t) + 1) - 1 = Len(t) /\ 0 + 1 = 1
  BY <1>1
<1> QED
  BY <1>2, <1>3 DEF Before

LEMMA FoundInFront ==
  ASSUME NEW t, NEW r, Leads(t, r), NEW char, NEW start \in Nat \ {0},
         find(t, char, start) \in start .. Len(t)
  PROVE  find(r, char, start) = find(t, char, start)
<1> DEFINE k == find(t, char, start)
<1>1. Len(t) \in Nat /\ Len(r) \in Nat /\ Len(t) <= Len(r) /\ \A j \in 1 .. Len(t) : r[j] = t[j]
  BY DEF Leads
<1>2. t[k] = char /\ \A j \in start .. k - 1 : t[j] # char
  BY <1>1, FoundOrNot
<1> HIDE DEF k
<1>3. k \in start .. Len(t)
  BY DEF k
<1>4. k \in start .. Len(r) /\ k \in 1 .. Len(t) /\ \A j \in start .. k - 1 : j \in 1 .. Len(t)
  BY <1>1, <1>3
<1>5. r[k] = char /\ \A j \in start .. k - 1 : r[j] # char
  BY <1>1, <1>2, <1>4
<1>6. find(r, char, start) = k
  BY <1>1, <1>4, <1>5, IsFound
<1> QED
  BY <1>6 DEF k

LEMMA NotInFront ==
  ASSUME NEW t, NEW r, Leads(t, r), NEW char, \A j \in 1 .. Len(t) : t[j] # char
  PROVE  find(r, char, 1) \in Len(t) + 1 .. Len(r) + 1
<1>1. Len(t) \in Nat /\ Len(r) \in Nat /\ Len(t) <= Len(r) /\ \A j \in 1 .. Len(t) : r[j] = t[j]
  BY DEF Leads
<1> DEFINE k == find(r, char, 1)
<1>2. 1 \in Nat \ {0}
  OBVIOUS
<1>3. \/ k \in 1 .. Len(r) /\ r[k] = char
      \/ k = IF 1 >= Len(r) + 1 THEN 1 ELSE Len(r) + 1
  BY ONLY <1>1, <1>2, FoundOrNot
<1> HIDE DEF k
<1>4. CASE k \in 1 .. Len(r) /\ r[k] = char
  <2>1. k \notin 1 .. Len(t)
    BY <1>1, <1>4
  <2> QED
    BY <1>1, <1>4, <2>1 DEF k
<1>5. CASE k = IF 1 >= Len(r) + 1 THEN 1 ELSE Len(r) + 1
  <2>1. k = Len(r) + 1
    BY <1>1, <1>5
  <2> QED
    BY <1>1, <2>1 DEF k
<1> QED
  BY <1>3, <1>4, <1>5

LEMMA LineEnds ==
  ASSUME NEW t, NEW r, Leads(t, r), \A j \in 1 .. Len(t) : t[j] # Newline
  PROVE  find(r, Newline, 1) = Len(t) + 1
<1>1. /\ Len(t) \in Nat /\ Len(r) \in Nat /\ Len(t) <= Len(r)
      /\ \A j \in 1 .. Len(t) : r[j] = t[j]
      /\ Len(r) > Len(t) => r[Len(t) + 1] = Newline
  BY DEF Leads
<1>2. CASE Len(r) > Len(t)
  <2>1. Len(t) + 1 \in 1 .. Len(r) /\ 1 \in Nat \ {0} /\ (Len(t) + 1) - 1 = Len(t)
    BY <1>1, <1>2
  <2>2. r[Len(t) + 1] = Newline
    BY <1>1, <1>2
  <2>3. \A j \in 1 .. Len(t) : r[j] # Newline
    BY <1>1
  <2>4. \A j \in 1 .. (Len(t) + 1) - 1 : r[j] # Newline
    BY <2>1, <2>3
  <2> QED
    BY ONLY <1>1, <2>1, <2>2, <2>4, IsFound
<1>3. CASE Len(r) = Len(t)
  <2>1. find(r, Newline, 1) \in Len(t) + 1 .. Len(r) + 1
    BY NotInFront
  <2> QED
    BY <1>1, <1>3, <2>1
<1> QED
  BY <1>1, <1>2, <1>3

\* What the loop finds in a line that is no player.
FindsJunk(t, r, q) ==
  /\ find(r, Newline, 1) = Len(t) + 1
  /\ \/ q \in Len(t) + 1 .. Len(r) + 1
     \/ q = 1 /\ 1 <= Len(r)
     \/ /\ q \in 2 .. Len(t) - 1 /\ find(r, Quote, q + 1) = Len(t)
        /\ ~parsePlayerString(t, q, Len(t)).valid

LEMMA JunkIsFound ==
  ASSUME NEW row, IsJunk(row), NEW r, Leads(row.text, r)
  PROVE  FindsJunk(row.text, r, find(r, Quote, 1))
<1> DEFINE t == row.text
<1>1. /\ t \in Seq(Symbols) /\ Len(t) \in Nat /\ Len(r) \in Nat /\ Len(t) <= Len(r)
      /\ IsMalformed(t) /\ Leads(t, r) /\ \A j \in 1 .. Len(t) : t[j] # Newline
  BY DEF Leads, IsJunk
<1> HIDE DEF t
<1>2. find(r, Newline, 1) = Len(t) + 1
  BY <1>1, LineEnds
<1> DEFINE q == find(t, Quote, 1)
           q2 == find(t, Quote, q + 1)
<1>3. q > Len(t) \/ q = 1 \/ (q2 = Len(t) /\ ~parsePlayerString(t, q, q2).valid)
  BY <1>1 DEF IsMalformed
<1>4. \/ q \in 1 .. Len(t)
      \/ (\A j \in 1 .. Len(t) : t[j] # Quote) /\ q = IF 1 >= Len(t) + 1 THEN 1 ELSE Len(t) + 1
  <2>1. 1 \in Nat \ {0}
    OBVIOUS
  <2> QED
    BY ONLY <1>1, <2>1, FoundOrNot
<1>5. q \in Nat \ {0}
  BY <1>1, <1>4
<1>6. \/ q2 \in q + 1 .. Len(t)
      \/ q2 = IF q + 1 >= Len(t) + 1 THEN q + 1 ELSE Len(t) + 1
  <2>1. q + 1 \in Nat \ {0}
    BY <1>5
  <2> QED
    BY ONLY <1>1, <2>1, FoundOrNot
<1>7. q \in 1 .. Len(t) => find(r, Quote, 1) = q
  <2>1. 1 \in Nat \ {0}
    OBVIOUS
  <2> QED
    BY <1>1, <2>1, FoundInFront
<1>8. q2 \in q + 1 .. Len(t) => find(r, Quote, q + 1) = q2
  <2>1. q + 1 \in Nat \ {0}
    BY <1>5
  <2> QED
    BY <1>1, <2>1, FoundInFront
<1>9. (\A j \in 1 .. Len(t) : t[j] # Quote) => find(r, Quote, 1) \in Len(t) + 1 .. Len(r) + 1
  BY <1>1, NotInFront
<1> HIDE DEF q, q2
<1>10. CASE \A j \in 1 .. Len(t) : t[j] # Quote
  BY <1>2, <1>9, <1>10 DEF FindsJunk, t
<1>11. CASE q \in 1 .. Len(t) /\ q = 1
  <2>1. find(r, Quote, 1) = 1 /\ 1 <= Len(r)
    BY <1>1, <1>7, <1>11
  <2> QED
    BY <1>2, <2>1 DEF FindsJunk, t
<1>12. CASE q \in 1 .. Len(t) /\ q # 1
  <2>1. q2 = Len(t) /\ ~parsePlayerString(t, q, q2).valid
    BY <1>1, <1>3, <1>12
  <2>2. q2 \in q + 1 .. Len(t) /\ q \in 2 .. Len(t) - 1
    BY <1>1, <1>6, <1>12, <2>1
  <2>3. find(r, Quote, 1) = q /\ find(r, Quote, q + 1) = Len(t)
    BY <1>7, <1>8, <1>12, <2>1, <2>2
  <2> QED
    BY <1>2, <2>1, <2>2, <2>3 DEF FindsJunk, t
<1> QED
  BY <1>4, <1>10, <1>11, <1>12

\* And in one that is.
FindsPlayer(t, r, q, players) ==
  /\ q \in 2 .. Len(t) - 1 /\ find(r, Newline, 1) \in q + 1 .. Len(r) + 1
  /\ find(r, Quote, q + 1) = Len(t)
  /\ players = <<parsePlayerString(t, q, Len(t))>> /\ parsePlayerString(t, q, Len(t)).valid

LEMMA PlayerIsFound ==
  ASSUME NEW row, NEW name, NEW score, NEW ping, IsPlayer(row, name, score, ping),
         NEW r, Leads(row.text, r)
  PROVE  FindsPlayer(row.text, r, find(r, Quote, 1), row.players)
<1> DEFINE t == row.text
<1>1. /\ t \in Seq(Symbols) /\ Len(t) \in Nat /\ Len(r) \in Nat /\ Len(t) <= Len(r) /\ Leads(t, r)
      /\ \A j \in 1 .. Len(t) : r[j] = t[j]
  BY DEF Leads
<1>8. PICK q \in 2 .. Len(t) - 1 : ReadsPlayer(t, q, name, score, ping)
  BY PlayerIsRead
<1> HIDE DEF t
<1>2. /\ find(t, Quote, 1) = q
      /\ \A j \in 1 .. q : t[j] # Newline
      /\ find(t, Quote, q + 1) = Len(t)
      /\ parsePlayerString(t, q, Len(t))
           = [name |-> name, score |-> score, ping |-> ping, valid |-> TRUE]
  BY <1>8 DEF ReadsPlayer
<1>3. q \in Nat /\ 1 \in Nat \ {0} /\ q + 1 \in Nat \ {0} /\ q \in 1 .. Len(t)
      /\ Len(t) \in q + 1 .. Len(t) /\ q < Len(r)
  BY <1>1
<1>4. find(r, Quote, 1) = q /\ find(r, Quote, q + 1) = Len(t)
  <2>1. find(t, Quote, 1) \in 1 .. Len(t) /\ find(t, Quote, q + 1) \in q + 1 .. Len(t)
    BY <1>2, <1>3
  <2> QED
    BY <1>1, <1>2, <1>3, <2>1, FoundInFront
<1>9. row.players = <<parsePlayerString(t, q, Len(t))>> /\ parsePlayerString(t, q, Len(t)).valid
  BY <1>2 DEF IsPlayer
<1> DEFINE k == find(r, Newline, 1)
<1>5. \/ k \in 1 .. Len(r) /\ r[k] = Newline
      \/ k = IF 1 >= Len(r) + 1 THEN 1 ELSE Len(r) + 1
  BY ONLY <1>1, <1>3, FoundOrNot
<1> HIDE DEF k
<1>6. CASE k \in 1 .. Len(r) /\ r[k] = Newline
  <2>1. k \notin 1 .. q
    <3>1. \A j \in 1 .. q : j \in 1 .. Len(t)
      BY <1>1
    <3> QED
      BY <1>1, <1>2, <1>6, <3>1
  <2>2. k \in q + 1 .. Len(r) + 1
    BY <1>1, <1>3, <1>6, <2>1
  <2> QED
    BY <1>2, <1>4, <1>9, <2>2 DEF k, t, FindsPlayer
<1>7. CASE k = IF 1 >= Len(r) + 1 THEN 1 ELSE Len(r) + 1
  <2>1. k \in q + 1 .. Len(r) + 1
    BY <1>1, <1>3, <1>7
  <2> QED
    BY <1>2, <1>4, <1>9, <2>1 DEF k, t, FindsPlayer
<1> QED
  BY <1>5, <1>6, <1>7

-----------------------------------------------------------------------------
(* A turn of the loop.                                                     *)

StatusFields ==
  {"type", "data", "sepIdx", "infoStream", "players", "validPlayerParsed", "done"}

\* What a status is but for whether a valid player was parsed and it is done.
Status(x, data, sepIdx, infoStream, players) ==
  /\ DOMAIN x = StatusFields /\ x.type = "statusResponse"
  /\ x.data = data /\ x.sepIdx = sepIdx /\ x.infoStream = infoStream /\ x.players = players

LEMMA MinIs ==
  ASSUME NEW a \in Nat, NEW b \in Nat, a <= b
  PROVE  Min({a, b}) = a
<1>1. {a, b} \in SUBSET Nat /\ {a, b} # {}
  OBVIOUS
<1>2. Min({a, b}) \in {a, b} /\ Min({a, b}) <= a
  BY <1>1, MinIsLeast
<1> QED
  BY <1>2

\* The line goes to the infostring, until there is a valid player.
Malformed(x, y, r, e) ==
  /\ Status(y, r, e, IF x.validPlayerParsed THEN x.infoStream
                     ELSE x.infoStream \o (<<Newline>> \o Before(r, e)), x.players)
  /\ y.validPlayerParsed <=> x.validPlayerParsed

\* What a turn does, by where the quotes are.
Turn(x, y, r, e, q, q2, player) ==
  \/ q <= Len(r) /\ (q >= e \/ q = 1) /\ Malformed(x, y, r, e) /\ ~y.done
  \/ q > Len(r) /\ Malformed(x, y, r, e) /\ y.done
  \/ q \in 2 .. e - 1 /\ q2 > Len(r)
  \/ /\ q \in 2 .. e - 1 /\ q2 <= Len(r) /\ player.valid
     /\ Status(y, r, q2 + 1, x.infoStream, Append(x.players, player))
     /\ y.validPlayerParsed /\ ~y.done
  \/ /\ q \in 2 .. e - 1 /\ q2 <= Len(r) /\ ~player.valid /\ x.validPlayerParsed
     /\ Status(y, r, e, x.infoStream, Append(x.players, player))
     /\ y.validPlayerParsed /\ ~y.done
  \/ /\ q \in 2 .. e - 1 /\ q2 <= Len(r) /\ ~player.valid /\ ~x.validPlayerParsed
     /\ Malformed(x, y, r, e) /\ ~y.done

LEMMA TurnIs ==
  ASSUME Status(parsed, parsed.data, parsed.sepIdx, parsed.infoStream, parsed.players), ParseLine,
         NEW r, r = Behind(parsed.data, parsed.sepIdx), NEW e, e = find(r, Newline, 1),
         NEW q, q = find(r, Quote, 1), NEW q2, q2 = find(r, Quote, q + 1),
         Len(r) \in Nat, e \in 1 .. Len(r) + 1,
         NEW player, player = parsePlayerString(Before(r, q2 + 1), q, q2)
  PROVE  /\ ~parsed.done /\ parsed.sepIdx <= Len(parsed.data) /\ UNCHANGED <<sent, raw>>
         /\ Turn(parsed, parsed', r, e, q, q2, player)
<1> DEFINE info   == parsed.infoStream
           pl     == parsed.players
           row   == <<Newline>> \o Before(r, e)
           next   == [parsed EXCEPT !.data = r, !.sepIdx = e]
           AsInfo(text) == IF next.validPlayerParsed THEN next
                           ELSE [next EXCEPT !.infoStream = @ \o text]
<1>1. /\ Status(next, r, e, info, pl)
      /\ next.validPlayerParsed <=> parsed.validPlayerParsed
      /\ next.done <=> parsed.done
  BY DEF Status, StatusFields
<1>3. ~parsed.done /\ parsed.sepIdx <= Len(parsed.data) /\ UNCHANGED <<sent, raw>>
  BY DEF ParseLine, IsParsing
<1>4. Min({e, Len(r) + 1}) = e
  <2>1. e \in Nat /\ Len(r) + 1 \in Nat /\ e <= Len(r) + 1
    OBVIOUS
  <2> QED
    BY ONLY <2>1, MinIs
<1> HIDE DEF row, next
<1>5. \/ q <= Len(r) /\ (q >= e \/ q = 1) /\ parsed' = AsInfo(row)
      \/ q > Len(r) /\ parsed' = [AsInfo(row) EXCEPT !.done = TRUE]
      \/ q \in 2 .. e - 1 /\ q2 > Len(r)
      \/ /\ q \in 2 .. e - 1 /\ q2 <= Len(r)
         /\ parsed' =
              IF player.valid
              THEN [next EXCEPT !.players = Append(@, player), !.validPlayerParsed = TRUE,
                                !.sepIdx = PastPlayer(q2)]
              ELSE IF next.validPlayerParsed
                   THEN [next EXCEPT !.players = Append(@, player)]
              ELSE AsInfo(row)
  BY <1>4 DEF ParseLine, row, next
<1>6. ASSUME NEW y, y = AsInfo(row)
      PROVE  Malformed(parsed, y, r, e) /\ ~y.done
  <2>2. CASE next.validPlayerParsed
    <3>1. y = next
      BY <1>6, <2>2
    <3> QED
      BY <1>1, <1>3, <2>2, <3>1 DEF Malformed
  <2>3. CASE ~next.validPlayerParsed
    <3>1. y = [next EXCEPT !.infoStream = @ \o row]
      BY <1>6, <2>3
    <3>2. /\ Status(y, r, e, info \o row, pl) /\ ~y.validPlayerParsed /\ ~y.done
      BY <1>1, <1>3, <2>3, <3>1 DEF Status, StatusFields
    <3> QED
      BY <1>1, <2>3, <3>2 DEF Malformed, row
  <2> QED
    BY <2>2, <2>3
<1>7. ASSUME NEW z, NEW y, z = AsInfo(row), y = [z EXCEPT !.done = TRUE]
      PROVE  Malformed(parsed, y, r, e) /\ y.done
  <2>1. Malformed(parsed, z, r, e)
    BY <1>6, <1>7
  <2> QED
    BY <1>7, <2>1 DEF Malformed, Status, StatusFields
<1>8. ASSUME NEW y, y = [next EXCEPT !.players = Append(@, player), !.validPlayerParsed = TRUE,
                                     !.sepIdx = PastPlayer(q2)]
      PROVE  Status(y, r, q2 + 1, info, Append(pl, player)) /\ y.validPlayerParsed /\ ~y.done
  BY <1>1, <1>3, <1>8 DEF Status, StatusFields, PastPlayer
<1>9. ASSUME NEW y, y = [next EXCEPT !.players = Append(@, player)]
      PROVE  /\ Status(y, r, e, info, Append(pl, player)) /\ ~y.done
             /\ y.validPlayerParsed <=> parsed.validPlayerParsed
  BY <1>1, <1>3, <1>9 DEF Status, StatusFields
<1>10. CASE q <= Len(r) /\ (q >= e \/ q = 1) /\ parsed' = AsInfo(row)
  BY <1>3, <1>6, <1>10 DEF Turn
<1>11. CASE q > Len(r) /\ parsed' = [AsInfo(row) EXCEPT !.done = TRUE]
  BY <1>3, <1>7, <1>11 DEF Turn
<1>12. CASE q \in 2 .. e - 1 /\ q2 > Len(r)
  BY <1>3, <1>12 DEF Turn
<1>13. CASE /\ q \in 2 .. e - 1 /\ q2 <= Len(r)
            /\ parsed' =
                 IF player.valid
                 THEN [next EXCEPT !.players = Append(@, player), !.validPlayerParsed = TRUE,
                                   !.sepIdx = PastPlayer(q2)]
                 ELSE IF next.validPlayerParsed
                      THEN [next EXCEPT !.players = Append(@, player)]
                 ELSE AsInfo(row)
  <2>1. CASE player.valid
    BY <1>3, <1>8, <1>13, <2>1 DEF Turn
  <2>2. CASE ~player.valid /\ parsed.validPlayerParsed
    BY <1>1, <1>3, <1>9, <1>13, <2>2 DEF Turn
  <2>3. CASE ~player.valid /\ ~parsed.validPlayerParsed
    BY <1>1, <1>3, <1>6, <1>13, <2>3 DEF Turn
  <2> QED
    BY <2>1, <2>2, <2>3
<1> QED
  BY <1>5, <1>10, <1>11, <1>12, <1>13

-----------------------------------------------------------------------------
(* Where the loop stands.                                                  *)

\* The newline before a line is behind the heading, and is one.
LEMMA PlaceIs ==
  ASSUME NEW n \in Nat, NEW data, NEW value, NEW lines, NEW at, NEW end,
         IsStatus(data, value, lines, n, at, end), NEW k \in 1 .. n + 1
  PROVE  /\ Len(data) \in Nat /\ at[k] \in 4 .. Len(data) + 1 /\ at[1] <= at[k]
         /\ at[k] <= Len(data) => data[at[k]] = Newline
         /\ k <= n => /\ at[k] <= Len(data) /\ Len(Text(lines, k)) \in Nat
                      /\ at[k + 1] = at[k] + 1 + Len(Text(lines, k))
                      /\ at[k + 1] <= Len(data) + 1
                      /\ \A j \in 1 .. Len(Text(lines, k)) : data[at[k] + j] = Text(lines, k)[j]
<1>1. /\ Len(data) \in Nat /\ Len(value) \in Nat /\ Len(end) \in 0 .. 1
      /\ Len(data) = at[n + 1] - 1 + Len(end) /\ at[1] = 4 + Len(value)
      /\ Len(end) = 1 => data[at[n + 1]] = Newline
  BY DEF IsStatus
<1>2. at[1] \in Nat /\ at[k] \in Nat /\ at[1] <= at[k]
  <2>1. 1 \in 1 .. n + 1 /\ k \in 1 .. n + 1
    OBVIOUS
  <2> QED
    BY <2>1, LinesInOrder
<1>3. at[n + 1] \in Nat /\ at[k] <= at[n + 1]
  <2>1. n + 1 \in k .. n + 1
    OBVIOUS
  <2> QED
    BY <2>1, LinesInOrder
<1>4. at[k] \in 4 .. Len(data) + 1 /\ at[n + 1] <= Len(data) + 1
  BY SMTT(30), <1>1, <1>2, <1>3
<1>5. ASSUME k \in 1 .. n
      PROVE  /\ at[k] <= Len(data) /\ Len(Text(lines, k)) \in Nat /\ data[at[k]] = Newline
             /\ at[k + 1] = at[k] + 1 + Len(Text(lines, k)) /\ at[k + 1] <= Len(data) + 1
             /\ \A j \in 1 .. Len(Text(lines, k)) : data[at[k] + j] = Text(lines, k)[j]
  <2>1. /\ Len(Text(lines, k)) \in Nat /\ at[k + 1] = at[k] + 1 + Len(Text(lines, k))
        /\ data[at[k]] = Newline
        /\ \A j \in 1 .. Len(Text(lines, k)) : data[at[k] + j] = Text(lines, k)[j]
    BY <1>5 DEF IsStatus
  <2>2. at[k + 1] \in Nat /\ at[k + 1] <= at[n + 1]
    <3>1. k + 1 \in 1 .. n + 1 /\ n + 1 \in k + 1 .. n + 1
      BY <1>5
    <3> QED
      BY <3>1, LinesInOrder
  <2>3. at[k + 1] <= Len(data) + 1
    BY <1>1, <1>3, <1>4, <2>2
  <2>4. /\ at[k] \in Nat /\ Len(data) \in Nat /\ Len(Text(lines, k)) \in Nat
        /\ at[k + 1] = at[k] + 1 + Len(Text(lines, k))
    BY <1>1, <1>2, <2>1
  <2>5. at[k] <= Len(data)
    BY ONLY <2>3, <2>4
  <2> QED
    BY <2>1, <2>3, <2>5
<1>6. at[k] <= Len(data) => data[at[k]] = Newline
  <2>1. CASE k = n + 1
    <3>1. at[k] <= Len(data) => Len(end) = 1
      BY <1>1, <1>2, <2>1
    <3> QED
      BY <1>1, <2>1, <3>1
  <2>2. CASE k \in 1 .. n
    BY <1>5, <2>2
  <2> QED
    BY <2>1, <2>2
<1>7. k <= n => k \in 1 .. n
  OBVIOUS
<1> QED
  BY <1>1, <1>2, <1>4, <1>5, <1>6, <1>7

\* A place is one where a newline may stand.
IsPlace(data, p) ==
  /\ data \in Seq(Symbols) /\ Len(data) \in Nat /\ p \in Nat
  /\ p \in 4 .. Len(data) + 1 /\ (p <= Len(data) => data[p] = Newline)

LEMMA PlaceAt ==
  ASSUME NEW n \in Nat, NEW data, NEW value, NEW lines, NEW at, NEW end,
         IsStatus(data, value, lines, n, at, end), NEW k \in 1 .. n + 1
  PROVE  IsPlace(data, at[k])
<1>1. data \in Seq(Symbols)
  BY DEF IsStatus
<1>2. Len(data) \in Nat /\ at[k] \in 4 .. Len(data) + 1
  BY PlaceIs
<1>3. at[k] <= Len(data) => data[at[k]] = Newline
  BY PlaceIs
<1>4. at[k] \in Nat
  BY <1>2
<1> QED
  BY <1>1, <1>2, <1>3, <1>4 DEF IsPlace

\* The line t stands behind the newline at p of the data, before the place at next.
Follows(t, data, p, next) ==
  /\ Leads(t, Behind(data, p)) /\ Len(Behind(data, p)) = Len(data) - p
  /\ p <= Len(data) /\ next = p + 1 + Len(t) /\ Len(t) \in Nat

LEMMA LineLeads ==
  ASSUME NEW n \in Nat, NEW data, NEW value, NEW lines \in [1 .. n -> Lines], NEW at, NEW end,
         IsStatus(data, value, lines, n, at, end), NEW k \in 1 .. n
  PROVE  Follows(Text(lines, k), data, at[k], at[k + 1])
<1> DEFINE t == Text(lines, k)
           r == Behind(data, at[k])
<1>1. k \in 1 .. n + 1 /\ k + 1 \in 1 .. n + 1 /\ k <= n
  OBVIOUS
<1>2. /\ Len(data) \in Nat /\ at[k] \in 4 .. Len(data) + 1 /\ at[k] <= Len(data) /\ Len(t) \in Nat
      /\ at[k + 1] = at[k] + 1 + Len(t) /\ at[k + 1] <= Len(data) + 1
      /\ \A j \in 1 .. Len(t) : data[at[k] + j] = t[j]
  BY <1>1, PlaceIs
<1>3. at[k + 1] <= Len(data) => data[at[k + 1]] = Newline
  BY <1>1, PlaceIs
<1>4. data \in Seq(Symbols) /\ at[k] \in 0 .. Len(data)
  BY <1>2 DEF IsStatus
<1>5. /\ r \in Seq(Symbols) /\ Len(r) = Len(data) - at[k]
      /\ \A j \in 1 .. Len(data) - at[k] : r[j] = data[at[k] + j]
  BY <1>4, BehindIs
<1>6. t \in Seq(Symbols)
  BY LineIsText DEF Text
<1> HIDE DEF t, r
<1>7. Len(r) \in Nat /\ Len(t) \in 0 .. Len(r)
  BY <1>2, <1>5
<1>8. ASSUME NEW j \in 1 .. Len(t) PROVE r[j] = t[j]
  <2>1. j \in 1 .. Len(data) - at[k]
    BY <1>5, <1>7
  <2> QED
    BY <1>2, <1>5, <2>1
<1>9. ASSUME Len(r) > Len(t) PROVE r[Len(t) + 1] = Newline
  <2>1. /\ Len(t) + 1 \in 1 .. Len(data) - at[k] /\ at[k] + (Len(t) + 1) = at[k + 1]
        /\ at[k + 1] <= Len(data)
    <3>1. PICK d \in Nat, a \in Nat, m \in Nat : d = Len(data) /\ a = at[k] /\ m = Len(t)
      BY <1>2, <1>7
    <3>2. at[k + 1] = a + 1 + m /\ d - a > m
      BY <1>2, <1>5, <1>9, <3>1
    <3>3. m + 1 \in 1 .. d - a /\ a + (m + 1) = a + 1 + m /\ a + 1 + m <= d
      BY ONLY d \in Nat, a \in Nat, m \in Nat, <3>2
    <3> QED
      BY <3>1, <3>2, <3>3
  <2> QED
    BY <1>3, <1>5, <2>1
<1>10. Leads(t, r)
  BY <1>5, <1>6, <1>7, <1>8, <1>9 DEF Leads
<1> QED
  BY <1>2, <1>5, <1>10 DEF t, r, Follows

\* Without a quote in what is left there is no player in it.
LEMMA NoQuoteNoPlayer ==
  ASSUME NEW n \in Nat, NEW data, NEW value, NEW lines \in [1 .. n -> Lines], NEW at, NEW end,
         IsStatus(data, value, lines, n, at, end), NEW i \in 1 .. n,
         NEW p \in 0 .. at[i], NEW r, r = Behind(data, p), find(r, Quote, 1) > Len(r)
  PROVE  lines[i].players = << >>
<1>1. CASE IsJunk(lines[i])
  BY <1>1 DEF IsJunk
<1>2. ASSUME NEW name, NEW score, NEW ping, IsPlayer(lines[i], name, score, ping)
      PROVE  FALSE
  <2> DEFINE t == Text(lines, i)
             m == Len(t)
  <2>1. /\ Len(data) \in Nat /\ at[i] \in 4 .. Len(data) + 1 /\ at[i] <= Len(data) /\ m \in Nat
        /\ at[i + 1] = at[i] + 1 + m /\ at[i + 1] <= Len(data) + 1
        /\ \A j \in 1 .. m : data[at[i] + j] = t[j]
    <3>1. i \in 1 .. n + 1 /\ i <= n
      OBVIOUS
    <3> QED
      BY <3>1, PlaceIs
  <2>2. m \in 1 .. m /\ t[m] = Quote
    <3>1. IsPlayerText(t, name, score, ping)
      BY <1>2 DEF IsPlayer, Text
    <3> QED
      BY <3>1 DEF IsPlayerText
  <2>3. data \in Seq(Symbols) /\ p \in 0 .. Len(data)
    <3>1. data \in Seq(Symbols)
      BY DEF IsStatus
    <3> QED
      BY <2>1, <3>1
  <2>4. Len(r) = Len(data) - p /\ \A j \in 1 .. Len(data) - p : r[j] = data[p + j]
    BY <2>3, BehindIs
  <2> HIDE DEF t, m
  <2>5. PICK j \in 1 .. Len(data) - p : j = at[i] + m - p /\ p + j = at[i] + m
    <3>1. /\ Len(data) \in Nat /\ at[i] \in Nat /\ at[i] + 1 + m <= Len(data) + 1 /\ m \in Nat \ {0}
          /\ p \in Nat /\ p <= at[i]
      BY <2>1, <2>2
    <3>2. at[i] + m - p \in 1 .. Len(data) - p /\ p + (at[i] + m - p) = at[i] + m
      BY ONLY SMTT(30), <3>1
    <3> QED
      BY <3>2
  <2>6. r[j] = Quote
    BY <2>1, <2>2, <2>4, <2>5
  <2>7. Len(r) \in Nat /\ j \in 1 .. Len(r) /\ 1 \in Nat \ {0}
    BY <2>1, <2>3, <2>4
  <2>8. \/ find(r, Quote, 1) \in 1 .. Len(r)
        \/ \A k \in 1 .. Len(r) : r[k] # Quote
    BY ONLY <2>7, FoundOrNot
  <2> QED
    BY <2>6, <2>7, <2>8
<1> QED
  BY <1>1, <1>2, LineIs

\* From a newline of the heading the loop comes to the next, or to that of the first line.
HeadingGoes(data, first, p, r, e, q) ==
  /\ Len(r) \in Nat /\ Len(r) = Len(data) - p /\ e \in 1 .. Len(r) + 1
  /\ p + e <= first /\ (p + e <= Len(data) => data[p + e] = Newline)
  /\ q \in e .. Len(r) + 1

LEMMA HeadingIsFound ==
  ASSUME NEW n \in Nat, NEW data, NEW value \in Without({Quote}), NEW lines, NEW at, NEW end,
         IsStatus(data, value, lines, n, at, end), NEW p \in 4 .. at[1] - 1,
         NEW r, r = Behind(data, p), NEW e, e = find(r, Newline, 1),
         NEW q, q = find(r, Quote, 1)
  PROVE  HeadingGoes(data, at[1], p, r, e, q)
<1>1. /\ Len(data) \in Nat /\ at[1] \in 4 .. Len(data) + 1
      /\ at[1] <= Len(data) => data[at[1]] = Newline
  <2>1. 1 \in 1 .. n + 1
    OBVIOUS
  <2> QED
    BY <2>1, PlaceIs
<1>2. /\ data \in Seq(Symbols) /\ p \in 0 .. Len(data) /\ at[1] = 4 + Len(value)
      /\ Len(value) \in Nat /\ \A j \in 1 .. Len(value) : data[3 + j] = value[j]
  BY <1>1 DEF IsStatus
<1>3. Len(r) = Len(data) - p /\ \A j \in 1 .. Len(data) - p : r[j] = data[p + j]
  BY <1>2, BehindIs
<1>4. Len(r) \in Nat /\ 1 \in Nat \ {0}
  BY <1>1, <1>2, <1>3
<1>5. \/ e \in 1 .. Len(r) /\ r[e] = Newline /\ \A j \in 1 .. e - 1 : r[j] # Newline
      \/ (\A j \in 1 .. Len(r) : r[j] # Newline) /\ e = IF 1 >= Len(r) + 1 THEN 1 ELSE Len(r) + 1
  BY ONLY <1>4, e = find(r, Newline, 1), FoundOrNot
<1>6. \/ q \in 1 .. Len(r) /\ r[q] = Quote
      \/ q = IF 1 >= Len(r) + 1 THEN 1 ELSE Len(r) + 1
  BY ONLY <1>4, q = find(r, Quote, 1), FoundOrNot
<1>7. e \in 1 .. Len(r) + 1 /\ q \in 1 .. Len(r) + 1
  BY <1>4, <1>5, <1>6
<1>8. p + e <= Len(data) => data[p + e] = Newline
  <2>1. SUFFICES ASSUME p + e <= Len(data) PROVE data[p + e] = Newline
    OBVIOUS
  <2>2. e \in 1 .. Len(r)
    BY <1>1, <1>2, <1>3, <1>7, <2>1
  <2>3. r[e] = Newline
    BY <1>5, <2>2
  <2> QED
    BY <1>3, <2>2, <2>3
<1>9. p + e <= at[1]
  <2>1. SUFFICES ASSUME p + e > at[1] PROVE FALSE
    BY <1>1, <1>2, <1>7
  <2>2. PICK j \in 1 .. Len(r) : j = at[1] - p /\ p + j = at[1] /\ j < e /\ at[1] <= Len(data)
    <3>1. at[1] - p \in 1 .. Len(r) /\ p + (at[1] - p) = at[1] /\ at[1] - p < e /\ at[1] <= Len(data)
      BY <1>1, <1>2, <1>3, <1>7, <2>1
    <3> QED
      BY <3>1
  <2>3. r[j] = Newline
    BY <1>1, <1>3, <2>2
  <2>4. j \in 1 .. e - 1
    BY <1>4, <1>7, <2>2
  <2> QED
    BY <1>5, <2>2, <2>3, <2>4
<1>10. q >= e
  <2>1. SUFFICES ASSUME q < e PROVE FALSE
    BY <1>4, <1>7
  <2>2. q \in 1 .. Len(r)
    BY <1>4, <1>7, <2>1
  <2>3. r[q] = Quote
    BY <1>4, <1>6, <2>2
  <2>4. data[p + q] = Quote
    BY <1>3, <2>2, <2>3
  <2>5. PICK j \in 1 .. Len(value) : 3 + j = p + q
    <3>1. PICK v \in Nat : v = Len(value)
      BY <1>2
    <3>2. /\ p \in Nat /\ q \in Nat \ {0} /\ e \in Nat /\ p + e <= 4 + v /\ q < e
          /\ p + q > 3
      <4>1. p \in Nat /\ q \in Nat \ {0} /\ e \in Nat /\ p + e <= 4 + v
        BY <1>2, <1>4, <1>7, <1>9, <3>1
      <4> QED
        BY <2>1, <4>1
    <3>3. p + q - 3 \in 1 .. v /\ 3 + (p + q - 3) = p + q
      BY ONLY v \in Nat, <3>2
    <3> QED
      BY <3>1, <3>3
  <2>6. value[j] # Quote
    BY HasNone
  <2> QED
    BY <1>2, <2>4, <2>5, <2>6
<1>11. q \in e .. Len(r) + 1
  BY <1>4, <1>7, <1>10
<1> QED
  BY <1>3, <1>4, <1>7, <1>8, <1>9, <1>11 DEF HeadingGoes

-----------------------------------------------------------------------------
(* The players so far.                                                     *)

IsList(s) == Len(s) \in Nat /\ s = [i \in 1 .. Len(s) |-> s[i]]

LEMMA ListGrows ==
  ASSUME NEW s, IsList(s), NEW x
  PROVE  /\ IsList(Append(s, x)) /\ Len(Append(s, x)) = Len(s) + 1
         /\ \A i \in 1 .. Len(s) : Append(s, x)[i] = s[i]
         /\ Append(s, x)[Len(s) + 1] = x
<1> DEFINE C == {s[i] : i \in 1 .. Len(s)} \cup {x}
           u == Append(s, x)
<1>1. Len(s) \in Nat /\ \A i \in 1 .. Len(s) : s[i] \in C
  BY DEF IsList
<1>2. s \in Seq(C) /\ x \in C
  <2>1. [i \in 1 .. Len(s) |-> s[i]] \in Seq(C)
    BY <1>1
  <2> QED
    BY <2>1 DEF IsList
<1> HIDE DEF C
<1>3. /\ u \in Seq(C) /\ Len(u) = Len(s) + 1
      /\ \A i \in 1 .. Len(s) : u[i] = s[i]
      /\ u[Len(s) + 1] = x
  BY <1>2
<1>4. u = [i \in 1 .. Len(u) |-> u[i]] /\ Len(u) \in Nat
  <2> HIDE DEF u
  <2> QED
    BY <1>3
<1> QED
  BY <1>3, <1>4 DEF IsList

Kept(players) ==
  [i \in DOMAIN players |-> IF players[i].valid THEN <<players[i]>> ELSE << >>]

LEMMA OnlyValidGrows ==
  ASSUME NEW s, IsList(s), NEW x
  PROVE  /\ OnlyValid(Append(s, x)) = OnlyValid(s) \o (IF x.valid THEN <<x>> ELSE << >>)
         /\ \E C : OnlyValid(s) \in Seq(C)
<1> DEFINE u == Append(s, x)
           n == Len(s)
           C == {u[i] : i \in 1 .. n + 1}
<1>1. /\ n \in Nat /\ DOMAIN s = 1 .. n /\ DOMAIN u = 1 .. n + 1
      /\ \A i \in 1 .. n : u[i] = s[i]
      /\ u[n + 1] = x
  <2>1. n \in Nat /\ s = [i \in 1 .. n |-> s[i]]
    BY DEF IsList
  <2>2. /\ IsList(u) /\ Len(u) = n + 1
        /\ \A i \in 1 .. n : u[i] = s[i]
        /\ u[n + 1] = x
    BY ListGrows
  <2>3. u = [i \in 1 .. n + 1 |-> u[i]]
    BY <2>2 DEF IsList
  <2> HIDE DEF u, n
  <2>4. DOMAIN s = 1 .. n /\ DOMAIN u = 1 .. n + 1
    BY <2>1, <2>3
  <2> QED
    BY <2>1, <2>2, <2>4
<1> HIDE DEF u, n
<1>2. \A i \in 1 .. n + 1 : Kept(u)[i] = IF u[i].valid THEN <<u[i]>> ELSE << >>
  BY <1>1 DEF Kept
<1>3. ASSUME NEW i \in 1 .. n + 1 PROVE Kept(u)[i] \in Seq(C)
  <2>1. u[i] \in C
    OBVIOUS
  <2> HIDE DEF C
  <2>2. <<u[i]>> \in Seq(C) /\ << >> \in Seq(C)
    BY <2>1
  <2> QED
    BY <1>2, <2>2
<1> HIDE DEF C
<1>4. /\ Flat(Kept(u), n + 1) \in Seq(C)
      /\ \A k \in Nat : k + 1 <= n + 1 => Flat(Kept(u), k + 1) = Flat(Kept(u), k) \o Kept(u)[k + 1]
  <2>1. n + 1 \in Nat
    BY <1>1
  <2> QED
    BY ONLY <1>3, <2>1, FlatType
<1>5. Flat(Kept(u), n) \in Seq(C)
  <2>1. \A i \in 1 .. n : Kept(u)[i] \in Seq(C)
    BY <1>1, <1>3
  <2> QED
    BY ONLY <1>1, <2>1, FlatType
<1>6. OnlyValid(u) = Flat(Kept(u), n + 1)
  <2>1. [i \in 1 .. n + 1 |-> Kept(u)[i]]
          = [i \in DOMAIN u |-> IF u[i].valid THEN <<u[i]>> ELSE << >>]
    BY <1>1 DEF Kept
  <2> QED
    BY <2>1 DEF OnlyValid, Flat
<1>7. OnlyValid(s) = Flat(Kept(u), n)
  <2>1. [i \in 1 .. n |-> Kept(u)[i]]
          = [i \in DOMAIN s |-> IF s[i].valid THEN <<s[i]>> ELSE << >>]
    BY <1>1 DEF Kept
  <2> QED
    BY <2>1 DEF OnlyValid, Flat
<1>8. Flat(Kept(u), n + 1) = Flat(Kept(u), n) \o Kept(u)[n + 1]
  BY <1>1, <1>4
<1>9. Kept(u)[n + 1] = IF x.valid THEN <<x>> ELSE << >>
  <2>1. n + 1 \in 1 .. n + 1
    BY <1>1
  <2> QED
    BY <1>1, <1>2, <2>1
<1> QED
  BY <1>5, <1>6, <1>7, <1>8, <1>9 DEF u

LEMMA InvalidIsLeftOut ==
  ASSUME NEW s, IsList(s), NEW x, ~x.valid
  PROVE  OnlyValid(Append(s, x)) = OnlyValid(s)
<1>1. PICK C : OnlyValid(s) \in Seq(C)
  BY OnlyValidGrows
<1>2. OnlyValid(Append(s, x)) = OnlyValid(s) \o << >>
  BY OnlyValidGrows
<1>3. OnlyValid(s) \o << >> = OnlyValid(s)
  BY <1>1, ConcatEmptySeq
<1> QED
  BY <1>2, <1>3

\* What the lines tell.
Tales(lines) == [i \in DOMAIN lines |-> lines[i].players]

LEMMA TalesAre ==
  ASSUME NEW n \in Nat, NEW lines \in [1 .. n -> Lines]
  PROVE  /\ \A k \in Nat : k + 1 <= n =>
              Flat(Tales(lines), k + 1) = Flat(Tales(lines), k) \o lines[k + 1].players
         /\ \E C : \A k \in 0 .. n : Flat(Tales(lines), k) \in Seq(C)
<1> DEFINE C == {lines[i].players[1] : i \in 1 .. n}
<1>1. ASSUME NEW i \in 1 .. n
      PROVE  Tales(lines)[i] = lines[i].players /\ lines[i].players \in Seq(C)
  <2>1. Tales(lines)[i] = lines[i].players
    BY DEF Tales
  <2>2. CASE IsJunk(lines[i])
    BY <2>1, <2>2 DEF IsJunk
  <2>3. CASE \E name, score, ping : IsPlayer(lines[i], name, score, ping)
    <3>1. PICK x : lines[i].players = <<x>>
      BY <2>3 DEF IsPlayer
    <3>2. lines[i].players[1] = x
      BY <3>1
    <3>3. x \in C
      BY <3>2
    <3> QED
      BY <2>1, <3>1, <3>3
  <2> QED
    BY <2>2, <2>3, LineIs
<1> HIDE DEF C
<1>2. \A i \in 1 .. n : Tales(lines)[i] \in Seq(C)
  BY <1>1
<1>3. ASSUME NEW k \in 0 .. n PROVE Flat(Tales(lines), k) \in Seq(C)
  <2>1. k \in Nat /\ \A i \in 1 .. k : Tales(lines)[i] \in Seq(C)
    BY <1>2
  <2> QED
    BY ONLY <2>1, FlatType
<1>4. \A k \in Nat : k + 1 <= n =>
        Flat(Tales(lines), k + 1) = Flat(Tales(lines), k) \o Tales(lines)[k + 1]
  BY ONLY <1>2, n \in Nat, FlatType
<1>5. ASSUME NEW k \in Nat, k + 1 <= n
      PROVE  Flat(Tales(lines), k + 1) = Flat(Tales(lines), k) \o lines[k + 1].players
  <2>1. k + 1 \in 1 .. n
    BY <1>5
  <2>2. Tales(lines)[k + 1] = lines[k + 1].players
    BY <1>1, <2>1
  <2> QED
    BY <1>4, <1>5, <2>2
<1>6. \E D : \A k \in 0 .. n : Flat(Tales(lines), k) \in Seq(D)
  BY <1>3
<1> QED
  BY <1>5, <1>6

LEMMA NothingTold ==
  ASSUME NEW n \in Nat, NEW lines \in [1 .. n -> Lines], NEW k \in 0 .. n, NEW m \in k .. n,
         \A i \in k + 1 .. m : lines[i].players = << >>
  PROVE  Flat(Tales(lines), m) = Flat(Tales(lines), k)
<1> DEFINE S == {d \in Nat : k + d <= m => Flat(Tales(lines), k + d) = Flat(Tales(lines), k)}
<1>1. 0 \in S
  OBVIOUS
<1>2. ASSUME NEW d \in S PROVE d + 1 \in S
  <2>1. SUFFICES ASSUME k + (d + 1) <= m
                 PROVE  Flat(Tales(lines), k + (d + 1)) = Flat(Tales(lines), k)
    OBVIOUS
  <2>2. PICK j \in Nat : j = k + d /\ j + 1 = k + (d + 1) /\ j + 1 \in k + 1 .. m /\ j + 1 <= n
                         /\ j \in 0 .. n
    BY <2>1
  <2>3. Flat(Tales(lines), j) = Flat(Tales(lines), k)
    BY <2>2
  <2>4. lines[j + 1].players = << >>
    BY <2>2
  <2>5. Flat(Tales(lines), j + 1) = Flat(Tales(lines), j) \o << >>
    <3>1. Flat(Tales(lines), j + 1) = Flat(Tales(lines), j) \o lines[j + 1].players
      BY <2>2, TalesAre
    <3> QED
      BY <2>4, <3>1
  <2>6. PICK C : Flat(Tales(lines), j) \in Seq(C)
    BY <2>2, TalesAre
  <2>7. Flat(Tales(lines), j) \o << >> = Flat(Tales(lines), j)
    BY <2>6, ConcatEmptySeq
  <2> QED
    BY <2>2, <2>3, <2>5, <2>7
<1>3. S = Nat
  <2>1. S \in SUBSET Nat
    OBVIOUS
  <2> HIDE DEF S
  <2> QED
    BY <1>1, <1>2, <2>1, SetInduction
<1>4. PICK d \in Nat : k + d = m
  <2>1. m - k \in Nat /\ k + (m - k) = m
    OBVIOUS
  <2> QED
    BY <2>1
<1>5. d \in S
  BY <1>3
<1> QED
  BY <1>4, <1>5

-----------------------------------------------------------------------------
(* How far a status is read.                                               *)

\* The parser, at s of d, stands at p of the data.
Stands(d, s, data, p) ==
  /\ p \in 4 .. Len(data) + 1 /\ s \in Nat /\ Len(d) \in Nat
  /\ p <= Len(data) => data[p] = Newline /\ s <= Len(d) /\ Behind(d, s) = Behind(data, p)
  /\ p = Len(data) + 1 => s > Len(d)

IsFirst(lines, i) == lines[i].players # << >> /\ \A j \in 1 .. i - 1 : lines[j].players = << >>

\* Of the lines k are read, and their players; the infostring is what precedes the
\* first player, or what precedes p.
IsRead(x, data, lines, at, k) ==
  /\ Status(x, x.data, x.sepIdx, x.infoStream, x.players) /\ IsList(x.players)
  /\ OnlyValid(x.players) = Flat(Tales(lines), k)
  /\ ~x.validPlayerParsed => \A i \in 1 .. k : lines[i].players = << >>
  /\ x.validPlayerParsed =>
       \E i \in 1 .. k : IsFirst(lines, i) /\ x.infoStream = Before(data, at[i])

IsAt(x, data, at, k, p) ==
  /\ Stands(x.data, x.sepIdx, data, p)
  /\ p = at[k + 1] \/ (k = 0 /\ p < at[1])
  /\ ~x.validPlayerParsed => x.infoStream = Before(data, p)

NoneAfter(lines, n, k) == \A i \in k + 1 .. n : lines[i].players = << >>

Reading(x, data, lines, n, at, k, p) ==
  /\ IsRead(x, data, lines, at, k)
  /\ x.done => NoneAfter(lines, n, k)
  /\ ~x.done => IsAt(x, data, at, k, p)

\* What is behind a newline, up to the next.
LEMMA StandsNext ==
  ASSUME NEW data \in Seq(Symbols), NEW p \in 4 .. Len(data), NEW r, r = Behind(data, p),
         NEW e \in 1 .. Len(r) + 1, p + e <= Len(data) => data[p + e] = Newline
  PROVE  Stands(r, e, data, p + e) /\ Len(r) = Len(data) - p
<1>1. Len(data) \in Nat /\ p \in 0 .. Len(data)
  OBVIOUS
<1>2. Len(r) = Len(data) - p
  BY <1>1, BehindIs
<1>3. p + e \in 4 .. Len(data) + 1
  BY <1>1, <1>2
<1>4. ASSUME p + e <= Len(data)
      PROVE  data[p + e] = Newline /\ e <= Len(r) /\ Behind(r, e) = Behind(data, p + e)
  <2>1. e \in 0 .. Len(data) - p
    BY <1>1, <1>2, <1>4
  <2>2. Behind(r, e) = Behind(data, p + e)
    BY <1>1, <2>1, BehindBehind
  <2> QED
    BY <1>2, <1>4, <2>1, <2>2
<1>5. p + e = Len(data) + 1 => e > Len(r)
  BY <1>1, <1>2
<1>6. e \in Nat /\ Len(r) \in Nat
  BY <1>1, <1>2
<1> QED
  BY <1>2, <1>3, <1>4, <1>5, <1>6 DEF Stands

\* A turn that finds no player: the infostring takes the line, if there is none yet.
LEMMA NoPlayerStep ==
  ASSUME NEW n \in Nat, NEW data \in Seq(Symbols), NEW lines \in [1 .. n -> Lines], NEW at,
         NEW k \in 0 .. n, NEW p \in 4 .. Len(data), data[p] = Newline,
         NEW x, IsRead(x, data, lines, at, k),
         ~x.validPlayerParsed => x.infoStream = Before(data, p),
         NEW r, r = Behind(data, p), NEW e \in 1 .. Len(r) + 1,
         p + e <= Len(data) => data[p + e] = Newline,
         NEW y, Malformed(x, y, r, e), NEW m \in k .. n,
         \A i \in k + 1 .. m : lines[i].players = << >>,
         y.done => NoneAfter(lines, n, m),
         ~y.done => (p + e = at[m + 1] \/ (m = 0 /\ p + e < at[1]))
  PROVE  Reading(y, data, lines, n, at, m, p + e)
<1>1. Stands(r, e, data, p + e) /\ Len(r) = Len(data) - p
  BY StandsNext
<1>2. /\ y.data = r /\ y.sepIdx = e /\ y.players = x.players
      /\ Status(y, y.data, y.sepIdx, y.infoStream, y.players)
      /\ y.validPlayerParsed <=> x.validPlayerParsed
      /\ x.validPlayerParsed => y.infoStream = x.infoStream
      /\ ~x.validPlayerParsed => y.infoStream = x.infoStream \o (<<Newline>> \o Before(r, e))
  BY DEF Malformed, Status
<1>3. IsList(y.players) /\ OnlyValid(y.players) = Flat(Tales(lines), m)
  BY <1>2, NothingTold DEF IsRead
<1>4. ASSUME ~y.validPlayerParsed, NEW i \in 1 .. m PROVE lines[i].players = << >>
  <2>1. i \in 1 .. k \/ i \in k + 1 .. m
    OBVIOUS
  <2> QED
    BY <1>2, <1>4, <2>1 DEF IsRead
<1>5. ASSUME y.validPlayerParsed
      PROVE  \E i \in 1 .. m : IsFirst(lines, i) /\ y.infoStream = Before(data, at[i])
  <2>1. PICK i \in 1 .. k : IsFirst(lines, i) /\ x.infoStream = Before(data, at[i])
    BY <1>2, <1>5 DEF IsRead
  <2>2. i \in 1 .. m
    OBVIOUS
  <2> QED
    BY <1>2, <1>5, <2>1, <2>2
<1>6. IsRead(y, data, lines, at, m)
  BY <1>2, <1>3, <1>4, <1>5 DEF IsRead
<1>7. ASSUME ~y.validPlayerParsed PROVE y.infoStream = Before(data, p + e)
  <2>1. y.infoStream = Before(data, p) \o (<<Newline>> \o Before(Behind(data, p), e))
    BY <1>2, <1>7
  <2>2. p \in 1 .. Len(data) /\ e \in 1 .. Len(data) - p + 1
    BY <1>1
  <2> QED
    BY <2>1, <2>2, BeforeGrows
<1> QED
  BY <1>1, <1>2, <1>6, <1>7 DEF Reading, IsAt

\* One that finds a player.
LEMMA PlayerStep ==
  ASSUME NEW n \in Nat, NEW data \in Seq(Symbols), NEW lines \in [1 .. n -> Lines], NEW at,
         NEW k \in 0 .. n - 1, NEW p \in 4 .. Len(data), p = at[k + 1], data[p] = Newline,
         NEW x, IsRead(x, data, lines, at, k),
         ~x.validPlayerParsed => x.infoStream = Before(data, p),
         NEW r, r = Behind(data, p), NEW e \in 1 .. Len(r) + 1,
         p + e <= Len(data) => data[p + e] = Newline, p + e = at[k + 2],
         NEW player, lines[k + 1].players = <<player>>, player.valid,
         NEW y, Status(y, r, e, x.infoStream, Append(x.players, player)),
         y.validPlayerParsed, ~y.done
  PROVE  Reading(y, data, lines, n, at, k + 1, p + e)
<1>1. Stands(r, e, data, p + e)
  BY StandsNext
<1>2. /\ y.data = r /\ y.sepIdx = e /\ y.players = Append(x.players, player)
      /\ y.infoStream = x.infoStream
      /\ Status(y, y.data, y.sepIdx, y.infoStream, y.players)
  BY DEF Status
<1>3. IsList(x.players) /\ OnlyValid(x.players) = Flat(Tales(lines), k)
  BY DEF IsRead
<1>4. IsList(y.players)
  BY <1>2, <1>3, ListGrows
<1>5. OnlyValid(y.players) = Flat(Tales(lines), k + 1)
  <2>1. OnlyValid(y.players) = OnlyValid(x.players) \o <<player>>
    BY <1>2, <1>3, OnlyValidGrows
  <2>2. k \in Nat /\ k + 1 <= n
    OBVIOUS
  <2>3. Flat(Tales(lines), k + 1) = Flat(Tales(lines), k) \o lines[k + 1].players
    BY <2>2, TalesAre
  <2> QED
    BY <1>3, <2>1, <2>3
<1>6. \E i \in 1 .. k + 1 : IsFirst(lines, i) /\ y.infoStream = Before(data, at[i])
  <2>1. CASE x.validPlayerParsed
    <3>1. PICK i \in 1 .. k : IsFirst(lines, i) /\ x.infoStream = Before(data, at[i])
      BY <2>1 DEF IsRead
    <3>2. i \in 1 .. k + 1
      OBVIOUS
    <3> QED
      BY <1>2, <3>1, <3>2
  <2>2. CASE ~x.validPlayerParsed
    <3>1. \A j \in 1 .. (k + 1) - 1 : lines[j].players = << >>
      <4>1. (k + 1) - 1 = k
        OBVIOUS
      <4> QED
        BY <2>2, <4>1 DEF IsRead
    <3>2. lines[k + 1].players # << >>
      OBVIOUS
    <3>3. k + 1 \in 1 .. k + 1
      OBVIOUS
    <3>4. y.infoStream = Before(data, at[k + 1])
      BY <1>2, <2>2
    <3> QED
      BY <3>1, <3>2, <3>3, <3>4 DEF IsFirst
  <2> QED
    BY <2>1, <2>2
<1>7. IsRead(y, data, lines, at, k + 1)
  BY <1>2, <1>4, <1>5, <1>6 DEF IsRead
<1>8. p + e = at[(k + 1) + 1]
  <2>1. (k + 1) + 1 = k + 2
    OBVIOUS
  <2> QED
    BY <2>1
<1> QED
  BY <1>1, <1>2, <1>7, <1>8 DEF Reading, IsAt

\* One that finds a malformed player, behind others.
LEMMA InvalidStep ==
  ASSUME NEW n \in Nat, NEW data \in Seq(Symbols), NEW lines \in [1 .. n -> Lines], NEW at,
         NEW k \in 0 .. n - 1, NEW p \in 4 .. Len(data), data[p] = Newline,
         NEW x, IsRead(x, data, lines, at, k), x.validPlayerParsed,
         NEW r, r = Behind(data, p), NEW e \in 1 .. Len(r) + 1,
         p + e <= Len(data) => data[p + e] = Newline, p + e = at[k + 2],
         NEW player, lines[k + 1].players = << >>, ~player.valid,
         NEW y, Status(y, r, e, x.infoStream, Append(x.players, player)),
         y.validPlayerParsed, ~y.done
  PROVE  Reading(y, data, lines, n, at, k + 1, p + e)
<1>1. Stands(r, e, data, p + e)
  BY StandsNext
<1>2. /\ y.data = r /\ y.sepIdx = e /\ y.players = Append(x.players, player)
      /\ y.infoStream = x.infoStream
      /\ Status(y, y.data, y.sepIdx, y.infoStream, y.players)
  BY DEF Status
<1>3. IsList(x.players) /\ OnlyValid(x.players) = Flat(Tales(lines), k)
  BY DEF IsRead
<1>4. IsList(y.players)
  BY <1>2, <1>3, ListGrows
<1>5. OnlyValid(y.players) = Flat(Tales(lines), k + 1)
  <2>1. OnlyValid(y.players) = OnlyValid(x.players)
    BY <1>2, <1>3, InvalidIsLeftOut
  <2>2. k \in 0 .. n /\ k + 1 \in k .. n /\ \A i \in k + 1 .. k + 1 : lines[i].players = << >>
    OBVIOUS
  <2>3. Flat(Tales(lines), k + 1) = Flat(Tales(lines), k)
    BY <2>2, NothingTold
  <2> QED
    BY <1>3, <2>1, <2>3
<1>6. \E i \in 1 .. k + 1 : IsFirst(lines, i) /\ y.infoStream = Before(data, at[i])
  <2>1. PICK i \in 1 .. k : IsFirst(lines, i) /\ x.infoStream = Before(data, at[i])
    BY DEF IsRead
  <2>2. i \in 1 .. k + 1
    OBVIOUS
  <2> QED
    BY <1>2, <2>1, <2>2
<1>7. IsRead(y, data, lines, at, k + 1)
  BY <1>2, <1>4, <1>5, <1>6 DEF IsRead
<1>8. p + e = at[(k + 1) + 1]
  <2>1. (k + 1) + 1 = k + 2
    OBVIOUS
  <2> QED
    BY <2>1
<1> QED
  BY <1>1, <1>2, <1>7, <1>8 DEF Reading, IsAt

LEMMA HeadingStep ==
  ASSUME NEW n \in Nat, NEW data, NEW value \in Without({Quote}),
         NEW lines \in [1 .. n -> Lines], NEW at, NEW end,
         IsStatus(data, value, lines, n, at, end), NEW p \in 4 .. at[1] - 1,
         IsRead(parsed, data, lines, at, 0), IsAt(parsed, data, at, 0, p), ParseLine
  PROVE  \E m \in 0 .. n : \E next : Reading(parsed', data, lines, n, at, m, next)
<1> DEFINE r == Behind(data, p)
           e == find(r, Newline, 1)
           q == find(r, Quote, 1)
           q2 == find(r, Quote, q + 1)
           player == parsePlayerString(Before(r, q2 + 1), q, q2)
<1>0. r = Behind(data, p) /\ e = find(r, Newline, 1) /\ q = find(r, Quote, 1)
      /\ q2 = find(r, Quote, q + 1) /\ player = parsePlayerString(Before(r, q2 + 1), q, q2)
  OBVIOUS
<1> HIDE DEF r, e, q, q2, player
<1>1. /\ Len(r) \in Nat /\ Len(r) = Len(data) - p /\ e \in 1 .. Len(r) + 1
      /\ p + e <= at[1]
      /\ p + e <= Len(data) => data[p + e] = Newline
      /\ q \in e .. Len(r) + 1
  <2>1. HeadingGoes(data, at[1], p, r, e, q)
    BY <1>0, HeadingIsFound
  <2> QED
    BY <2>1 DEF HeadingGoes
<1>2. data \in Seq(Symbols) /\ Len(data) \in Nat /\ at[1] \in 4 .. Len(data) + 1
  <2>1. data \in Seq(Symbols)
    BY DEF IsStatus
  <2>2. 1 \in 1 .. n + 1
    OBVIOUS
  <2> QED
    BY <2>1, <2>2, PlaceIs
<1>3. p \in 4 .. Len(data) /\ p \in 0 .. at[1] /\ p \in Nat
  BY <1>2
<1>4. data[p] = Newline /\ r = Behind(parsed.data, parsed.sepIdx)
  BY <1>0, <1>2, <1>3 DEF IsAt, Stands
<1>5. Status(parsed, parsed.data, parsed.sepIdx, parsed.infoStream, parsed.players)
  BY DEF IsRead
<1>6. \/ Malformed(parsed, parsed', r, e) /\ ~parsed'.done
      \/ q > Len(r) /\ Malformed(parsed, parsed', r, e) /\ parsed'.done
  <2>1. q \notin 2 .. e - 1
    BY <1>1
  <2>2. Turn(parsed, parsed', r, e, q, q2, player)
    BY <1>0, <1>1, <1>4, <1>5, TurnIs
  <2> QED
    BY <2>1, <2>2 DEF Turn
<1>7. q > Len(r) => NoneAfter(lines, n, 0)
  <2>1. SUFFICES ASSUME q > Len(r), NEW i \in 1 .. n PROVE lines[i].players = << >>
    BY DEF NoneAfter
  <2>2. p \in 0 .. at[i]
    <3>1. i \in 1 .. n + 1
      OBVIOUS
    <3>2. at[1] <= at[i] /\ at[i] \in Nat
      BY <3>1, PlaceIs
    <3> QED
      BY <1>2, <1>3, <3>2
  <2>3. r = Behind(data, p) /\ find(r, Quote, 1) > Len(r)
    BY <1>0, <2>1
  <2> QED
    BY <2>2, <2>3, NoQuoteNoPlayer
<1>8. 0 \in 0 .. n /\ 0 \in 0 .. n /\ (\A i \in 0 + 1 .. 0 : lines[i].players = << >>)
      /\ (p + e = at[0 + 1] \/ (0 = 0 /\ p + e < at[1]))
  <2>1. p + e \in Nat /\ at[1] \in Nat /\ p + e <= at[1]
    BY <1>1, <1>2, <1>3
  <2>2. p + e = at[1] \/ p + e < at[1]
    BY ONLY <2>1
  <2>3. 0 + 1 = 1 /\ 0 \in 0 .. n
    OBVIOUS
  <2>4. \A i \in 0 + 1 .. 0 : lines[i].players = << >>
    OBVIOUS
  <2> QED
    BY <2>2, <2>3, <2>4
<1>9. ~parsed.validPlayerParsed => parsed.infoStream = Before(data, p)
  BY DEF IsAt
<1>10. Malformed(parsed, parsed', r, e) /\ (parsed'.done => NoneAfter(lines, n, 0))
  BY <1>6, <1>7
<1>12. Reading(parsed', data, lines, n, at, 0, p + e)
  BY <1>0, <1>1, <1>2, <1>3, <1>4, <1>8, <1>9, <1>10, NoPlayerStep
<1> QED
  BY <1>8, <1>12

\* At a line.
LEMMA LineStep ==
  ASSUME NEW n \in Nat, NEW data, NEW value,
         NEW lines \in [1 .. n -> Lines], NEW at, NEW end,
         IsStatus(data, value, lines, n, at, end), NEW k \in 0 .. n - 1, NEW p, p = at[k + 1],
         IsRead(parsed, data, lines, at, k), IsAt(parsed, data, at, k, p), ParseLine
  PROVE  \E m \in 0 .. n : \E next : Reading(parsed', data, lines, n, at, m, next)
<1> DEFINE r == Behind(data, p)
           t == Text(lines, k + 1)
           e == Len(t) + 1
           q == find(r, Quote, 1)
           q2 == find(r, Quote, q + 1)
           player == parsePlayerString(Before(r, q2 + 1), q, q2)
<1>0. r = Behind(data, p) /\ t = lines[k + 1].text /\ e = Len(t) + 1 /\ q = find(r, Quote, 1)
      /\ q2 = find(r, Quote, q + 1) /\ player = parsePlayerString(Before(r, q2 + 1), q, q2)
      /\ t = Text(lines, k + 1)
  BY DEF Text
<1> HIDE DEF r, e, q, q2, player, t
<1>1. /\ k + 1 \in 1 .. n /\ k + 1 \in 1 .. n + 1 /\ k + 1 <= n /\ (k + 1) + 1 = k + 2
      /\ k + 2 \in 1 .. n + 1 /\ k + 1 \in k .. n /\ k \in 0 .. n /\ k + 1 \in 0 .. n
  OBVIOUS
<1>10. Follows(t, data, p, at[k + 2])
  <2>1. Follows(Text(lines, k + 1), data, at[k + 1], at[(k + 1) + 1])
    BY <1>1, LineLeads
  <2>2. (k + 1) + 1 = k + 2
    OBVIOUS
  <2> QED
    BY <1>0, <2>1, <2>2
<1>2. /\ data \in Seq(Symbols) /\ Len(data) \in Nat /\ p \in 4 .. Len(data) /\ Len(t) \in Nat
      /\ data[p] = Newline /\ p + e = at[k + 2] /\ p \in Nat
  <2>1. IsPlace(data, at[k + 1])
    BY <1>1, PlaceAt
  <2>2. IsPlace(data, p)
    BY <2>1
  <2>3. Follows(t, data, p, at[k + 2])
    BY <1>10
  <2>4. p <= Len(data) /\ at[k + 2] = p + 1 + Len(t) /\ Len(t) \in Nat
    BY <2>3 DEF Follows
  <2>5. /\ data \in Seq(Symbols) /\ Len(data) \in Nat /\ p \in Nat
        /\ p \in 4 .. Len(data) + 1 /\ (p <= Len(data) => data[p] = Newline)
    BY <2>2 DEF IsPlace
  <2>6. p + e = at[k + 2]
    <3>1. PICK m \in Nat : m = Len(t)
      BY <2>4
    <3>2. e = m + 1 /\ at[k + 2] = p + 1 + m /\ p \in Nat
      BY <1>0, <2>4, <2>5, <3>1
    <3>3. p + (m + 1) = p + 1 + m
      BY ONLY m \in Nat, <3>2
    <3> QED
      BY <3>2, <3>3
  <2> QED
    BY <2>4, <2>5, <2>6
<1>3. p + e <= Len(data) => data[p + e] = Newline
  <2>1. IsPlace(data, at[k + 2])
    BY <1>1, PlaceAt
  <2>2. IsPlace(data, p + e)
    BY <1>2, <2>1
  <2> QED
    BY <2>2 DEF IsPlace
<1>4. Leads(t, r) /\ Len(r) = Len(data) - p
  BY <1>0, <1>10 DEF Follows
<1>5. Len(r) \in Nat /\ e \in 1 .. Len(r) + 1 /\ Len(t) <= Len(r)
  BY <1>0, <1>4 DEF Leads
<1>6. r = Behind(parsed.data, parsed.sepIdx)
  BY <1>0, <1>2 DEF IsAt, Stands
<1>7. Status(parsed, parsed.data, parsed.sepIdx, parsed.infoStream, parsed.players)
  BY DEF IsRead
<1>8. ~parsed.validPlayerParsed => parsed.infoStream = Before(data, p)
  BY DEF IsAt
<1>9. Before(r, Len(t) + 1) = t
  BY <1>4, FrontIs
<1>11. ASSUME Malformed(parsed, parsed', r, e), lines[k + 1].players = << >>,
              ~parsed'.done \/ NoneAfter(lines, n, k + 1)
       PROVE  Reading(parsed', data, lines, n, at, k + 1, p + e)
  <2>1. \A i \in k + 1 .. k + 1 : lines[i].players = << >>
    BY <1>11
  <2>2. p + e = at[(k + 1) + 1]
    BY <1>1, <1>2
  <2> QED
    BY <1>0, <1>1, <1>2, <1>3, <1>5, <1>8, <1>11, <2>1, <2>2, NoPlayerStep
<1>12. q > Len(r) => NoneAfter(lines, n, k + 1)
  <2>1. SUFFICES ASSUME q > Len(r), NEW i \in (k + 1) + 1 .. n PROVE lines[i].players = << >>
    BY DEF NoneAfter
  <2>2. i \in 1 .. n /\ i \in k + 1 .. n + 1
    OBVIOUS
  <2>3. p \in 0 .. at[i]
    <3>1. p <= at[i] /\ at[i] \in Nat
      BY <1>1, <2>2, LinesInOrder
    <3> QED
      BY <1>2, <3>1
  <2>4. find(r, Quote, 1) > Len(r)
    BY <1>0, <2>1
  <2> QED
    BY <1>0, <2>2, <2>3, <2>4, NoQuoteNoPlayer
<1>13. CASE IsJunk(lines[k + 1])
  <2>1. lines[k + 1].players = << >>
    BY <1>13 DEF IsJunk
  <2>6. FindsJunk(t, r, q)
    BY <1>0, <1>4, <1>13, JunkIsFound
  <2>2. /\ e = find(r, Newline, 1)
        /\ \/ q \in Len(t) + 1 .. Len(r) + 1
           \/ q = 1 /\ 1 <= Len(r)
           \/ /\ q \in 2 .. Len(t) - 1 /\ q2 = Len(t)
              /\ ~parsePlayerString(t, q, Len(t)).valid
    BY <1>0, <2>6 DEF FindsJunk
  <2>3. Turn(parsed, parsed', r, e, q, q2, player)
    BY <1>0, <1>5, <1>6, <1>7, <2>2, TurnIs
  <2>4. CASE q \in Len(t) + 1 .. Len(r) + 1 \/ (q = 1 /\ 1 <= Len(r))
    <3>1. q \notin 2 .. e - 1
      BY <1>0, <1>2, <2>4
    <3>2. Malformed(parsed, parsed', r, e) /\ (~parsed'.done \/ NoneAfter(lines, n, k + 1))
      BY <1>12, <2>3, <3>1 DEF Turn
    <3> QED
      BY <1>1, <1>11, <2>1, <3>2
  <2>5. CASE /\ q \in 2 .. Len(t) - 1 /\ q2 = Len(t)
             /\ ~parsePlayerString(t, q, Len(t)).valid
    <3>1. /\ q \in 2 .. e - 1 /\ q # 1 /\ q <= Len(r) /\ ~(q > Len(r)) /\ ~(q2 > Len(r))
          /\ ~(q >= e)
      <4>1. PICK m \in Nat, h \in Nat : m = Len(t) /\ h = Len(r)
        BY <1>2, <1>5
      <4>2. e = m + 1 /\ m <= h /\ q \in 2 .. m - 1 /\ q2 = m
        BY <1>0, <1>5, <2>5, <4>1
      <4>3. /\ q \in 2 .. e - 1 /\ q # 1 /\ q <= h /\ ~(q > h) /\ ~(q2 > h)
            /\ ~(q >= e)
        BY ONLY m \in Nat, h \in Nat, <4>2
      <4> QED
        BY <4>1, <4>3
    <3>2. ~player.valid
      BY <1>0, <1>9, <2>5
    <3>3. \/ /\ parsed.validPlayerParsed
             /\ Status(parsed', r, e, parsed.infoStream, Append(parsed.players, player))
             /\ parsed'.validPlayerParsed /\ ~parsed'.done
          \/ Malformed(parsed, parsed', r, e) /\ ~parsed'.done
      BY <2>3, <3>1, <3>2 DEF Turn
    <3>4. CASE Malformed(parsed, parsed', r, e) /\ ~parsed'.done
      BY <1>1, <1>11, <2>1, <3>4
    <3>5. CASE /\ parsed.validPlayerParsed
               /\ Status(parsed', r, e, parsed.infoStream, Append(parsed.players, player))
               /\ parsed'.validPlayerParsed /\ ~parsed'.done
      <4>1. Reading(parsed', data, lines, n, at, k + 1, p + e)
        BY <1>0, <1>2, <1>3, <1>5, <2>1, <3>2, <3>5, InvalidStep
      <4> QED
        BY <1>1, <4>1
    <3> QED
      BY <3>3, <3>4, <3>5
  <2> QED
    BY <2>2, <2>4, <2>5
<1>14. ASSUME NEW name, NEW score, NEW ping, IsPlayer(lines[k + 1], name, score, ping)
       PROVE  \E m \in 0 .. n : \E next : Reading(parsed', data, lines, n, at, m, next)
  <2>1. PICK s : s = find(r, Newline, 1)
    OBVIOUS
  <2>2. FindsPlayer(t, r, q, lines[k + 1].players)
    BY <1>0, <1>4, <1>14, PlayerIsFound
  <2>3. /\ q \in 2 .. Len(t) - 1 /\ s \in q + 1 .. Len(r) + 1 /\ q2 = Len(t)
        /\ lines[k + 1].players = <<parsePlayerString(t, q, Len(t))>>
        /\ parsePlayerString(t, q, Len(t)).valid
    BY <1>0, <2>1, <2>2 DEF FindsPlayer
  <2>4. lines[k + 1].players = <<player>> /\ player.valid
    BY <1>0, <1>9, <2>3
  <2>5. /\ s \in 1 .. Len(r) + 1 /\ q \in 2 .. s - 1 /\ ~(q >= s) /\ q # 1 /\ q <= Len(r)
        /\ ~(q > Len(r)) /\ ~(q2 > Len(r)) /\ q2 + 1 = e
    <3>1. PICK m \in Nat, h \in Nat : m = Len(t) /\ h = Len(r)
      BY <1>2, <1>5
    <3>2. e = m + 1 /\ m <= h /\ q \in 2 .. m - 1 /\ q2 = m /\ s \in q + 1 .. h + 1
      BY <1>0, <1>5, <2>3, <3>1
    <3>3. /\ s \in 1 .. h + 1 /\ q \in 2 .. s - 1 /\ ~(q >= s) /\ q # 1 /\ q <= h
          /\ ~(q > h) /\ ~(q2 > h) /\ q2 + 1 = e
      BY ONLY m \in Nat, h \in Nat, <3>2
    <3> QED
      BY <3>1, <3>3
  <2>6. /\ Status(parsed', r, q2 + 1, parsed.infoStream, Append(parsed.players, player))
        /\ parsed'.validPlayerParsed /\ ~parsed'.done
    <3>1. Turn(parsed, parsed', r, s, q, q2, player)
      BY <1>0, <1>5, <1>6, <1>7, <2>1, <2>5, TurnIs
    <3> QED
      BY <2>4, <2>5, <3>1 DEF Turn
  <2>8. Status(parsed', r, e, parsed.infoStream, Append(parsed.players, player))
    BY <2>5, <2>6
  <2>9. lines[k + 1].players = <<player>> /\ player.valid
    BY <2>4
  <2>7. Reading(parsed', data, lines, n, at, k + 1, p + e)
    BY ZenonT(40), <1>0, <1>2, <1>3, <1>5, <1>8, <2>6, <2>8, <2>9, PlayerStep
  <2> QED
    BY <1>1, <2>7
<1>15. lines[k + 1] \in Lines
  BY <1>1
<1> QED
  BY <1>13, <1>14, <1>15, LineIs

\* At the newline that ends the last line: there is nothing behind it.
LEMMA LastStep ==
  ASSUME NEW n \in Nat, NEW data, NEW value,
         NEW lines \in [1 .. n -> Lines], NEW at, NEW end,
         IsStatus(data, value, lines, n, at, end), NEW p, p = at[n + 1],
         p <= Len(data),
         IsRead(parsed, data, lines, at, n), IsAt(parsed, data, at, n, p), ParseLine
  PROVE  \E m \in 0 .. n : \E next : Reading(parsed', data, lines, n, at, m, next)
<1> DEFINE r == Behind(data, p)
           e == find(r, Newline, 1)
           q == find(r, Quote, 1)
           q2 == find(r, Quote, q + 1)
           player == parsePlayerString(Before(r, q2 + 1), q, q2)
<1>0. r = Behind(data, p) /\ e = find(r, Newline, 1) /\ q = find(r, Quote, 1)
      /\ q2 = find(r, Quote, q + 1) /\ player = parsePlayerString(Before(r, q2 + 1), q, q2)
  OBVIOUS
<1> HIDE DEF r, e, q, q2, player
<1>1. n + 1 \in 1 .. n + 1 /\ n \in 0 .. n /\ n \in n .. n
  OBVIOUS
<1>2. /\ data \in Seq(Symbols) /\ Len(data) \in Nat /\ p \in 4 .. Len(data) + 1
      /\ Len(data) = p - 1 + Len(end) /\ Len(end) \in 0 .. 1
      /\ p <= Len(data) => data[p] = Newline
  <2>1. IsPlace(data, at[n + 1])
    BY <1>1, PlaceAt
  <2>2. IsPlace(data, p)
    BY <2>1
  <2>3. Len(data) = p - 1 + Len(end) /\ Len(end) \in 0 .. 1
    BY DEF IsStatus
  <2> QED
    BY <2>2, <2>3 DEF IsPlace
<1>3. Status(parsed, parsed.data, parsed.sepIdx, parsed.infoStream, parsed.players)
  BY DEF IsRead
<1>6. /\ p = Len(data) /\ data[p] = Newline /\ p \in 0 .. Len(data) /\ p \in 4 .. Len(data)
      /\ p \in Nat
  <2>1. PICK c \in 0 .. 1, d \in Nat : c = Len(end) /\ d = Len(data)
    BY <1>2
  <2>3. p \in Nat /\ d = p - 1 + c /\ p <= d
    BY <1>2, <2>1
  <2>4. p = d
    BY ONLY c \in 0 .. 1, d \in Nat, <2>3
  <2>2. p = Len(data)
    BY <2>1, <2>4
  <2> QED
    BY <1>2, <2>2
<1>7. r = Behind(parsed.data, parsed.sepIdx)
  BY <1>0, <1>6 DEF IsAt, Stands
<1>8. Len(r) = 0
  <2>1. Len(r) = Len(data) - p
    BY <1>0, <1>2, <1>6, BehindIs
  <2> QED
    BY <1>2, <1>6, <2>1
<1>9. e = 1 /\ q = 1
  <2>1. Len(r) \in Nat /\ 1 \in Nat \ {0} /\ 1 >= Len(r) + 1
        /\ \A j \in 1 .. Len(r) : r[j] # Newline /\ r[j] # Quote
    BY <1>8
  <2> QED
    BY ONLY <1>0, <2>1, IsNotFound
<1>11. Malformed(parsed, parsed', r, e) /\ parsed'.done
  <2>1. Len(r) \in Nat /\ e \in 1 .. Len(r) + 1 /\ q \notin 2 .. e - 1 /\ ~(q <= Len(r))
    BY <1>8, <1>9
  <2>2. Turn(parsed, parsed', r, e, q, q2, player)
    BY <1>0, <1>3, <1>7, <2>1, TurnIs
  <2> QED
    BY <2>1, <2>2 DEF Turn
<1>12. /\ e \in 1 .. Len(r) + 1 /\ ~(p + e <= Len(data)) /\ NoneAfter(lines, n, n)
       /\ \A i \in n + 1 .. n : lines[i].players = << >>
  <2>1. e \in 1 .. Len(r) + 1
    BY <1>8, <1>9
  <2>2. ~(p + e <= Len(data))
    BY <1>2, <1>6, <1>9
  <2>3. \A i \in n + 1 .. n : lines[i].players = << >>
    OBVIOUS
  <2> QED
    BY <2>1, <2>2, <2>3 DEF NoneAfter
<1>13. ~parsed.validPlayerParsed => parsed.infoStream = Before(data, p)
  BY DEF IsAt
<1>14. Reading(parsed', data, lines, n, at, n, p + e)
  <2>1. data \in Seq(Symbols) /\ p \in 4 .. Len(data) /\ data[p] = Newline
    BY <1>2, <1>6
  <2> QED
    BY <1>0, <1>1, <1>11, <1>12, <1>13, <2>1, NoPlayerStep
<1> QED
  BY <1>1, <1>14

\* Each turn goes on to the next newline of the heading, or to that of the next line.
LEMMA LineIsRead ==
  ASSUME NEW n \in Nat, NEW data, NEW value \in Without({Quote}),
         NEW lines \in [1 .. n -> Lines], NEW at, NEW end,
         IsStatus(data, value, lines, n, at, end), NEW k \in 0 .. n, NEW p,
         Reading(parsed, data, lines, n, at, k, p), ParseLine
  PROVE  \E m \in 0 .. n : \E next : Reading(parsed', data, lines, n, at, m, next)
<1>1. ~parsed.done /\ parsed.sepIdx <= Len(parsed.data)
  BY Zenon DEF ParseLine, IsParsing
<1>2. IsRead(parsed, data, lines, at, k) /\ IsAt(parsed, data, at, k, p)
  BY <1>1 DEF Reading
<1>3. Stands(parsed.data, parsed.sepIdx, data, p)
  BY <1>2 DEF IsAt
<1>4. Len(data) \in Nat /\ at[1] \in Nat
  <2>1. 1 \in 1 .. n + 1
    OBVIOUS
  <2>2. IsPlace(data, at[1])
    BY <2>1, PlaceAt
  <2> QED
    BY <2>2 DEF IsPlace
<1>5. p \in 4 .. Len(data)
  <2>1. p \in 4 .. Len(data) + 1 /\ p # Len(data) + 1
    BY <1>1, <1>3 DEF Stands
  <2> QED
    BY <1>4, <2>1
<1>6. p = at[k + 1] \/ (k = 0 /\ p < at[1])
  BY <1>2 DEF IsAt
<1>7. CASE k = 0 /\ p < at[1]
  <2>1. p \in 4 .. at[1] - 1
    BY <1>4, <1>5, <1>7
  <2>2. IsRead(parsed, data, lines, at, 0) /\ IsAt(parsed, data, at, 0, p)
    BY <1>2, <1>7
  <2> QED
    BY <2>1, <2>2, HeadingStep
<1>8. CASE p = at[k + 1] /\ k < n
  <2>1. k \in 0 .. n - 1
    BY <1>8
  <2> QED
    BY <1>2, <1>8, <2>1, LineStep
<1>9. CASE p = at[k + 1] /\ k = n
  <2>1. p = at[n + 1] /\ p <= Len(data) /\ IsRead(parsed, data, lines, at, n)
        /\ IsAt(parsed, data, at, n, p)
    BY <1>2, <1>5, <1>9
  <2> QED
    BY <2>1, LastStep
<1>10. k < n \/ k = n
  OBVIOUS
<1> QED
  BY <1>6, <1>7, <1>8, <1>9, <1>10

\* When nothing is left all lines are read.
LEMMA EndIsRead ==
  ASSUME NEW n \in Nat, NEW data, NEW value, NEW lines \in [1 .. n -> Lines], NEW at, NEW end,
         IsStatus(data, value, lines, n, at, end), NEW k \in 0 .. n, NEW p,
         Reading(parsed, data, lines, n, at, k, p), EndStatus
  PROVE  Reading(parsed', data, lines, n, at, n, p)
<1>1. ~parsed.done /\ parsed.sepIdx > Len(parsed.data)
      /\ parsed' = [parsed EXCEPT !.done = TRUE]
  BY Zenon DEF EndStatus, IsParsing
<1>2. IsRead(parsed, data, lines, at, k) /\ IsAt(parsed, data, at, k, p)
  BY <1>1 DEF Reading
<1>3. Len(data) \in Nat /\ at[1] \in 4 .. Len(data) + 1
  <2>1. 1 \in 1 .. n + 1
    OBVIOUS
  <2>2. IsPlace(data, at[1])
    BY <2>1, PlaceAt
  <2> QED
    BY <2>2 DEF IsPlace
<1>4. p = Len(data) + 1
  <2>1. Stands(parsed.data, parsed.sepIdx, data, p)
    BY <1>2 DEF IsAt
  <2>2. p \in 4 .. Len(data) + 1 /\ ~(p <= Len(data))
    BY <1>1, <2>1 DEF Stands
  <2> QED
    BY <1>3, <2>2
<1>5. p = at[k + 1]
  BY <1>2, <1>3, <1>4 DEF IsAt
<1>6. k = n
  <2>1. SUFFICES ASSUME k # n PROVE FALSE
    OBVIOUS
  <2>2. k + 1 \in 1 .. n
    BY <2>1
  <2>3. Follows(Text(lines, k + 1), data, at[k + 1], at[(k + 1) + 1])
    BY <2>2, LineLeads
  <2>4. at[k + 1] <= Len(data)
    BY <2>3 DEF Follows
  <2> QED
    BY <1>3, <1>4, <1>5, <2>4
<1>7. IsRead(parsed, data, lines, at, n)
  BY <1>2, <1>6
<1>8. /\ DOMAIN parsed' = DOMAIN parsed /\ parsed'.done
      /\ parsed'.type = parsed.type /\ parsed'.data = parsed.data
      /\ parsed'.sepIdx = parsed.sepIdx /\ parsed'.infoStream = parsed.infoStream
      /\ parsed'.players = parsed.players
      /\ parsed'.validPlayerParsed = parsed.validPlayerParsed
  <2>1. DOMAIN parsed = StatusFields
    BY <1>7 DEF IsRead, Status
  <2> QED
    BY <1>1, <2>1 DEF StatusFields
<1>9. IsRead(parsed', data, lines, at, n)
  BY <1>7, <1>8 DEF IsRead, Status
<1>10. NoneAfter(lines, n, n)
  BY DEF NoneAfter
<1> QED
  BY <1>8, <1>9, <1>10 DEF Reading

\* The last backslash of a status is that before the value.
LEMMA HeadingEnds ==
  ASSUME NEW n \in Nat, NEW data, NEW value \in Without({Backslash}),
         NEW lines \in [1 .. n -> Lines], NEW at, NEW end,
         IsStatus(data, value, lines, n, at, end)
  PROVE  rfind(data, Backslash) = 3
<1>1. /\ data \in Seq(Symbols) /\ Len(end) \in 0 .. 1 /\ Len(value) \in Nat
      /\ Len(data) = at[n + 1] - 1 + Len(end) /\ at[1] = 4 + Len(value) /\ data[3] = Backslash
      /\ \A j \in 1 .. Len(value) : data[3 + j] = value[j]
  BY DEF IsStatus
<1>2. 1 \in 1 .. n + 1 /\ n + 1 \in 1 .. n + 1
  OBVIOUS
<1>3. /\ Len(data) \in Nat /\ at[1] \in 4 .. Len(data) + 1 /\ at[n + 1] \in Nat
  <2>1. IsPlace(data, at[1]) /\ IsPlace(data, at[n + 1])
    BY <1>2, PlaceAt
  <2> QED
    BY <2>1 DEF IsPlace
<1>4. ASSUME NEW j \in 4 .. Len(data) PROVE data[j] # Backslash
  <2>1. CASE j < at[1]
    <3>1. PICK i \in 1 .. Len(value) : 3 + i = j
      <4>1. j - 3 \in 1 .. Len(value) /\ 3 + (j - 3) = j
        BY <1>1, <1>3, <2>1
      <4> QED
        BY <4>1
    <3>2. data[j] = value[i]
      BY <1>1, <3>1
    <3>3. value[i] \notin {Backslash}
      BY HasNone
    <3> QED
      BY <3>2, <3>3
  <2>2. CASE j >= at[1]
    <3> DEFINE S == {k \in 1 .. n + 1 : at[k] <= j}
    <3>1. S \in SUBSET Nat /\ 1 \in S /\ n + 1 \in Nat /\ \A k \in S : k <= n + 1
      BY <1>2, <1>3, <2>2
    <3>2. PICK k \in S : \A x \in S : x <= k
      <4>1. S # {}
        BY <3>1
      <4> HIDE DEF S
      <4> QED
        BY ONLY <3>1, <4>1, HasLast
    <3>3. k \in 1 .. n + 1 /\ at[k] <= j /\ k \in Nat
      OBVIOUS
    <3>4. \A x \in 1 .. n + 1 : at[x] <= j => x <= k
      BY <3>2
    <3> HIDE DEF S
    <3>5. IsPlace(data, at[k])
      BY <3>3, PlaceAt
    <3>6. at[k] \in Nat /\ (at[k] <= Len(data) => data[at[k]] = Newline)
      BY <3>5 DEF IsPlace
    <3>7. CASE j = at[k]
      <4>1. data[j] = Newline
        BY <1>3, <3>6, <3>7
      <4> QED
        BY <4>1 DEF Newline, Backslash
    <3>8. CASE j # at[k]
      <4>1. k # n + 1
        <5>1. SUFFICES ASSUME k = n + 1 PROVE FALSE
          OBVIOUS
        <5>2. PICK c \in 0 .. 1, d \in Nat, a \in Nat :
                c = Len(end) /\ d = Len(data) /\ a = at[n + 1]
          BY <1>1, <1>3
        <5>3. d = a - 1 + c /\ j \in 4 .. d /\ a <= j /\ j # a
          BY <1>1, <3>3, <3>8, <5>1, <5>2
        <5> QED
          BY ONLY c \in 0 .. 1, d \in Nat, a \in Nat, <5>3
      <4>2. k \in 1 .. n /\ k + 1 \in 1 .. n + 1 /\ k <= n
        BY <3>3, <4>1
      <4>3. at[k + 1] > j
        <5>1. ~(k + 1 <= k)
          BY <3>3
        <5>2. ~(at[k + 1] <= j)
          BY <3>4, <4>2, <5>1
        <5>3. IsPlace(data, at[k + 1])
          BY <4>2, PlaceAt
        <5>4. at[k + 1] \in Nat
          BY <5>3 DEF IsPlace
        <5> QED
          BY <1>3, <5>2, <5>4
      <4>4. Len(Text(lines, k)) \in Nat /\ at[k + 1] = at[k] + 1 + Len(Text(lines, k))
            /\ \A i \in 1 .. Len(Text(lines, k)) : data[at[k] + i] = Text(lines, k)[i]
        BY <4>2 DEF IsStatus
      <4>5. PICK i \in 1 .. Len(Text(lines, k)) : at[k] + i = j
        <5>1. PICK h \in Nat, a \in Nat : h = Len(Text(lines, k)) /\ a = at[k]
          BY <3>6, <4>4
        <5>2. j \in Nat /\ a + 1 + h > j /\ a <= j /\ j # a
          BY <1>3, <3>3, <3>8, <4>3, <4>4, <5>1
        <5>3. j - a \in 1 .. h /\ a + (j - a) = j
          BY ONLY h \in Nat, a \in Nat, <5>2
        <5> QED
          BY <5>1, <5>3
      <4>6. data[j] = lines[k].text[i] /\ i \in 1 .. Len(lines[k].text)
        BY <4>4, <4>5 DEF Text
      <4>7. lines[k] \in Lines
        BY <4>2
      <4> QED
        BY <4>6, <4>7, LineHasNoBackslash
    <3> QED
      BY <3>7, <3>8
  <2> QED
    BY <1>3, <2>1, <2>2
<1>5. PICK k : k = 3
  OBVIOUS
<1>6. /\ Len(data) \in Nat /\ DOMAIN data = 1 .. Len(data) /\ k \in 1 .. Len(data)
      /\ data[k] = Backslash /\ \A j \in k + 1 .. Len(data) : data[j] # Backslash
  <2>1. Len(data) \in Nat /\ DOMAIN data = 1 .. Len(data)
    BY <1>1, <1>3
  <2>2. k \in 1 .. Len(data) /\ data[k] = Backslash
    BY <1>1, <1>3, <1>5
  <2>3. \A j \in k + 1 .. Len(data) : data[j] # Backslash
    BY <1>4, <1>5
  <2> QED
    BY <2>1, <2>2, <2>3
<1>7. rfind(data, Backslash) = k
  BY ONLY <1>6, IsFoundLast
<1> QED
  BY <1>5, <1>7

\* At first no line is read, and the infostring is what precedes the first newline.
LEMMA StatusBegins ==
  ASSUME NEW n \in Nat, NEW data, NEW value \in Without({Backslash}),
         NEW lines \in [1 .. n -> Lines], NEW at, NEW end,
         IsStatus(data, value, lines, n, at, end), NEW x, x = parse("statusResponse", data)
  PROVE  \E p : Reading(x, data, lines, n, at, 0, p)
<1>1. rfind(data, Backslash) = 3
  BY HeadingEnds
<1> DEFINE e == find(data, Newline, 3)
<1>2. x = [type |-> "statusResponse", data |-> data, sepIdx |-> e,
           infoStream |-> Before(data, e), players |-> << >>,
           validPlayerParsed |-> FALSE, done |-> FALSE]
  BY <1>1 DEF parse, WithoutData
<1>3. data \in Seq(Symbols) /\ data[3] = Backslash
  BY DEF IsStatus
<1>4. /\ Len(data) \in Nat /\ at[1] \in 4 .. Len(data) + 1
      /\ at[1] <= Len(data) => data[at[1]] = Newline
  <2>1. 1 \in 1 .. n + 1
    OBVIOUS
  <2>2. IsPlace(data, at[1])
    BY <2>1, PlaceAt
  <2> QED
    BY <2>2 DEF IsPlace
<1>5. e = find(data, Newline, 3)
  OBVIOUS
<1> HIDE DEF e
<1>6. \/ e \in 3 .. Len(data) /\ data[e] = Newline /\ \A j \in 3 .. e - 1 : data[j] # Newline
      \/ /\ \A j \in 3 .. Len(data) : data[j] # Newline
         /\ e = IF 3 >= Len(data) + 1 THEN 3 ELSE Len(data) + 1
  <2>1. 3 \in Nat \ {0}
    OBVIOUS
  <2> QED
    BY ONLY <1>4, <1>5, <2>1, FoundOrNot
<1>7. e \in 4 .. Len(data) + 1 /\ (e <= Len(data) => data[e] = Newline)
  <2>1. e # 3 \/ e = Len(data) + 1
    BY <1>3, <1>4, <1>6 DEF Newline, Backslash
  <2> QED
    BY <1>4, <1>6, <2>1
<1>8. e <= at[1]
  <2>1. CASE at[1] <= Len(data)
    <3>1. at[1] \in 3 .. Len(data) /\ data[at[1]] = Newline
      BY <1>4, <2>1
    <3>2. e \in 3 .. Len(data) /\ ~(at[1] \in 3 .. e - 1)
      BY <1>6, <3>1
    <3> QED
      BY <1>4, <3>1, <3>2
  <2>2. CASE ~(at[1] <= Len(data))
    BY <1>4, <1>7, <2>2
  <2> QED
    BY <2>1, <2>2
<1>9. Stands(data, e, data, e)
  BY <1>4, <1>7 DEF Stands
<1>10. e = at[0 + 1] \/ (0 = 0 /\ e < at[1])
  BY <1>4, <1>7, <1>8
<1>11. /\ x.type = "statusResponse" /\ x.data = data /\ x.sepIdx = e
       /\ x.infoStream = Before(data, e) /\ x.players = << >> /\ ~x.validPlayerParsed /\ ~x.done
       /\ DOMAIN x = StatusFields
  BY <1>2 DEF StatusFields
<1>12. IsAt(x, data, at, 0, e)
  BY <1>9, <1>10, <1>11 DEF IsAt
<1>13. IsList(x.players) /\ OnlyValid(x.players) = Flat(Tales(lines), 0)
  <2>1. Len(<< >>) = 0 /\ << >> = [i \in 1 .. 0 |-> << >>[i]] /\ DOMAIN << >> = {}
    OBVIOUS
  <2>2. [i \in DOMAIN << >> |-> IF << >>[i].valid THEN << << >>[i] >> ELSE << >>] = << >>
    BY <2>1
  <2>3. OnlyValid(<< >>) = << >>
    BY <2>1, <2>2 DEF OnlyValid, FlattenSeq
  <2>4. Flat(Tales(lines), 0) = << >>
    BY FlatNone
  <2>5. IsList(<< >>)
    BY <2>1 DEF IsList
  <2> QED
    BY <1>11, <2>3, <2>4, <2>5
<1>14. IsRead(x, data, lines, at, 0)
  <2>1. \A i \in 1 .. 0 : lines[i].players = << >>
    OBVIOUS
  <2> QED
    BY <1>11, <1>13, <2>1 DEF IsRead, Status
<1>15. Reading(x, data, lines, n, at, 0, e)
  BY <1>11, <1>12, <1>14 DEF Reading
<1> QED
  BY <1>15

\* What precedes a line.
LineParts(lines) == [i \in DOMAIN lines |-> <<Newline>> \o Text(lines, i)]
Precedes(data, value, lines, a, k) ==
  Before(data, a) = Heading(value) \o Flat(LineParts(lines), k - 1)

LEMMA PrecedesLine ==
  ASSUME NEW n \in Nat, NEW data, NEW value \in Without({Backslash}),
         NEW lines \in [1 .. n -> Lines], NEW at, NEW end,
         IsStatus(data, value, lines, n, at, end), NEW k \in 1 .. n + 1
  PROVE  Precedes(data, value, lines, at[k], k)
<1> DEFINE parts == LineParts(lines)
           head  == Heading(value)
           S == {d \in Nat : d <= n => Before(data, at[d + 1]) = head \o Flat(parts, d)}
<1>1. \A i \in 1 .. n : parts[i] = <<Newline>> \o Text(lines, i) /\ parts[i] \in Seq(Symbols)
                        /\ Text(lines, i) \in Seq(Symbols)
  <2>1. TAKE i \in 1 .. n
  <2>2. Newline \in Symbols
    BY DEF Symbols
  <2>3. <<Newline>> \in Seq(Symbols)
    BY <2>2
  <2>4. Text(lines, i) \in Seq(Symbols)
    BY LineIsText DEF Text
  <2>5. parts[i] = <<Newline>> \o Text(lines, i)
    BY DEF LineParts
  <2> QED
    BY <2>3, <2>4, <2>5, ConcatProperties
<1>2. /\ head \in Seq(Symbols) /\ Len(head) = 3 + Len(value) /\ Len(value) \in Nat
      /\ head[1] = Backslash /\ head[2] = "a" /\ head[3] = Backslash
      /\ \A j \in 1 .. Len(value) : head[3 + j] = value[j]
  BY HeadingIs
<1> HIDE DEF parts, head
<1>3. /\ data \in Seq(Symbols) /\ at[1] = 4 + Len(value)
      /\ data[1] = Backslash /\ data[2] = "a" /\ data[3] = Backslash
      /\ \A j \in 1 .. Len(value) : data[3 + j] = value[j]
  BY DEF IsStatus
<1>4. 0 \in S
  <2>1. Len(data) \in Nat /\ at[1] \in 1 .. Len(data) + 1
    <3>1. 1 \in 1 .. n + 1
      OBVIOUS
    <3>2. IsPlace(data, at[1])
      BY <3>1, PlaceAt
    <3> QED
      BY <3>2 DEF IsPlace
  <2> DEFINE b == Before(data, at[1])
  <2>2. /\ b \in Seq(Symbols) /\ Len(b) = at[1] - 1
        /\ \A j \in 1 .. at[1] - 1 : b[j] = data[j]
    BY <1>3, <2>1, BeforeIs
  <2> HIDE DEF b
  <2>3. Len(b) = Len(head) /\ Len(b) = 3 + Len(value)
    BY <1>2, <1>3, <2>1, <2>2
  <2>4. ASSUME NEW j \in 1 .. Len(b) PROVE b[j] = head[j]
    <3>1. b[j] = data[j]
      BY <2>2
    <3>2. CASE j \in 1 .. 3
      <4>1. j = 1 \/ j = 2 \/ j = 3
        BY <3>2
      <4> QED
        BY <1>2, <1>3, <3>1, <4>1
    <3>3. CASE j > 3
      <4>1. PICK i \in 1 .. Len(value) : 3 + i = j
        <5>1. j - 3 \in 1 .. Len(value) /\ 3 + (j - 3) = j
          BY <1>2, <2>3, <3>3
        <5> QED
          BY <5>1
      <4> QED
        BY <1>2, <1>3, <3>1, <4>1
    <3> QED
      BY <1>2, <2>3, <3>2, <3>3
  <2>5. b = head
    BY <1>2, <2>2, <2>3, <2>4, SeqEqual
  <2>6. head \o Flat(parts, 0) = head
    <3>1. Flat(parts, 0) = << >>
      BY FlatNone
    <3> QED
      BY <1>2, <3>1, ConcatEmptySeq
  <2>7. 0 + 1 = 1
    OBVIOUS
  <2> QED
    BY <2>5, <2>6, <2>7 DEF b
<1>5. ASSUME NEW d \in S PROVE d + 1 \in S
  <2>1. SUFFICES ASSUME d + 1 <= n
                 PROVE  Before(data, at[(d + 1) + 1]) = head \o Flat(parts, d + 1)
    OBVIOUS
  <2>2. PICK i \in 1 .. n : i = d + 1
    BY <2>1
  <2> DEFINE p == at[i]
             t == Text(lines, i)
             f == Flat(parts, d)
             one == <<Newline>>
  <2>3. Before(data, p) = head \o f
    BY <2>1, <2>2
  <2>4. d \in Nat /\ d + 1 <= n
    BY <2>1
  <2>5. f \in Seq(Symbols) /\ Flat(parts, d + 1) = f \o parts[d + 1]
    <3>1. \A j \in 1 .. n : parts[j] \in Seq(Symbols)
      BY <1>1
    <3>2. \A j \in 1 .. d : parts[j] \in Seq(Symbols)
      BY <1>1, <2>4
    <3>3. Flat(parts, d) \in Seq(Symbols)
      BY ONLY <2>4, <3>2, FlatType
    <3>4. Flat(parts, d + 1) = Flat(parts, d) \o parts[d + 1]
      BY ONLY <2>4, n \in Nat, <3>1, FlatType
    <3> QED
      BY <3>3, <3>4
  <2>6. Follows(t, data, p, at[i + 1])
    BY LineLeads
  <2>7. IsPlace(data, p)
    <3>1. i \in 1 .. n + 1
      OBVIOUS
    <3> QED
      BY <3>1, PlaceAt
  <2>8. parts[i] = one \o t /\ parts[i] \in Seq(Symbols)
    BY <1>1
  <2> HIDE DEF p, t, f, one
  <2>9. /\ p \in 1 .. Len(data) /\ data[p] = Newline /\ Len(t) \in Nat
        /\ Leads(t, Behind(data, p)) /\ Len(Behind(data, p)) = Len(data) - p
        /\ Len(data) \in Nat /\ at[i + 1] = p + 1 + Len(t)
    BY <2>6, <2>7 DEF Follows, IsPlace
  <2>10. Len(t) + 1 \in 1 .. Len(data) - p + 1
    <3>1. Len(t) <= Len(data) - p
      BY <2>9 DEF Leads
    <3> QED
      BY <2>9, <3>1
  <2>11. Before(data, p) \o (<<Newline>> \o Before(Behind(data, p), Len(t) + 1))
           = Before(data, p + (Len(t) + 1))
    BY <1>3, <2>9, <2>10, BeforeGrows
  <2>12. Before(Behind(data, p), Len(t) + 1) = t
    BY <2>9, FrontIs
  <2>13. p + (Len(t) + 1) = at[i + 1]
    <3>1. PICK h \in Nat, a \in Nat : h = Len(t) /\ a = p
      BY <2>9
    <3>2. at[i + 1] = a + 1 + h
      BY <2>9, <3>1
    <3>3. a + (h + 1) = a + 1 + h
      OBVIOUS
    <3> QED
      BY <3>1, <3>2, <3>3
  <2>14. Before(data, at[i + 1]) = (head \o f) \o (one \o t)
    BY <2>3, <2>11, <2>12, <2>13 DEF one
  <2>15. (head \o f) \o parts[i] = head \o (f \o parts[i])
    <3>1. head \in Seq(Symbols) /\ f \in Seq(Symbols) /\ parts[i] \in Seq(Symbols)
      BY <1>2, <2>5, <2>8
    <3>2. PICK a, b, c : a = head /\ b = f /\ c = parts[i]
      OBVIOUS
    <3>3. a \in Seq(Symbols) /\ b \in Seq(Symbols) /\ c \in Seq(Symbols)
      BY <3>1, <3>2
    <3>4. (a \o b) \o c = a \o (b \o c)
      BY ONLY <3>3, ConcatAssociative
    <3> QED
      BY <3>2, <3>4
  <2> QED
    BY <2>2, <2>5, <2>8, <2>14, <2>15
<1>6. S = Nat
  <2>1. S \in SUBSET Nat
    OBVIOUS
  <2> HIDE DEF S
  <2> QED
    BY <1>4, <1>5, <2>1, SetInduction
<1>7. k - 1 \in S
  <2>1. k - 1 \in Nat
    OBVIOUS
  <2> QED
    BY <1>6, <2>1
<1>8. k - 1 <= n /\ (k - 1) + 1 = k
  OBVIOUS
<1> QED
  BY <1>7, <1>8 DEF head, parts, Precedes

\* Of a status the parser has read its first lines, or some of its heading.
IsInStatus(packet, x, n, at, end) ==
  /\ StatusOf(packet, n, at, end)
  /\ \E k \in 0 .. n : \E p : Reading(x, packet.data, packet.lines, n, at, k, p)

StatusInv ==
  sent \in StatusPackets /\ parsed # NotYet =>
    \E n, at, end : IsInStatus(sent, parsed, n, at, end)

LEMMA StatusInvHolds == PacketsSpec => []StatusInv
<1>1. PacketsInit => StatusInv
  BY DEF PacketsInit, StatusInv
<1>2. PacketInv /\ StatusInv /\ [PacketsNext]_packetVars => StatusInv'
  <2> SUFFICES ASSUME PacketInv, StatusInv, [PacketsNext]_packetVars,
                      sent' \in StatusPackets, parsed' # NotYet
               PROVE  \E n, at, end : IsInStatus(sent', parsed', n, at, end)
    BY DEF StatusInv
  <2>1. sent' = sent
    BY DEF PacketsNext, Make, Receive, ParseLine, EndStatus, packetVars
  <2>2. IsParsing => parsed # NotYet
    <3>1. NotYet.type # "statusResponse"
      BY DEF NotYet
    <3>2. IsParsing => parsed.type = "statusResponse"
      BY Zenon DEF IsParsing
    <3> QED
      BY <3>1, <3>2
  <2>3. ASSUME parsed # NotYet,
               \A n, at, end : IsInStatus(sent, parsed, n, at, end)
                                 => IsInStatus(sent, parsed', n, at, end)
        PROVE  \E n, at, end : IsInStatus(sent', parsed', n, at, end)
    BY <2>1, <2>3 DEF StatusInv
  <2>4. CASE Make \/ UNCHANGED packetVars
    <3>1. parsed' = parsed
      BY <2>4 DEF Make, packetVars
    <3> QED
      BY <2>3, <3>1
  <2>5. CASE Receive
    <3>1. raw # << >> /\ parsed' = parsePacket(raw)
      BY <2>5 DEF Receive
    <3>2. raw = getRawPacket(sent.type, sent.data) /\ sent \in Packets
      BY <3>1 DEF PacketInv
    <3>3. sent.type = "statusResponse"
      BY <2>1, StatusIsText
    <3>4. parsed' = parse("statusResponse", sent.data)
      BY <3>1, <3>2, <3>3, PacketIsParsed
    <3>5. PICK n, at, end : StatusOf(sent, n, at, end)
      BY <2>1, StatusIsText
    <3>8. /\ n \in Nat /\ sent.lines \in [1 .. n -> Lines]
          /\ sent.value \in Without({Backslash}) /\ sent.value \in Without({Quote})
          /\ IsStatus(sent.data, sent.value, sent.lines, n, at, end)
      BY <3>5 DEF StatusOf
    <3>6. \E p : Reading(parsed', sent.data, sent.lines, n, at, 0, p)
      BY <3>4, <3>8, StatusBegins
    <3>7. StatusOf(sent, n, at, end) /\ 0 \in 0 .. n
      BY <3>5, <3>8
    <3> QED
      BY <2>1, <3>6, <3>7 DEF IsInStatus
  <2>6. CASE ParseLine
    <3>1. parsed # NotYet
      BY <2>2, <2>6 DEF ParseLine
    <3>2. ASSUME NEW n, NEW at, NEW end, IsInStatus(sent, parsed, n, at, end)
          PROVE  IsInStatus(sent, parsed', n, at, end)
      <4>0. PICK k \in 0 .. n : \E p : Reading(parsed, sent.data, sent.lines, n, at, k, p)
        BY <3>2 DEF IsInStatus
      <4>1. PICK p : Reading(parsed, sent.data, sent.lines, n, at, k, p)
        BY <4>0
      <4>2. /\ n \in Nat /\ sent.lines \in [1 .. n -> Lines] /\ sent.value \in Without({Quote})
            /\ IsStatus(sent.data, sent.value, sent.lines, n, at, end)
        BY <3>2 DEF IsInStatus, StatusOf
      <4>3. \E m \in 0 .. n : \E next : Reading(parsed', sent.data, sent.lines, n, at, m, next)
        BY <2>6, <4>1, <4>2, LineIsRead
      <4> QED
        BY <3>2, <4>3 DEF IsInStatus
    <3> QED
      BY <2>3, <3>1, <3>2
  <2>7. CASE EndStatus
    <3>1. parsed # NotYet
      BY <2>2, <2>7 DEF EndStatus
    <3>2. ASSUME NEW n, NEW at, NEW end, IsInStatus(sent, parsed, n, at, end)
          PROVE  IsInStatus(sent, parsed', n, at, end)
      <4>0. PICK k \in 0 .. n : \E p : Reading(parsed, sent.data, sent.lines, n, at, k, p)
        BY <3>2 DEF IsInStatus
      <4>1. PICK p : Reading(parsed, sent.data, sent.lines, n, at, k, p)
        BY <4>0
      <4>2. /\ n \in Nat /\ sent.lines \in [1 .. n -> Lines]
            /\ IsStatus(sent.data, sent.value, sent.lines, n, at, end)
        BY <3>2 DEF IsInStatus, StatusOf
      <4>3. Reading(parsed', sent.data, sent.lines, n, at, n, p) /\ n \in 0 .. n
        BY <2>7, <4>1, <4>2, EndIsRead
      <4> QED
        BY <3>2, <4>3 DEF IsInStatus
    <3> QED
      BY <2>3, <3>1, <3>2
  <2> QED
    BY <2>4, <2>5, <2>6, <2>7 DEF PacketsNext
<1> QED
  BY <1>1, <1>2, PacketInvHolds, PTL DEF PacketsSpec

\* What a status tells that is read to its end.
TellsOf(packet, x, lines, told) ==
  /\ OnlyValid(x.players) = FlattenSeq([i \in DOMAIN lines |-> lines[i].players])
  /\ told # {} =>
       x.infoStream = Heading(packet.value) \o
         FlattenSeq([i \in 1 .. Min(told) - 1 |-> <<Newline>> \o lines[i].text])

LEMMA StatusIsRead ==
  ASSUME NEW packet, NEW x, NEW n, NEW at, NEW end, IsInStatus(packet, x, n, at, end), x.done,
         NEW lines, lines = packet.lines,
         NEW told, told = {i \in DOMAIN lines : lines[i].players # << >>}
  PROVE  TellsOf(packet, x, lines, told)
<1>1. /\ n \in Nat /\ lines \in [1 .. n -> Lines] /\ packet.value \in Without({Backslash})
      /\ IsStatus(packet.data, packet.value, lines, n, at, end) /\ DOMAIN lines = 1 .. n
  BY DEF IsInStatus, StatusOf
<1>0. PICK k \in 0 .. n : \E p : Reading(x, packet.data, lines, n, at, k, p)
  BY DEF IsInStatus
<1>2. PICK p : Reading(x, packet.data, lines, n, at, k, p)
  BY <1>0
<1>3. IsRead(x, packet.data, lines, at, k) /\ NoneAfter(lines, n, k)
  BY <1>2 DEF Reading
<1>4. OnlyValid(x.players) = FlattenSeq([i \in DOMAIN lines |-> lines[i].players])
  <2>1. OnlyValid(x.players) = Flat(Tales(lines), k)
    BY <1>3 DEF IsRead
  <2>2. Flat(Tales(lines), n) = Flat(Tales(lines), k)
    <3>1. n \in k .. n /\ \A i \in k + 1 .. n : lines[i].players = << >>
      BY <1>1, <1>3 DEF NoneAfter
    <3> QED
      BY <1>1, <3>1, NothingTold
  <2>3. [i \in 1 .. n |-> Tales(lines)[i]] = [i \in DOMAIN lines |-> lines[i].players]
    BY <1>1 DEF Tales
  <2> QED
    BY <2>1, <2>2, <2>3 DEF Flat
<1>5. ASSUME told # {}
      PROVE  x.infoStream = Heading(packet.value) \o
                FlattenSeq([i \in 1 .. Min(told) - 1 |-> <<Newline>> \o lines[i].text])
  <2>1. PICK i \in 1 .. n : lines[i].players # << >>
    BY <1>1, <1>5
  <2>2. i \in 1 .. k
    <3>1. ~(i \in k + 1 .. n)
      BY <1>3, <2>1 DEF NoneAfter
    <3> QED
      BY <1>1, <3>1
  <2>3. PICK f \in 1 .. k : IsFirst(lines, f) /\ x.infoStream = Before(packet.data, at[f])
    BY <1>3, <2>1, <2>2 DEF IsRead
  <2>4. f \in 1 .. n /\ f \in 1 .. n + 1 /\ f \in Nat
    BY <1>1
  <2>5. Min(told) = f
    <3>1. told \in SUBSET Nat /\ told # {}
      BY <1>1, <1>5
    <3>2. Min(told) \in told /\ \A j \in told : Min(told) <= j
      BY ONLY <3>1, MinIsLeast
    <3>3. f \in told
      BY <1>1, <2>3, <2>4 DEF IsFirst
    <3>4. Min(told) \in 1 .. n /\ Min(told) <= f /\ lines[Min(told)].players # << >>
      BY <1>1, <3>2, <3>3
    <3>5. ~(Min(told) \in 1 .. f - 1)
      BY <2>3, <3>4 DEF IsFirst
    <3> QED
      BY <1>1, <2>4, <3>4, <3>5
  <2>6. [j \in 1 .. f - 1 |-> LineParts(lines)[j]]
          = [j \in 1 .. f - 1 |-> <<Newline>> \o lines[j].text]
    <3>1. ASSUME NEW j \in 1 .. f - 1
          PROVE  LineParts(lines)[j] = <<Newline>> \o lines[j].text
      <4>1. j \in DOMAIN lines
        BY <1>1, <2>4
      <4> QED
        BY <4>1 DEF LineParts, Text
    <3> QED
      BY <3>1
  <2>7. Before(packet.data, at[f]) = Heading(packet.value) \o Flat(LineParts(lines), f - 1)
    <3>1. PICK data, value : data = packet.data /\ value = packet.value
      OBVIOUS
    <3>2. /\ value \in Without({Backslash}) /\ IsStatus(data, value, lines, n, at, end)
          /\ n \in Nat /\ lines \in [1 .. n -> Lines]
      BY <1>1, <3>1
    <3>3. Precedes(data, value, lines, at[f], f)
      BY ONLY <2>4, <3>2, PrecedesLine
    <3> QED
      BY <3>1, <3>3 DEF Precedes
  <2> QED
    BY <2>3, <2>5, <2>6, <2>7 DEF Flat
<1> QED
  BY <1>4, <1>5 DEF TellsOf

\* The players of a status are its well-formed lines, in order, newlines in their names
\* included, wherever malformed lines are; and its infostring is what precedes them
\* (Getstatus.h lines 101-228).
THEOREM StatusesAreReadBack == PacketsSpec => []StatusReadsBack
<1>1. PacketInv /\ StatusInv => StatusReadsBack
  <2> SUFFICES ASSUME PacketInv, StatusInv, Has("lines") PROVE StatusReadsBack
    BY DEF StatusReadsBack
  <2>1. sent \in StatusPackets /\ parsed # NotYet /\ ~IsParsing
    <3>1. sent \in Packets
      BY DEF PacketInv
    <3> QED
      BY <3>1, PacketIsText DEF Has, IsParsed
  <2>2. parsed.done
    <3>1. parsed.type = "statusResponse"
      BY <2>1, StatusIsText DEF PacketInv
    <3> QED
      BY <2>1, <3>1, Zenon DEF IsParsing
  <2>3. PICK n, at, end : IsInStatus(sent, parsed, n, at, end)
    BY <2>1 DEF StatusInv
  <2> DEFINE lines == sent.lines
             told  == {i \in DOMAIN lines : lines[i].players # << >>}
  <2>4. lines = sent.lines /\ told = {i \in DOMAIN lines : lines[i].players # << >>}
    OBVIOUS
  <2> HIDE DEF lines, told
  <2>5. TellsOf(sent, parsed, lines, told)
    BY ONLY <2>2, <2>3, <2>4, StatusIsRead
  <2> QED
    BY <2>5 DEF StatusReadsBack, TellsOf, Heading, lines, told
<1> QED
  BY <1>1, PacketInvHolds, StatusInvHolds, PTL
=============================================================================
