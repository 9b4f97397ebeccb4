--------------------------------- MODULE Command ---------------------------------
(***************************************************************************)
(* Commands and the types of their arguments.  A text is a sequence of     *)
(* one-letter strings.  A command is a name and arguments.                 *)
(***************************************************************************)
EXTENDS Integers, SequencesExt

Quote == "\""
Space == " "

HasAny(str, chars) == \E i \in DOMAIN str : str[i] \in chars

concatArgs(args, escape) ==
  LET Shown(i) == IF i > 1 /\ escape /\ HasAny(args[i], {Space})
                  THEN <<Quote>> \o args[i] \o <<Quote>> ELSE args[i]
  IN  FlattenSeq([i \in DOMAIN args |-> IF i = 1 THEN Shown(i) ELSE <<Space>> \o Shown(i)])

concat(args)       == concatArgs(args, FALSE)
concatEscape(args) == concatArgs(args, TRUE)

-----------------------------------------------------------------------------
(* The types an argument has, besides that of a string.  Numbers are short *)
(* decimal ones: neither out of range nor in the other forms of strtof.    *)

Digits == {"0", "1", "2", "3", "4", "5", "6", "7", "8", "9"}

\* Where the run of characters of the set ends that starts at i.
After(str, chars, i) ==
  Min({j \in i .. Len(str) : str[j] \notin chars} \cup {Max({i, Len(str) + 1})})

\* from_chars: a sign, then digits, whatever follows.
parseAsInt(str) ==
  LET first == IF str # << >> /\ str[1] = "-" THEN 2 ELSE 1
  IN  After(str, Digits, first) > first

\* strtof: spaces, a sign, then digits with a point among them.  A number is a
\* float if all of the text was read, but for spaces, or if it is not 0.
parseAsFloat(str) ==
  LET blank  == After(str, {Space}, 1)
      first  == IF blank <= Len(str) /\ str[blank] \in {"+", "-"} THEN blank + 1 ELSE blank
      whole  == After(str, Digits, first)
      point  == IF whole <= Len(str) /\ str[whole] = "." THEN whole + 1 ELSE whole
      last   == After(str, Digits, point)
      isRead == HasAny(SubSeq(str, first, last - 1), Digits)
      endPtr == IF isRead THEN last ELSE 1
  IN  \/ isRead /\ HasAny(SubSeq(str, first, last - 1), Digits \ {"0"})
      \/ After(str, {Space}, endPtr) > Len(str)

toLower(str) == [i \in DOMAIN str |-> IF str[i] = "O" THEN "o" ELSE IF str[i] = "N" THEN "n"
                                      ELSE str[i]]
BoolWords == {<<"t", "r", "u", "e">>, <<"o", "n">>, <<"y", "e", "s">>,
              <<"f", "a", "l", "s", "e">>, <<"o", "f", "f">>, <<"n", "o">>}

parseAsBool(str)    == parseAsInt(str)
parseAsBoolExt(str) == parseAsBool(str) \/ toLower(str) \in BoolWords

ArgType(str) ==
  {"Str"} \cup (IF parseAsInt(str) THEN {"Int"} ELSE {})
          \cup (IF parseAsFloat(str) THEN {"Float"} ELSE {})
          \cup (IF parseAsBool(str) THEN {"Bool"} ELSE {})
          \cup (IF parseAsBoolExt(str) THEN {"BoolExt"} ELSE {})
=============================================================================
