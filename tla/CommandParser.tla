------------------------------ MODULE CommandParser ------------------------------
(***************************************************************************)
(* parseCommand: a command line becomes a name and arguments.  One step is *)
(* one turn of its loop.  Positions count from 1.                          *)
(***************************************************************************)
EXTENDS Command

CONSTANTS Letters,    \* the characters there are
          MaxLine,    \* bound: characters of a line
          MaxWord,    \* bound: characters of an argument that is made part of a line
          MaxArgs     \* bound: arguments of a command that is made a line

ASSUME ParserAssumption ==
  Letters \subseteq STRING /\ {MaxLine, MaxWord, MaxArgs} \subseteq Nat

sepChars == {Space, "\r", "\n"}

VARIABLES line,        \* cmd
          command,     \* the command line was made from; <<>> for any other line
          idx, isInQuote, token, nameParsed,
          res          \* [name, args]

parserVars == <<line, command, idx, isInQuote, token, nameParsed, res>>

-----------------------------------------------------------------------------
(* From a line to a command.                                               *)

skipChars(str, chars, start) ==
  LET others == {i \in start .. Len(str) : str[i] \notin chars}
  IN  IF others = {} THEN Len(str) + 1 ELSE Min(others)

isComment(str, i) == i < Len(str) /\ str[i] = "/" /\ str[i + 1] \in {"/", "*"}
isSeparator(str, i) == i <= Len(str) /\ str[i] \in sepChars

CommentEnds(str, i) == {j \in i + 2 .. Len(str) - 1 : str[j] = "*" /\ str[j + 1] = "/"}
SkipToTheStar(str, i) ==  \* mutant: the end of the comment is not skipped
  IF ~isComment(str, i) THEN i
  ELSE IF str[i + 1] = "/" \/ CommentEnds(str, i) = {} THEN Len(str) + 1
  ELSE Min(CommentEnds(str, i))
skipComments(str, i) ==
  IF ~isComment(str, i) THEN i
  ELSE IF str[i + 1] = "/" \/ CommentEnds(str, i) = {} THEN Len(str) + 1
  ELSE Min(CommentEnds(str, i)) + 2

advanceToNextToken(str, start) ==
  skipChars(str, sepChars, skipComments(str, skipChars(str, sepChars, start)))

Flushed == IF nameParsed THEN [res EXCEPT !.args = Append(@, token)]
           ELSE [res EXCEPT !.name = token]
flushToken == res' = Flushed /\ nameParsed' = TRUE /\ token' = << >>

-----------------------------------------------------------------------------
(* What is parsed: any short line, and lines that were made from commands.  *)

Strings(n) == UNION {[1 .. k -> Letters] : k \in 0 .. n}
Name == <<"a">>

Told(s, first) ==  \* arguments of commands that are made lines
  /\ s # << >>
  /\ ~HasAny(s, {Quote})
  /\ first \/ ~HasAny(s, {Space}) =>
       ~HasAny(s, sepChars) /\ \A i \in DOMAIN s : ~isComment(s, i)
Arguments ==
  UNION {{args \in [1 .. n -> {s \in Strings(MaxWord) : Told(s, FALSE)}] :
            n > 0 => Told(args[1], TRUE)} : n \in 0 .. MaxArgs}

ParserInit ==
  /\ \/ line \in Strings(MaxLine) /\ command = << >>
     \/ \E args \in Arguments :
          /\ command = <<[name |-> Name, args |-> args]>>
          /\ line = Name \o <<Space>> \o concatEscape(args)
  /\ idx = advanceToNextToken(line, 1)
  /\ isInQuote = FALSE /\ token = << >> /\ nameParsed = FALSE
  /\ res = [name |-> << >>, args |-> << >>]

OpenQuote ==
  /\ idx <= Len(line) /\ line[idx] = Quote /\ ~isInQuote
  /\ isInQuote' = TRUE /\ idx' = idx + 1
  /\ UNCHANGED <<line, command, token, nameParsed, res>>

CloseQuote ==
  /\ idx <= Len(line) /\ line[idx] = Quote /\ isInQuote
  /\ isInQuote' = FALSE
  /\ flushToken
  /\ idx' = advanceToNextToken(line, idx + 1)
  /\ UNCHANGED <<line, command>>

AtGap == ~isInQuote /\ (isSeparator(line, idx) \/ isComment(line, idx))

EndToken ==
  /\ idx <= Len(line) /\ AtGap
  /\ flushToken
  /\ idx' = advanceToNextToken(line, idx)
  /\ UNCHANGED <<line, command, isInQuote>>

TakeChar ==
  /\ idx <= Len(line) /\ line[idx] # Quote /\ ~AtGap
  /\ token' = Append(token, line[idx]) /\ idx' = idx + 1
  /\ UNCHANGED <<line, command, isInQuote, nameParsed, res>>

\* After the loop: what is left is a token, if it is anything.
Finish ==
  /\ idx > Len(line) /\ token # << >>
  /\ flushToken
  /\ UNCHANGED <<line, command, idx, isInQuote>>

ParserNext == OpenQuote \/ CloseQuote \/ EndToken \/ TakeChar \/ Finish

ParserSpec == ParserInit /\ [][ParserNext]_parserVars

Parsed == idx > Len(line) /\ token = << >>

-----------------------------------------------------------------------------
(* Properties.                                                             *)

\* The words of a line, defined from its end: what starts at i continues the word
\* before i, be it in quotes or not.  The first of the words may be empty until it is
\* known what is before it.
WordsGoOn(char, words) == << <<char>> \o Head(words) >> \o Tail(words)
NotEmpty(words)        == IF Head(words) = << >> THEN Tail(words) ELSE words
WordEnds(words)        == << << >> >> \o NotEmpty(words)

AfterComment(str, i) ==
  LET ends == {j \in i + 2 .. Len(str) - 1 : str[j] = "*" /\ str[j + 1] = "/"}
  IN  IF str[i + 1] = "/" \/ ends = {} THEN Len(str) + 1 ELSE Min(ends) + 2

Words(str) ==
  LET from[i \in 1 .. Len(str) + 1] ==
        IF i > Len(str) THEN [plain |-> << << >> >>, quoted |-> << << >> >>]
        ELSE [plain  |-> IF str[i] = Quote THEN from[i + 1].quoted
                         ELSE IF isComment(str, i)
                         THEN WordEnds(from[AfterComment(str, i)].plain)
                         ELSE IF str[i] \in sepChars THEN WordEnds(from[i + 1].plain)
                         ELSE WordsGoOn(str[i], from[i + 1].plain),
              quoted |-> IF str[i] = Quote THEN WordEnds(from[i + 1].plain)
                         ELSE WordsGoOn(str[i], from[i + 1].quoted)]
  IN  NotEmpty(from[1].plain)

NotEmptyOf(tokens) ==
  LET kept[n \in 0 .. Len(tokens)] ==
        IF n = 0 THEN << >>
        ELSE IF tokens[n] = << >> THEN kept[n - 1] ELSE Append(kept[n - 1], tokens[n])
  IN  kept[Len(tokens)]

\* The tokens that are not empty are the words of the line: separators and comments
\* outside of quotes part words and are gone, in quotes they are text; no
\* character is lost, doubled or moved to another word, however often the loop
\* looks for the next token (CommandParser.cpp lines 249-332).
\* Without quotes, and with one comment at most, there are no others; between two
\* comments there is an empty one.
TokensAreTheWords ==
  Parsed =>
    /\ NotEmptyOf(<<res.name>> \o res.args) = Words(line)
    /\ /\ ~HasAny(line, {Quote})
       /\ Cardinality({i \in DOMAIN line : isComment(line, i)}) <= 1
       => << >> \notin Range(res.args)

\* The arguments of a command, made a line by concatEscape, are parsed to the same
\* arguments: those with a space are quoted and not split, and not taken for
\* comments (CommandParser.h lines 96-131).  The first argument is never quoted,
\* and must not have a space.
ArgumentsSurvive == Parsed /\ command # << >> => <<res>> = command
=============================================================================
