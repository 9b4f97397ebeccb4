---------------------------- MODULE CommandOverloads ----------------------------
(***************************************************************************)
(* AdvancedCommandExecutor: functions of one name with different           *)
(* parameters, and the one of them a command calls.  A function is the     *)
(* sequence of its parameters' kinds.                                      *)
(***************************************************************************)
EXTENDS Command

CONSTANTS Signatures,    \* the functions there are to register
          Plain,         \* bound: those of which more than one is registered
          Texts,         \* the arguments there are to pass
          Arguments,     \* those a command may have, in order
          MaxOverloads   \* bound: functions of the name

VARIABLES overloads,    \* the OverloadSet of the name, in its order
          registered,   \* functions passed to addCommand, in order
          call          \* the last command and what came of it

overloadVars == <<overloads, registered, call>>

-----------------------------------------------------------------------------
(* Kinds of parameters: ArgParser.                                         *)

RawType == [int32 |-> "Int", int64 |-> "Int", bool |-> "BoolExt", float |-> "Float",
            string |-> "Str"]
Simple == DOMAIN RawType
Tails  == {"Tail", "TailConcat", "TailConcatEscape"}
Tags   == {"tag1", "tag2"}           \* cmdarg, by the name it gives
Kinds  == Simple \cup Tails \cup Tags \cup {"CommandName"}

\* std::sort keeps to insertion sort up to 16 elements.
ASSUME OverloadsAssumption ==
  /\ Signatures \subseteq Seq(Kinds) /\ Plain \subseteq Seq(Kinds)
  /\ Texts \subseteq Seq(STRING) /\ Arguments \subseteq Seq(Texts)
  /\ MaxOverloads \in 0 .. 16

-----------------------------------------------------------------------------
(* Compiling a function.                                                   *)

Count(s, set) == Cardinality({i \in DOMAIN s : s[i] \in set})

\* active_arg_index of each parameter, from 0.
NeverCount(params) == [i \in DOMAIN params |-> 0]  \* mutant: no increment
enumerate_args(params) ==
  [i \in DOMAIN params |-> Count(SubSeq(params, 1, i - 1), Simple)]

Untagged == "none"
\* One step of the loop of parse_args_pack; tail is << >> or one label.
Parsed(pack, kind) ==
  CASE pack.error -> pack
    [] ~pack.error /\ kind \in Simple ->
         IF pack.tail # << >> THEN [pack EXCEPT !.error = TRUE]
         ELSE [pack EXCEPT !.args = Append(@, [type |-> RawType[kind], label |-> Untagged])]
    [] ~pack.error /\ kind \in Tails ->
         IF pack.tail # << >> THEN [pack EXCEPT !.error = TRUE]
         ELSE [pack EXCEPT !.tail = <<Untagged>>]
    [] ~pack.error /\ kind \in Tags ->
         IF pack.tail # << >> THEN [pack EXCEPT !.tail = <<kind>>]
         ELSE IF pack.args = << >> THEN [pack EXCEPT !.error = TRUE]
         ELSE [pack EXCEPT !.args[Len(pack.args)].label = kind]
    [] OTHER -> pack

NoPack == [args |-> << >>, tail |-> << >>, error |-> FALSE]
parse_args_pack(params) ==
  LET pack[n \in 0 .. Len(params)] ==
        IF n = 0 THEN NoPack ELSE Parsed(pack[n - 1], params[n])
  IN  pack[Len(params)]

compile_command(params) ==
  [params |-> params, index |-> enumerate_args(params),
   args |-> parse_args_pack(params).args, tail |-> parse_args_pack(params).tail]

-----------------------------------------------------------------------------
(* The order of overloads.                                                 *)

CompareSizes(a, b) == Len(a.args) < Len(b.args)  \* mutant: tails do not count
CompiledCommandCompare(a, b) ==
  \/ a.tail = << >> /\ b.tail # << >>
  \/ Len(a.args) < Len(b.args)

\* std::sort of at most 16 elements is an insertion sort: the next element goes to
\* the front if it is less than the first, else forward while it is less than the
\* one before it.
Insert(sorted, cmd) ==
  LET places == {i \in 1 .. Len(sorted) + 1 :
                   \A j \in i .. Len(sorted) : CompiledCommandCompare(cmd, sorted[j])}
  IN  IF sorted # << >> /\ CompiledCommandCompare(cmd, sorted[1]) THEN <<cmd>> \o sorted
      ELSE InsertAt(sorted, Min(places), cmd)

add(set, cmd) ==
  LET added == Append(set, cmd)
      sorted[n \in 0 .. Len(added)] ==
        IF n = 0 THEN << >> ELSE Insert(sorted[n - 1], added[n])
  IN  sorted[Len(added)]

-----------------------------------------------------------------------------
(* Calling.                                                                *)

matches(overload, args) ==
  /\ Len(args) >= Len(overload.args)
  /\ Len(args) > Len(overload.args) => overload.tail # << >>
  /\ \A i \in DOMAIN overload.args : overload.args[i].type \in ArgType(args[i])

extract_arg(kind, cmd, index) ==
  LET rest == SubSeq(cmd.args, index + 1, Len(cmd.args))
  IN  CASE kind \in Simple -> cmd.args[index + 1]
        [] kind = "Tail" -> rest
        [] kind = "TailConcat" -> concat(rest)
        [] kind = "TailConcatEscape" -> concatEscape(rest)
        [] kind = "CommandName" -> cmd.name
        [] kind \in Tags -> kind

invoke(overload, cmd) ==
  [i \in DOMAIN overload.params |->
     extract_arg(overload.params[i], cmd, overload.index[i])]

-----------------------------------------------------------------------------
Commands == [name : {"known"}, args : Arguments] \cup [name : {"other"}, args : {<< >>}]

NoCall == [cmd |-> [name |-> "other", args |-> << >>], reason |-> "none",
           overload |-> << >>, values |-> << >>]

OverloadsInit == overloads = << >> /\ registered = << >> /\ call = NoCall

\* Bound: of two functions one is plain, of more all are.
SignaturesNext ==
  CASE Len(registered) = 0 -> Signatures
    [] Len(registered) = 1 \/ (Len(registered) < MaxOverloads /\ registered[1] \in Plain) -> Plain
    [] OTHER -> {}
CommandsNext == IF call = NoCall THEN Commands ELSE {}

\* A function that cannot be compiled throws, and nothing is registered.
addCommand(params) ==
  /\ ~parse_args_pack(params).error
  /\ overloads' = add(overloads, compile_command(params))
  /\ registered' = Append(registered, params)
  /\ call' = NoCall

execute(cmd) ==
  LET isKnown == cmd.name = "known" /\ overloads # << >>
      matching == {i \in DOMAIN overloads : matches(overloads[i], cmd.args)}
  IN  /\ call' = IF ~isKnown THEN [NoCall EXCEPT !.cmd = cmd, !.reason = "UNKNOWN_COMMAND"]
                 ELSE IF matching = {}
                 THEN [NoCall EXCEPT !.cmd = cmd, !.reason = "UNKNOWN_OVERLOAD"]
                 ELSE LET chosen == overloads[Min(matching)]
                      IN  [cmd |-> cmd, reason |-> "OK", overload |-> <<chosen>>,
                           values |-> invoke(chosen, cmd)]
      /\ UNCHANGED <<overloads, registered>>

OverloadsNext == \/ \E params \in SignaturesNext : addCommand(params)
                 \/ \E cmd \in CommandsNext : execute(cmd)

OverloadsSpec == OverloadsInit /\ [][OverloadsNext]_overloadVars

-----------------------------------------------------------------------------
(* Properties.                                                             *)

\* A function by its parameters alone.
Arity(params)   == Count(params, Simple)
HasTail(params) == Count(params, Tails) > 0
Takes(params, args) ==
  LET place(i) == Arity(SubSeq(params, 1, i))
  IN  /\ IF HasTail(params) THEN Len(args) >= Arity(params) ELSE Len(args) = Arity(params)
      /\ \A i \in DOMAIN params : params[i] \in Simple =>
           RawType[params[i]] \in ArgType(args[place(i)])

Called == call.overload[1].params

\* A command that a function takes calls one that takes it, whatever was registered in
\* which order, and no other command calls any; it is one without a tail if such a
\* one takes it, provided that no function with a tail has fewer arguments than one
\* without (AdvancedCommandExecutor.h lines 417-436, 643-679).  Otherwise it depends
\* on the order of registration, against the comment of line 649.
BestOverloadIsCalled ==
  LET taking == {i \in DOMAIN registered : Takes(registered[i], call.cmd.args)}
      ranked == \A i, j \in DOMAIN registered :
        HasTail(registered[i]) /\ ~HasTail(registered[j])
          => Arity(registered[i]) >= Arity(registered[j])
  IN  call.reason \in {"OK", "UNKNOWN_OVERLOAD"} =>
        /\ (call.reason = "OK") = (taking # {})
        /\ call.reason = "OK" => Takes(Called, call.cmd.args)
        /\ ranked /\ (\E i \in taking : ~HasTail(registered[i])) => ~HasTail(Called)

\* A label names the argument or tail it stands behind, and the last one of several
\* counts.
Labelled(o) ==
  LET owner(i) == Max({0} \cup {j \in 1 .. i : o.params[j] \in Simple \cup Tails})
      tags(j)  == {i \in DOMAIN o.params : o.params[i] \in Tags /\ owner(i) = j}
      label(j) == IF tags(j) = {} THEN Untagged ELSE o.params[Max(tags(j))]
  IN  \A j \in DOMAIN o.params :
        /\ o.params[j] \in Simple => o.args[o.index[j] + 1].label = label(j)
        /\ o.params[j] \in Tails  => o.tail = <<label(j)>>

\* The function is given each of the command's arguments once, in order: the active
\* parameters the first ones, the tail the others, whatever labels and names of
\* commands stand between them (AdvancedCommandExecutor.h lines 314-373, 476-487,
\* 578-605); and the usage shows each with its own label (lines 444-462, 498-543).
EveryArgumentIsPassed ==
  /\ \A o \in Range(overloads) : Labelled(o)
  /\ call.reason = "OK" =>
       LET active == {i \in DOMAIN Called : Called[i] \in Simple}
           n      == Cardinality(active)
           rest   == SubSeq(call.cmd.args, n + 1, Len(call.cmd.args))
       IN  /\ \A i \in active :
                call.values[i] = call.cmd.args[Cardinality({j \in active : j <= i})]
           /\ \A i \in DOMAIN Called :
                /\ Called[i] = "Tail" => call.values[i] = rest
                /\ Called[i] = "TailConcat" /\ Len(rest) = 2 =>
                     call.values[i] = rest[1] \o <<Space>> \o rest[2]
           /\ ~HasTail(Called) => rest = << >>
=============================================================================
