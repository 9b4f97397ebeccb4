-------------------------------- MODULE Callbacks --------------------------------
(***************************************************************************)
(* What the application is told: the functions that commands call          *)
(* (CommandOverloads), the events of entities (EntityEvents) and the moves *)
(* of a client (UserMoves).  None touches the state of another, so that a  *)
(* behaviour is one of any of them.                                        *)
(***************************************************************************)
EXTENDS CommandOverloads, EntityEvents, UserMoves

VARIABLE told

-----------------------------------------------------------------------------
(* The functions, texts and commands that callbacks.cfg chooses: a text of *)
(* each type, every function of two arguments and of three parameters.     *)

SomeTexts == {<<"1">>, <<"0", "a">>, <<".", "5">>, <<"o", "N">>, <<"a", Space>>, << >>}
SomeArguments == UNION {[1 .. n -> SomeTexts] : n \in 0 .. 2}
                 \cup {<< <<"1">>, <<"o", "N">>, <<"a", Space>> >>}

Strings(n) == [i \in 1 .. n |-> "string"]
SequencesOf(kinds, n) == UNION {[1 .. k -> kinds] : k \in 0 .. n}
PlainSignatures == {Strings(n) : n \in 0 .. 2} \cup {Append(Strings(n), "Tail") : n \in 0 .. 2}
SomeSignatures == SequencesOf(Simple, 2) \cup PlainSignatures
                  \cup SequencesOf({"string", "tag1", "tag2", "CommandName"} \cup Tails, 3)

-----------------------------------------------------------------------------
Init ==
  /\ told \in {"commands", "events", "moves"}
  /\ OverloadsInit
  /\ EventsInit /\ (told # "events" => who = "other")
  /\ MovesInit

Next ==
  /\ UNCHANGED told
  /\ \/ told = "commands" /\ OverloadsNext /\ UNCHANGED <<eventVars, moveVars>>
     \/ told = "events" /\ EventsNext /\ UNCHANGED <<overloadVars, moveVars>>
     \/ told = "moves" /\ MovesNext /\ UNCHANGED <<overloadVars, eventVars>>

Spec == Init /\ [][Next]_<<told, overloadVars, eventVars, moveVars>>
=============================================================================
