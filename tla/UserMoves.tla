-------------------------------- MODULE UserMoves --------------------------------
(***************************************************************************)
(* The moves of a client.  Each packet repeats the last moves, in case     *)
(* packets are lost; what the observer makes of them.  A move is told by   *)
(* its time.  The netchan lets packets through in order, each once.        *)
(***************************************************************************)
EXTENDS Integers, SequencesExt

CONSTANTS MAX_PACKET_USERCMDS,  \* moves that are read from a packet
          MaxTime,              \* bound: times of moves
          MaxMoves,             \* bound: moves of the client
          MaxPackets,           \* bound: packets in flight
          MaxRepeated           \* bound: moves in a packet

ASSUME MovesAssumption ==
  /\ MAX_PACKET_USERCMDS \in Nat \ {0} /\ MaxTime \in Nat
  /\ MaxMoves \in Nat /\ MaxPackets \in Nat /\ MaxRepeated \in Nat

VARIABLES moves,        \* times of the client's moves
          first,        \* of the last packet sent, its first move
          packets,      \* moves of each packet that was sent and not read
          lastUsercmd,  \* time of the last move that was executed
          executed,     \* moves the listener was told of
          received      \* moves of all packets that were read

moveVars == <<moves, first, packets, lastUsercmd, executed, received>>

MovesInit ==
  /\ moves = << >> /\ first = 1 /\ packets = << >> /\ lastUsercmd = 0
  /\ executed = << >> /\ received = {}

-----------------------------------------------------------------------------
(* The client and the network.                                             *)

\* The client makes several moves at one time if it runs fast.
MakeMove(time) ==
  /\ moves # << >> => time >= Last(moves)
  /\ moves' = Append(moves, time)
  /\ Len(moves) < MaxMoves
  /\ UNCHANGED <<first, packets, lastUsercmd, executed, received>>

\* From some move on, never from an earlier one than the packet before.
SendMoves(from) ==
  /\ from \in first .. Len(moves) + 1 /\ Len(moves) - from < MaxRepeated
  /\ Len(packets) < MaxPackets
  /\ first' = from
  /\ packets' = Append(packets, SubSeq(moves, from, Len(moves)))
  /\ UNCHANGED <<moves, lastUsercmd, executed, received>>

LoseMoves ==
  /\ packets # << >>
  /\ packets' = Tail(packets)
  /\ UNCHANGED <<moves, first, lastUsercmd, executed, received>>

-----------------------------------------------------------------------------
(* The observer.                                                           *)

\* executeUserCmd, on the last time and what was executed.
ExecuteAgain(state, time) ==  \* mutant: < for <=
  IF time < state.last THEN state
  ELSE [last |-> time, executed |-> Append(state.executed, time)]
executeUserCmd(state, time) ==
  IF time <= state.last THEN state
  ELSE [last |-> time, executed |-> Append(state.executed, time)]

\* One after the other.
executeUserCmds(state, cmds) ==
  LET after[i \in 0 .. Len(cmds)] ==
        IF i = 0 THEN state ELSE executeUserCmd(after[i - 1], cmds[i])
  IN after[Len(cmds)]

parseUserMove ==
  /\ packets # << >>
  /\ LET cmds  == Head(packets)
         start == [last |-> lastUsercmd, executed |-> executed]
         after == IF Len(cmds) \in 1 .. MAX_PACKET_USERCMDS
                  THEN executeUserCmds(start, cmds) ELSE start
     IN  /\ lastUsercmd' = after.last /\ executed' = after.executed
         /\ received' = received \cup (IF Len(cmds) <= MAX_PACKET_USERCMDS THEN Range(cmds) ELSE {})
  /\ packets' = Tail(packets)
  /\ UNCHANGED <<moves, first>>

MovesNext ==
  \/ \E time \in 1 .. MaxTime : MakeMove(time)
  \/ \E from \in first .. Len(moves) + 1 : SendMoves(from)
  \/ LoseMoves
  \/ parseUserMove

MovesSpec == MovesInit /\ [][MovesNext]_moveVars

-----------------------------------------------------------------------------
(* Properties.                                                             *)

\* The listener is told of each move that is in any packet it got, once and in the
\* order of their times, however packets overlap and whichever are lost
\* (ClientPacketParser.cpp lines 73-108).  Of the moves of one time, it is told
\* of one.
MovesAreExecutedOnce ==
  /\ Range(executed) = received
  /\ \A i, j \in DOMAIN executed : i < j => executed[i] < executed[j]
=============================================================================
