--------------------------- MODULE NetchanStream ---------------------------
(***************************************************************************)
(* Netchan behind a network that loses and reorders nothing: the packets   *)
(* of every message arrive in the order the peer sent them.  Here nothing  *)
(* excuses a message that is not delivered.                                *)
(***************************************************************************)
EXTENDS Netchan, SequencesExt

VARIABLE wire  \* packets under way, the oldest first

streamVars == <<vars, wire>>

\* The packets of a message in the order they are transmitted.
Packets(m) ==
  IF m.len < FRAGMENT_SIZE THEN <<WholePacket(m)>>
  ELSE [k \in 1 .. m.len \div FRAGMENT_SIZE + 1 |->
          Fragment(m, (k - 1) * FRAGMENT_SIZE)]

StreamInit == Init /\ wire = << >>

StreamSend ==
  /\ \E len \in 0 .. MAX_MSGLEN : PeerSend(len)
  /\ wire' = wire \o Packets(CHOOSE m \in sent' : m \notin sent)

StreamReceive ==
  /\ wire # << >>
  /\ processIncomingPacket(Head(wire))
  /\ wire' = Tail(wire)

StreamNext == StreamSend \/ StreamReceive

\* The application polls its socket as long as it runs.
StreamSpec == StreamInit /\ [][StreamNext]_streamVars /\ WF_streamVars(StreamReceive)

-----------------------------------------------------------------------------

\* When every packet has arrived, every message has been delivered: none is
\* given up for a reason of Netchan's own.
DrainedMeansDelivered ==
  wire = << >> =>
    \A m \in sent : \E i \in 1 .. Len(delivered) :
       delivered[i] = [seq |-> m.seq, body |-> Payload(m)]

\* A message of any length the protocol allows (MAX_MSGLEN, JKAConstants.h
\* line 37; the fragment buffer of JKAStructs.h line 30 holds as much) is
\* delivered in the end.
EveryMessageDelivered ==
  \A s \in 1 .. MaxSequence :
     (serverSequence = s) ~> (\E i \in 1 .. Len(delivered) : delivered[i].seq = s)
=============================================================================
