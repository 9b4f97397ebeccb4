------------------------------ MODULE Netchan ------------------------------
(***************************************************************************)
(* Netchan (src/include/JKAProto/protocol/Netchan.h) between a peer that   *)
(* cuts its messages into fragments and a network that loses, duplicates,  *)
(* reorders and truncates datagrams.  A message is its session, sequence   *)
(* and length; one of its bytes is that session and sequence and the       *)
(* byte's offset, so that a byte out of place can be told.                 *)
(*                                                                         *)
(* The network is the set of all packets of the messages sent: one that    *)
(* is never received is lost, one received again is a duplicate.           *)
(***************************************************************************)
EXTENDS Integers, Sequences, FiniteSets, FragmentBuffer

CONSTANTS SHORT_MAX,      \* largest int16_t
          MAX_MSGLEN,     \* longest message the protocol allows
          MaxSequence,    \* bound: messages the peer sends in a session
          MaxOutgoing,    \* bound: sequences the application encodes
          MaxSession,     \* bound: reconnections
          StalePackets    \* do packets outlive the session they were sent in

ASSUME NetchanAssumption ==
  /\ SHORT_MAX \in Nat
  /\ MAX_MSGLEN \in Nat
  /\ MAX_MSGLEN <= 2 * SHORT_MAX + 1
  /\ MaxSequence \in Nat
  /\ MaxOutgoing \in Nat
  /\ MaxSession \in Nat
  /\ StalePackets \in BOOLEAN

VARIABLES
  incomingSequence,  \* the last message delivered
  outgoingSequence,  \* the least sequence that may still be encoded
  fragmentBuffer,
  session,           \* the connection, as the application counts them
  serverSequence,    \* the peer's last message of this session
  sent,              \* every message whose packets may still be received
  delivered,         \* history: what the parser was handed in this session
  encoded            \* history: sequences encoded in this session, in order

receiveVars == <<incomingSequence, fragmentBuffer, delivered>>
sendVars    == <<outgoingSequence, encoded>>
peerVars    == <<session, serverSequence, sent>>
vars        == <<receiveVars, sendVars, peerVars>>

-----------------------------------------------------------------------------
(* Messages and packets.                                                   *)

Message == [session : 0 .. MaxSession, seq : 1 .. MaxSequence,
            len : 0 .. MAX_MSGLEN]

Byte(m, off) == [session |-> m.session, seq |-> m.seq, off |-> off]

Bytes(m, from, n) == [i \in 1 .. n |-> Byte(m, from + i)]

Payload(m) == Bytes(m, 0, m.len)

WholePacket(m) ==
  [seq |-> m.seq, fragmented |-> FALSE, start |-> 0, length |-> m.len,
   data |-> Payload(m)]

\* A message of FRAGMENT_SIZE bytes or more is cut; its last fragment is the
\* one that is shorter than FRAGMENT_SIZE, even if it is empty.
FragmentStarts(m) == {s \in 0 .. m.len : s % FRAGMENT_SIZE = 0}

FragmentLength(m, start) ==
  IF m.len - start < FRAGMENT_SIZE THEN m.len - start ELSE FRAGMENT_SIZE

Fragment(m, start) ==
  [seq |-> m.seq, fragmented |-> TRUE, start |-> start,
   length |-> FragmentLength(m, start),
   data |-> Bytes(m, start, FragmentLength(m, start))]

Truncated(p, n) == [p EXCEPT !.data = SubSeq(@, 1, n)]

\* A 16-bit field read back as the int16_t it is parsed into.
Int16(u) == IF u <= SHORT_MAX THEN u ELSE u - 2 * (SHORT_MAX + 1)

-----------------------------------------------------------------------------
Init ==
  /\ incomingSequence = 0
  /\ outgoingSequence = 0
  /\ fragmentBuffer = DefaultBuffer
  /\ session = 0
  /\ serverSequence = 0
  /\ sent = {}
  /\ delivered = << >>
  /\ encoded = << >>

\* The peer sends its next message.
PeerSend(len) ==
  /\ serverSequence < MaxSequence
  /\ serverSequence' = serverSequence + 1
  /\ sent' = sent \cup
       {[session |-> session, seq |-> serverSequence + 1, len |-> len]}
  /\ UNCHANGED <<session, receiveVars, sendVars>>

\* Mutants: the duplicate test off by one either way, the last sequence
\* recorded one too high.
DeliverAgain(body, sequence) ==
  IF sequence < incomingSequence
  THEN UNCHANGED <<incomingSequence, delivered>>
  ELSE /\ incomingSequence' = sequence
       /\ delivered' = Append(delivered, [seq |-> sequence, body |-> body])

DropNext(body, sequence) ==
  IF sequence <= incomingSequence + 1
  THEN UNCHANGED <<incomingSequence, delivered>>
  ELSE /\ incomingSequence' = sequence
       /\ delivered' = Append(delivered, [seq |-> sequence, body |-> body])

ExpectAfterNext(body, sequence) ==
  IF sequence <= incomingSequence
  THEN UNCHANGED <<incomingSequence, delivered>>
  ELSE /\ incomingSequence' = sequence + 1
       /\ delivered' = Append(delivered, [seq |-> sequence, body |-> body])

processIncomingData(body, sequence) ==
  IF sequence <= incomingSequence
  THEN UNCHANGED <<incomingSequence, delivered>>
  ELSE /\ incomingSequence' = sequence
       /\ delivered' = Append(delivered, [seq |-> sequence, body |-> body])

processFragmentPacket(p) ==
  LET result == processFragment(fragmentBuffer, p.data, Int16(p.start), p.seq)
  IN  /\ fragmentBuffer' = result.buffer
      /\ IF result.complete THEN processIncomingData(result.body, p.seq)
         ELSE UNCHANGED <<incomingSequence, delivered>>

processIncomingPacket(p) ==
  /\ \/ /\ ~p.fragmented
        /\ processIncomingData(p.data, p.seq)
        /\ UNCHANGED fragmentBuffer
     \/ /\ p.fragmented
        /\ Len(p.data) # Int16(p.length)
        /\ UNCHANGED receiveVars
     \/ /\ p.fragmented
        /\ Len(p.data) = Int16(p.length)
        /\ processFragmentPacket(p)
  /\ UNCHANGED <<sendVars, peerVars>>

ReceiveWhole(m) ==
  /\ m.len < FRAGMENT_SIZE
  /\ processIncomingPacket(WholePacket(m))

ReceiveFragment(m, start) ==
  /\ m.len >= FRAGMENT_SIZE
  /\ processIncomingPacket(Fragment(m, start))

\* A fragment cut short on its way: what the length field is checked for.
ReceiveTruncated(m, start, n) ==
  /\ m.len >= FRAGMENT_SIZE
  /\ n < FragmentLength(m, start)
  /\ processIncomingPacket(Truncated(Fragment(m, start), n))

\* Mutant: the sequence just encoded may be encoded again.
EncodeAgain(currentSequence) ==
  /\ IF currentSequence < outgoingSequence
     THEN UNCHANGED sendVars
     ELSE /\ encoded' = Append(encoded, currentSequence)
          /\ outgoingSequence' = currentSequence
  /\ UNCHANGED <<receiveVars, peerVars>>

processOutgoingPacket(currentSequence) ==
  /\ IF currentSequence < outgoingSequence
     THEN UNCHANGED sendVars
     ELSE /\ encoded' = Append(encoded, currentSequence)
          /\ outgoingSequence' = currentSequence + 1
  /\ UNCHANGED <<receiveVars, peerVars>>

\* "Called after the initial 'connect' has been sent": the client repeats its
\* connect until it is answered, and sends no sequenced packet before.
setInitialConnectedState ==
  /\ encoded = << >>
  /\ outgoingSequence' = 1
  /\ UNCHANGED <<encoded, receiveVars, peerVars>>

\* The application resets its Netchan for a new connection.
reset ==
  /\ session < MaxSession
  /\ session' = session + 1
  /\ incomingSequence' = 0
  /\ outgoingSequence' = 0
  /\ fragmentBuffer' = resetBuffer(fragmentBuffer)
  /\ serverSequence' = 0
  /\ sent' = IF StalePackets THEN sent ELSE {}
  /\ delivered' = << >>
  /\ encoded' = << >>

Receive ==
  \E m \in sent :
     \/ ReceiveWhole(m)
     \/ \E start \in FragmentStarts(m) :
           \/ ReceiveFragment(m, start)
           \/ \E n \in 0 .. FRAGMENT_SIZE - 1 : ReceiveTruncated(m, start, n)

Next ==
  \/ \E len \in 0 .. MAX_MSGLEN : PeerSend(len)
  \/ Receive
  \/ \E s \in 0 .. MaxOutgoing : processOutgoingPacket(s)
  \/ setInitialConnectedState
  \/ reset

Spec == Init /\ [][Next]_vars

-----------------------------------------------------------------------------
(* Properties.                                                             *)

Cell == [session : 0 .. MaxSession, seq : 1 .. MaxSequence, off : 1 .. MAX_MSGLEN]

\* Every variable keeps its type.
TypeOK ==
  /\ incomingSequence \in 0 .. MaxSequence
  /\ outgoingSequence \in Nat
  /\ fragmentBuffer \in [header : {0, SEQUENCE_LEN}, body : Seq(Cell), sequence : 0 .. MaxSequence]
  /\ session \in 0 .. MaxSession
  /\ serverSequence \in 0 .. MaxSequence
  /\ sent \subseteq Message
  /\ delivered \in Seq([seq : 1 .. MaxSequence, body : Seq(Cell)])
  /\ encoded \in Seq(Nat)

\* Whatever the network does, even with packets of an earlier session still
\* under way, a delivered message has at every offset a byte that was sent
\* under its own sequence number at that offset: fragments of two messages
\* are never spliced, and none is skipped or taken twice (FragmentBuffer.h
\* lines 39-60, the length check of Netchan.h lines 68-70).
InPlace(body, seq) ==
  \A i \in 1 .. Len(body) : body[i].seq = seq /\ body[i].off = i

BytesInPlace ==
  \A i \in 1 .. Len(delivered) : InPlace(delivered[i].body, delivered[i].seq)

\* If no packet outlives its session, the bytes being collected are the first
\* bytes of the one message of this session whose sequence the buffer is
\* turned to: a reconnect in mid-message leaves nothing behind
\* (FragmentBuffer.h lines 62-66, Netchan.h lines 115-120).
CollectedPrefix ==
  \/ fragmentBuffer.body = << >>
  \/ \E m \in sent :
        /\ m.session = session
        /\ m.seq = fragmentBuffer.sequence
        /\ Len(fragmentBuffer.body) <= m.len
        /\ fragmentBuffer.body = Bytes(m, 0, Len(fragmentBuffer.body))

\* The assertion of FragmentBuffer.h line 92, "The fragmentBuffer must not be
\* empty!", holds for whichever message's last fragment comes next, although
\* a default-constructed buffer has no header yet.
HeaderIsPresent ==
  \A m \in sent : FragmentSequenceCanBeSet(TurnTo(fragmentBuffer, m.seq))

\* No sequence number is encoded twice in a session, nor one after a later
\* one: the key stream of a packet depends on it (Netchan.h lines 90-95).
EncodedInOrder ==
  \A i, j \in 1 .. Len(encoded) : i < j => encoded[i] < encoded[j]

\* If no packet outlives its session, what the parser is handed is what
\* DatagramChannel allows: whole messages, each at most once, in order.
Channel == INSTANCE DatagramChannel WITH Messages <- Message

DeliversDatagrams == Channel!Spec
=============================================================================
