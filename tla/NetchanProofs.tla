--------------------------- MODULE NetchanProofs ---------------------------
(***************************************************************************)
(* Theorems about Netchan, for every fragment size, message length, number *)
(* of messages and number of sessions.                                     *)
(***************************************************************************)
EXTENDS NetchanStream, ProofFacts

Buffer == [header : {0, SEQUENCE_LEN}, body : Seq(Cell), sequence : 0 .. MaxSequence]

\* What every packet the network can hold is, to the code that receives it:
\* the whole of one message m, a fragment cut at one of its boundaries, or a
\* fragment whose length field is not the length of its data.
PacketOf(p, m) ==
  /\ p.seq = m.seq
  /\ p.data \in Seq(Cell)
  /\ ~p.fragmented => p.data = Payload(m)
  /\ p.fragmented /\ Len(p.data) = Int16(p.length) =>
        /\ p.start \in FragmentStarts(m)
        /\ p.data = Bytes(m, p.start, FragmentLength(m, p.start))

-----------------------------------------------------------------------------

\* A stretch of a message is a sequence of its bytes.
LEMMA BytesType ==
  ASSUME NEW m \in Message, NEW from \in Nat, NEW n \in Nat, from + n <= m.len
  PROVE  /\ Bytes(m, from, n) \in Seq(Cell)
         /\ Len(Bytes(m, from, n)) = n
         /\ \A i \in 1 .. n : Bytes(m, from, n)[i] = Byte(m, from + i)
<1> USE NetchanAssumption DEF Message
<1>1. \A i \in 1 .. n : Byte(m, from + i) \in Cell
  BY DEF Byte, Cell
<1> QED
  BY <1>1 DEF Bytes

\* Two stretches of a message that meet make one.
LEMMA BytesJoin ==
  ASSUME NEW m \in Message, NEW n \in Nat, NEW k \in Nat, n + k <= m.len
  PROVE  Bytes(m, 0, n) \o Bytes(m, n, k) = Bytes(m, 0, n + k)
<1> DEFINE a == Bytes(m, 0, n)
           b == Bytes(m, n, k)
           c == Bytes(m, 0, n + k)
<1>0. m.len \in Nat /\ 0 + n <= m.len /\ 0 \in Nat
  BY NetchanAssumption DEF Message
<1>1. /\ a \in Seq(Cell) /\ Len(a) = n
      /\ \A i \in 1 .. n : a[i] = Byte(m, 0 + i)
  <2> HIDE DEF b, c
  <2> QED
    BY BytesType, <1>0
<1>2. /\ b \in Seq(Cell) /\ Len(b) = k
      /\ \A i \in 1 .. k : b[i] = Byte(m, n + i)
  BY BytesType
<1>3. /\ c \in Seq(Cell) /\ Len(c) = n + k
      /\ \A i \in 1 .. n + k : c[i] = Byte(m, 0 + i)
  BY BytesType
<1> HIDE DEF a, b, c
<1>4. /\ a \o b \in Seq(Cell) /\ Len(a \o b) = n + k
  BY <1>1, <1>2
<1>5. ASSUME NEW i \in 1 .. n + k PROVE (a \o b)[i] = c[i]
  <2>1. CASE i <= n
    BY <2>1, <1>1, <1>2, <1>3
  <2>2. CASE i > n
    <3>1. (a \o b)[i] = b[i - n] /\ i - n \in 1 .. k
      BY <2>2, <1>1, <1>2
    <3>2. b[i - n] = Byte(m, n + (i - n)) /\ n + (i - n) = 0 + i
      BY <3>1, <1>2
    <3> QED
      BY <3>1, <3>2, <1>3
  <2>3. i <= n \/ i > n
    OBVIOUS
  <2> QED
    BY <2>1, <2>2, <2>3
<1>6. a \o b = c
  BY <1>3, <1>4, <1>5
<1> QED
  BY <1>6 DEF a, b, c

\* Clearing the buffer and appending to it keep its type.
LEMMA BufferOperationsType ==
  ASSUME NEW fb \in Buffer, NEW fragment \in Seq(Cell)
  PROVE  /\ clearFragmentBuffer(fb) \in Buffer
         /\ resetBuffer(fb) \in Buffer
         /\ appendFragment(fb, fragment) \in Buffer
<1>1. << >> \in Seq(Cell)
  OBVIOUS
<1>2. clearFragmentBuffer(fb) \in Buffer
  BY <1>1 DEF clearFragmentBuffer, Buffer
<1>3. appendFragment(fb, fragment) \in Buffer
  <2>1. fb.body \o fragment \in Seq(Cell)
    BY DEF Buffer
  <2> QED
    BY <2>1 DEF appendFragment, Buffer
<1>4. resetBuffer(fb) \in Buffer
  <2>1. 0 \in 0 .. MaxSequence
    BY NetchanAssumption
  <2> QED
    BY <1>2, <2>1 DEF resetBuffer, Buffer
<1> QED
  BY <1>2, <1>3, <1>4

\* processFragment keeps the type of the buffer and yields a typed body.
LEMMA ProcessFragmentType ==
  ASSUME NEW fb \in Buffer, NEW fragment \in Seq(Cell), NEW start \in Int,
         NEW s \in 1 .. MaxSequence
  PROVE  /\ TurnTo(fb, s) \in Buffer
         /\ processFragment(fb, fragment, start, s).buffer \in Buffer
         /\ processFragment(fb, fragment, start, s).body \in Seq(Cell)
<1>1. TurnTo(fb, s) \in Buffer
  <2>1. s \in 0 .. MaxSequence
    BY NetchanAssumption
  <2> QED
    BY <2>1, BufferOperationsType DEF TurnTo, Buffer
<1>2. /\ appendFragment(TurnTo(fb, s), fragment) \in Buffer
      /\ clearFragmentBuffer(TurnTo(fb, s)) \in Buffer
  BY <1>1, BufferOperationsType
<1>3. appendFragment(TurnTo(fb, s), fragment).body \in Seq(Cell)
  BY <1>2 DEF Buffer
<1>4. << >> \in Seq(Cell)
  OBVIOUS
<1> QED
  BY <1>1, <1>2, <1>3, <1>4 DEF processFragment

\* Every packet that can be received is one of PacketOf's three kinds.
LEMMA ReceivedPacket ==
  ASSUME TypeOK, Receive
  PROVE  \E m \in sent : \E p : PacketOf(p, m) /\ processIncomingPacket(p)
<1> USE NetchanAssumption, FragmentBufferAssumption
<1>1. PICK m \in sent :
         \/ ReceiveWhole(m)
         \/ \E start \in FragmentStarts(m) :
               \/ ReceiveFragment(m, start)
               \/ \E n \in 0 .. FRAGMENT_SIZE - 1 : ReceiveTruncated(m, start, n)
  BY DEF Receive
<1>2. m \in Message /\ m.len \in Nat /\ m.len <= MAX_MSGLEN
  BY DEF TypeOK, Message
<1>3. CASE ReceiveWhole(m)
  <2>1. PacketOf(WholePacket(m), m)
    BY <1>2, BytesType DEF PacketOf, WholePacket, Payload
  <2> QED
    BY <1>3, <2>1 DEF ReceiveWhole
<1>4. ASSUME NEW start \in FragmentStarts(m)
      PROVE  /\ start \in Nat
             /\ FragmentLength(m, start) \in Nat
             /\ start + FragmentLength(m, start) <= m.len
             /\ FragmentLength(m, start) <= FRAGMENT_SIZE
             /\ Bytes(m, start, FragmentLength(m, start)) \in Seq(Cell)
             /\ Len(Bytes(m, start, FragmentLength(m, start))) = FragmentLength(m, start)
  <2>1. /\ start \in Nat
        /\ FragmentLength(m, start) \in Nat
        /\ start + FragmentLength(m, start) <= m.len
        /\ FragmentLength(m, start) <= FRAGMENT_SIZE
    BY <1>2 DEF FragmentStarts, FragmentLength
  <2> QED
    BY <1>2, <2>1, BytesType
<1>5. ASSUME NEW start \in FragmentStarts(m), ReceiveFragment(m, start)
      PROVE  \E p : PacketOf(p, m) /\ processIncomingPacket(p)
  <2>1. PacketOf(Fragment(m, start), m)
    BY <1>4 DEF PacketOf, Fragment
  <2> QED
    BY <1>5, <2>1 DEF ReceiveFragment
<1>6. ASSUME NEW start \in FragmentStarts(m), NEW n \in 0 .. FRAGMENT_SIZE - 1,
             ReceiveTruncated(m, start, n)
      PROVE  \E p : PacketOf(p, m) /\ processIncomingPacket(p)
  <2> DEFINE d == Bytes(m, start, FragmentLength(m, start))
             p == Truncated(Fragment(m, start), n)
  <2>1. n < FragmentLength(m, start) /\ n \in Nat
    BY <1>6 DEF ReceiveTruncated
  <2>2. /\ p.seq = m.seq /\ p.fragmented = TRUE
        /\ p.length = FragmentLength(m, start)
        /\ p.data = SubSeq(d, 1, n)
    BY DEF Truncated, Fragment
  <2>3. SubSeq(d, 1, n) \in Seq(Cell) /\ Len(SubSeq(d, 1, n)) = n
    <3> HIDE DEF d
    <3>1. d \in Seq(Cell) /\ Len(d) = FragmentLength(m, start)
      BY <1>4 DEF d
    <3> QED
      BY <2>1, <3>1, <1>4
  <2>4. n # Int16(FragmentLength(m, start))
    BY <2>1, <1>2, <1>4 DEF Int16
  <2>5. PacketOf(p, m)
    BY <2>2, <2>3, <2>4 DEF PacketOf
  <2> QED
    BY <1>6, <2>5 DEF ReceiveTruncated
<1> QED
  BY <1>1, <1>3, <1>5, <1>6

\* A packet of a message keeps every type.
LEMMA IncomingType ==
  ASSUME TypeOK, NEW m \in sent, NEW p, PacketOf(p, m), processIncomingPacket(p)
  PROVE  TypeOK'
<1> USE NetchanAssumption
<1>1. p.seq \in 1 .. MaxSequence /\ p.data \in Seq(Cell) /\ fragmentBuffer \in Buffer
  BY DEF TypeOK, PacketOf, Message, Buffer
<1>2. ASSUME NEW body \in Seq(Cell), processIncomingData(body, p.seq)
      PROVE  /\ incomingSequence' \in 0 .. MaxSequence
             /\ delivered' \in Seq([seq : 1 .. MaxSequence, body : Seq(Cell)])
  <2> DEFINE Datagram == [seq : 1 .. MaxSequence, body : Seq(Cell)]
             d == [seq |-> p.seq, body |-> body]
  <2>1. d \in Datagram
    BY <1>1, <1>2
  <2>2. delivered \in Seq(Datagram) /\ incomingSequence \in 0 .. MaxSequence
    BY DEF TypeOK
  <2>3. \/ UNCHANGED <<incomingSequence, delivered>>
        \/ incomingSequence' = p.seq /\ delivered' = Append(delivered, d)
    BY <1>2 DEF processIncomingData
  <2> HIDE DEF Datagram, d
  <2>4. incomingSequence' \in 0 .. MaxSequence /\ delivered' \in Seq(Datagram)
    <3>1. CASE UNCHANGED <<incomingSequence, delivered>>
      BY <2>2, <3>1
    <3>2. CASE incomingSequence' = p.seq /\ delivered' = Append(delivered, d)
      <4>1. Append(delivered, d) \in Seq(Datagram)
        BY <2>1, <2>2
      <4>2. p.seq \in 0 .. MaxSequence
        BY <1>1
      <4> QED
        BY <3>2, <4>1, <4>2
    <3> QED
      BY <2>3, <3>1, <3>2
  <2> QED
    BY <2>4 DEF Datagram
<1>3. UNCHANGED <<sendVars, peerVars>>
  BY DEF processIncomingPacket
<1>4. CASE ~p.fragmented /\ processIncomingData(p.data, p.seq) /\ UNCHANGED fragmentBuffer
  BY <1>1, <1>2, <1>3, <1>4 DEF TypeOK, sendVars, peerVars
<1>5. CASE UNCHANGED receiveVars
  BY <1>3, <1>5 DEF TypeOK, sendVars, peerVars, receiveVars
<1>6. CASE /\ p.fragmented
           /\ Len(p.data) = Int16(p.length)
           /\ processFragmentPacket(p)
  <2> DEFINE result == processFragment(fragmentBuffer, p.data, Int16(p.start), p.seq)
  <2>1. p.start \in Nat
    BY <1>6 DEF PacketOf, FragmentStarts
  <2>2. result.buffer \in Buffer /\ result.body \in Seq(Cell)
    BY <1>1, <2>1, ProcessFragmentType DEF Int16
  <2>3. fragmentBuffer' = result.buffer
    BY <1>6 DEF processFragmentPacket
  <2>4. \/ processIncomingData(result.body, p.seq)
        \/ UNCHANGED <<incomingSequence, delivered>>
    BY <1>6 DEF processFragmentPacket
  <2> HIDE DEF result
  <2>5. /\ incomingSequence' \in 0 .. MaxSequence
        /\ delivered' \in Seq([seq : 1 .. MaxSequence, body : Seq(Cell)])
    BY <1>2, <2>2, <2>4 DEF TypeOK
  <2> QED
    BY <1>3, <2>2, <2>3, <2>5 DEF TypeOK, sendVars, peerVars, Buffer
<1> QED
  BY <1>4, <1>5, <1>6 DEF processIncomingPacket

LEMMA InitType == Init => TypeOK
BY NetchanAssumption, FragmentBufferAssumption DEF Init, TypeOK, DefaultBuffer

LEMMA StepType ==
  ASSUME TypeOK, [Next]_vars
  PROVE  TypeOK'
<1> USE NetchanAssumption, FragmentBufferAssumption
<1> USE DEF TypeOK
<1>1. ASSUME NEW len \in 0 .. MAX_MSGLEN, PeerSend(len) PROVE TypeOK'
  <2>1. [session |-> session, seq |-> serverSequence + 1, len |-> len] \in Message
    BY <1>1 DEF PeerSend, Message
  <2> QED
    BY <1>1, <2>1 DEF PeerSend, receiveVars, sendVars
<1>2. CASE Receive
  BY <1>2, ReceivedPacket, IncomingType
<1>3. ASSUME NEW s \in 0 .. MaxOutgoing, processOutgoingPacket(s) PROVE TypeOK'
  <2>1. s \in Nat /\ s + 1 \in Nat /\ Append(encoded, s) \in Seq(Nat)
    OBVIOUS
  <2>2. outgoingSequence' \in Nat /\ encoded' \in Seq(Nat)
    BY <1>3, <2>1 DEF processOutgoingPacket, sendVars
  <2>3. UNCHANGED <<receiveVars, peerVars>>
    BY <1>3 DEF processOutgoingPacket
  <2> QED
    BY <2>2, <2>3 DEF receiveVars, peerVars
<1>4. CASE setInitialConnectedState
  BY <1>4 DEF setInitialConnectedState, receiveVars, peerVars
<1>5. CASE reset
  <2>1. resetBuffer(fragmentBuffer) \in Buffer
    <3>1. fragmentBuffer \in Buffer /\ << >> \in Seq(Cell)
      BY DEF Buffer
    <3> QED
      BY <3>1, BufferOperationsType
  <2>2. << >> \in Seq([seq : 1 .. MaxSequence, body : Seq(Cell)]) /\ << >> \in Seq(Nat)
    OBVIOUS
  <2> QED
    BY <1>5, <2>1, <2>2 DEF reset, Buffer
<1>6. CASE UNCHANGED vars
  BY <1>6 DEF vars, receiveVars, peerVars, sendVars
<1> QED
  BY <1>1, <1>2, <1>3, <1>4, <1>5, <1>6 DEF Next

\* Every variable keeps its type, for any fragment size, message length and
\* number of messages and sessions.
THEOREM TypeCorrect == Spec => []TypeOK
BY InitType, StepType, PTL DEF Spec

-----------------------------------------------------------------------------
(* The inductive invariant.                                                *)

\* A session's sequence numbers name its messages.
SentInOrder ==
  /\ \A m \in sent : /\ m.session <= session
                     /\ m.session = session => m.seq <= serverSequence
  /\ \A m, n \in sent : m.session = n.session /\ m.seq = n.seq => m = n
  /\ ~StalePackets => \A m \in sent : m.session = session

\* The buffer has its placeholder unless it has never been used.
HeaderWritten ==
  fragmentBuffer.header = SEQUENCE_LEN \/ fragmentBuffer = DefaultBuffer

BufferInPlace == InPlace(fragmentBuffer.body, fragmentBuffer.sequence)

DeliveredBefore ==
  \A i \in 1 .. Len(delivered) : delivered[i].seq <= incomingSequence

EncodedBefore == \A i \in 1 .. Len(encoded) : encoded[i] < outgoingSequence

IInv ==
  /\ SentInOrder
  /\ HeaderWritten
  /\ BufferInPlace
  /\ BytesInPlace
  /\ DeliveredBefore
  /\ EncodedBefore
  /\ EncodedInOrder
  /\ ~StalePackets => CollectedPrefix

-----------------------------------------------------------------------------

\* The bytes a fragment of m is appended to.
Before(fb, m) == IF m.seq = fb.sequence THEN fb.body ELSE << >>

\* What processFragment makes of a fragment of m: it gives up what it has, or
\* it appends the fragment just where it starts; a message it completes is
\* as long as m.
FragmentOutcome(fb, m, start, data, result) ==
  /\ result.buffer.header = SEQUENCE_LEN
  /\ result.buffer.sequence = m.seq
  /\ \/ result.buffer.body = << >>
     \/ /\ start = Len(Before(fb, m))
        /\ start + Len(data) <= m.len
        /\ result.buffer.body = Before(fb, m) \o data
  /\ result.complete =>
        /\ start = Len(Before(fb, m))
        /\ start + Len(data) = m.len
        /\ result.body = Before(fb, m) \o data

LEMMA FragmentEffect ==
  ASSUME NEW fb \in Buffer, fb.header = SEQUENCE_LEN \/ fb = DefaultBuffer,
         NEW m \in Message, NEW start \in FragmentStarts(m),
         NEW data \in Seq(Cell), Len(data) = FragmentLength(m, start)
  PROVE  FragmentOutcome(fb, m, start, data,
                         processFragment(fb, data, Int16(start), m.seq))
<1> USE NetchanAssumption, FragmentBufferAssumption
<1> DEFINE current == TurnTo(fb, m.seq)
           result  == processFragment(fb, data, Int16(start), m.seq)
           isNext  == Int16(start) = effectiveFragmentBufferSize(current)
           isLast  == Len(data) # FRAGMENT_SIZE
<1>1. /\ m.len \in Nat /\ m.len <= MAX_MSGLEN
      /\ m.seq \in 1 .. MaxSequence /\ start \in 0 .. m.len
  BY DEF Message, FragmentStarts
<1>2. /\ current.header = SEQUENCE_LEN
      /\ current.sequence = m.seq
      /\ current.body = Before(fb, m)
  <2>1. CASE m.seq = fb.sequence
    BY <2>1, <1>1 DEF TurnTo, Before, DefaultBuffer, Buffer
  <2>2. CASE m.seq # fb.sequence
    BY <2>2, <1>1 DEF TurnTo, Before, clearFragmentBuffer, Buffer
  <2> QED
    BY <2>1, <2>2
<1>3. current \in Buffer /\ Before(fb, m) \in Seq(Cell)
  <2>1. << >> \in Seq(Cell)
    OBVIOUS
  <2>2. Before(fb, m) \in Seq(Cell)
    BY <2>1 DEF Before, Buffer
  <2> QED
    BY <1>1, <2>2, ProcessFragmentType, 0 \in Int
<1>4. effectiveFragmentBufferSize(current) = Len(Before(fb, m))
  <2> HIDE DEF current
  <2> QED
    BY <1>2, <1>3 DEF effectiveFragmentBufferSize, Size
<1>5. isNext => start = Len(Before(fb, m))
  BY <1>1, <1>3, <1>4 DEF Int16
<1>6. start + Len(data) <= m.len /\ (isLast => start + Len(data) = m.len)
  BY <1>1 DEF FragmentLength
<1>7. /\ appendFragment(current, data).header = SEQUENCE_LEN
      /\ appendFragment(current, data).sequence = m.seq
      /\ appendFragment(current, data).body = Before(fb, m) \o data
  BY <1>2 DEF appendFragment
<1>8. /\ clearFragmentBuffer(current).header = SEQUENCE_LEN
      /\ clearFragmentBuffer(current).sequence = m.seq
      /\ clearFragmentBuffer(current).body = << >>
  BY <1>2, <1>3 DEF clearFragmentBuffer, Buffer
<1>9. /\ result.buffer = IF isNext /\ ~isLast THEN appendFragment(current, data)
                         ELSE clearFragmentBuffer(current)
      /\ result.complete = (isNext /\ isLast)
      /\ result.body = IF isNext /\ isLast THEN appendFragment(current, data).body
                       ELSE << >>
  BY DEF processFragment
<1> HIDE DEF current, result, isNext, isLast
<1>10. /\ result.buffer.header = SEQUENCE_LEN
       /\ result.buffer.sequence = m.seq
  BY <1>7, <1>8, <1>9
<1>11. \/ result.buffer.body = << >>
       \/ /\ start = Len(Before(fb, m))
          /\ start + Len(data) <= m.len
          /\ result.buffer.body = Before(fb, m) \o data
  BY <1>5, <1>6, <1>7, <1>8, <1>9
<1>12. result.complete =>
          /\ start = Len(Before(fb, m))
          /\ start + Len(data) = m.len
          /\ result.body = Before(fb, m) \o data
  BY <1>5, <1>6, <1>7, <1>9
<1> QED
  BY <1>10, <1>11, <1>12 DEF result, FragmentOutcome

\* A stretch of m appended at its own offset keeps every byte in place.
LEMMA JoinInPlace ==
  ASSUME NEW m \in Message, NEW a \in Seq(Cell), NEW n \in Nat,
         Len(a) + n <= m.len, InPlace(a, m.seq)
  PROVE  InPlace(a \o Bytes(m, Len(a), n), m.seq)
<1> DEFINE b == Bytes(m, Len(a), n)
<1>1. /\ b \in Seq(Cell) /\ Len(b) = n
      /\ \A i \in 1 .. n : b[i].seq = m.seq /\ b[i].off = Len(a) + i
  <2>1. \A i \in 1 .. n : b[i] = Byte(m, Len(a) + i)
    BY BytesType
  <2>2. b \in Seq(Cell) /\ Len(b) = n
    BY BytesType
  <2> HIDE DEF b
  <2>3. \A i \in 1 .. n : b[i].seq = m.seq /\ b[i].off = Len(a) + i
    <3>1. \A off : Byte(m, off).seq = m.seq /\ Byte(m, off).off = off
      BY DEF Byte
    <3> QED
      BY <2>1, <3>1
  <2> QED
    BY <2>2, <2>3
<1> HIDE DEF b
<1>2. ASSUME NEW i \in 1 .. Len(a \o b)
      PROVE  (a \o b)[i].seq = m.seq /\ (a \o b)[i].off = i
  <2>1. CASE i <= Len(a)
    BY <2>1, <1>1 DEF InPlace
  <2>2. CASE i > Len(a)
    <3>1. (a \o b)[i] = b[i - Len(a)] /\ i - Len(a) \in 1 .. n
      BY <2>2, <1>1
    <3> QED
      BY <3>1, <1>1
  <2>3. i <= Len(a) \/ i > Len(a)
    BY <1>1
  <2> QED
    BY <2>1, <2>2, <2>3
<1> QED
  BY <1>2 DEF InPlace, b

\* Handing the parser a body whose bytes are in place, if it is handed over
\* at all, keeps what is said of delivered messages.
LEMMA DeliverInv ==
  ASSUME TypeOK, BytesInPlace, DeliveredBefore,
         NEW s \in 1 .. MaxSequence, NEW body \in Seq(Cell), InPlace(body, s),
         processIncomingData(body, s)
  PROVE  BytesInPlace' /\ DeliveredBefore'
<1> USE NetchanAssumption
<1> DEFINE Datagram == [seq : 1 .. MaxSequence, body : Seq(Cell)]
           d == [seq |-> s, body |-> body]
<1>1. CASE UNCHANGED <<incomingSequence, delivered>>
  BY <1>1 DEF BytesInPlace, DeliveredBefore, InPlace
<1>2. CASE /\ ~(s <= incomingSequence)
           /\ incomingSequence' = s
           /\ delivered' = Append(delivered, d)
  <2>1. delivered \in Seq(Datagram) /\ incomingSequence \in 0 .. MaxSequence
    BY DEF TypeOK
  <2>2. d.seq = s /\ d.body = body /\ d \in Datagram
    OBVIOUS
  <2> HIDE DEF Datagram, d
  <2>3. /\ Len(delivered') = Len(delivered) + 1
        /\ \A i \in 1 .. Len(delivered) : delivered'[i] = delivered[i]
        /\ delivered'[Len(delivered) + 1] = d
        /\ Len(delivered) \in Nat
    BY <1>2, <2>1, <2>2
  <2>4. BytesInPlace'
    <3>1. ASSUME NEW i \in 1 .. Len(delivered')
          PROVE  InPlace(delivered'[i].body, delivered'[i].seq)
      <4>1. CASE i = Len(delivered) + 1
        BY <2>2, <2>3, <4>1
      <4>2. CASE i \in 1 .. Len(delivered)
        BY <2>3, <4>2 DEF BytesInPlace
      <4> QED
        BY <2>3, <4>1, <4>2
    <3> QED
      BY <3>1 DEF BytesInPlace, InPlace
  <2>5. ASSUME NEW i \in 1 .. Len(delivered') PROVE delivered'[i].seq <= incomingSequence'
    <3>1. CASE i = Len(delivered) + 1
      BY <1>2, <2>2, <2>3, <3>1
    <3>2. CASE i \in 1 .. Len(delivered)
      <4>1. delivered'[i].seq = delivered[i].seq /\ delivered[i].seq <= incomingSequence
        BY <2>3, <3>2 DEF DeliveredBefore
      <4>2. delivered[i].seq \in 1 .. MaxSequence
        <5>1. delivered[i] \in Datagram
          BY <2>1, <3>2
        <5> QED
          BY <5>1 DEF Datagram
      <4> QED
        BY <1>2, <2>1, <4>1, <4>2
    <3> QED
      BY <2>3, <3>1, <3>2
  <2> QED
    BY <2>4, <2>5 DEF DeliveredBefore
<1> QED
  BY <1>1, <1>2 DEF processIncomingData

\* The bytes of a message are in place in it.
LEMMA PayloadInPlace ==
  ASSUME NEW m \in Message
  PROVE  Payload(m) \in Seq(Cell) /\ Len(Payload(m)) = m.len /\ InPlace(Payload(m), m.seq)
<1>1. m.len \in Nat /\ 0 \in Nat /\ 0 + m.len <= m.len
  BY NetchanAssumption DEF Message
<1>2. /\ Payload(m) \in Seq(Cell) /\ Len(Payload(m)) = m.len
      /\ \A i \in 1 .. m.len : Payload(m)[i] = Byte(m, 0 + i)
  BY <1>1, BytesType DEF Payload
<1>3. \A off : Byte(m, off).seq = m.seq /\ Byte(m, off).off = off
  BY DEF Byte
<1> QED
  BY <1>1, <1>2, <1>3 DEF InPlace

\* If no packet outlives its session, what a fragment of m is appended to is
\* the beginning of m.
LEMMA BeforeIsPrefix ==
  ASSUME TypeOK, SentInOrder, CollectedPrefix, ~StalePackets, NEW m \in sent
  PROVE  Before(fragmentBuffer, m) = Bytes(m, 0, Len(Before(fragmentBuffer, m)))
<1>1. CASE Before(fragmentBuffer, m) = << >>
  <2>1. Bytes(m, 0, 0) = << >>
    BY DEF Bytes
  <2> QED
    BY <1>1, <2>1
<1>2. CASE Before(fragmentBuffer, m) # << >>
  <2>1. m.seq = fragmentBuffer.sequence /\ Before(fragmentBuffer, m) = fragmentBuffer.body
    BY <1>2 DEF Before
  <2>2. PICK k \in sent :
           /\ k.session = session
           /\ k.seq = fragmentBuffer.sequence
           /\ fragmentBuffer.body = Bytes(k, 0, Len(fragmentBuffer.body))
    BY <1>2, <2>1 DEF CollectedPrefix
  <2>3. k = m
    BY <2>1, <2>2 DEF SentInOrder
  <2> QED
    BY <2>1, <2>2, <2>3
<1> QED
  BY <1>1, <1>2

\* A packet of a message sent keeps the invariant.
LEMMA IncomingInv ==
  ASSUME TypeOK, IInv, NEW m \in sent, NEW p, PacketOf(p, m), processIncomingPacket(p)
  PROVE  IInv'
<1> USE NetchanAssumption, FragmentBufferAssumption
<1>1. /\ m \in Message /\ p.seq = m.seq /\ p.seq \in 1 .. MaxSequence
      /\ m.len \in Nat /\ p.data \in Seq(Cell) /\ fragmentBuffer \in Buffer
      /\ fragmentBuffer.body \in Seq(Cell)
  BY DEF TypeOK, PacketOf, Message, Buffer
<1>2. UNCHANGED <<outgoingSequence, encoded, session, serverSequence, sent>>
  BY DEF processIncomingPacket, sendVars, peerVars
<1>3. SentInOrder' /\ EncodedBefore' /\ EncodedInOrder'
  BY <1>2 DEF IInv, SentInOrder, EncodedBefore, EncodedInOrder
<1>4. CASE ~p.fragmented /\ processIncomingData(p.data, p.seq) /\ UNCHANGED fragmentBuffer
  <2>1. InPlace(p.data, p.seq)
    <3>1. InPlace(Payload(m), m.seq)
      BY <1>1, PayloadInPlace
    <3> QED
      BY <1>1, <1>4, <3>1 DEF PacketOf
  <2>2. BytesInPlace' /\ DeliveredBefore'
    BY <1>1, <1>4, <2>1, DeliverInv DEF IInv
  <2> QED
    BY <1>2, <1>3, <1>4, <2>2
    DEF IInv, HeaderWritten, BufferInPlace, InPlace, CollectedPrefix
<1>5. CASE UNCHANGED receiveVars
  BY <1>2, <1>3, <1>5
  DEF IInv, HeaderWritten, BufferInPlace, BytesInPlace, InPlace, DeliveredBefore,
      CollectedPrefix, receiveVars
<1>6. CASE /\ p.fragmented
           /\ Len(p.data) = Int16(p.length)
           /\ processFragmentPacket(p)
  <2> DEFINE n      == FragmentLength(m, p.start)
             before == Before(fragmentBuffer, m)
             result == processFragment(fragmentBuffer, p.data, Int16(p.start), m.seq)
  <2>1. p.start \in FragmentStarts(m) /\ p.data = Bytes(m, p.start, n)
    BY <1>6 DEF PacketOf
  <2>2. p.start \in 0 .. m.len /\ n \in Nat /\ p.start + n <= m.len
    BY <1>1, <2>1 DEF FragmentStarts, FragmentLength
  <2>3. Len(p.data) = n
    BY <1>1, <2>1, <2>2, BytesType
  <2>4. fragmentBuffer.header = SEQUENCE_LEN \/ fragmentBuffer = DefaultBuffer
    BY DEF IInv, HeaderWritten
  <2>5. /\ result.buffer.header = SEQUENCE_LEN
        /\ result.buffer.sequence = m.seq
        /\ \/ result.buffer.body = << >>
           \/ /\ p.start = Len(before)
              /\ p.start + Len(p.data) <= m.len
              /\ result.buffer.body = before \o p.data
        /\ result.complete =>
              /\ p.start = Len(before)
              /\ p.start + Len(p.data) = m.len
              /\ result.body = before \o p.data
    <3>1. /\ fragmentBuffer \in Buffer /\ m \in Message /\ p.data \in Seq(Cell)
          /\ fragmentBuffer.header = SEQUENCE_LEN \/ fragmentBuffer = DefaultBuffer
          /\ p.start \in FragmentStarts(m)
          /\ Len(p.data) = FragmentLength(m, p.start)
      BY <1>1, <2>1, <2>3, <2>4
    <3>2. FragmentOutcome(fragmentBuffer, m, p.start, p.data, result)
      BY <3>1, FragmentEffect
    <3> QED
      BY <3>2 DEF FragmentOutcome
  <2>6. before \in Seq(Cell) /\ InPlace(before, m.seq)
    <3>1. << >> \in Seq(Cell) /\ InPlace(<< >>, m.seq)
      BY DEF InPlace
    <3> QED
      BY <1>1, <3>1 DEF Before, IInv, BufferInPlace
  <2>7. p.start = Len(before) => InPlace(before \o p.data, m.seq)
    BY <1>1, <2>1, <2>2, <2>6, JoinInPlace
  <2>8. /\ fragmentBuffer' = result.buffer
        /\ IF result.complete THEN processIncomingData(result.body, p.seq)
           ELSE UNCHANGED <<incomingSequence, delivered>>
    BY <1>1, <1>6 DEF processFragmentPacket
  <2>9. result.body \in Seq(Cell)
    BY <1>1, <2>2, ProcessFragmentType DEF Int16
  <2> HIDE DEF result, before, n
  <2>10. HeaderWritten'
    BY <2>5, <2>8 DEF HeaderWritten
  <2>11. BufferInPlace'
    <3>1. CASE result.buffer.body = << >>
      BY <2>8, <3>1 DEF BufferInPlace, InPlace
    <3> QED
      BY <2>5, <2>7, <2>8, <3>1 DEF BufferInPlace
  <2>12. BytesInPlace' /\ DeliveredBefore'
    <3>1. CASE result.complete
      BY <1>1, <2>5, <2>7, <2>8, <2>9, <3>1, DeliverInv DEF IInv
    <3>2. CASE ~result.complete
      BY <2>8, <3>2 DEF IInv, BytesInPlace, InPlace, DeliveredBefore
    <3> QED
      BY <3>1, <3>2
  <2>13. ASSUME ~StalePackets PROVE CollectedPrefix'
    <3>1. CASE result.buffer.body = << >>
      BY <2>8, <3>1 DEF CollectedPrefix
    <3>2. CASE /\ p.start = Len(before)
               /\ p.start + Len(p.data) <= m.len
               /\ result.buffer.body = before \o p.data
      <4>1. before = Bytes(m, 0, Len(before)) /\ m.session = session
        BY <2>13, BeforeIsPrefix DEF before, IInv, SentInOrder
      <4>0. Len(before) \in Nat /\ Len(before \o p.data) = Len(before) + Len(p.data)
        BY <1>1, <2>6
      <4>2. result.buffer.body = Bytes(m, 0, Len(before) + n)
        <5>1. p.data = Bytes(m, Len(before), n)
          BY <2>1, <3>2
        <5>2. Bytes(m, 0, Len(before)) \o Bytes(m, Len(before), n) = Bytes(m, 0, Len(before) + n)
          <6>1. m \in Message /\ n \in Nat /\ Len(before) \in Nat /\ Len(before) + n <= m.len
            BY <1>1, <2>2, <2>3, <3>2, <4>0
          <6> HIDE DEF before, n
          <6> QED
            BY <6>1, BytesJoin
        <5> QED
          BY <3>2, <4>1, <5>1, <5>2
      <4>3. Len(result.buffer.body) = Len(before) + n
        BY <2>3, <3>2, <4>0
      <4>4. Len(result.buffer.body) <= m.len
        BY <2>3, <3>2, <4>3
      <4>5. /\ m \in sent' /\ m.session = session' /\ m.seq = fragmentBuffer'.sequence
            /\ Len(fragmentBuffer'.body) <= m.len
            /\ fragmentBuffer'.body = Bytes(m, 0, Len(fragmentBuffer'.body))
        BY <1>2, <2>5, <2>8, <4>1, <4>2, <4>3, <4>4
      <4> QED
        BY <4>5 DEF CollectedPrefix, Bytes
    <3> QED
      BY <2>5, <3>1, <3>2
  <2> QED
    BY <1>3, <2>10, <2>11, <2>12, <2>13 DEF IInv
<1> QED
  BY <1>4, <1>5, <1>6 DEF processIncomingPacket

\* The peer's next message is named by its sequence, and by no other.
LEMMA PeerSendInv ==
  ASSUME TypeOK, IInv, NEW len \in 0 .. MAX_MSGLEN, PeerSend(len)
  PROVE  IInv'
<1> USE NetchanAssumption
<1> DEFINE new == [session |-> session, seq |-> serverSequence + 1, len |-> len]
<1>1. /\ sent' = sent \cup {new} /\ serverSequence' = serverSequence + 1
      /\ UNCHANGED <<session, receiveVars, sendVars>>
  BY DEF PeerSend
<1>2. /\ serverSequence \in Nat /\ session \in Nat
      /\ \A k \in sent : k.session \in Nat /\ k.seq \in Nat
      /\ new.session = session /\ new.seq = serverSequence + 1
  BY DEF TypeOK, Message
<1>3. \A k \in sent : k.session <= session /\ (k.session = session => k.seq <= serverSequence)
  BY DEF IInv, SentInOrder
<1>4. \A k, n \in sent : k.session = n.session /\ k.seq = n.seq => k = n
  BY DEF IInv, SentInOrder
<1>5. ~StalePackets => \A k \in sent : k.session = session
  BY DEF IInv, SentInOrder
<1> HIDE DEF new
<1>6. SentInOrder'
  <2>1. \A k \in sent' : /\ k.session <= session'
                         /\ k.session = session' => k.seq <= serverSequence'
    BY <1>1, <1>2, <1>3
  <2>2. \A k, n \in sent' : k.session = n.session /\ k.seq = n.seq => k = n
    <3>1. \A k \in sent : ~(k.session = new.session /\ k.seq = new.seq)
      BY <1>2, <1>3
    <3> QED
      BY <1>1, <1>4, <3>1
  <2>3. ~StalePackets => \A k \in sent' : k.session = session'
    BY <1>1, <1>2, <1>5
  <2> QED
    BY <2>1, <2>2, <2>3 DEF SentInOrder
<1>7. CollectedPrefix => CollectedPrefix'
  BY <1>1 DEF CollectedPrefix, receiveVars, Bytes, Byte
<1> QED
  BY <1>1, <1>6, <1>7
  DEF IInv, HeaderWritten, BufferInPlace, BytesInPlace, InPlace, DeliveredBefore,
      EncodedBefore, EncodedInOrder, receiveVars, sendVars

\* Encoding a packet takes its sequence and all before it out of use.
LEMMA OutgoingInv ==
  ASSUME TypeOK, IInv, NEW s \in 0 .. MaxOutgoing, processOutgoingPacket(s)
  PROVE  IInv'
<1> USE NetchanAssumption
<1>1. UNCHANGED <<receiveVars, peerVars>>
  BY DEF processOutgoingPacket
<1>2. /\ encoded \in Seq(Nat) /\ outgoingSequence \in Nat
      /\ \A i \in 1 .. Len(encoded) : encoded[i] < outgoingSequence
      /\ \A i, j \in 1 .. Len(encoded) : i < j => encoded[i] < encoded[j]
  BY DEF TypeOK, IInv, EncodedBefore, EncodedInOrder
<1>3. EncodedBefore' /\ EncodedInOrder'
  <2>1. CASE UNCHANGED sendVars
    BY <1>2, <2>1 DEF sendVars, EncodedBefore, EncodedInOrder
  <2>2. CASE /\ ~(s < outgoingSequence)
             /\ encoded' = Append(encoded, s)
             /\ outgoingSequence' = s + 1
    <3>1. /\ Len(encoded') = Len(encoded) + 1 /\ Len(encoded) \in Nat
          /\ \A i \in 1 .. Len(encoded) : encoded'[i] = encoded[i]
          /\ encoded'[Len(encoded) + 1] = s
      BY <1>2, <2>2
    <3>2. \A i \in 1 .. Len(encoded) : encoded[i] \in Nat /\ encoded[i] < s
      BY <1>2, <2>2
    <3> QED
      BY <1>2, <2>2, <3>1, <3>2 DEF EncodedBefore, EncodedInOrder
  <2> QED
    BY <2>1, <2>2 DEF processOutgoingPacket
<1> QED
  BY <1>1, <1>3
  DEF IInv, SentInOrder, HeaderWritten, BufferInPlace, BytesInPlace, InPlace,
      DeliveredBefore, CollectedPrefix, receiveVars, peerVars

\* A new session starts with an empty buffer, empty histories and no message.
LEMMA ResetInv ==
  ASSUME TypeOK, IInv, reset
  PROVE  IInv'
<1> USE NetchanAssumption
<1>1. /\ fragmentBuffer'.header = SEQUENCE_LEN /\ fragmentBuffer'.body = << >>
  BY DEF reset, resetBuffer, clearFragmentBuffer, TypeOK
<1>2. /\ session' = session + 1 /\ serverSequence' = 0 /\ delivered' = << >>
      /\ encoded' = << >> /\ sent' = IF StalePackets THEN sent ELSE {}
  BY DEF reset
<1>3. SentInOrder'
  <2>1. session \in Nat /\ \A m \in sent : m.session \in Nat
    BY DEF TypeOK, Message
  <2> QED
    BY <1>2, <2>1 DEF SentInOrder, IInv
<1> QED
  BY <1>1, <1>2, <1>3
  DEF IInv, HeaderWritten, BufferInPlace, BytesInPlace, InPlace, DeliveredBefore,
      EncodedBefore, EncodedInOrder, CollectedPrefix

LEMMA InitIInv == Init => IInv
BY DEF Init, IInv, SentInOrder, HeaderWritten, BufferInPlace, BytesInPlace, InPlace,
       DeliveredBefore, EncodedBefore, EncodedInOrder, CollectedPrefix, DefaultBuffer

LEMMA StepIInv ==
  ASSUME TypeOK, IInv, [Next]_vars
  PROVE  IInv'
<1>1. ASSUME NEW len \in 0 .. MAX_MSGLEN, PeerSend(len) PROVE IInv'
  BY <1>1, PeerSendInv
<1>2. CASE Receive
  BY <1>2, ReceivedPacket, IncomingInv
<1>3. ASSUME NEW s \in 0 .. MaxOutgoing, processOutgoingPacket(s) PROVE IInv'
  BY <1>3, OutgoingInv
<1>4. CASE setInitialConnectedState
  BY <1>4
  DEF setInitialConnectedState, IInv, SentInOrder, HeaderWritten, BufferInPlace,
      BytesInPlace, InPlace, DeliveredBefore, EncodedBefore, EncodedInOrder,
      CollectedPrefix, receiveVars, peerVars
<1>5. CASE reset
  BY <1>5, ResetInv
<1>6. CASE UNCHANGED vars
  BY <1>6
  DEF IInv, SentInOrder, HeaderWritten, BufferInPlace, BytesInPlace, InPlace,
      DeliveredBefore, EncodedBefore, EncodedInOrder, CollectedPrefix,
      vars, receiveVars, peerVars, sendVars
<1> QED
  BY <1>1, <1>2, <1>3, <1>4, <1>5, <1>6 DEF Next

\* The conjunction of the properties and what makes them inductive holds.
THEOREM InductiveInvariant == Spec => []IInv
BY InitIInv, StepIInv, TypeCorrect, PTL DEF Spec

-----------------------------------------------------------------------------
(* What it implies.                                                        *)

\* No delivered message has a byte of another one or one at a wrong offset,
\* whatever the network does and however often the session is restarted.
THEOREM NothingIsSpliced == Spec => []BytesInPlace
<1>1. IInv => BytesInPlace
  BY DEF IInv
<1> QED
  BY <1>1, InductiveInvariant, PTL

\* No sequence number is encoded twice or out of order in a session.
THEOREM NothingIsEncodedTwice == Spec => []EncodedInOrder
<1>1. IInv => EncodedInOrder
  BY DEF IInv
<1> QED
  BY <1>1, InductiveInvariant, PTL

\* The assertion of FragmentBuffer.h line 92 never fails.
THEOREM AssertionHolds == Spec => []HeaderIsPresent
<1>1. TypeOK /\ IInv => HeaderIsPresent
  <2> SUFFICES ASSUME TypeOK, IInv, NEW m \in sent
               PROVE  FragmentSequenceCanBeSet(TurnTo(fragmentBuffer, m.seq))
    BY DEF HeaderIsPresent
  <2> DEFINE current == TurnTo(fragmentBuffer, m.seq)
  <2>1. m.seq # 0 /\ fragmentBuffer \in Buffer /\ m.seq \in 1 .. MaxSequence
    BY NetchanAssumption DEF TypeOK, Message, Buffer
  <2>2. current.header = SEQUENCE_LEN
    BY <2>1 DEF TurnTo, clearFragmentBuffer, IInv, HeaderWritten, DefaultBuffer, Buffer
  <2>3. current \in Buffer
    <3>1. << >> \in Seq(Cell) /\ 0 \in Int
      OBVIOUS
    <3> QED
      BY <2>1, <3>1, ProcessFragmentType
  <2> HIDE DEF current
  <2>4. Size(current) >= SEQUENCE_LEN
    BY <2>2, <2>3, FragmentBufferAssumption DEF Size, Buffer
  <2> QED
    BY <2>4 DEF FragmentSequenceCanBeSet, current
<1> QED
  BY <1>1, TypeCorrect, InductiveInvariant, PTL

\* A reconnect in mid-message leaves nothing behind.
THEOREM NothingIsLeftBehind ==
  ASSUME ~StalePackets
  PROVE  Spec => []CollectedPrefix
<1>1. IInv => CollectedPrefix
  BY DEF IInv
<1> QED
  BY <1>1, InductiveInvariant, PTL

-----------------------------------------------------------------------------
(* Netchan implements DatagramChannel.                                     *)

\* Processing a packet of m either leaves the parser alone or hands it the
\* whole of m, which is later than all it was handed before.
LEMMA IncomingDelivers ==
  ASSUME ~StalePackets, TypeOK, IInv,
         NEW m \in sent, NEW p, PacketOf(p, m), processIncomingPacket(p)
  PROVE  Channel!Deliver(m) \/ UNCHANGED <<session, sent, delivered>>
<1> USE NetchanAssumption
<1>1. /\ m \in Message /\ p.seq = m.seq /\ m.seq \in 1 .. MaxSequence
      /\ m.len \in Nat /\ p.data \in Seq(Cell) /\ fragmentBuffer \in Buffer
      /\ fragmentBuffer.body \in Seq(Cell) /\ incomingSequence \in Nat
  BY DEF TypeOK, PacketOf, Message, Buffer
<1>2. UNCHANGED <<session, sent>>
  BY DEF processIncomingPacket, peerVars
<1>3. m.session = session
  BY DEF IInv, SentInOrder
<1>4. ASSUME processIncomingData(Payload(m), m.seq)
      PROVE  Channel!Deliver(m) \/ UNCHANGED <<session, sent, delivered>>
  <2>1. CASE m.seq <= incomingSequence
    BY <1>2, <1>4, <2>1 DEF processIncomingData
  <2>2. CASE ~(m.seq <= incomingSequence)
    <3>1. \A i \in 1 .. Len(delivered) : delivered[i].seq < m.seq
      <4> SUFFICES ASSUME NEW i \in 1 .. Len(delivered) PROVE delivered[i].seq < m.seq
        OBVIOUS
      <4>1. delivered[i].seq <= incomingSequence
        BY DEF IInv, DeliveredBefore
      <4>2. delivered[i].seq \in 1 .. MaxSequence
        <5> DEFINE Datagram == [seq : 1 .. MaxSequence, body : Seq(Cell)]
        <5>1. delivered \in Seq(Datagram)
          BY DEF TypeOK
        <5>2. delivered[i] \in Datagram
          <6> HIDE DEF Datagram
          <6> QED
            BY <5>1
        <5> QED
          BY <5>2
      <4> QED
        BY <1>1, <2>2, <4>1, <4>2
    <3>2. delivered' = Append(delivered, [seq |-> m.seq, body |-> Payload(m)])
      BY <1>4, <2>2 DEF processIncomingData
    <3> QED
      BY <1>2, <1>3, <3>1, <3>2 DEF Channel!Deliver
  <2> QED
    BY <2>1, <2>2
<1>5. CASE ~p.fragmented /\ processIncomingData(p.data, p.seq)
  <2>1. p.data = Payload(m)
    BY <1>5 DEF PacketOf
  <2> QED
    BY <1>1, <1>4, <1>5, <2>1
<1>6. CASE UNCHANGED receiveVars
  BY <1>2, <1>6 DEF receiveVars
<1>7. CASE /\ p.fragmented
           /\ Len(p.data) = Int16(p.length)
           /\ processFragmentPacket(p)
  <2> DEFINE n      == FragmentLength(m, p.start)
             before == Before(fragmentBuffer, m)
             result == processFragment(fragmentBuffer, p.data, Int16(p.start), m.seq)
  <2>1. p.start \in FragmentStarts(m) /\ p.data = Bytes(m, p.start, n)
    BY <1>7 DEF PacketOf
  <2>2. p.start \in 0 .. m.len /\ n \in Nat /\ p.start + n <= m.len
    BY <1>1, <2>1, FragmentBufferAssumption DEF FragmentStarts, FragmentLength
  <2>3. Len(p.data) = n
    BY <1>1, <2>1, <2>2, BytesType
  <2>4. FragmentOutcome(fragmentBuffer, m, p.start, p.data, result)
    <3>1. fragmentBuffer.header = SEQUENCE_LEN \/ fragmentBuffer = DefaultBuffer
      BY DEF IInv, HeaderWritten
    <3> QED
      BY <1>1, <2>1, <2>3, <3>1, FragmentEffect
  <2>5. IF result.complete THEN processIncomingData(result.body, m.seq)
        ELSE UNCHANGED <<incomingSequence, delivered>>
    BY <1>1, <1>7 DEF processFragmentPacket
  <2> HIDE DEF result
  <2>6. CASE result.complete
    <3>1. /\ p.start = Len(before) /\ p.start + n = m.len
          /\ result.body = before \o p.data
      BY <2>3, <2>4, <2>6 DEF FragmentOutcome
    <3>2. before = Bytes(m, 0, Len(before))
      BY BeforeIsPrefix DEF IInv
    <3> HIDE DEF n, before
    <3>0. Len(before) \in Nat /\ Len(before) + n <= m.len
      BY <1>1, <2>2, <3>1
    <3>3. Bytes(m, 0, Len(before)) \o Bytes(m, Len(before), n) = Bytes(m, 0, Len(before) + n)
      BY <1>1, <2>2, <3>0, BytesJoin
    <3>4. p.data = Bytes(m, Len(before), n) /\ Len(before) + n = m.len
      BY <2>1, <3>1
    <3>5. result.body = Payload(m)
      BY <3>1, <3>2, <3>3, <3>4 DEF Payload
    <3> QED
      BY <1>4, <2>5, <2>6, <3>5
  <2>7. CASE ~result.complete
    BY <1>2, <2>5, <2>7
  <2> QED
    BY <2>6, <2>7
<1> QED
  BY <1>5, <1>6, <1>7 DEF processIncomingPacket

\* If no packet outlives its session, the parser is handed whole messages,
\* each at most once and in the order they were sent.
THEOREM ImplementsDatagramChannel ==
  ASSUME ~StalePackets
  PROVE  Spec => DeliversDatagrams
<1> USE NetchanAssumption
<1>1. Init => Channel!Init
  BY DEF Init, Channel!Init
<1>2. TypeOK /\ IInv /\ [Next]_vars => [Channel!Next]_(Channel!vars)
  <2> SUFFICES ASSUME TypeOK, IInv, [Next]_vars
               PROVE  Channel!Next \/ UNCHANGED <<session, sent, delivered>>
    BY DEF Channel!vars
  <2>1. ASSUME NEW len \in 0 .. MAX_MSGLEN, PeerSend(len) PROVE Channel!Next
    <3> DEFINE new == [session |-> session, seq |-> serverSequence + 1, len |-> len]
    <3>1. new \in Message /\ new.session = session /\ new.seq = serverSequence + 1
      BY <2>1 DEF PeerSend, Message, TypeOK
    <3>2. \A n \in sent : n.seq < serverSequence + 1
      <4> SUFFICES ASSUME NEW n \in sent PROVE n.seq < serverSequence + 1
        OBVIOUS
      <4>1. n.seq <= serverSequence
        BY DEF IInv, SentInOrder
      <4>2. n.seq \in Nat /\ serverSequence \in Nat
        BY DEF TypeOK, Message
      <4> QED
        BY <4>1, <4>2
    <3>3. sent' = sent \cup {new} /\ UNCHANGED <<session, delivered>>
      BY <2>1 DEF PeerSend, receiveVars
    <3> HIDE DEF new
    <3>4. Channel!Send(new)
      BY <3>1, <3>2, <3>3 DEF Channel!Send
    <3> QED
      BY <3>1, <3>4 DEF Channel!Next
  <2>2. CASE Receive
    <3>1. PICK m \in sent : \E p : PacketOf(p, m) /\ processIncomingPacket(p)
      BY <2>2, ReceivedPacket
    <3>2. Channel!Deliver(m) \/ UNCHANGED <<session, sent, delivered>>
      BY <3>1, IncomingDelivers
    <3> QED
      BY <3>2 DEF Channel!Next
  <2>3. ASSUME NEW s \in 0 .. MaxOutgoing, processOutgoingPacket(s)
        PROVE  UNCHANGED <<session, sent, delivered>>
    BY <2>3 DEF processOutgoingPacket, receiveVars, peerVars
  <2>4. CASE setInitialConnectedState
    BY <2>4 DEF setInitialConnectedState, receiveVars, peerVars
  <2>5. CASE reset
    BY <2>5 DEF reset, Channel!Next, Channel!NewSession
  <2>6. CASE UNCHANGED vars
    BY <2>6 DEF vars, receiveVars, peerVars
  <2> QED
    BY <2>1, <2>2, <2>3, <2>4, <2>5, <2>6 DEF Next
<1> QED
  BY <1>1, <1>2, TypeCorrect, InductiveInvariant, PTL
  DEF Spec, DeliversDatagrams, Channel!Spec

-----------------------------------------------------------------------------
(***************************************************************************)
(* Theorems about NetchanStream: over a network that loses and reorders    *)
(* nothing, Netchan gives up exactly the messages whose fragments start    *)
(* beyond what its int16_t holds.                                          *)
(***************************************************************************)


\* The start of every fragment of the message is one an int16_t can hold.
Fits(m) == m.len < FRAGMENT_SIZE \/ \A start \in FragmentStarts(m) : start <= SHORT_MAX

Delivered(m) ==
  \E i \in 1 .. Len(delivered) : delivered[i] = [seq |-> m.seq, body |-> Payload(m)]

-----------------------------------------------------------------------------
(* The inductive invariant, next to Netchan's own.                         *)

\* Sequences count the messages of the one session there is.
EveryMessageSent ==
  /\ session = 0
  /\ \A m \in sent : m.session = 0 /\ m.seq <= serverSequence
  /\ \A s \in 1 .. serverSequence : \E m \in sent : m.seq = s

IsPacket(p, m) ==
  /\ p.start \in FragmentStarts(m)
  /\ IF m.len < FRAGMENT_SIZE THEN p = WholePacket(m) ELSE p = Fragment(m, p.start)

\* The message and the offset that come at place i of the wire; beyond its end,
\* the beginning of the next message.
SeqAt(i)   == IF i \in 1 .. Len(wire) THEN wire[i].seq ELSE serverSequence + 1
StartAt(i) == IF i \in 1 .. Len(wire) THEN wire[i].start ELSE 0

\* After a packet of m comes m's next one, and after the last of m's the first
\* of the next message.
NextIs(m, start, nextSeq, nextStart) ==
  IF m.len - start < FRAGMENT_SIZE
  THEN nextSeq = m.seq + 1 /\ nextStart = 0
  ELSE nextSeq = m.seq /\ nextStart = start + FRAGMENT_SIZE

Packet == [seq : 1 .. MaxSequence, fragmented : BOOLEAN, start : 0 .. MAX_MSGLEN,
           length : 0 .. MAX_MSGLEN, data : Seq(Cell)]

WireInOrder ==
  /\ wire \in Seq(Packet)
  /\ \A i \in 1 .. Len(wire) : \E m \in sent :
       IsPacket(wire[i], m) /\ NextIs(m, wire[i].start, SeqAt(i + 1), StartAt(i + 1))

\* The receiver, about to be given the packet that starts at byte start of
\* message seq: it has delivered all messages before that fit, and has the bytes
\* before of this one, unless that start is too large already.
Receiver(seq, start) ==
  /\ incomingSequence < seq
  /\ \A m \in sent : m.seq < seq /\ Fits(m) => Delivered(m)
  /\ fragmentBuffer.sequence <= seq
  /\ start = 0 => fragmentBuffer.sequence < seq
  /\ 0 < start /\ start <= SHORT_MAX =>
       /\ fragmentBuffer.sequence = seq
       /\ \E m \in sent : m.seq = seq /\ fragmentBuffer.body = Bytes(m, 0, start)

OnlyFittingDelivered ==
  \A i \in 1 .. Len(delivered) : \E m \in sent : m.seq = delivered[i].seq /\ Fits(m)

StreamInv ==
  /\ EveryMessageSent
  /\ WireInOrder
  /\ Receiver(SeqAt(1), StartAt(1))
  /\ OnlyFittingDelivered

-----------------------------------------------------------------------------
(* The packets of a message.                                               *)

\* A message is typed.
LEMMA MessageFields ==
  ASSUME NEW m \in Message
  PROVE  m.seq \in 1 .. MaxSequence /\ m.len \in 0 .. MAX_MSGLEN /\ m.len \in Nat /\ m.seq \in Nat
BY NetchanAssumption DEF Message

\* The fragment that is shorter than FRAGMENT_SIZE starts later than the others.
LEMMA LastStart ==
  ASSUME NEW m \in Message, NEW start \in FragmentStarts(m), m.len - start < FRAGMENT_SIZE,
         NEW other \in FragmentStarts(m)
  PROVE  other <= start
<1> USE FragmentBufferAssumption
<1>1. start \in 0 .. m.len /\ other \in 0 .. m.len /\ m.len \in Nat
      /\ start % FRAGMENT_SIZE = 0 /\ other % FRAGMENT_SIZE = 0
  BY MessageFields DEF FragmentStarts
<1> SUFFICES ASSUME other > start PROVE FALSE
  BY <1>1
<1>2. start \in Nat /\ other \in Nat /\ start < other /\ other < start + FRAGMENT_SIZE
  BY <1>1
<1>3. start % FRAGMENT_SIZE # other % FRAGMENT_SIZE
  BY <1>2, ModNear
<1> QED
  BY <1>1, <1>3

\* A fragment that is not the last is followed by another.
LEMMA NextStart ==
  ASSUME NEW m \in Message, NEW start \in FragmentStarts(m), ~(m.len - start < FRAGMENT_SIZE)
  PROVE  start + FRAGMENT_SIZE \in FragmentStarts(m)
<1> USE FragmentBufferAssumption
<1>1. start \in 0 .. m.len /\ m.len \in Nat /\ start % FRAGMENT_SIZE = 0 /\ start \in Nat
  BY MessageFields DEF FragmentStarts
<1>2. (start + FRAGMENT_SIZE) % FRAGMENT_SIZE = 0
  <2> DEFINE q == start \div FRAGMENT_SIZE
  <2>1. start = FRAGMENT_SIZE * q /\ q \in Nat
    BY <1>1
  <2> HIDE DEF q
  <2>2. (FRAGMENT_SIZE * (q + 1)) % FRAGMENT_SIZE = 0
    BY <2>1
  <2>3. FRAGMENT_SIZE * (q + 1) = start + FRAGMENT_SIZE
    BY <2>1
  <2> QED
    BY <2>2, <2>3
<1> QED
  BY <1>1, <1>2 DEF FragmentStarts

\* processFragment, given the fragment it waits for and any other.
LEMMA FragmentTaken ==
  ASSUME NEW fb \in Buffer, fb.header = SEQUENCE_LEN \/ fb = DefaultBuffer,
         NEW m \in Message, NEW start \in FragmentStarts(m),
         NEW data \in Seq(Cell), Len(data) = FragmentLength(m, start)
  PROVE  LET result == processFragment(fb, data, Int16(start), m.seq)
             isNext == start <= SHORT_MAX /\ start = Len(Before(fb, m))
             isLast == m.len - start < FRAGMENT_SIZE
         IN /\ result.buffer.sequence = m.seq
            /\ result.complete = (isNext /\ isLast)
            /\ isNext /\ isLast => result.body = Before(fb, m) \o data
            /\ isNext /\ ~isLast => result.buffer.body = Before(fb, m) \o data
<1> USE NetchanAssumption, FragmentBufferAssumption
<1> DEFINE current == TurnTo(fb, m.seq)
           result  == processFragment(fb, data, Int16(start), m.seq)
           isNext  == Int16(start) = effectiveFragmentBufferSize(current)
           isLast  == Len(data) # FRAGMENT_SIZE
<1>1. /\ m.len \in Nat /\ m.len <= MAX_MSGLEN
      /\ m.seq \in 1 .. MaxSequence /\ start \in 0 .. m.len
  BY DEF Message, FragmentStarts
<1>2. /\ current.header = SEQUENCE_LEN
      /\ current.sequence = m.seq
      /\ current.body = Before(fb, m)
  <2>1. CASE m.seq = fb.sequence
    BY <2>1, <1>1 DEF TurnTo, Before, DefaultBuffer, Buffer
  <2>2. CASE m.seq # fb.sequence
    BY <2>2, <1>1 DEF TurnTo, Before, clearFragmentBuffer, Buffer
  <2> QED
    BY <2>1, <2>2
<1>3. current \in Buffer /\ Before(fb, m) \in Seq(Cell)
  <2>1. << >> \in Seq(Cell)
    OBVIOUS
  <2>2. Before(fb, m) \in Seq(Cell)
    BY <2>1 DEF Before, Buffer
  <2> QED
    BY <1>1, <2>2, ProcessFragmentType, 0 \in Int
<1>4. effectiveFragmentBufferSize(current) = Len(Before(fb, m))
  <2> HIDE DEF current
  <2> QED
    BY <1>2, <1>3 DEF effectiveFragmentBufferSize, Size
<1>5. isNext <=> start <= SHORT_MAX /\ start = Len(Before(fb, m))
  <2>1. start <= SHORT_MAX => Int16(start) = start
    BY DEF Int16
  <2>2. start > SHORT_MAX => Int16(start) < 0
    BY <1>1 DEF Int16
  <2>3. Len(Before(fb, m)) \in Nat
    BY <1>3
  <2> QED
    BY <1>1, <1>4, <2>1, <2>2, <2>3
<1>6. isLast <=> m.len - start < FRAGMENT_SIZE
  BY <1>1 DEF FragmentLength
<1>7. appendFragment(current, data).sequence = m.seq
      /\ appendFragment(current, data).body = Before(fb, m) \o data
  BY <1>2 DEF appendFragment
<1>8. clearFragmentBuffer(current).sequence = m.seq
  BY <1>2, <1>3 DEF clearFragmentBuffer, Buffer
<1>9. /\ result.buffer = IF isNext /\ ~isLast THEN appendFragment(current, data)
                         ELSE clearFragmentBuffer(current)
      /\ result.complete = (isNext /\ isLast)
      /\ result.body = IF isNext /\ isLast THEN appendFragment(current, data).body
                       ELSE << >>
  BY DEF processFragment
<1> HIDE DEF current, result, isNext, isLast
<1>10. result.buffer.sequence = m.seq
  BY <1>7, <1>8, <1>9
<1> QED
  BY <1>5, <1>6, <1>7, <1>9, <1>10 DEF result

-----------------------------------------------------------------------------
(* The receiver.                                                           *)

\* A message that fits has only fragments whose length an int16_t can hold.
LEMMA FittingLength ==
  ASSUME NEW m \in Message, ~(m.len < FRAGMENT_SIZE), Fits(m), NEW start \in FragmentStarts(m)
  PROVE  Int16(FragmentLength(m, start)) = FragmentLength(m, start) /\ start <= SHORT_MAX
<1> USE FragmentBufferAssumption, NetchanAssumption
<1>1. m.len \in Nat /\ start \in 0 .. m.len
  BY MessageFields DEF FragmentStarts
<1>2. FRAGMENT_SIZE \in FragmentStarts(m)
  <2>1. FRAGMENT_SIZE % FRAGMENT_SIZE = 0
    OBVIOUS
  <2> QED
    BY <1>1, <2>1 DEF FragmentStarts
<1>3. FRAGMENT_SIZE <= SHORT_MAX /\ start <= SHORT_MAX
  BY <1>2 DEF Fits
<1> QED
  BY <1>1, <1>3 DEF FragmentLength, Int16

\* What a packet that is received is, and does.
LEMMA PacketReceived ==
  ASSUME TypeOK, NEW m \in sent, NEW p, IsPacket(p, m), processIncomingPacket(p)
  PROVE  Receive
<1>1. m.len \in Nat /\ FRAGMENT_SIZE \in Nat
  BY MessageFields, FragmentBufferAssumption DEF TypeOK
<1>2. CASE m.len < FRAGMENT_SIZE
  BY <1>2 DEF IsPacket, Receive, ReceiveWhole
<1>3. CASE ~(m.len < FRAGMENT_SIZE)
  <2>1. p.start \in FragmentStarts(m) /\ p = Fragment(m, p.start)
    BY <1>3 DEF IsPacket
  <2>2. ReceiveFragment(m, p.start)
    BY <1>1, <1>3, <2>1 DEF ReceiveFragment
  <2> QED
    BY <2>1, <2>2 DEF Receive
<1> QED
  BY <1>2, <1>3

\* Handing over a later message adds it to those delivered.
LEMMA DataDelivered ==
  ASSUME TypeOK, NEW s \in 1 .. MaxSequence, NEW body \in Seq(Cell), incomingSequence < s,
         processIncomingData(body, s)
  PROVE  /\ incomingSequence' = s
         /\ \A i \in 1 .. Len(delivered) :
              i \in 1 .. Len(delivered') /\ delivered'[i] = delivered[i]
         /\ \E i \in 1 .. Len(delivered') : delivered'[i] = [seq |-> s, body |-> body]
         /\ \A i \in 1 .. Len(delivered') :
              delivered'[i].seq = s \/ (i \in 1 .. Len(delivered) /\ delivered'[i] = delivered[i])
<1> DEFINE Datagram == [seq : 1 .. MaxSequence, body : Seq(Cell)]
           d == [seq |-> s, body |-> body]
<1>1. delivered \in Seq(Datagram) /\ incomingSequence \in Nat /\ d \in Datagram /\ d.seq = s
  BY DEF TypeOK
<1>2. incomingSequence' = s /\ delivered' = Append(delivered, d)
  BY <1>1 DEF processIncomingData
<1> HIDE DEF Datagram, d
<1>3. /\ Len(delivered') = Len(delivered) + 1 /\ Len(delivered) \in Nat
      /\ \A i \in 1 .. Len(delivered) : delivered'[i] = delivered[i]
      /\ delivered'[Len(delivered) + 1] = d
  BY <1>1, <1>2
<1>4. \A i \in 1 .. Len(delivered') : i = Len(delivered) + 1 \/ i \in 1 .. Len(delivered)
  BY <1>3
<1>5. Len(delivered) + 1 \in 1 .. Len(delivered')
  BY <1>3
<1>6. \A i \in 1 .. Len(delivered) : i \in 1 .. Len(delivered')
  BY <1>3
<1> QED
  BY <1>1, <1>2, <1>3, <1>4, <1>5, <1>6 DEF d

\* The receiver after a packet: what it had delivered it still has.
Keeps == \A m : Delivered(m) => Delivered(m)'

LEMMA NothingDelivered ==
  ASSUME delivered' = delivered
  PROVE  Keeps /\ (OnlyFittingDelivered /\ sent' = sent => OnlyFittingDelivered')
BY DEF Keeps, Delivered, OnlyFittingDelivered, Fits, FragmentStarts

LEMMA MessageDelivered ==
  ASSUME TypeOK, OnlyFittingDelivered, NEW m \in sent, Fits(m), sent' = sent,
         incomingSequence < m.seq, processIncomingData(Payload(m), m.seq)
  PROVE  incomingSequence' = m.seq /\ Keeps /\ Delivered(m)' /\ OnlyFittingDelivered'
<1>1. m \in Message /\ m.seq \in 1 .. MaxSequence /\ Payload(m) \in Seq(Cell)
  BY MessageFields, PayloadInPlace DEF TypeOK
<1> DEFINE d == [seq |-> m.seq, body |-> Payload(m)]
<1>2. /\ incomingSequence' = m.seq
      /\ \A i \in 1 .. Len(delivered) :
           i \in 1 .. Len(delivered') /\ delivered'[i] = delivered[i]
      /\ \E i \in 1 .. Len(delivered') : delivered'[i] = d
      /\ \A i \in 1 .. Len(delivered') :
           delivered'[i].seq = m.seq \/ (i \in 1 .. Len(delivered) /\ delivered'[i] = delivered[i])
  BY <1>1, DataDelivered
<1> HIDE DEF d
<1>3. Keeps
  BY <1>2 DEF Keeps, Delivered
<1>4. Delivered(m)'
  BY <1>2 DEF Delivered, d
<1>5. OnlyFittingDelivered'
  BY <1>2 DEF OnlyFittingDelivered
<1> QED
  BY <1>2, <1>3, <1>4, <1>5

\* With the last packet of m the receiver comes to the beginning of the next.
LEMMA MessageDone ==
  ASSUME TypeOK, IInv, EveryMessageSent, NEW m \in sent, NEW start, Receiver(m.seq, start),
         sent' = sent, Keeps, Fits(m) => Delivered(m)',
         incomingSequence' = incomingSequence \/ incomingSequence' = m.seq,
         fragmentBuffer'.sequence \in Nat, fragmentBuffer'.sequence <= m.seq
  PROVE  Receiver(m.seq + 1, 0)'
<1>1. \A n \in sent : n.seq \in Nat
  BY MessageFields DEF TypeOK
<1>2. incomingSequence \in Nat
  BY DEF TypeOK
<1>3. incomingSequence' < m.seq + 1
  BY <1>1, <1>2 DEF Receiver
<1>4. \A n \in sent : n.seq < m.seq + 1 /\ Fits(n) => Delivered(n)'
  <2> SUFFICES ASSUME NEW n \in sent, n.seq < m.seq + 1, Fits(n) PROVE Delivered(n)'
    OBVIOUS
  <2>1. CASE n.seq < m.seq
    BY <2>1 DEF Receiver, Keeps
  <2>2. CASE n.seq = m.seq
    <3>1. n = m
      BY <2>2 DEF IInv, SentInOrder, EveryMessageSent
    <3> QED
      BY <3>1
  <2> QED
    BY <1>1, <2>1, <2>2
<1>5. fragmentBuffer'.sequence < m.seq + 1 /\ fragmentBuffer'.sequence <= m.seq + 1
  BY <1>1
<1>6. ~(0 < 0)
  OBVIOUS
<1> QED
  BY <1>3, <1>4, <1>5, <1>6 DEF Receiver

\* What a packet of m in its turn does.
LEMMA ReceiverStep ==
  ASSUME TypeOK, IInv, EveryMessageSent, OnlyFittingDelivered,
         NEW m \in sent, NEW p, IsPacket(p, m), Receiver(m.seq, p.start),
         processIncomingPacket(p), NEW nextSeq, NEW nextStart,
         NextIs(m, p.start, nextSeq, nextStart)
  PROVE  Receiver(nextSeq, nextStart)' /\ OnlyFittingDelivered'
<1> USE NetchanAssumption, FragmentBufferAssumption
<1>1. /\ m \in Message /\ m.seq \in 1 .. MaxSequence /\ m.len \in Nat
      /\ p.start \in FragmentStarts(m) /\ p.start \in 0 .. m.len
      /\ fragmentBuffer \in Buffer /\ fragmentBuffer.sequence \in Nat
      /\ incomingSequence < m.seq /\ fragmentBuffer.sequence <= m.seq
      /\ sent' = sent
  BY MessageFields DEF TypeOK, IsPacket, FragmentStarts, Buffer, Receiver,
     processIncomingPacket, peerVars
<1>2. CASE m.len < FRAGMENT_SIZE
  <2>1. p = WholePacket(m) /\ Fits(m)
    BY <1>2 DEF IsPacket, Fits
  <2>2. ~p.fragmented /\ p.seq = m.seq /\ p.data = Payload(m)
    BY <2>1 DEF WholePacket
  <2>3. processIncomingData(Payload(m), m.seq) /\ fragmentBuffer' = fragmentBuffer
    BY <2>2 DEF processIncomingPacket
  <2>4. incomingSequence' = m.seq /\ Keeps /\ Delivered(m)' /\ OnlyFittingDelivered'
    BY <1>1, <2>1, <2>3, MessageDelivered
  <2>5. Receiver(m.seq + 1, 0)'
    BY <1>1, <2>3, <2>4, MessageDone
  <2>6. nextSeq = m.seq + 1 /\ nextStart = 0
    BY <1>1, <1>2 DEF NextIs
  <2> QED
    BY <2>4, <2>5, <2>6
<1>3. CASE ~(m.len < FRAGMENT_SIZE)
  <2> DEFINE n == FragmentLength(m, p.start)
  <2>1. p = Fragment(m, p.start)
    BY <1>3 DEF IsPacket
  <2>2. p.fragmented /\ p.seq = m.seq /\ p.length = n /\ p.data = Bytes(m, p.start, n)
    BY <2>1 DEF Fragment
  <2>3. n \in Nat /\ p.start + n <= m.len /\ p.data \in Seq(Cell) /\ Len(p.data) = n
    <3>1. n \in Nat /\ p.start + n <= m.len /\ p.start \in Nat
      BY <1>1 DEF FragmentLength
    <3> QED
      BY <1>1, <2>2, <3>1, BytesType
  <2>4. CASE n # Int16(n)
    <3>1. UNCHANGED <<incomingSequence, fragmentBuffer, delivered>>
      BY <2>2, <2>3, <2>4 DEF processIncomingPacket, receiveVars
    <3>2. ~Fits(m)
      BY <1>1, <1>3, <2>4, FittingLength
    <3>3. Keeps /\ OnlyFittingDelivered'
      BY <1>1, <3>1, NothingDelivered
    <3>4. CASE m.len - p.start < FRAGMENT_SIZE
      <4>1. Receiver(m.seq + 1, 0)'
        BY <1>1, <3>1, <3>2, <3>3, MessageDone
      <4> QED
        BY <3>3, <3>4, <4>1 DEF NextIs
    <3>5. CASE ~(m.len - p.start < FRAGMENT_SIZE)
      <4>1. nextSeq = m.seq /\ nextStart = p.start + FRAGMENT_SIZE
        BY <3>5 DEF NextIs
      <4>2. nextStart > SHORT_MAX /\ nextStart > 0
        <5>1. n = FRAGMENT_SIZE
          BY <3>5 DEF FragmentLength
        <5>2. FRAGMENT_SIZE > SHORT_MAX
          BY <2>4, <5>1 DEF Int16
        <5> QED
          BY <1>1, <4>1, <5>2
      <4>3. incomingSequence' < nextSeq /\ fragmentBuffer'.sequence <= nextSeq
        BY <1>1, <3>1, <4>1
      <4>4. \A k \in sent : k.seq < nextSeq /\ Fits(k) => Delivered(k)'
        BY <3>3, <4>1 DEF Receiver, Keeps
      <4>5. ~(nextStart = 0) /\ ~(nextStart <= SHORT_MAX)
        BY <1>1, <4>1, <4>2
      <4> QED
        BY <1>1, <3>3, <4>3, <4>4, <4>5 DEF Receiver
    <3> QED
      BY <3>4, <3>5
  <2>5. CASE n = Int16(n)
    <3> DEFINE result == processFragment(fragmentBuffer, p.data, Int16(p.start), m.seq)
               before == Before(fragmentBuffer, m)
               isNext == p.start <= SHORT_MAX /\ p.start = Len(before)
               isLast == m.len - p.start < FRAGMENT_SIZE
    <3>1. /\ fragmentBuffer' = result.buffer
          /\ IF result.complete THEN processIncomingData(result.body, m.seq)
             ELSE UNCHANGED <<incomingSequence, delivered>>
      BY <2>2, <2>3, <2>5 DEF processIncomingPacket, processFragmentPacket
    <3>2. /\ result.buffer.sequence = m.seq
          /\ result.complete = (isNext /\ isLast)
          /\ isNext /\ isLast => result.body = before \o p.data
          /\ isNext /\ ~isLast => result.buffer.body = before \o p.data
      <4>1. fragmentBuffer.header = SEQUENCE_LEN \/ fragmentBuffer = DefaultBuffer
        BY DEF IInv, HeaderWritten
      <4> QED
        BY <1>1, <2>3, <4>1, FragmentTaken
    <3>3. p.start <= SHORT_MAX => before = Bytes(m, 0, p.start)
      <4>1. CASE p.start = 0
        <5>1. before = << >>
          BY <1>1, <4>1 DEF Receiver, Before
        <5>2. Bytes(m, 0, 0) = << >>
          BY DEF Bytes
        <5> QED
          BY <4>1, <5>1, <5>2
      <4>2. CASE p.start > 0 /\ p.start <= SHORT_MAX
        <5>1. PICK k \in sent : k.seq = m.seq /\ fragmentBuffer.body = Bytes(k, 0, p.start)
          BY <4>2 DEF Receiver
        <5>2. k = m
          BY <5>1 DEF IInv, SentInOrder, EveryMessageSent
        <5>3. fragmentBuffer.sequence = m.seq
          BY <4>2 DEF Receiver
        <5> QED
          BY <5>1, <5>2, <5>3 DEF Before
      <4> QED
        BY <1>1, <4>1, <4>2
    <3>4. p.start <= SHORT_MAX => isNext /\ before \o p.data = Bytes(m, 0, p.start + n)
      <4>1. p.start \in Nat /\ p.start <= m.len
        BY <1>1
      <4>2. Len(Bytes(m, 0, p.start)) = p.start
        BY <1>1, <4>1, BytesType
      <4>3. Bytes(m, 0, p.start) \o Bytes(m, p.start, n) = Bytes(m, 0, p.start + n)
        BY <1>1, <2>3, <4>1, BytesJoin
      <4> QED
        BY <2>2, <3>3, <4>2, <4>3
    <3>5. n = IF isLast THEN m.len - p.start ELSE FRAGMENT_SIZE
      BY DEF FragmentLength
    <3> HIDE DEF result, before, n
    <3>6. fragmentBuffer'.sequence = m.seq
      BY <3>1, <3>2
    <3>7. CASE ~(p.start <= SHORT_MAX)
      <4>1. ~Fits(m)
        BY <1>1, <1>3, <3>7 DEF Fits
      <4>2. UNCHANGED <<incomingSequence, delivered>>
        BY <3>1, <3>2, <3>7
      <4>3. Keeps /\ OnlyFittingDelivered'
        BY <1>1, <4>2, NothingDelivered
      <4>4. CASE isLast
        <5>1. Receiver(m.seq + 1, 0)'
          BY <1>1, <3>6, <4>1, <4>2, <4>3, MessageDone
        <5> QED
          BY <4>3, <4>4, <5>1 DEF NextIs
      <4>5. CASE ~isLast
        <5>1. nextSeq = m.seq /\ nextStart = p.start + FRAGMENT_SIZE
          BY <4>5 DEF NextIs
        <5>2. ~(nextStart = 0) /\ ~(nextStart <= SHORT_MAX)
          BY <1>1, <3>7, <5>1
        <5>3. incomingSequence' < nextSeq /\ fragmentBuffer'.sequence <= nextSeq
          BY <1>1, <3>6, <4>2, <5>1
        <5>4. \A k \in sent : k.seq < nextSeq /\ Fits(k) => Delivered(k)'
          BY <4>3, <5>1 DEF Receiver, Keeps
        <5> QED
          BY <1>1, <4>3, <5>2, <5>3, <5>4 DEF Receiver
      <4> QED
        BY <4>4, <4>5
    <3>8. CASE p.start <= SHORT_MAX /\ isLast
      <4>1. Fits(m)
        BY <1>1, <3>8, LastStart DEF Fits, FragmentStarts
      <4>2. result.complete /\ result.body = Payload(m)
        <5>1. p.start + n = m.len
          BY <1>1, <3>5, <3>8
        <5> QED
          BY <3>2, <3>4, <3>8, <5>1 DEF Payload
      <4>3. incomingSequence' = m.seq /\ Keeps /\ Delivered(m)' /\ OnlyFittingDelivered'
        BY <1>1, <3>1, <4>1, <4>2, MessageDelivered
      <4>4. Receiver(m.seq + 1, 0)'
        BY <1>1, <3>6, <4>3, MessageDone
      <4> QED
        BY <3>8, <4>3, <4>4 DEF NextIs
    <3>9. CASE p.start <= SHORT_MAX /\ ~isLast
      <4>1. nextSeq = m.seq /\ nextStart = p.start + FRAGMENT_SIZE
        BY <3>9 DEF NextIs
      <4>2. UNCHANGED <<incomingSequence, delivered>>
        BY <3>1, <3>2, <3>9
      <4>3. Keeps /\ OnlyFittingDelivered'
        BY <1>1, <4>2, NothingDelivered
      <4>4. fragmentBuffer'.body = Bytes(m, 0, nextStart)
        BY <3>1, <3>2, <3>4, <3>5, <3>9, <4>1
      <4>5. incomingSequence' < nextSeq /\ fragmentBuffer'.sequence = nextSeq
        BY <1>1, <3>6, <4>2, <4>1
      <4>6. \A k \in sent : k.seq < nextSeq /\ Fits(k) => Delivered(k)'
        BY <4>3, <4>1 DEF Receiver, Keeps
      <4>7. ~(nextStart = 0) /\ nextSeq <= nextSeq
        BY <1>1, <4>1
      <4>8. (\E k \in sent : k.seq = nextSeq /\ fragmentBuffer.body = Bytes(k, 0, nextStart))'
        BY <1>1, <4>1, <4>4 DEF Bytes, Byte
      <4> QED
        BY <4>3, <4>5, <4>6, <4>7, <4>8, <1>1 DEF Receiver
    <3> QED
      BY <3>7, <3>8, <3>9
  <2> QED
    BY <2>4, <2>5
<1> QED
  BY <1>2, <1>3

-----------------------------------------------------------------------------
(* The wire.                                                               *)

\* The packets of a message, in order.
LEMMA PacketsInOrder ==
  ASSUME NEW m \in Message
  PROVE  LET ps == Packets(m)
         IN /\ ps \in Seq(Packet) /\ Len(ps) \in Nat \ {0}
            /\ ps[1].seq = m.seq /\ ps[1].start = 0
            /\ \A k \in 1 .. Len(ps) :
                 /\ IsPacket(ps[k], m)
                 /\ NextIs(m, ps[k].start,
                           IF k < Len(ps) THEN ps[k + 1].seq ELSE m.seq + 1,
                           IF k < Len(ps) THEN ps[k + 1].start ELSE 0)
<1> USE NetchanAssumption, FragmentBufferAssumption
<1> DEFINE ps == Packets(m)
<1>1. m.len \in Nat /\ m.len <= MAX_MSGLEN /\ m.seq \in 1 .. MaxSequence /\ MAX_MSGLEN \in Nat
  BY MessageFields
<1>2. CASE m.len < FRAGMENT_SIZE
  <2> DEFINE p == WholePacket(m)
  <2>1. p \in Packet /\ p.seq = m.seq /\ p.start = 0 /\ p.start \in FragmentStarts(m)
    <3>1. Payload(m) \in Seq(Cell)
      BY PayloadInPlace
    <3>2. 0 \in FragmentStarts(m)
      <4>1. 0 % FRAGMENT_SIZE = 0
        OBVIOUS
      <4> QED
        BY <1>1, <4>1 DEF FragmentStarts
    <3> QED
      BY <1>1, <3>1, <3>2 DEF WholePacket, Packet
  <2>2. IsPacket(p, m)
    BY <1>2, <2>1 DEF IsPacket
  <2>3. ps = <<p>>
    BY <1>2 DEF Packets
  <2> HIDE DEF p
  <2>4. <<p>> \in Seq(Packet) /\ Len(<<p>>) = 1 /\ <<p>>[1] = p
    BY <2>1
  <2>5. NextIs(m, 0, m.seq + 1, 0)
    BY <1>1, <1>2 DEF NextIs
  <2> QED
    BY <2>1, <2>2, <2>3, <2>4, <2>5
<1>3. CASE ~(m.len < FRAGMENT_SIZE)
  <2> DEFINE q == m.len \div FRAGMENT_SIZE
             At(k) == (k - 1) * FRAGMENT_SIZE
  <2>1. q \in Nat /\ FRAGMENT_SIZE * q <= m.len /\ m.len < FRAGMENT_SIZE * q + FRAGMENT_SIZE
    BY <1>1
  <2>2. ps = [k \in 1 .. q + 1 |-> Fragment(m, At(k))]
    BY <1>3 DEF Packets
  <2> HIDE DEF q
  <2>3. ASSUME NEW k \in 1 .. q + 1
        PROVE  /\ At(k) \in FragmentStarts(m) /\ At(k) \in Nat
               /\ At(k) % FRAGMENT_SIZE = 0
               /\ k = q + 1 => m.len - At(k) < FRAGMENT_SIZE
               /\ k < q + 1 => ~(m.len - At(k) < FRAGMENT_SIZE)
                               /\ At(k + 1) = At(k) + FRAGMENT_SIZE
    <3>1. PICK j \in 0 .. q : j = k - 1
      BY <2>1
    <3>2. At(k) = FRAGMENT_SIZE * j /\ FRAGMENT_SIZE * j \in Nat
      BY <3>1
    <3>3. (FRAGMENT_SIZE * j) % FRAGMENT_SIZE = 0
      BY <3>1
    <3>4. FRAGMENT_SIZE * j <= FRAGMENT_SIZE * q
      BY <2>1, <3>1
    <3>5. At(k) \in FragmentStarts(m)
      BY <1>1, <2>1, <3>2, <3>3, <3>4 DEF FragmentStarts
    <3>6. CASE k = q + 1
      <4>1. j = q
        BY <3>1, <3>6, <2>1
      <4> QED
        BY <1>1, <2>1, <3>2, <3>3, <3>5, <3>6, <4>1
    <3>7. CASE k < q + 1
      <4>1. FRAGMENT_SIZE * (j + 1) <= FRAGMENT_SIZE * q
        BY <2>1, <3>1, <3>7
      <4>2. FRAGMENT_SIZE * (j + 1) = FRAGMENT_SIZE * j + FRAGMENT_SIZE
        BY <3>1
      <4>3. At(k + 1) = FRAGMENT_SIZE * (j + 1)
        BY <3>1
      <4> QED
        BY <1>1, <2>1, <3>2, <3>3, <3>5, <3>7, <4>1, <4>2, <4>3
    <3> QED
      BY <2>1, <3>6, <3>7
  <2> HIDE DEF At
  <2>4. ASSUME NEW k \in 1 .. q + 1
        PROVE  /\ ps[k] = Fragment(m, At(k)) /\ ps[k].seq = m.seq /\ ps[k].start = At(k)
               /\ ps[k] \in Packet /\ IsPacket(ps[k], m)
    <3>1. ps[k] = Fragment(m, At(k)) /\ At(k) \in FragmentStarts(m) /\ At(k) \in Nat
      BY <2>2, <2>3
    <3>2. ps[k].seq = m.seq /\ ps[k].start = At(k)
      BY <3>1 DEF Fragment
    <3>3. IsPacket(ps[k], m)
      BY <1>3, <3>1, <3>2 DEF IsPacket
    <3>4. At(k) <= m.len /\ FragmentLength(m, At(k)) \in Nat
          /\ At(k) + FragmentLength(m, At(k)) <= m.len
      BY <1>1, <3>1 DEF FragmentStarts, FragmentLength
    <3>5. Bytes(m, At(k), FragmentLength(m, At(k))) \in Seq(Cell)
      BY <3>1, <3>4, BytesType
    <3>6. Fragment(m, At(k)) \in Packet
      BY <1>1, <3>1, <3>4, <3>5 DEF Fragment, Packet
    <3> QED
      BY <3>1, <3>2, <3>3, <3>6
  <2>5. ps \in Seq(Packet) /\ Len(ps) = q + 1
    BY <2>1, <2>2, <2>4
  <2>6. ps[1].seq = m.seq /\ ps[1].start = 0
    <3>1. 1 \in 1 .. q + 1 /\ At(1) = 0
      BY <2>1 DEF At
    <3> QED
      BY <2>4, <3>1
  <2> HIDE DEF ps
  <2>7. ASSUME NEW k \in 1 .. Len(ps)
        PROVE  NextIs(m, ps[k].start,
                      IF k < Len(ps) THEN ps[k + 1].seq ELSE m.seq + 1,
                      IF k < Len(ps) THEN ps[k + 1].start ELSE 0)
    <3>1. k \in 1 .. q + 1 /\ ps[k].start = At(k)
      BY <2>4, <2>5
    <3>2. CASE k = q + 1
      <4>1. m.len - At(k) < FRAGMENT_SIZE /\ ~(k < Len(ps))
        BY <2>1, <2>3, <2>5, <3>1, <3>2
      <4> QED
        BY <3>1, <4>1 DEF NextIs
    <3>3. CASE k < q + 1
      <4>1. ~(m.len - At(k) < FRAGMENT_SIZE) /\ At(k + 1) = At(k) + FRAGMENT_SIZE /\ k < Len(ps)
        BY <2>3, <2>5, <3>1, <3>3
      <4>2. k + 1 \in 1 .. q + 1
        BY <2>1, <3>1, <3>3
      <4>3. ps[k + 1].seq = m.seq /\ ps[k + 1].start = At(k + 1)
        BY <2>4, <4>2
      <4> QED
        BY <3>1, <4>1, <4>3 DEF NextIs
    <3> QED
      BY <2>1, <3>1, <3>2, <3>3
  <2>8. Len(ps) \in Nat \ {0}
    BY <2>1, <2>5
  <2>9. \A k \in 1 .. Len(ps) : IsPacket(ps[k], m)
    BY <2>4, <2>5
  <2> QED
    BY <2>5, <2>6, <2>7, <2>8, <2>9 DEF ps
<1> QED
  BY <1>2, <1>3

\* What is said of the messages sent, when the wire and the receiver change.
LEMMA SentKept ==
  ASSUME EveryMessageSent, UNCHANGED peerVars
  PROVE  EveryMessageSent'
BY DEF EveryMessageSent, peerVars

\* The packet at the head of the wire is the one the receiver is about to be given.
LEMMA StreamReceiveInv ==
  ASSUME TypeOK, IInv, StreamInv, StreamReceive
  PROVE  Receive /\ StreamInv'
<1> DEFINE p == Head(wire)
<1>1. /\ wire \in Seq(Packet) /\ Len(wire) \in Nat \ {0} /\ 1 \in 1 .. Len(wire)
      /\ p = wire[1] /\ wire' = Tail(wire) /\ processIncomingPacket(p)
  BY DEF StreamReceive, StreamInv, WireInOrder
<1> HIDE DEF p
<1>2. PICK m \in sent :
        IsPacket(wire[1], m) /\ NextIs(m, wire[1].start, SeqAt(1 + 1), StartAt(1 + 1))
  BY <1>1 DEF StreamInv, WireInOrder
<1>3. SeqAt(1) = m.seq /\ StartAt(1) = p.start /\ IsPacket(p, m)
  BY <1>1, <1>2 DEF SeqAt, StartAt, IsPacket, WholePacket, Fragment
<1>4. PICK nextSeq : nextSeq = SeqAt(1 + 1)
  OBVIOUS
<1>5. PICK nextStart : nextStart = StartAt(1 + 1)
  OBVIOUS
<1>6. Receiver(m.seq, p.start) /\ NextIs(m, p.start, nextSeq, nextStart)
  BY <1>1, <1>2, <1>3, <1>4, <1>5 DEF StreamInv
<1>7. Receiver(nextSeq, nextStart)' /\ OnlyFittingDelivered'
  BY <1>1, <1>3, <1>6, ReceiverStep DEF StreamInv
<1>8. UNCHANGED peerVars /\ EveryMessageSent' /\ Receive
  BY <1>1, <1>3, SentKept, PacketReceived DEF StreamInv, processIncomingPacket
<1>9. /\ wire' \in Seq(Packet) /\ Len(wire') = Len(wire) - 1
      /\ \A i \in 1 .. Len(wire') : i + 1 \in 1 .. Len(wire) /\ wire'[i] = wire[i + 1]
  BY <1>1
<1>10. ASSUME NEW i \in 1 .. Len(wire)
       PROVE  SeqAt(i)' = SeqAt(i + 1) /\ StartAt(i)' = StartAt(i + 1)
  <2>1. serverSequence' = serverSequence
    BY <1>8 DEF peerVars
  <2>2. i \in 1 .. Len(wire') <=> i + 1 \in 1 .. Len(wire)
    BY <1>1, <1>9
  <2> QED
    BY <1>9, <2>1, <2>2 DEF SeqAt, StartAt
<1>11. WireInOrder'
  <2> SUFFICES ASSUME NEW i \in 1 .. Len(wire')
               PROVE  \E n \in sent' :
                        /\ IsPacket(wire'[i], n)
                        /\ NextIs(n, wire'[i].start, SeqAt(i + 1)', StartAt(i + 1)')
    BY <1>9 DEF WireInOrder, IsPacket, NextIs, WholePacket, Fragment, FragmentStarts
  <2>1. i + 1 \in 1 .. Len(wire) /\ wire'[i] = wire[i + 1]
    BY <1>9
  <2>2. PICK n \in sent : /\ IsPacket(wire[i + 1], n)
                          /\ NextIs(n, wire[i + 1].start, SeqAt(i + 1 + 1), StartAt(i + 1 + 1))
    BY <2>1 DEF StreamInv, WireInOrder
  <2>3. SeqAt(i + 1)' = SeqAt(i + 1 + 1) /\ StartAt(i + 1)' = StartAt(i + 1 + 1)
    BY <1>10, <2>1
  <2> QED
    BY <1>8, <2>1, <2>2, <2>3 DEF peerVars
<1>12. Receiver(SeqAt(1), StartAt(1))'
  <2>1. SeqAt(1)' = nextSeq /\ StartAt(1)' = nextStart
    BY <1>1, <1>4, <1>5, <1>10
  <2> QED
    BY <1>7, <2>1 DEF Receiver
<1> QED
  BY <1>7, <1>8, <1>11, <1>12 DEF StreamInv

\* The packets of the next message come behind all that are on the wire.
LEMMA StreamSendInv ==
  ASSUME TypeOK, IInv, StreamInv, StreamSend
  PROVE  StreamInv'
<1> USE NetchanAssumption, FragmentBufferAssumption
<1>1. PICK len \in 0 .. MAX_MSGLEN : PeerSend(len)
  BY DEF StreamSend
<1> DEFINE new == [session |-> session, seq |-> serverSequence + 1, len |-> len]
<1>2. /\ serverSequence < MaxSequence /\ serverSequence' = serverSequence + 1
      /\ sent' = sent \cup {new}
      /\ UNCHANGED <<session, receiveVars, sendVars>>
  BY <1>1 DEF PeerSend
<1>3. /\ serverSequence \in Nat /\ session \in 0 .. MaxSession
      /\ \A n \in sent : n \in Message /\ n.seq \in Nat /\ n.seq <= serverSequence
  BY DEF TypeOK, Message, StreamInv, EveryMessageSent
<1>4. new \in Message /\ new.seq = serverSequence + 1 /\ new.session = session
  BY <1>2, <1>3 DEF Message
<1> HIDE DEF new
<1>5. new \notin sent
  BY <1>3, <1>4
<1>6. wire' = wire \o Packets(new)
  <2>1. (CHOOSE m \in sent' : m \notin sent) = new
    BY <1>2, <1>5
  <2> QED
    BY <2>1 DEF StreamSend
<1>7. PICK ps : ps = Packets(new)
  OBVIOUS
<1>8. /\ ps \in Seq(Packet) /\ Len(ps) \in Nat \ {0}
      /\ ps[1].seq = new.seq /\ ps[1].start = 0
      /\ \A k \in 1 .. Len(ps) :
           /\ IsPacket(ps[k], new)
           /\ NextIs(new, ps[k].start,
                     IF k < Len(ps) THEN ps[k + 1].seq ELSE new.seq + 1,
                     IF k < Len(ps) THEN ps[k + 1].start ELSE 0)
  BY <1>4, <1>7, PacketsInOrder
<1>9. wire \in Seq(Packet) /\ Len(wire) \in Nat
  BY DEF StreamInv, WireInOrder
<1>10. /\ wire' \in Seq(Packet) /\ Len(wire') = Len(wire) + Len(ps)
       /\ \A i \in 1 .. Len(wire) : wire'[i] = wire[i]
       /\ \A i \in 1 .. Len(wire') : i > Len(wire) =>
            i - Len(wire) \in 1 .. Len(ps) /\ wire'[i] = ps[i - Len(wire)]
  BY <1>6, <1>7, <1>8, <1>9
<1>11. ASSUME NEW i \in 1 .. Len(wire) + 1
       PROVE  SeqAt(i)' = SeqAt(i) /\ StartAt(i)' = StartAt(i)
  <2>1. CASE i \in 1 .. Len(wire)
    <3>1. i \in 1 .. Len(wire') /\ wire'[i] = wire[i]
      BY <1>8, <1>9, <1>10, <2>1
    <3> QED
      BY <2>1, <3>1 DEF SeqAt, StartAt
  <2>2. CASE i = Len(wire) + 1
    <3>1. i \in 1 .. Len(wire') /\ wire'[i] = ps[1] /\ i \notin 1 .. Len(wire)
      BY <1>8, <1>9, <1>10, <2>2
    <3> QED
      BY <1>4, <1>8, <3>1 DEF SeqAt, StartAt
  <2> QED
    BY <1>9, <2>1, <2>2
<1>12. WireInOrder'
  <2> SUFFICES ASSUME NEW i \in 1 .. Len(wire')
               PROVE  \E n \in sent' :
                        /\ IsPacket(wire'[i], n)
                        /\ NextIs(n, wire'[i].start, SeqAt(i + 1)', StartAt(i + 1)')
    BY <1>10 DEF WireInOrder, IsPacket, NextIs, WholePacket, Fragment, FragmentStarts
  <2>1. CASE i \in 1 .. Len(wire)
    <3>1. PICK n \in sent : /\ IsPacket(wire[i], n)
                            /\ NextIs(n, wire[i].start, SeqAt(i + 1), StartAt(i + 1))
      BY <2>1 DEF StreamInv, WireInOrder
    <3>2. SeqAt(i + 1)' = SeqAt(i + 1) /\ StartAt(i + 1)' = StartAt(i + 1)
      <4>1. i + 1 \in 1 .. Len(wire) + 1
        BY <1>9, <2>1
      <4> QED
        BY <1>11, <4>1
    <3> QED
      BY <1>2, <1>10, <2>1, <3>1, <3>2
  <2>2. CASE i > Len(wire)
    <3>1. PICK k \in 1 .. Len(ps) : k = i - Len(wire) /\ wire'[i] = ps[k]
      BY <1>10, <2>2
    <3>2. /\ SeqAt(i + 1)' = IF k < Len(ps) THEN ps[k + 1].seq ELSE new.seq + 1
          /\ StartAt(i + 1)' = IF k < Len(ps) THEN ps[k + 1].start ELSE 0
      <4>1. CASE k < Len(ps)
        <5>1. i + 1 \in 1 .. Len(wire') /\ wire'[i + 1] = ps[k + 1]
          BY <1>8, <1>9, <1>10, <3>1, <4>1
        <5> QED
          BY <4>1, <5>1 DEF SeqAt, StartAt
      <4>2. CASE ~(k < Len(ps))
        <5>1. i + 1 \notin 1 .. Len(wire')
          BY <1>8, <1>9, <1>10, <3>1, <4>2
        <5> QED
          BY <1>2, <1>4, <4>2, <5>1 DEF SeqAt, StartAt
      <4> QED
        BY <4>1, <4>2
    <3>3. IsPacket(wire'[i], new) /\ NextIs(new, wire'[i].start, SeqAt(i + 1)', StartAt(i + 1)')
      BY <1>8, <3>1, <3>2
    <3> QED
      BY <1>2, <3>3
  <2> QED
    BY <1>9, <1>10, <2>1, <2>2
<1>13. EveryMessageSent'
  <2>1. session' = 0 /\ \A n \in sent' : n.session = 0 /\ n.seq <= serverSequence'
    BY <1>2, <1>3, <1>4 DEF StreamInv, EveryMessageSent
  <2>2. \A s \in 1 .. serverSequence' : \E n \in sent' : n.seq = s
    <3> SUFFICES ASSUME NEW s \in 1 .. serverSequence' PROVE \E n \in sent' : n.seq = s
      OBVIOUS
    <3>1. s \in 1 .. serverSequence \/ s = new.seq
      BY <1>2, <1>3, <1>4
    <3> QED
      BY <1>2, <3>1 DEF StreamInv, EveryMessageSent
  <2> QED
    BY <2>1, <2>2 DEF EveryMessageSent
<1>14. PICK seq : seq = SeqAt(1)
  OBVIOUS
<1>15. PICK start : start = StartAt(1)
  OBVIOUS
<1>16. seq \in Nat /\ seq <= serverSequence + 1
  <2>1. CASE 1 \in 1 .. Len(wire)
    <3>1. PICK n \in sent : IsPacket(wire[1], n)
      BY <2>1 DEF StreamInv, WireInOrder
    <3>2. wire[1].seq = n.seq
      BY <3>1 DEF IsPacket, WholePacket, Fragment
    <3> QED
      BY <1>3, <1>14, <2>1, <3>2 DEF SeqAt
  <2>2. CASE ~(1 \in 1 .. Len(wire))
    BY <1>3, <1>14, <2>2 DEF SeqAt
  <2> QED
    BY <2>1, <2>2
<1>17. Receiver(seq, start)'
  <2>1. Receiver(seq, start)
    BY <1>14, <1>15 DEF StreamInv
  <2>2. UNCHANGED <<incomingSequence, fragmentBuffer, delivered>>
    BY <1>2 DEF receiveVars
  <2>3. \A m \in sent' : m.seq < seq /\ Fits(m) => Delivered(m)'
    <3> SUFFICES ASSUME NEW m \in sent', m.seq < seq, Fits(m) PROVE Delivered(m)'
      OBVIOUS
    <3>1. m \in sent
      BY <1>2, <1>3, <1>4, <1>16
    <3> QED
      BY <2>1, <2>2, <3>1 DEF Receiver, Delivered
  <2>4. 0 < start /\ start <= SHORT_MAX =>
          \E m \in sent' : m.seq = seq /\ fragmentBuffer.body = Bytes(m, 0, start)
    BY <1>2, <2>1 DEF Receiver
  <2> QED
    BY <2>1, <2>2, <2>3, <2>4 DEF Receiver, Bytes, Byte, Fits, FragmentStarts
<1>18. Receiver(SeqAt(1), StartAt(1))'
  <2>1. SeqAt(1)' = seq /\ StartAt(1)' = start
    <3>1. 1 \in 1 .. Len(wire) + 1
      BY <1>9
    <3> QED
      BY <1>11, <1>14, <1>15, <3>1
  <2> QED
    BY <1>17, <2>1 DEF Receiver
<1>19. OnlyFittingDelivered'
  BY <1>2 DEF StreamInv, OnlyFittingDelivered, receiveVars, Fits, FragmentStarts
<1> QED
  BY <1>12, <1>13, <1>18, <1>19 DEF StreamInv

-----------------------------------------------------------------------------
(* The theorems.                                                           *)

LEMMA StreamInitInv == StreamInit => StreamInv
<1> SUFFICES ASSUME StreamInit PROVE StreamInv
  OBVIOUS
<1>1. /\ wire = << >> /\ session = 0 /\ serverSequence = 0 /\ sent = {}
      /\ delivered = << >> /\ incomingSequence = 0 /\ fragmentBuffer = DefaultBuffer
  BY DEF StreamInit, Init
<1>2. wire \in Seq(Packet) /\ 1 .. Len(wire) = {} /\ 1 .. Len(delivered) = {} /\ 1 .. 0 = {}
  BY <1>1
<1>3. SeqAt(1) = 1 /\ StartAt(1) = 0
  BY <1>1, <1>2 DEF SeqAt, StartAt
<1>4. Receiver(1, 0)
  BY <1>1 DEF Receiver, DefaultBuffer
<1>5. EveryMessageSent
  BY <1>1, <1>2 DEF EveryMessageSent
<1> QED
  BY <1>2, <1>3, <1>4, <1>5 DEF StreamInv, WireInOrder, OnlyFittingDelivered

LEMMA StreamStep ==
  ASSUME TypeOK, IInv, StreamInv, [StreamNext]_streamVars
  PROVE  [Next]_vars /\ StreamInv'
<1>1. CASE StreamSend
  <2>1. Next
    BY <1>1 DEF StreamSend, Next
  <2> QED
    BY <1>1, <2>1, StreamSendInv
<1>2. CASE StreamReceive
  BY <1>2, StreamReceiveInv DEF Next
<1>3. CASE UNCHANGED streamVars
  <2>1. UNCHANGED <<receiveVars, peerVars, wire>> /\ UNCHANGED vars
    BY <1>3 DEF streamVars, vars
  <2>2. UNCHANGED <<incomingSequence, fragmentBuffer, delivered, session, serverSequence, sent>>
    BY <2>1 DEF receiveVars, peerVars
  <2>3. EveryMessageSent'
    BY <2>1, SentKept DEF StreamInv
  <2>4. WireInOrder'
    BY <2>1, <2>2
    DEF StreamInv, WireInOrder, SeqAt, StartAt
  <2>5. Receiver(SeqAt(1), StartAt(1))'
    <3>1. SeqAt(1)' = SeqAt(1) /\ StartAt(1)' = StartAt(1)
      BY <2>1, <2>2 DEF SeqAt, StartAt
    <3>2. \A m : Delivered(m)' = Delivered(m)
      BY <2>2 DEF Delivered
    <3> QED
      BY <2>2, <3>1, <3>2 DEF StreamInv, Receiver, Fits, FragmentStarts, Bytes, Byte
  <2>6. OnlyFittingDelivered'
    BY <2>2 DEF StreamInv, OnlyFittingDelivered, Fits, FragmentStarts
  <2> QED
    BY <2>1, <2>3, <2>4, <2>5, <2>6 DEF StreamInv
<1> QED
  BY <1>1, <1>2, <1>3 DEF StreamNext

\* The invariant behind the theorems that follow, together with Netchan's own: where
\* the wire is, and what the receiver has and has not got by then.
THEOREM StreamInductiveInvariant == StreamSpec => [](TypeOK /\ IInv /\ StreamInv)
<1>1. StreamInit => TypeOK /\ IInv /\ StreamInv
  BY InitType, InitIInv, StreamInitInv DEF StreamInit
<1>2. TypeOK /\ IInv /\ StreamInv /\ [StreamNext]_streamVars => TypeOK' /\ IInv' /\ StreamInv'
  BY StreamStep, StepType, StepIInv
<1> QED
  BY <1>1, <1>2, PTL DEF StreamSpec

\* What a Netchan does behind a network that loses and reorders nothing it may
\* do behind any: all that is proved of Spec holds here too.
THEOREM StreamIsANetchan == StreamSpec => Spec
<1>1. StreamInit => Init
  BY DEF StreamInit
<1>2. TypeOK /\ IInv /\ StreamInv /\ [StreamNext]_streamVars => [Next]_vars
  BY StreamStep
<1> QED
  BY <1>1, <1>2, StreamInductiveInvariant, PTL DEF StreamSpec, Spec

\* When every packet has arrived, the messages delivered are exactly those whose
\* fragments all start where an int16_t can say: nothing else is given up, and
\* none of the others gets through (Netchan.h lines 62-79, the int16_t that
\* fragmentStart is read into).
ExactlyTheFittingArrive == wire = << >> => \A m \in sent : Fits(m) <=> Delivered(m)

\* It is so for every message length, even beyond SHORT_MAX: an exact account of
\* what the int16_t costs.
THEOREM FittingMessagesArrive == StreamSpec => []ExactlyTheFittingArrive
<1>1. TypeOK /\ IInv /\ StreamInv => ExactlyTheFittingArrive
  <2> SUFFICES ASSUME TypeOK, IInv, StreamInv, wire = << >>, NEW m \in sent
               PROVE  Fits(m) <=> Delivered(m)
    BY DEF ExactlyTheFittingArrive
  <2>1. m.seq \in Nat /\ m.seq <= serverSequence /\ serverSequence \in Nat
    BY MessageFields DEF TypeOK, StreamInv, EveryMessageSent
  <2>2. SeqAt(1) = serverSequence + 1
    BY DEF SeqAt
  <2>3. Fits(m) => Delivered(m)
    BY <2>1, <2>2 DEF StreamInv, Receiver
  <2>4. ASSUME Delivered(m) PROVE Fits(m)
    <3>1. PICK i \in 1 .. Len(delivered) : delivered[i].seq = m.seq
      BY <2>4 DEF Delivered
    <3>2. PICK n \in sent : n.seq = m.seq /\ Fits(n)
      BY <3>1 DEF StreamInv, OnlyFittingDelivered
    <3>3. n = m
      BY <3>2 DEF IInv, SentInOrder, StreamInv, EveryMessageSent
    <3> QED
      BY <3>2, <3>3
  <2> QED
    BY <2>3, <2>4
<1> QED
  BY <1>1, StreamInductiveInvariant, PTL

\* If the last multiple of FRAGMENT_SIZE a message can reach is one an int16_t
\* can say, no message is given up.  The protocol's own MAX_MSGLEN (49152, with
\* fragments of 1300 bytes) is twelve fragments beyond that.
THEOREM DrainedStreamIsDelivered ==
  ASSUME \A start \in 0 .. MAX_MSGLEN : start % FRAGMENT_SIZE = 0 => start <= SHORT_MAX
  PROVE  StreamSpec => []DrainedMeansDelivered
<1>1. TypeOK /\ ExactlyTheFittingArrive => DrainedMeansDelivered
  <2> SUFFICES ASSUME TypeOK, ExactlyTheFittingArrive, wire = << >>, NEW m \in sent
               PROVE  Delivered(m)
    BY DEF DrainedMeansDelivered, Delivered
  <2>1. m.len \in Nat /\ m.len <= MAX_MSGLEN /\ MAX_MSGLEN \in Nat
    BY MessageFields, NetchanAssumption DEF TypeOK
  <2>2. FragmentStarts(m) \subseteq {start \in 0 .. MAX_MSGLEN : start % FRAGMENT_SIZE = 0}
    BY <2>1 DEF FragmentStarts
  <2>3. Fits(m)
    BY <2>2 DEF Fits
  <2> QED
    BY <2>3 DEF ExactlyTheFittingArrive
<1>2. StreamSpec => []TypeOK
  BY StreamInductiveInvariant, PTL
<1> QED
  BY <1>1, <1>2, FittingMessagesArrive, PTL
=============================================================================
