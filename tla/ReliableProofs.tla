--------------------------- MODULE ReliableProofs ---------------------------
(***************************************************************************)
(* Theorems about ReliableCommands, for every ring size, every window that *)
(* fits it, and any number of commands and packets.  The way from server   *)
(* to client and the way back obey the same laws (Way), so that most facts *)
(* are proved once, about the endpoint that sends and the one that         *)
(* receives.                                                               *)
(***************************************************************************)
EXTENDS ReliableCommands, ProofFacts

\* The commands of p start right after one the observer has seen: whatever the
\* server leaves out of a packet was acknowledged, and so has passed already.
LeavesOutOnly(p, seen) ==
  \E a \in 0 .. p.last : a <= seen /\ p.commands = a + 1 .. p.last

\* One way of the connection: the packets "sent" by an endpoint, those "passed"
\* on by the observer, whose Netchan is at "inc" and which has seen the commands
\* up to "seen".
Way(sender, receiver, sent, passed, inc, seen) ==
  /\ sender.acked <= receiver.peerCommand
  /\ receiver.peerCommand <= seen
  /\ seen <= sender.issued
  /\ sender.issued <= sender.acked + Window
  /\ receiver.received <= inc /\ inc <= sender.sent
  /\ passed \subseteq sent
  /\ \A p \in passed : p.seq <= inc /\ p.last <= seen
  /\ \A p \in sent :
       /\ p.seq <= sender.sent /\ p.last <= sender.issued /\ p.ack <= sender.peerCommand
       /\ LeavesOutOnly(p, seen)
       /\ p.seq > inc => p.last >= seen
       /\ p.seq > receiver.received => p.ack >= receiver.acked
  /\ \A p, q \in sent : p.seq < q.seq => p.last <= q.last /\ p.ack <= q.ack

\* A ring that the commands up to "seen" were written to still has the last of
\* them, as many as it has slots.
RingHas(ring, seen) ==
  \A c \in 0 .. seen : c + MAX_RELIABLE_COMMANDS > seen => ring[slot(c)] = c

\* The acknowledgement the library keeps is one that the server gave, and no
\* packet still to come has an older one.
AcknowledgeFollows ==
  /\ connection.reliableAcknowledge <= server.peerCommand
  /\ \A p \in fromServer :
       p.seq > incoming.server => p.ack >= connection.reliableAcknowledge

\* Neither endpoint sends more packets than its own bound.
WithinBounds == server.sent <= MaxServerPackets /\ client.sent <= MaxClientPackets

IInv ==
  /\ TypeOK
  /\ WithinBounds
  /\ Way(server, client, fromServer, toClient,
         incoming.server, connection.serverCommandSequence)
  /\ Way(client, server, fromClient, toServer,
         incoming.client, connection.reliableSequence)
  /\ RingHas(serverCommands, connection.serverCommandSequence)
  /\ RingHas(reliableCommands, connection.reliableSequence)
  /\ AcknowledgeFollows
  /\ CommandsInOrder

-----------------------------------------------------------------------------
(* The bounds.                                                             *)

\* Packets is at least each of the two bounds it is the greater of.
LEMMA PacketsBound ==
  Packets \in Nat /\ MaxServerPackets <= Packets /\ MaxClientPackets <= Packets
<1> USE ReliableCommandsAssumption
<1> DEFINE S == {MaxServerPackets, MaxClientPackets}
<1>1. \E x \in S : \A y \in S : x >= y
  OBVIOUS
<1>2. Packets \in S /\ \A y \in S : Packets >= y
  BY <1>1 DEF Packets, Max
<1> QED
  BY <1>2

\* Issuing, sending and receiving keep an endpoint's type, and make packets of theirs.
LEMMA EndpointFields ==
  ASSUME NEW e \in Endpoint
  PROVE  /\ e.issued \in 0 .. MaxCommands /\ e.acked \in 0 .. MaxCommands
         /\ e.peerCommand \in 0 .. MaxCommands
         /\ e.sent \in 0 .. Packets /\ e.received \in 0 .. Packets
BY DEF Endpoint

LEMMA IssueType ==
  ASSUME NEW e \in Endpoint, CanIssue(e)
  PROVE  [e EXCEPT !.issued = @ + 1] \in Endpoint
<1>1. e.issued + 1 \in 0 .. MaxCommands
  BY EndpointFields, ReliableCommandsAssumption DEF CanIssue
<1> QED
  BY <1>1 DEF Endpoint

LEMMA SendType ==
  ASSUME NEW e \in Endpoint, NEW gamestate \in BOOLEAN, e.sent < Packets
  PROVE  /\ [e EXCEPT !.sent = @ + 1] \in Endpoint
         /\ Packet(e, gamestate) \in PacketType
<1>1. e.sent + 1 \in 0 .. Packets /\ e.sent + 1 \in 1 .. Packets
  BY EndpointFields, PacketsBound
<1>2. e.acked + 1 .. e.issued \in SUBSET Commands
  BY EndpointFields, ReliableCommandsAssumption DEF Commands
<1>3. [e EXCEPT !.sent = @ + 1] \in Endpoint
  BY <1>1 DEF Endpoint
<1>4. Packet(e, gamestate) \in PacketType
  BY <1>1, <1>2, EndpointFields DEF Packet, PacketType
<1> QED
  BY <1>3, <1>4

LEMMA HearType ==
  ASSUME NEW e \in Endpoint, NEW p \in PacketType
  PROVE  Hear(e, p) \in Endpoint
<1>1. p.seq \in 0 .. Packets /\ p.ack \in 0 .. MaxCommands /\ p.last \in 0 .. MaxCommands
  BY PacketsBound DEF PacketType
<1> QED
  BY <1>1 DEF Hear, Endpoint

-----------------------------------------------------------------------------
(* One way of the connection.                                              *)

\* A new command is not in any packet yet, and the window keeps its bound.
LEMMA WayIssue ==
  ASSUME NEW s \in Endpoint, NEW r \in Endpoint, NEW sent \in SUBSET PacketType,
         NEW passed, NEW inc \in Nat, NEW seen \in 0 .. MaxCommands,
         Way(s, r, sent, passed, inc, seen), CanIssue(s)
  PROVE  Way([s EXCEPT !.issued = @ + 1], r, sent, passed, inc, seen)
<1> DEFINE s2 == [s EXCEPT !.issued = @ + 1]
<1>1. /\ s.issued \in Nat /\ s.acked \in Nat /\ s.issued - s.acked < Window
      /\ \A p \in sent : p.last \in Nat
  BY ReliableCommandsAssumption DEF CanIssue, Endpoint, PacketType
<1>2. /\ s2.issued = s.issued + 1 /\ s2.acked = s.acked /\ s2.sent = s.sent
      /\ s2.peerCommand = s.peerCommand
  BY DEF Endpoint
<1> HIDE DEF s2
<1>3. s2.issued <= s2.acked + Window /\ seen <= s2.issued
  BY <1>1, <1>2, ReliableCommandsAssumption DEF Way
<1>4. \A p \in sent : p.last <= s2.issued
  BY <1>1, <1>2 DEF Way
<1>5. Way(s2, r, sent, passed, inc, seen)
  BY <1>2, <1>3, <1>4 DEF Way
<1> QED
  BY <1>5 DEF s2

\* A new packet comes after all others and has every command since the last one
\* acknowledged.
LEMMA WaySend ==
  ASSUME NEW s \in Endpoint, NEW r \in Endpoint, NEW sent \in SUBSET PacketType,
         NEW passed, NEW inc \in Nat, NEW seen \in 0 .. MaxCommands, NEW gamestate,
         Way(s, r, sent, passed, inc, seen), r.acked <= s.peerCommand
  PROVE  Way([s EXCEPT !.sent = @ + 1], r, sent \cup {Packet(s, gamestate)}, passed, inc, seen)
<1> DEFINE s2 == [s EXCEPT !.sent = @ + 1]
           new == Packet(s, gamestate)
<1>1. /\ s.sent \in Nat /\ s.acked \in Nat /\ s.issued \in Nat /\ s.peerCommand \in Nat
      /\ r.acked \in Nat /\ r.received \in Nat /\ r.peerCommand \in Nat
  BY PacketsBound, ReliableCommandsAssumption DEF Endpoint
<1>2. /\ new.seq = s.sent + 1 /\ new.last = s.issued /\ new.ack = s.peerCommand
      /\ new.commands = s.acked + 1 .. s.issued
  BY DEF Packet
<1>3. /\ s2.sent = s.sent + 1 /\ s2.acked = s.acked /\ s2.issued = s.issued
      /\ s2.peerCommand = s.peerCommand
  BY DEF Endpoint
<1> HIDE DEF new, s2
<1>4. LeavesOutOnly(new, seen)
  <2>1. s.acked \in 0 .. new.last /\ s.acked <= seen /\ new.commands = s.acked + 1 .. new.last
    BY <1>1, <1>2 DEF Way
  <2> QED
    BY <2>1 DEF LeavesOutOnly
<1>5. \A p \in sent : p.seq \in Nat /\ p.last \in Nat /\ p.ack \in Nat
  BY ReliableCommandsAssumption, PacketsBound DEF PacketType
<1>6. ASSUME NEW p \in sent \cup {new}
      PROVE  /\ p.seq <= s2.sent /\ p.last <= s2.issued /\ p.ack <= s2.peerCommand
             /\ LeavesOutOnly(p, seen)
             /\ p.seq > inc => p.last >= seen
             /\ p.seq > r.received => p.ack >= r.acked
  <2>1. CASE p \in sent
    BY <2>1, <1>1, <1>3, <1>5 DEF Way
  <2>2. CASE p = new
    BY <2>2, <1>1, <1>2, <1>3, <1>4 DEF Way
  <2> QED
    BY <2>1, <2>2
<1>7. ASSUME NEW p \in sent \cup {new}, NEW q \in sent \cup {new}, p.seq < q.seq
      PROVE  p.last <= q.last /\ p.ack <= q.ack
  <2>1. p \in sent
    BY <1>1, <1>2, <1>5, <1>7 DEF Way
  <2>2. CASE q \in sent
    BY <2>1, <2>2, <1>7 DEF Way
  <2>3. CASE q = new
    BY <2>1, <2>3, <1>2 DEF Way
  <2> QED
    BY <2>2, <2>3
<1>8. Way(s2, r, sent \cup {new}, passed, inc, seen)
  BY <1>1, <1>3, <1>6, <1>7 DEF Way
<1> QED
  BY <1>8 DEF s2, new

\* What the observer passes on it has seen; packets still to come are later ones.
LEMMA WayObserve ==
  ASSUME NEW s \in Endpoint, NEW r \in Endpoint, NEW sent \in SUBSET PacketType,
         NEW passed, NEW inc \in Nat, NEW seen \in 0 .. MaxCommands,
         Way(s, r, sent, passed, inc, seen),
         NEW p \in sent, p.seq > inc
  PROVE  Way(s, r, sent, passed \cup {p}, p.seq, p.last)
<1>1. /\ s.sent \in Nat /\ s.acked \in Nat /\ s.issued \in Nat /\ s.peerCommand \in Nat
      /\ r.acked \in Nat /\ r.received \in Nat /\ r.peerCommand \in Nat
  BY PacketsBound, ReliableCommandsAssumption DEF Endpoint
<1>2. \A q \in sent : q.seq \in Nat /\ q.last \in Nat /\ q.ack \in Nat
  BY ReliableCommandsAssumption, PacketsBound DEF PacketType
<1>3. p.last >= seen /\ p.last <= s.issued /\ p.seq <= s.sent
  BY DEF Way
<1>4. \A q \in sent : LeavesOutOnly(q, p.last)
  BY <1>2, <1>3 DEF Way, LeavesOutOnly
<1>5. \A q \in sent : q.seq > p.seq => q.last >= p.last
  BY <1>2 DEF Way
<1>6. \A q \in passed \cup {p} : q.seq <= p.seq /\ q.last <= p.last
  BY <1>2, <1>3 DEF Way
<1> QED
  BY <1>1, <1>2, <1>3, <1>4, <1>5, <1>6 DEF Way

\* The receiver takes a packet that the observer passed on.
LEMMA WayReceive ==
  ASSUME NEW s \in Endpoint, NEW r \in Endpoint, NEW sent \in SUBSET PacketType,
         NEW passed, NEW inc \in Nat, NEW seen \in 0 .. MaxCommands,
         Way(s, r, sent, passed, inc, seen),
         NEW p \in passed, p.seq > r.received
  PROVE  Way(s, Hear(r, p), sent, passed, inc, seen)
<1>1. /\ s.acked \in Nat /\ r.acked \in Nat /\ r.received \in Nat /\ r.peerCommand \in Nat
  BY PacketsBound, ReliableCommandsAssumption DEF Endpoint
<1>2. \A q \in sent : q.seq \in Nat /\ q.last \in Nat /\ q.ack \in Nat
  BY ReliableCommandsAssumption, PacketsBound DEF PacketType
<1>3. p \in sent /\ p.seq <= inc /\ p.last <= seen
  BY DEF Way
<1> DEFINE h == Hear(r, p)
<1>4. /\ h.received = p.seq /\ h.acked = p.ack
      /\ h.peerCommand \in {p.last, r.peerCommand} /\ h.peerCommand >= r.peerCommand
  BY <1>1, <1>2, <1>3 DEF Hear, Endpoint
<1> HIDE DEF h
<1>5. s.acked <= h.peerCommand /\ h.peerCommand <= seen /\ h.received <= inc
  BY <1>1, <1>2, <1>3, <1>4 DEF Way
<1>6. \A q \in sent : q.seq > h.received => q.ack >= h.acked
  BY <1>3, <1>4, <1>2 DEF Way
<1>7. Way(s, h, sent, passed, inc, seen)
  BY <1>5, <1>6 DEF Way
<1> QED
  BY <1>7 DEF h

\* The sender learns what is acknowledged: never less than it knew, nor more than
\* the receiver has.
LEMMA WayAcknowledged ==
  ASSUME NEW s \in Endpoint, NEW r \in Endpoint, NEW sent \in SUBSET PacketType,
         NEW passed, NEW inc \in Nat, NEW seen \in 0 .. MaxCommands,
         Way(s, r, sent, passed, inc, seen),
         NEW p \in PacketType, s.acked <= p.ack, p.ack <= r.peerCommand
  PROVE  Way(Hear(s, p), r, sent, passed, inc, seen)
<1>1. /\ s.acked \in Nat /\ s.issued \in Nat /\ s.peerCommand \in Nat /\ p.ack \in Nat
      /\ p.last \in Nat
  BY ReliableCommandsAssumption DEF Endpoint, PacketType
<1> DEFINE h == Hear(s, p)
<1>2. /\ h.acked = p.ack /\ h.issued = s.issued /\ h.sent = s.sent
      /\ h.peerCommand \in Nat /\ h.peerCommand >= s.peerCommand
  BY <1>1 DEF Hear, Endpoint
<1>3. \A q \in sent : q.ack \in Nat
  BY ReliableCommandsAssumption DEF PacketType
<1> HIDE DEF h
<1>4. h.issued <= h.acked + Window
  BY <1>1, <1>2, ReliableCommandsAssumption DEF Way
<1>5. \A q \in sent : q.ack <= h.peerCommand
  BY <1>1, <1>2, <1>3 DEF Way
<1>6. Way(h, r, sent, passed, inc, seen)
  BY <1>2, <1>4, <1>5 DEF Way
<1> QED
  BY <1>6 DEF h

\* What the receiver itself issues or sends is no matter of this way.
LEMMA WayReceiverSame ==
  ASSUME NEW s, NEW r, NEW r2, NEW sent, NEW passed, NEW inc, NEW seen,
         Way(s, r, sent, passed, inc, seen),
         r2.acked = r.acked, r2.peerCommand = r.peerCommand, r2.received = r.received
  PROVE  Way(s, r2, sent, passed, inc, seen)
BY DEF Way

-----------------------------------------------------------------------------
(* Commands, and the rings they are kept in.                               *)

\* What a packet brings that the observer has not seen: all from the next command
\* on, without a gap.
LEMMA NewCommands ==
  ASSUME NEW p \in PacketType, NEW seen \in 0 .. MaxCommands,
         LeavesOutOnly(p, seen), p.last >= seen
  PROVE  {c \in p.commands : c > seen} = seen + 1 .. p.last
<1>1. p.last \in Nat
  BY ReliableCommandsAssumption DEF PacketType
<1> QED
  BY <1>1, ReliableCommandsAssumption DEF LeavesOutOnly

\* A stretch of commands in ascending order.
LEMMA AscendingInterval ==
  ASSUME NEW m \in Nat, NEW n \in Nat, m <= n
  PROVE  Ascending(m + 1 .. n) = [i \in 1 .. n - m |-> m + i]
<1>1. Cardinality(m + 1 .. n) = n - m
  <2>1. Cardinality(m + 1 .. n) = IF m + 1 > n THEN 0 ELSE n - (m + 1) + 1
    BY FS_Interval
  <2> QED
    BY <2>1
<1>2. ASSUME NEW i \in 1 .. n - m
      PROVE  (CHOOSE c \in m + 1 .. n : Cardinality({d \in m + 1 .. n : d <= c}) = i) = m + i
  <2>1. ASSUME NEW c \in m + 1 .. n
        PROVE  Cardinality({d \in m + 1 .. n : d <= c}) = c - m
    <3>1. {d \in m + 1 .. n : d <= c} = m + 1 .. c
      OBVIOUS
    <3>2. Cardinality(m + 1 .. c) = c - m
      BY FS_Interval
    <3> QED
      BY <3>1, <3>2
  <2>2. \A c \in m + 1 .. n : Cardinality({d \in m + 1 .. n : d <= c}) = i <=> c = m + i
    BY <2>1
  <2>3. m + i \in m + 1 .. n
    OBVIOUS
  <2> QED
    BY <2>2, <2>3
<1> QED
  BY <1>1, <1>2 DEF Ascending

\* The commands up to one, and then those up to another.
LEMMA HeardOn ==
  ASSUME NEW m \in Nat, NEW n \in Nat, m <= n
  PROVE  [i \in 1 .. m |-> i] \o Ascending(m + 1 .. n) = [i \in 1 .. n |-> i]
<1> DEFINE a == [i \in 1 .. m |-> i]
           b == [i \in 1 .. n - m |-> m + i]
           c == [i \in 1 .. n |-> i]
<1>1. a \in Seq(Nat) /\ Len(a) = m /\ b \in Seq(Nat) /\ Len(b) = n - m
  OBVIOUS
<1>2. c \in Seq(Nat) /\ Len(c) = n
  OBVIOUS
<1>3. a \o b \in Seq(Nat) /\ Len(a \o b) = n
  BY <1>1
<1>4. ASSUME NEW i \in 1 .. n PROVE (a \o b)[i] = c[i]
  <2>1. CASE i <= m
    BY <1>1, <2>1
  <2>2. CASE i > m
    BY <1>1, <2>2
  <2> QED
    BY <2>1, <2>2
<1>5. a \o b = c
  BY <1>2, <1>3, <1>4
<1> QED
  BY <1>5, AscendingInterval

\* Writing the commands that follow keeps the ring's promise: the last command
\* with a slot is the one found there (ReliableCommandsStore.h).
LEMMA RingWritten ==
  ASSUME NEW ring \in [Slots -> 0 .. MaxCommands],
         NEW m \in 0 .. MaxCommands, NEW n \in 0 .. MaxCommands, m <= n,
         RingHas(ring, m)
  PROVE  /\ Written(ring, m + 1 .. n) \in [Slots -> 0 .. MaxCommands]
         /\ RingHas(Written(ring, m + 1 .. n), n)
<1> USE ReliableCommandsAssumption
<1> DEFINE M == MAX_RELIABLE_COMMANDS
           commands == m + 1 .. n
           IsLast(c, i) == slot(c) = i /\ \A d \in commands : slot(d) = i => d <= c
           after == Written(ring, commands)
<1>0. /\ M \in Nat \ {0} /\ m \in Nat /\ n \in Nat
      /\ \A c \in Nat : slot(c) \in Slots
  BY DEF slot, Slots
<1>1. \A c, d \in Nat : c < d /\ d < c + M => slot(c) # slot(d)
  BY <1>0, ModNear DEF slot
<1>2. ASSUME NEW i \in Slots, \E c \in commands : slot(c) = i
      PROVE  \E c \in commands : IsLast(c, i)
  <2>1. PICK c \in commands : slot(c) = i
    BY <1>2
  <2>2. c \in Nat /\ c <= n /\ i \in 0 .. M - 1
    BY <2>1 DEF Slots
  <2>3. i <= n
    <3>1. c % M <= c
      BY <2>2, <1>0
    <3> QED
      BY <3>1, <2>1, <2>2 DEF slot
  <2>4. PICK d \in 0 .. n : d % M = i /\ n < d + M
    BY <2>2, <2>3, <1>0, ModLast
  <2>5. ASSUME NEW e \in commands, slot(e) = i PROVE e <= d
    <3>1. d \in Nat /\ e \in Nat /\ e <= n /\ n < d + M /\ slot(d) = i
      BY <2>4, <1>0 DEF slot
    <3>2. ~ (d < e /\ e < d + M)
      BY <3>1, <2>5, <1>1
    <3> QED
      BY <3>1, <3>2, <1>0
  <2>6. d \in commands
    BY <2>1, <2>5, <2>4, <1>0
  <2> QED
    BY <2>4, <2>5, <2>6 DEF slot
<1>3. after \in [Slots -> 0 .. MaxCommands]
  <2>1. ASSUME NEW i \in Slots
        PROVE  (IF \E c \in commands : slot(c) = i
                THEN CHOOSE c \in commands : IsLast(c, i) ELSE ring[i]) \in 0 .. MaxCommands
    BY <1>2, <2>1, <1>0
  <2> QED
    BY <2>1 DEF Written
<1>4. ASSUME NEW c \in 0 .. n, c + M > n PROVE after[slot(c)] = c
  <2>1. slot(c) \in Slots
    BY <1>0
  <2>2. after[slot(c)] = IF \E d \in commands : slot(d) = slot(c)
                         THEN CHOOSE d \in commands : IsLast(d, slot(c)) ELSE ring[slot(c)]
    BY <2>1 DEF Written
  <2>3. \A d \in commands : slot(d) = slot(c) => d <= c
    BY <1>0, <1>1, <1>4
  <2>4. CASE c \in commands
    <3>1. IsLast(c, slot(c))
      BY <2>3
    <3>2. \A d \in commands : IsLast(d, slot(c)) => d = c
      BY <2>3, <2>4, <1>0
    <3> QED
      BY <2>2, <2>4, <3>1, <3>2
  <2>5. CASE c \notin commands
    <3>1. c <= m
      BY <2>5, <1>0
    <3>2. \A d \in commands : slot(d) # slot(c)
      BY <3>1, <1>0, <1>1, <1>4
    <3>3. ring[slot(c)] = c
      BY <3>1, <1>0, <1>4 DEF RingHas
    <3> QED
      BY <2>2, <3>2, <3>3
  <2> QED
    BY <2>4, <2>5
<1> QED
  BY <1>3, <1>4 DEF RingHas

-----------------------------------------------------------------------------
(* The invariant.                                                          *)

LEMMA InitIInv == Init => IInv
<1> SUFFICES ASSUME Init PROVE IInv
  OBVIOUS
<1> USE ReliableCommandsAssumption, PacketsBound
<1>1. NewEndpoint \in Endpoint
  BY DEF NewEndpoint, Endpoint
<1>2. TypeOK
  BY <1>1 DEF Init, TypeOK, Slots, Commands
<1>3. WithinBounds /\ AcknowledgeFollows
  BY DEF Init, WithinBounds, AcknowledgeFollows, NewEndpoint
<1>4. \A e \in {NewEndpoint} : Way(e, e, {}, {}, 0, 0)
  BY DEF Way, NewEndpoint
<1>5. RingHas([i \in Slots |-> 0], 0)
  BY DEF RingHas, Slots, slot
<1>6. CommandsInOrder
  BY DEF Init, CommandsInOrder
<1> QED
  BY <1>2, <1>3, <1>4, <1>5, <1>6 DEF Init, IInv

\* What the type invariant says of each variable, for the lemmas above.
LEMMA Types ==
  ASSUME TypeOK
  PROVE  /\ server \in Endpoint /\ client \in Endpoint
         /\ fromServer \in SUBSET PacketType /\ fromClient \in SUBSET PacketType
         /\ toClient \in SUBSET PacketType /\ toServer \in SUBSET PacketType
         /\ incoming.server \in Nat /\ incoming.client \in Nat
         /\ connection.serverCommandSequence \in 0 .. MaxCommands
         /\ connection.reliableSequence \in 0 .. MaxCommands
         /\ connection.reliableAcknowledge \in 0 .. MaxCommands
         /\ serverCommands \in [Slots -> 0 .. MaxCommands]
         /\ reliableCommands \in [Slots -> 0 .. MaxCommands]
         /\ heard \in [server : Seq(Commands), client : Seq(Commands)]
BY ReliableCommandsAssumption DEF TypeOK

LEMMA ServerIssueStep == IInv /\ ServerIssue => IInv'
<1> SUFFICES ASSUME IInv, ServerIssue PROVE IInv'
  OBVIOUS
<1> USE DEF ServerIssue, observerVars, networkVars
<1>1. TypeOK'
  <2>1. server' \in Endpoint
    BY Types, IssueType DEF IInv
  <2> QED
    BY <2>1 DEF IInv, TypeOK
<1>2. /\ server'.acked = server.acked /\ server'.peerCommand = server.peerCommand
      /\ server'.received = server.received /\ server'.sent = server.sent
  BY Types DEF IInv, Endpoint
<1>3. Way(server, client, fromServer, toClient,
          incoming.server, connection.serverCommandSequence)'
  BY Types, WayIssue DEF IInv
<1>4. Way(client, server, fromClient, toServer,
          incoming.client, connection.reliableSequence)'
  BY <1>2, WayReceiverSame DEF IInv
<1> QED
  BY <1>1, <1>2, <1>3, <1>4
  DEF IInv, WithinBounds, RingHas, AcknowledgeFollows, CommandsInOrder

LEMMA ClientIssueStep == IInv /\ ClientIssue => IInv'
<1> SUFFICES ASSUME IInv, ClientIssue PROVE IInv'
  OBVIOUS
<1> USE DEF ClientIssue, observerVars, networkVars
<1>1. TypeOK'
  <2>1. client' \in Endpoint
    BY Types, IssueType DEF IInv
  <2> QED
    BY <2>1 DEF IInv, TypeOK
<1>2. /\ client'.acked = client.acked /\ client'.peerCommand = client.peerCommand
      /\ client'.received = client.received /\ client'.sent = client.sent
  BY Types DEF IInv, Endpoint
<1>3. Way(client, server, fromClient, toServer,
          incoming.client, connection.reliableSequence)'
  BY Types, WayIssue DEF IInv
<1>4. Way(server, client, fromServer, toClient,
          incoming.server, connection.serverCommandSequence)'
  BY <1>2, WayReceiverSame DEF IInv
<1> QED
  BY <1>1, <1>2, <1>3, <1>4
  DEF IInv, WithinBounds, RingHas, AcknowledgeFollows, CommandsInOrder

LEMMA ServerSendStep ==
  ASSUME NEW gamestate \in BOOLEAN
  PROVE  IInv /\ ServerSend(gamestate) => IInv'
<1> SUFFICES ASSUME IInv, ServerSend(gamestate) PROVE IInv'
  OBVIOUS
<1> USE DEF ServerSend, observerVars
<1> DEFINE new == Packet(server, gamestate)
<1>0. server.sent + 1 <= MaxServerPackets /\ server'.sent = server.sent + 1
  <2>1. server \in Endpoint
    BY Types DEF IInv
  <2>2. server.sent \in Nat /\ MaxServerPackets \in Nat
    BY <2>1, EndpointFields, PacketsBound, ReliableCommandsAssumption
  <2>3. server'.sent = server.sent + 1
    BY <2>1 DEF Endpoint
  <2> QED
    BY <2>2, <2>3
<1>1. TypeOK'
  <2>1. server' \in Endpoint /\ new \in PacketType
    <3>1. server \in Endpoint /\ server.sent < Packets
      BY <1>0, Types, EndpointFields, PacketsBound, ReliableCommandsAssumption DEF IInv
    <3> QED
      BY <3>1, SendType
  <2> QED
    BY <2>1 DEF IInv, TypeOK
<1>2. /\ server'.acked = server.acked /\ server'.peerCommand = server.peerCommand
      /\ server'.received = server.received
  BY Types DEF IInv, Endpoint
<1>3. Way(server, client, fromServer, toClient,
          incoming.server, connection.serverCommandSequence)'
  <2>1. client.acked <= server.peerCommand
    BY DEF IInv, Way
  <2> QED
    BY <2>1, Types, WaySend DEF IInv
<1>4. Way(client, server, fromClient, toServer,
          incoming.client, connection.reliableSequence)'
  BY <1>2, WayReceiverSame DEF IInv
<1>5. AcknowledgeFollows'
  <2>1. new.ack = server.peerCommand
    BY DEF Packet
  <2> QED
    BY <1>2, <2>1 DEF IInv, AcknowledgeFollows
<1> QED
  BY <1>0, <1>1, <1>3, <1>4, <1>5 DEF IInv, WithinBounds, RingHas, CommandsInOrder

LEMMA ClientSendStep == IInv /\ ClientSend => IInv'
<1> SUFFICES ASSUME IInv, ClientSend PROVE IInv'
  OBVIOUS
<1> USE DEF ClientSend, observerVars
<1> DEFINE new == Packet(client, FALSE)
<1>0. client.sent + 1 <= MaxClientPackets /\ client'.sent = client.sent + 1
  <2>1. client \in Endpoint
    BY Types DEF IInv
  <2>2. client.sent \in Nat /\ MaxClientPackets \in Nat
    BY <2>1, EndpointFields, PacketsBound, ReliableCommandsAssumption
  <2>3. client'.sent = client.sent + 1
    BY <2>1 DEF Endpoint
  <2> QED
    BY <2>2, <2>3
<1>1. TypeOK'
  <2>1. client' \in Endpoint /\ new \in PacketType
    <3>1. client \in Endpoint /\ client.sent < Packets
      BY <1>0, Types, EndpointFields, PacketsBound, ReliableCommandsAssumption DEF IInv
    <3> QED
      BY <3>1, SendType
  <2> QED
    BY <2>1 DEF IInv, TypeOK
<1>2. /\ client'.acked = client.acked /\ client'.peerCommand = client.peerCommand
      /\ client'.received = client.received
  BY Types DEF IInv, Endpoint
<1>3. Way(client, server, fromClient, toServer,
          incoming.client, connection.reliableSequence)'
  <2>1. server.acked <= client.peerCommand
    BY DEF IInv, Way
  <2> QED
    BY <2>1, Types, WaySend DEF IInv
<1>4. Way(server, client, fromServer, toClient,
          incoming.server, connection.serverCommandSequence)'
  BY <1>2, WayReceiverSame DEF IInv
<1> QED
  BY <1>0, <1>1, <1>3, <1>4
  DEF IInv, WithinBounds, RingHas, AcknowledgeFollows, CommandsInOrder

-----------------------------------------------------------------------------
(* Keys.                                                                   *)

\* Any packet still to come acknowledges one of the last commands of the other way,
\* as many as the ring has slots: the window of the endpoint that waits for the
\* acknowledgement is less than the ring.
LEMMA KeyIsKept ==
  ASSUME NEW s \in Endpoint, NEW r \in Endpoint,
         NEW sent \in SUBSET PacketType, NEW back \in SUBSET PacketType,
         NEW passed, NEW passedBack, NEW inc \in Nat, NEW incBack \in Nat,
         NEW seen \in 0 .. MaxCommands, NEW seenBack \in 0 .. MaxCommands,
         Way(s, r, sent, passed, inc, seen),
         Way(r, s, back, passedBack, incBack, seenBack),
         NEW p \in sent, p.seq > inc
  PROVE  /\ p.ack \in 0 .. seenBack
         /\ p.ack + MAX_RELIABLE_COMMANDS > seenBack
<1> USE ReliableCommandsAssumption
<1>1. /\ p.ack \in Nat /\ p.seq \in Nat /\ r.received \in Nat /\ r.acked \in Nat
      /\ r.issued \in Nat /\ s.peerCommand \in Nat
  BY PacketsBound DEF PacketType, Endpoint
<1>2. p.seq > r.received
  BY <1>1 DEF Way
<1>3. p.ack >= r.acked /\ p.ack <= s.peerCommand
  BY <1>2 DEF Way
<1>4. s.peerCommand <= seenBack /\ seenBack <= r.issued /\ r.issued <= r.acked + Window
  BY DEF Way
<1> QED
  BY <1>1, <1>3, <1>4

\* The acknowledgement is never taken for one that was overwritten: the branch of
\* ServerPacketParser.cpp lines 78-80 is not entered.
LEMMA AcknowledgedIsGiven ==
  ASSUME IInv, NEW p \in fromServer, p.seq > incoming.server
  PROVE  AcknowledgedBy(p) = p.ack
<1>1. p.ack + MAX_RELIABLE_COMMANDS > connection.reliableSequence
  BY Types, KeyIsKept DEF IInv
<1>2. p.ack \in Nat /\ connection.reliableSequence \in Nat
  BY Types, ReliableCommandsAssumption DEF IInv, PacketType
<1> QED
  BY <1>1, <1>2, ReliableCommandsAssumption DEF AcknowledgedBy

-----------------------------------------------------------------------------
(* The observer's steps.                                                   *)

LEMMA ObserveServerStep ==
  ASSUME NEW p \in fromServer
  PROVE  IInv /\ ObserveServer(p) => IInv'
<1> SUFFICES ASSUME IInv, ObserveServer(p) PROVE IInv'
  OBVIOUS
<1> USE DEF ObserveServer, handleConnfullPacketFromServer, endpointVars
<1> DEFINE seen == connection.serverCommandSequence
<1>0. /\ p \in PacketType /\ p.seq \in Nat /\ p.last \in 0 .. MaxCommands
      /\ p.ack \in 0 .. MaxCommands /\ seen \in 0 .. MaxCommands
  BY Types, PacketsBound DEF IInv, PacketType
<1>1. p.last >= seen /\ LeavesOutOnly(p, seen)
  BY DEF IInv, Way
<1>2. NewServerCommands(p) = seen + 1 .. p.last
  BY <1>0, <1>1, NewCommands DEF NewServerCommands
<1>3. NewServerCommandSequence(p) = p.last
  <2>1. CASE p.last > seen
    <3>1. p.last \in NewServerCommands(p)
      BY <1>0, <1>2, <2>1, ReliableCommandsAssumption
    <3> QED
      BY <3>1 DEF NewServerCommandSequence
  <2>2. CASE p.last = seen
    BY <2>2 DEF NewServerCommandSequence
  <2> QED
    BY <1>0, <1>1, <2>1, <2>2, ReliableCommandsAssumption
<1>4. AcknowledgedBy(p) = p.ack
  BY AcknowledgedIsGiven
<1>5. /\ connection'.serverCommandSequence = p.last
      /\ connection'.reliableAcknowledge = p.ack
      /\ connection'.reliableSequence = connection.reliableSequence
      /\ incoming'.server = p.seq /\ incoming'.client = incoming.client
      /\ heard'.server = heard.server \o Ascending(seen + 1 .. p.last)
      /\ heard'.client = heard.client
  BY <1>2, <1>3, <1>4 DEF IInv, TypeOK
<1>6. heard'.server = [i \in 1 .. p.last |-> i]
  <2>1. heard.server = [i \in 1 .. seen |-> i]
    BY DEF IInv, CommandsInOrder
  <2>2. seen \in Nat /\ p.last \in Nat /\ seen <= p.last
    BY <1>0, <1>1, ReliableCommandsAssumption
  <2>3. [i \in 1 .. seen |-> i] \o Ascending(seen + 1 .. p.last) = [i \in 1 .. p.last |-> i]
    BY <2>2, HeardOn
  <2> QED
    BY <1>5, <2>1, <2>3
<1>7. /\ serverCommands' \in [Slots -> 0 .. MaxCommands]
      /\ RingHas(serverCommands', p.last)
  BY <1>0, <1>1, <1>2, Types, RingWritten DEF IInv
<1>8. Way(server, client, fromServer, toClient',  p.seq, p.last)
  BY <1>0, Types, WayObserve DEF IInv
<1>9. TypeOK'
  <2>1. incoming' \in [server : 0 .. MaxServerPackets, client : 0 .. MaxClientPackets]
    <3>1. p.seq <= server.sent
      BY DEF IInv, Way
    <3>2. p.seq \in 0 .. MaxServerPackets
      <4>1. server.sent <= MaxServerPackets /\ server \in Endpoint
        BY Types DEF IInv, WithinBounds
      <4>2. server.sent \in Nat /\ MaxServerPackets \in Nat
        BY <4>1, EndpointFields, ReliableCommandsAssumption, PacketsBound
      <4> QED
        BY <1>0, <3>1, <4>1, <4>2
    <3> QED
      BY <3>2 DEF IInv, TypeOK
  <2>2. connection' \in [reliableSequence : 0 .. MaxCommands,
                         reliableAcknowledge : 0 .. MaxCommands,
                         serverCommandSequence : 0 .. MaxCommands]
    BY <1>0, <1>3, <1>4 DEF IInv, TypeOK
  <2>3. heard' \in [server : Seq(Commands), client : Seq(Commands)]
    <3>1. p.last \in Nat /\ \A i \in 1 .. p.last : i \in Commands
      BY <1>0, ReliableCommandsAssumption DEF Commands
    <3>2. [i \in 1 .. p.last |-> i] \in Seq(Commands)
      BY <3>1
    <3>3. heard'.server \in Seq(Commands)
      BY <1>6, <3>2
    <3>4. DOMAIN heard' = {"server", "client"} /\ heard' = [heard EXCEPT !.server = heard'.server]
      BY Types DEF IInv
    <3> QED
      BY <3>3, <3>4, Types DEF IInv
  <2>4. toClient' \subseteq PacketType
    BY <1>0, Types DEF IInv
  <2> QED
    BY <1>5, <1>7, <2>1, <2>2, <2>3, <2>4 DEF IInv, TypeOK
<1>10. AcknowledgeFollows'
  <2>1. p.ack <= server.peerCommand
    BY DEF IInv, Way
  <2>2. \A q \in fromServer : q.seq > p.seq => q.ack >= p.ack
    BY <1>0, Types, PacketsBound DEF IInv, Way, PacketType
  <2> QED
    BY <1>5, <2>1, <2>2 DEF AcknowledgeFollows
<1>11. CommandsInOrder'
  BY <1>5, <1>6 DEF IInv, CommandsInOrder
<1> QED
  BY <1>5, <1>7, <1>8, <1>9, <1>10, <1>11 DEF IInv, WithinBounds, RingHas

LEMMA ObserveClientStep ==
  ASSUME NEW p \in fromClient
  PROVE  IInv /\ ObserveClient(p) => IInv'
<1> SUFFICES ASSUME IInv, ObserveClient(p) PROVE IInv'
  OBVIOUS
<1> USE DEF ObserveClient, handleConnfullPacketFromClient, endpointVars
<1> DEFINE seen == connection.reliableSequence
<1>0. /\ p \in PacketType /\ p.seq \in Nat /\ p.last \in 0 .. MaxCommands
      /\ seen \in 0 .. MaxCommands
  BY Types, PacketsBound DEF IInv, PacketType
<1>1. p.last >= seen /\ LeavesOutOnly(p, seen)
  BY DEF IInv, Way
<1>2. NewClientCommands(p) = seen + 1 .. p.last
  BY <1>0, <1>1, NewCommands DEF NewClientCommands
<1>3. (IF NewClientCommands(p) # {} THEN p.last ELSE seen) = p.last
  <2>1. CASE p.last > seen
    <3>1. p.last \in NewClientCommands(p)
      BY <1>0, <1>2, <2>1, ReliableCommandsAssumption
    <3> QED
      BY <3>1
  <2>2. CASE p.last = seen
    BY <2>2
  <2> QED
    BY <1>0, <1>1, <2>1, <2>2, ReliableCommandsAssumption
<1>5. /\ connection'.reliableSequence = p.last
      /\ connection'.reliableAcknowledge = connection.reliableAcknowledge
      /\ connection'.serverCommandSequence = connection.serverCommandSequence
      /\ incoming'.client = p.seq /\ incoming'.server = incoming.server
      /\ heard'.client = heard.client \o Ascending(seen + 1 .. p.last)
      /\ heard'.server = heard.server
  BY <1>2, <1>3 DEF IInv, TypeOK
<1>6. heard'.client = [i \in 1 .. p.last |-> i]
  <2>1. heard.client = [i \in 1 .. seen |-> i]
    BY DEF IInv, CommandsInOrder
  <2>2. seen \in Nat /\ p.last \in Nat /\ seen <= p.last
    BY <1>0, <1>1, ReliableCommandsAssumption
  <2>3. [i \in 1 .. seen |-> i] \o Ascending(seen + 1 .. p.last) = [i \in 1 .. p.last |-> i]
    BY <2>2, HeardOn
  <2> QED
    BY <1>5, <2>1, <2>3
<1>7. /\ reliableCommands' \in [Slots -> 0 .. MaxCommands]
      /\ RingHas(reliableCommands', p.last)
  BY <1>0, <1>1, <1>2, Types, RingWritten DEF IInv
<1>8. Way(client, server, fromClient, toServer',  p.seq, p.last)
  BY <1>0, Types, WayObserve DEF IInv
<1>9. TypeOK'
  <2>1. incoming' \in [server : 0 .. MaxServerPackets, client : 0 .. MaxClientPackets]
    <3>1. p.seq <= client.sent
      BY DEF IInv, Way
    <3>2. p.seq \in 0 .. MaxClientPackets
      <4>1. client.sent <= MaxClientPackets /\ client \in Endpoint
        BY Types DEF IInv, WithinBounds
      <4>2. client.sent \in Nat /\ MaxClientPackets \in Nat
        BY <4>1, EndpointFields, ReliableCommandsAssumption, PacketsBound
      <4> QED
        BY <1>0, <3>1, <4>1, <4>2
    <3> QED
      BY <3>2 DEF IInv, TypeOK
  <2>2. connection' \in [reliableSequence : 0 .. MaxCommands,
                         reliableAcknowledge : 0 .. MaxCommands,
                         serverCommandSequence : 0 .. MaxCommands]
    BY <1>0, <1>3 DEF IInv, TypeOK
  <2>3. heard' \in [server : Seq(Commands), client : Seq(Commands)]
    <3>1. p.last \in Nat /\ \A i \in 1 .. p.last : i \in Commands
      BY <1>0, ReliableCommandsAssumption DEF Commands
    <3>2. [i \in 1 .. p.last |-> i] \in Seq(Commands)
      BY <3>1
    <3>3. heard'.client \in Seq(Commands)
      BY <1>6, <3>2
    <3>4. DOMAIN heard' = {"server", "client"} /\ heard' = [heard EXCEPT !.client = heard'.client]
      BY Types DEF IInv
    <3> QED
      BY <3>3, <3>4, Types DEF IInv
  <2>4. toServer' \subseteq PacketType
    BY <1>0, Types DEF IInv
  <2> QED
    BY <1>5, <1>7, <2>1, <2>2, <2>3, <2>4 DEF IInv, TypeOK
<1>10. AcknowledgeFollows'
  BY <1>5 DEF IInv, AcknowledgeFollows
<1>11. CommandsInOrder'
  BY <1>5, <1>6 DEF IInv, CommandsInOrder
<1> QED
  BY <1>5, <1>7, <1>8, <1>9, <1>10, <1>11 DEF IInv, WithinBounds, RingHas

-----------------------------------------------------------------------------
(* The endpoints receive.                                                  *)

LEMMA ClientReceiveStep ==
  ASSUME NEW p \in toClient
  PROVE  IInv /\ ClientReceive(p) => IInv'
<1> SUFFICES ASSUME IInv, ClientReceive(p) PROVE IInv'
  OBVIOUS
<1> USE DEF ClientReceive, observerVars, networkVars
<1>0. p \in PacketType /\ p \in fromServer
  BY Types DEF IInv, Way
<1>1. TypeOK'
  <2>1. client' \in Endpoint
    BY <1>0, Types, HearType DEF IInv
  <2> QED
    BY <2>1 DEF IInv, TypeOK
<1>2. Way(server, client, fromServer, toClient,
          incoming.server, connection.serverCommandSequence)'
  BY Types, WayReceive DEF IInv
<1>3. Way(client, server, fromClient, toServer,
          incoming.client, connection.reliableSequence)'
  <2>1. client.acked <= p.ack /\ p.ack <= server.peerCommand
    BY <1>0 DEF IInv, Way
  <2> QED
    BY <1>0, <2>1, Types, WayAcknowledged DEF IInv
<1>4. client'.sent = client.sent
  BY Types DEF IInv, Hear, Endpoint
<1> QED
  BY <1>1, <1>2, <1>3, <1>4
  DEF IInv, WithinBounds, RingHas, AcknowledgeFollows, CommandsInOrder

LEMMA ServerReceiveStep ==
  ASSUME NEW p \in toServer
  PROVE  IInv /\ ServerReceive(p) => IInv'
<1> SUFFICES ASSUME IInv, ServerReceive(p) PROVE IInv'
  OBVIOUS
<1> USE DEF ServerReceive, observerVars, networkVars
<1>0. p \in PacketType /\ p \in fromClient
  BY Types DEF IInv, Way
<1>1. TypeOK'
  <2>1. server' \in Endpoint
    BY <1>0, Types, HearType DEF IInv
  <2> QED
    BY <2>1 DEF IInv, TypeOK
<1>2. Way(client, server, fromClient, toServer,
          incoming.client, connection.reliableSequence)'
  BY Types, WayReceive DEF IInv
<1>3. Way(server, client, fromServer, toClient,
          incoming.server, connection.serverCommandSequence)'
  <2>1. server.acked <= p.ack /\ p.ack <= client.peerCommand
    BY <1>0 DEF IInv, Way
  <2> QED
    BY <1>0, <2>1, Types, WayAcknowledged DEF IInv
<1>4. server'.sent = server.sent
  BY Types DEF IInv, Hear, Endpoint
<1>5. AcknowledgeFollows'
  <2>0. server \in Endpoint /\ connection.reliableAcknowledge \in Nat
    BY Types, ReliableCommandsAssumption DEF IInv
  <2>2. server.peerCommand \in Nat /\ connection.reliableAcknowledge \in Nat
    BY <2>0, EndpointFields, ReliableCommandsAssumption
  <2>3. p.last \in Nat
    BY <1>0, ReliableCommandsAssumption DEF PacketType
  <2>4. server'.peerCommand = IF p.last > server.peerCommand THEN p.last ELSE server.peerCommand
    BY <2>0 DEF Hear, Endpoint
  <2>1. server'.peerCommand >= server.peerCommand /\ server'.peerCommand \in Nat
    BY <2>2, <2>3, <2>4
  <2> QED
    BY <2>1, <2>2 DEF IInv, AcknowledgeFollows
<1> QED
  BY <1>1, <1>2, <1>3, <1>4, <1>5 DEF IInv, WithinBounds, RingHas, CommandsInOrder

-----------------------------------------------------------------------------
LEMMA IInvStep == IInv /\ [Next]_vars => IInv'
<1>1. CASE UNCHANGED vars
  BY <1>1 DEF vars, endpointVars, observerVars, networkVars, IInv, TypeOK, WithinBounds, Way,
     LeavesOutOnly, RingHas, AcknowledgeFollows, CommandsInOrder
<1>2. CASE Next
  BY <1>2, ServerIssueStep, ClientIssueStep, ServerSendStep, ClientSendStep,
     ObserveServerStep, ObserveClientStep, ClientReceiveStep, ServerReceiveStep DEF Next
<1> QED
  BY <1>1, <1>2

LEMMA SpecIInv == Spec => []IInv
BY InitIInv, IInvStep, PTL DEF Spec

\* Every variable of the two endpoints, the observer between them and the packets
\* under way keeps its type.
THEOREM TypeCorrect == Spec => []TypeOK
<1>1. IInv => TypeOK
  BY DEF IInv
<1> QED
  BY <1>1, SpecIInv, PTL

\* Whatever is lost, repeated or reordered, every packet of the server that the
\* observer still lets through is decoded with the command it was encoded with
\* (PacketEncoder.h line 62).
THEOREM ServerPacketsAreDecoded == Spec => []ServerPacketsDecode
<1>1. ASSUME IInv, NEW p \in fromServer, p.seq > incoming.server
      PROVE  serverPacketKey(p) = p.ack
  <2>1. /\ p.ack \in 0 .. connection.reliableSequence
        /\ p.ack + MAX_RELIABLE_COMMANDS > connection.reliableSequence
    BY <1>1, Types, KeyIsKept DEF IInv
  <2> QED
    BY <1>1, <2>1 DEF IInv, RingHas, serverPacketKey
<1>2. IInv => ServerPacketsDecode
  BY <1>1 DEF ServerPacketsDecode
<1> QED
  BY <1>2, SpecIInv, PTL

\* So is every packet of the client (PacketEncoder.h line 91).
THEOREM ClientPacketsAreDecoded == Spec => []ClientPacketsDecode
<1>1. ASSUME IInv, NEW p \in fromClient, p.seq > incoming.client
      PROVE  clientPacketKey(p) = p.ack
  <2>1. /\ p.ack \in 0 .. connection.serverCommandSequence
        /\ p.ack + MAX_RELIABLE_COMMANDS > connection.serverCommandSequence
    BY <1>1, Types, KeyIsKept DEF IInv
  <2> QED
    BY <1>1, <2>1 DEF IInv, RingHas, clientPacketKey
<1>2. IInv => ClientPacketsDecode
  BY <1>1 DEF ClientPacketsDecode
<1> QED
  BY <1>2, SpecIInv, PTL

\* The listener is given every command of either endpoint once and in order
\* (ServerPacketParser.cpp lines 184-191, ClientPacketParser.cpp lines 67-70).
THEOREM CommandsHeardInOrder == Spec => []CommandsInOrder
<1>1. IInv => CommandsInOrder
  BY DEF IInv
<1> QED
  BY <1>1, SpecIInv, PTL

\* The endpoints acknowledge nothing the observer has not seen, and the observer
\* keeps no acknowledgement the server did not give (ServerPacketParser.cpp lines
\* 78-80).
THEOREM ObserverStaysAhead == Spec => []ObserverIsAhead
<1>1. IInv => ObserverIsAhead
  BY DEF IInv, ObserverIsAhead, Way, AcknowledgeFollows
<1> QED
  BY <1>1, SpecIInv, PTL

\* Neither the server's last command nor the acknowledgement it gave goes back,
\* though a gamestate sets the one without a look at what it was
\* (ServerPacketParser.cpp line 199).
THEOREM SequencesNeverGoBack == Spec => NeverBack
<1> DEFINE Step == /\ connection'.serverCommandSequence >= connection.serverCommandSequence
                   /\ connection'.reliableAcknowledge >= connection.reliableAcknowledge
<1>1. IInv /\ [Next]_vars => [Step]_connection
  <2> SUFFICES ASSUME IInv, Next, connection' # connection PROVE Step
    BY DEF vars, observerVars
  <2>1. /\ connection.serverCommandSequence \in Nat
        /\ connection.reliableAcknowledge \in Nat
    BY Types, ReliableCommandsAssumption DEF IInv
  <2>2. ASSUME NEW p \in fromServer, ObserveServer(p) PROVE Step
    <3>1. p.seq > incoming.server
      BY <2>2 DEF ObserveServer
    <3>2. p.ack >= connection.reliableAcknowledge /\ AcknowledgedBy(p) = p.ack
      BY <3>1, AcknowledgedIsGiven DEF IInv, AcknowledgeFollows
    <3>3. p.last >= connection.serverCommandSequence
      BY <3>1 DEF IInv, Way
    <3>4. /\ connection'.reliableAcknowledge = p.ack
          /\ connection'.serverCommandSequence \in {p.last, connection.serverCommandSequence}
      BY <2>2, <3>2 DEF ObserveServer, handleConnfullPacketFromServer, IInv, TypeOK,
         NewServerCommandSequence
    <3> QED
      BY <2>1, <3>2, <3>3, <3>4
  <2>3. ASSUME NEW p \in fromClient, ObserveClient(p) PROVE Step
    <3>1. /\ connection'.reliableAcknowledge = connection.reliableAcknowledge
          /\ connection'.serverCommandSequence = connection.serverCommandSequence
      BY <2>3 DEF ObserveClient, handleConnfullPacketFromClient, IInv, TypeOK
    <3> QED
      BY <2>1, <3>1
  <2> QED
    BY <2>2, <2>3 DEF Next, ServerIssue, ClientIssue, ServerSend, ClientSend, ClientReceive,
       ServerReceive, observerVars
<1> QED
  BY <1>1, SpecIInv, PTL DEF Spec, NeverBack
=============================================================================
