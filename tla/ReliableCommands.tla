-------------------------- MODULE ReliableCommands --------------------------
(***************************************************************************)
(* Reliable commands on their way through the library.  A client and a     *)
(* server number their commands, repeat them in every packet until they    *)
(* are acknowledged, and scramble each packet with the text of the last    *)
(* command they acknowledge.  The application sits between them: it        *)
(* decodes what its Netchan lets through with its own copy of the commands *)
(* (ReliableCommandsStore), parses it (ServerPacketParser,                 *)
(* ClientPacketParser) and passes it on.  Both legs of either way lose,    *)
(* duplicate and reorder packets.                                          *)
(*                                                                         *)
(* A command is its number; 0 is the empty string of a slot never written. *)
(* The connection is established: packets that come before CA_CONNECTED    *)
(* are not in this module.                                                 *)
(***************************************************************************)
EXTENDS Integers, Sequences, FiniteSetsExt

CONSTANTS MAX_RELIABLE_COMMANDS,  \* slots of either ring
          Window,       \* most commands an endpoint has unacknowledged
          MaxCommands,  \* bound: commands issued by either endpoint
          MaxServerPackets, MaxClientPackets  \* bounds: packets sent by each endpoint

ASSUME ReliableCommandsAssumption ==
  /\ MAX_RELIABLE_COMMANDS \in Nat \ {0}
  /\ Window \in 1 .. MAX_RELIABLE_COMMANDS - 1
  /\ MaxCommands \in Nat
  /\ MaxServerPackets \in Nat /\ MaxClientPackets \in Nat

VARIABLES
  server,            \* endpoint: what it issued, what of it is acknowledged,
  client,            \*   the peer's last command, packets sent and received
  connection,        \* the observer's ClientConnection
  reliableCommands,  \* the observer's ring of client commands
  serverCommands,    \* the observer's ring of server commands
  incoming,          \* incomingSequence of the observer's two Netchans
  fromServer,        \* packets the server sent
  toClient,          \* those the observer passed on
  fromClient,        \* packets the client sent
  toServer,          \* those the observer passed on
  heard              \* history: commands the listener was given, in order

endpointVars == <<server, client>>
observerVars == <<connection, reliableCommands, serverCommands, incoming, heard>>
networkVars  == <<fromServer, toClient, fromClient, toServer>>
vars == <<endpointVars, observerVars, networkVars>>

Commands == 1 .. MaxCommands
Slots    == 0 .. MAX_RELIABLE_COMMANDS - 1

NewEndpoint == [issued |-> 0, acked |-> 0, peerCommand |-> 0, sent |-> 0, received |-> 0]

Init ==
  /\ server = NewEndpoint
  /\ client = NewEndpoint
  /\ connection = [reliableSequence |-> 0, reliableAcknowledge |-> 0,
                   serverCommandSequence |-> 0]
  /\ reliableCommands = [i \in Slots |-> 0]
  /\ serverCommands = [i \in Slots |-> 0]
  /\ incoming = [server |-> 0, client |-> 0]
  /\ fromServer = {} /\ toClient = {}
  /\ fromClient = {} /\ toServer = {}
  /\ heard = [server |-> << >>, client |-> << >>]

-----------------------------------------------------------------------------
(* The endpoints.                                                          *)

CanIssue(e) == e.issued < MaxCommands /\ e.issued - e.acked < Window

\* A packet repeats every command not acknowledged yet.
Packet(e, gamestate) ==
  [seq |-> e.sent + 1, ack |-> e.peerCommand, gamestate |-> gamestate,
   commands |-> e.acked + 1 .. e.issued, last |-> e.issued]

Hear(e, p) ==
  [e EXCEPT !.received = p.seq, !.acked = p.ack,
            !.peerCommand = IF p.last > @ THEN p.last ELSE @]

ServerIssue ==
  /\ CanIssue(server)
  /\ server' = [server EXCEPT !.issued = @ + 1]
  /\ UNCHANGED <<client, observerVars, networkVars>>

ClientIssue ==
  /\ CanIssue(client)
  /\ client' = [client EXCEPT !.issued = @ + 1]
  /\ UNCHANGED <<server, observerVars, networkVars>>

ServerSend(gamestate) ==
  /\ server.sent < MaxServerPackets
  /\ server' = [server EXCEPT !.sent = @ + 1]
  /\ fromServer' = fromServer \cup {Packet(server, gamestate)}
  /\ UNCHANGED <<client, observerVars, toClient, fromClient, toServer>>

ClientSend ==
  /\ client.sent < MaxClientPackets
  /\ client' = [client EXCEPT !.sent = @ + 1]
  /\ fromClient' = fromClient \cup {Packet(client, FALSE)}
  /\ UNCHANGED <<server, observerVars, fromServer, toClient, toServer>>

ClientReceive(p) ==
  /\ p.seq > client.received
  /\ client' = Hear(client, p)
  /\ UNCHANGED <<server, observerVars, networkVars>>

ServerReceive(p) ==
  /\ p.seq > server.received
  /\ server' = Hear(server, p)
  /\ UNCHANGED <<client, observerVars, networkVars>>

-----------------------------------------------------------------------------
(* The observer.                                                           *)

\* Mutant: an index over one slot less than there is.
SlotOfSmallerRing(sequence) == sequence % (MAX_RELIABLE_COMMANDS - 1)

slot(sequence) == sequence % MAX_RELIABLE_COMMANDS

\* The ring once the commands are written to it, the greatest last.
Written(ring, commands) ==
  [i \in Slots |->
     IF \E c \in commands : slot(c) = i
     THEN CHOOSE c \in commands :
            slot(c) = i /\ \A d \in commands : slot(d) = i => d <= c
     ELSE ring[i]]

\* A set of commands in ascending order: a packet lists them so.
Ascending(commands) ==
  [i \in 1 .. Cardinality(commands) |->
     CHOOSE c \in commands : Cardinality({d \in commands : d <= c}) = i]

\* The text either encoder takes the key from.
serverPacketKey(p) == reliableCommands[slot(p.ack)]
clientPacketKey(p) == serverCommands[slot(p.ack)]

\* Mutant: whatever is not acknowledged counts as overwritten.
ClampAtOnce(p) ==
  IF p.ack < connection.reliableSequence THEN connection.reliableSequence ELSE p.ack

AcknowledgedBy(p) ==
  IF p.ack + MAX_RELIABLE_COMMANDS < connection.reliableSequence
  THEN connection.reliableSequence
  ELSE p.ack

\* parseServerCommand for each command of the packet, then parseGamestate.
NewServerCommands(p) == {c \in p.commands : c > connection.serverCommandSequence}

\* Mutant: the command expected next, not the last one.
NextServerCommandSequence(p) ==
  IF p.gamestate \/ NewServerCommands(p) # {} THEN p.last + 1
  ELSE connection.serverCommandSequence

NewServerCommandSequence(p) ==
  IF p.gamestate \/ NewServerCommands(p) # {} THEN p.last
  ELSE connection.serverCommandSequence

\* Mutant: server commands are kept in the ring of client commands.
StoreInTheOtherRing(p) ==
  /\ incoming' = [incoming EXCEPT !.server = p.seq]
  /\ connection' = [connection EXCEPT !.reliableAcknowledge = AcknowledgedBy(p),
                                      !.serverCommandSequence = NewServerCommandSequence(p)]
  /\ reliableCommands' = Written(reliableCommands, NewServerCommands(p))
  /\ heard' = [heard EXCEPT !.server = @ \o Ascending(NewServerCommands(p))]
  /\ toClient' = toClient \cup {p}
  /\ UNCHANGED <<endpointVars, serverCommands, fromServer, fromClient, toServer>>

handleConnfullPacketFromServer(p) ==
  /\ incoming' = [incoming EXCEPT !.server = p.seq]
  /\ connection' = [connection EXCEPT !.reliableAcknowledge = AcknowledgedBy(p),
                                      !.serverCommandSequence = NewServerCommandSequence(p)]
  /\ serverCommands' = Written(serverCommands, NewServerCommands(p))
  /\ heard' = [heard EXCEPT !.server = @ \o Ascending(NewServerCommands(p))]
  /\ toClient' = toClient \cup {p}
  /\ UNCHANGED <<endpointVars, reliableCommands, fromServer, fromClient, toServer>>

\* Mutant: the Netchan lets an old packet through.
ObserveServerInAnyOrder(p) ==
  /\ p.seq # incoming.server
  /\ handleConnfullPacketFromServer(p)

ObserveServer(p) ==
  /\ p.seq > incoming.server
  /\ handleConnfullPacketFromServer(p)

\* parseClientCommand for each command of the packet.
\* Mutant: the last command is taken again.
ClientCommandsAgain(p) == {c \in p.commands : c >= connection.reliableSequence}

NewClientCommands(p) == {c \in p.commands : c > connection.reliableSequence}

handleConnfullPacketFromClient(p) ==
  /\ incoming' = [incoming EXCEPT !.client = p.seq]
  /\ connection' = [connection EXCEPT
       !.reliableSequence = IF NewClientCommands(p) # {} THEN p.last ELSE @]
  /\ reliableCommands' = Written(reliableCommands, NewClientCommands(p))
  /\ heard' = [heard EXCEPT !.client = @ \o Ascending(NewClientCommands(p))]
  /\ toServer' = toServer \cup {p}
  /\ UNCHANGED <<endpointVars, serverCommands, fromServer, toClient, fromClient>>

ObserveClient(p) ==
  /\ p.seq > incoming.client
  /\ handleConnfullPacketFromClient(p)

Next ==
  \/ ServerIssue
  \/ ClientIssue
  \/ \E gamestate \in BOOLEAN : ServerSend(gamestate)
  \/ ClientSend
  \/ \E p \in fromServer : ObserveServer(p)
  \/ \E p \in fromClient : ObserveClient(p)
  \/ \E p \in toClient : ClientReceive(p)
  \/ \E p \in toServer : ServerReceive(p)

Spec == Init /\ [][Next]_vars

-----------------------------------------------------------------------------
(* Properties.                                                             *)

Packets == Max({MaxServerPackets, MaxClientPackets})

Endpoint == [issued : 0 .. MaxCommands, acked : 0 .. MaxCommands,
             peerCommand : 0 .. MaxCommands, sent : 0 .. Packets, received : 0 .. Packets]

PacketType == [seq : 1 .. Packets, ack : 0 .. MaxCommands, gamestate : BOOLEAN,
               commands : SUBSET Commands, last : 0 .. MaxCommands]

\* Every variable keeps its type.
TypeOK ==
  /\ server \in Endpoint /\ client \in Endpoint
  /\ connection \in [reliableSequence : 0 .. MaxCommands,
                     reliableAcknowledge : 0 .. MaxCommands,
                     serverCommandSequence : 0 .. MaxCommands]
  /\ reliableCommands \in [Slots -> 0 .. MaxCommands]
  /\ serverCommands \in [Slots -> 0 .. MaxCommands]
  /\ incoming \in [server : 0 .. MaxServerPackets, client : 0 .. MaxClientPackets]
  /\ \A ps \in {fromServer, toClient, fromClient, toServer} : ps \subseteq PacketType
  /\ heard \in [server : Seq(Commands), client : Seq(Commands)]

\* Every packet from the server that the observer's Netchan would still let
\* through is decoded with the command the server scrambled it with: the slot
\* of PacketEncoder.h line 62 has not been taken by a later command, and the
\* command has been seen.
ServerPacketsDecode ==
  \A p \in fromServer : p.seq > incoming.server => serverPacketKey(p) = p.ack

\* The same of packets from the client (PacketEncoder.h line 91).
ClientPacketsDecode ==
  \A p \in fromClient : p.seq > incoming.client => clientPacketKey(p) = p.ack

\* The listener is given every command, once, in the order it was issued,
\* although parseServerCommand and parseClientCommand accept any number
\* greater than the last one (ServerPacketParser.cpp lines 184-191,
\* ClientPacketParser.cpp lines 67-70).
CommandsInOrder ==
  /\ heard.server = [i \in 1 .. connection.serverCommandSequence |-> i]
  /\ heard.client = [i \in 1 .. connection.reliableSequence |-> i]

\* What the endpoints acknowledge to each other, the observer has seen; and the
\* acknowledgement it keeps is one the server gave, never the last command put
\* in its place because that seemed too far ahead (ServerPacketParser.cpp lines
\* 78-80).
ObserverIsAhead ==
  /\ client.peerCommand <= connection.serverCommandSequence
  /\ server.peerCommand <= connection.reliableSequence
  /\ connection.reliableAcknowledge <= server.peerCommand

\* The sequence number a gamestate sets is never an earlier one
\* (ServerPacketParser.cpp line 199), and the reliableAcknowledge that the
\* library keeps never goes back.
NeverBack ==
  [][/\ connection'.serverCommandSequence >= connection.serverCommandSequence
     /\ connection'.reliableAcknowledge >= connection.reliableAcknowledge]_connection
=============================================================================
