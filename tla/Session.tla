------------------------------ MODULE Session ------------------------------
(***************************************************************************)
(* One connection after another.  A client asks for a challenge, connects, *)
(* plays, and starts over; the application follows: ServerPacketParser     *)
(* takes its state from the four connectionless packets, resets everything *)
(* it knows when a new connection begins, and keeps the configstrings,     *)
(* which a gamestate brings and reliable commands change.                  *)
(*                                                                         *)
(* An attempt to connect is its number; that number is also the challenge  *)
(* the server gives for it and the info the client sends with it.  The     *)
(* endpoints answer packets of the current attempt only.  A packet of the  *)
(* server's carries all its commands so far; the application's Netchan     *)
(* lets only newer packets through and starts again with the session.      *)
(***************************************************************************)
EXTENDS Integers, Sequences, FiniteSets, SequencesExt

CONSTANTS Indices,        \* of configstrings
          LateHandshake,  \* do connectionless packets come late or twice?
          MaxAttempts,    \* bound: connections the client begins
          MaxCommands,    \* bound: commands of a session
          MaxPackets      \* bound: packets the server sends in a session

ASSUME SessionAssumption ==
  /\ LateHandshake \in BOOLEAN
  /\ MaxAttempts \in Nat /\ MaxCommands \in Nat /\ MaxPackets \in Nat

VARIABLES
  client,        \* [state, attempt]
  server,        \* [attempt, packets]: the session it plays, packets sent in it
  issued,        \* the commands of every session
  requests,      \* connectionless packets of the client's on their way to the observer
  answers,       \* those of the server's
  toServer,      \* connectionless packets the observer has passed on
  toClient,
  fromServer,    \* the server's packets of all sessions
  connection,    \* the observer's ClientConnection
  gameState,     \* of its ClientGameState: info, configStrings, whose world it has
  bigInfoStringBuffer,
  netchan,       \* the application's Netchan: its session and incomingSequence
  primed         \* history: has the gamestate of this session been seen?

endpointVars == <<client, server, issued>>
oobVars      == <<requests, answers, toServer, toClient>>
parserVars   == <<connection, gameState, bigInfoStringBuffer>>
vars == <<endpointVars, oobVars, fromServer, parserVars, netchan, primed>>

Attempts == 1 .. MaxAttempts
Oob(type, attempt) == [type |-> type, attempt |-> attempt]

\* The states the parser distinguishes, in the order of connstate_t.
CA_DISCONNECTED == 1
CA_CONNECTING   == 3
CA_CHALLENGING  == 4
CA_CONNECTED    == 5

-----------------------------------------------------------------------------
(* Configstrings.  A text is a sequence of pieces; a long one goes out as  *)
(* bcs0, bcs1 and bcs2 with a piece each.                                  *)

Short == <<"short">>
Long  == <<"first", "middle", "last">>

cs(i, text)         == [name |-> "cs", index |-> i, text |-> text]
bcs(name, i, piece) == [name |-> name, index |-> i, text |-> <<piece>>]

CommandsFor(i, text) ==
  IF Len(text) = 1 THEN <<cs(i, text)>>
  ELSE <<bcs("bcs0", i, text[1]), bcs("bcs1", i, text[2]), bcs("bcs2", i, text[3])>>

\* The server's own configstrings after the first n commands of a session.
ConfigstringsAfter(session, n) ==
  [i \in Indices |->
     LET texts == {k \in 1 .. n : issued[session][k].name \in {"cs", "bcs2"}
                                    /\ issued[session][k].index = i}
     IN IF texts = {} THEN << >>
        ELSE LET k == CHOOSE k \in texts : \A l \in texts : l <= k
             IN IF issued[session][k].name = "cs" THEN Short ELSE Long]

-----------------------------------------------------------------------------
(* The parser, as functions of p = [connection, gameState, bigInfo].       *)

NewConnection(challenge) ==
  [state |-> CA_DISCONNECTED, challenge |-> challenge, serverCommandSequence |-> 0]

NewGameState ==
  [info |-> 0, configStrings |-> [i \in Indices |-> << >>], world |-> 0]

\* Mutant: the configstrings of the session before stay.
ResetConnectionOnly(p, challenge) ==
  [p EXCEPT !.connection = NewConnection(challenge), !.gameState.info = 0,
            !.gameState.world = 0]

reset(p, challenge) ==
  [p EXCEPT !.connection = NewConnection(challenge), !.gameState = NewGameState]

setConnectionState(p, state) == [p EXCEPT !.connection.state = state]

setConfigstring(p, i, text) == [p EXCEPT !.gameState.configStrings[i] = text]

\* Mutant: the text is executed but stays in the buffer.
FlushNothing(p) == p

\* The big string built so far is the text of a "cs": its index is that of the
\* bcs0 it starts with, whatever else has got into the buffer.
flushBigInfoString(p) == [p EXCEPT !.bigInfo = << >>]

execute(p, c) ==
  LET appended == [p EXCEPT !.bigInfo = Append(@, c)]
  IN CASE c.name = "cs"         -> setConfigstring(p, c.index, c.text)
       [] c.name = "disconnect" -> reset(p, 0)
       [] c.name = "bcs2"       ->
            setConfigstring(flushBigInfoString(appended), appended.bigInfo[1].index,
                            FlattenSeq([k \in DOMAIN appended.bigInfo |->
                                          appended.bigInfo[k].text]))
       [] OTHER                 -> appended

\* Mutant: the last command is taken again.
CommandTakenAgain(p, seq, c) ==
  IF p.connection.serverCommandSequence > seq THEN p
  ELSE execute([p EXCEPT !.connection.serverCommandSequence = seq], c)

parseServerCommand(p, seq, c) ==
  IF p.connection.serverCommandSequence >= seq THEN p
  ELSE execute([p EXCEPT !.connection.serverCommandSequence = seq], c)

parseGamestate(p, m) ==
  [p EXCEPT !.connection.serverCommandSequence = m.last,
            !.gameState.configStrings = ConfigstringsAfter(m.attempt, m.last)]

\* A message has its commands first, then a gamestate or a snapshot; a command
\* that resets everything does not end it.
parseMessage(p, m) ==
  LET after[k \in 0 .. m.last] ==
        IF k = 0 THEN p
        ELSE parseServerCommand(after[k - 1], k, issued[m.attempt][k])
  IN IF m.gamestate THEN parseGamestate(after[m.last], m)
     ELSE [after[m.last] EXCEPT !.gameState.world = m.attempt]

handleConnfullPacketFromServer(p, m) ==
  IF p.connection.state < CA_CONNECTED THEN p ELSE parseMessage(p, m)

handleOobPacketFromClient(p, m) ==
  CASE m.type = "getchallenge" -> setConnectionState(p, CA_CONNECTING)
    [] m.type = "connect" ->
         setConnectionState([p EXCEPT !.gameState.info = m.attempt,
                                      !.connection.challenge = m.attempt],
                            CA_CONNECTING)

\* Mutant: the parser starts over when it is connected, not when it begins.
ResetWhenConnected(p, m) ==
  CASE m.type = "challengeResponse" ->
         IF p.connection.state = CA_CONNECTING
         THEN setConnectionState(p, CA_CHALLENGING) ELSE p
    [] m.type = "connectResponse" ->
         setConnectionState(reset(p, p.connection.challenge), CA_CONNECTED)

handleOobPacketFromServer(p, m) ==
  CASE m.type = "challengeResponse" ->
         IF p.connection.state = CA_CONNECTING
         THEN setConnectionState(reset(p, m.attempt), CA_CHALLENGING) ELSE p
    [] m.type = "connectResponse" -> setConnectionState(p, CA_CONNECTED)

Parser ==
  [connection |-> connection, gameState |-> gameState, bigInfo |-> bigInfoStringBuffer]

ParserBecomes(p) ==
  /\ connection' = p.connection
  /\ gameState' = p.gameState
  /\ bigInfoStringBuffer' = p.bigInfo

-----------------------------------------------------------------------------
Init ==
  /\ client = [state |-> CA_DISCONNECTED, attempt |-> 0]
  /\ server = [attempt |-> 0, packets |-> 0]
  /\ issued = [a \in Attempts |-> << >>]
  /\ requests = {} /\ answers = {} /\ toServer = {} /\ toClient = {}
  /\ fromServer = {}
  /\ connection = NewConnection(0)
  /\ gameState = NewGameState
  /\ bigInfoStringBuffer = << >>
  /\ netchan = [session |-> 0, incomingSequence |-> 0]
  /\ primed = FALSE

\* What is under way stays so, for it may arrive twice, or is gone.
Left(packets, p) == IF LateHandshake THEN packets ELSE packets \ {p}

-----------------------------------------------------------------------------
(* The client.                                                             *)

\* A new attempt; unless packets come late, those of the last one are lost.
ClientBegins ==
  /\ client.attempt < MaxAttempts
  /\ client' = [state |-> CA_CONNECTING, attempt |-> client.attempt + 1]
  /\ requests' = (IF LateHandshake THEN requests ELSE {})
                   \cup {Oob("getchallenge", client.attempt + 1)}
  /\ answers' = IF LateHandshake THEN answers ELSE {}
  /\ toServer' = IF LateHandshake THEN toServer ELSE {}
  /\ toClient' = IF LateHandshake THEN toClient ELSE {}
  /\ UNCHANGED <<server, issued, fromServer, parserVars, netchan, primed>>

ClientHears(p) ==
  /\ p.attempt = client.attempt
  /\ \/ /\ p.type = "challengeResponse" /\ client.state = CA_CONNECTING
        /\ client' = [client EXCEPT !.state = CA_CHALLENGING]
        /\ requests' = requests \cup {Oob("connect", p.attempt)}
     \/ /\ p.type = "connectResponse" /\ client.state = CA_CHALLENGING
        /\ client' = [client EXCEPT !.state = CA_CONNECTED]
        /\ UNCHANGED requests
  /\ toClient' = Left(toClient, p)
  /\ UNCHANGED <<server, issued, answers, toServer, fromServer, parserVars, netchan, primed>>

-----------------------------------------------------------------------------
(* The server.                                                             *)

ServerHears(p) ==
  /\ \/ /\ p.type = "getchallenge"
        /\ answers' = answers \cup {Oob("challengeResponse", p.attempt)}
        /\ UNCHANGED server
     \/ /\ p.type = "connect" /\ p.attempt > server.attempt
        /\ server' = [attempt |-> p.attempt, packets |-> 0]
        /\ answers' = answers \cup {Oob("connectResponse", p.attempt)}
  /\ toServer' = Left(toServer, p)
  /\ UNCHANGED <<client, issued, requests, toClient, fromServer, parserVars, netchan, primed>>

Dropped(session) == \E k \in DOMAIN issued[session] : issued[session][k].name = "disconnect"

ServerIssues(commands) ==
  /\ server.attempt # 0
  /\ ~Dropped(server.attempt)
  /\ Len(issued[server.attempt]) + Len(commands) <= MaxCommands
  /\ issued' = [issued EXCEPT ![server.attempt] = @ \o commands]
  /\ UNCHANGED <<client, server, oobVars, fromServer, parserVars, netchan, primed>>

ServerSends(gamestate) ==
  /\ server.attempt # 0
  /\ server.packets < MaxPackets
  /\ server' = [server EXCEPT !.packets = @ + 1]
  /\ fromServer' = fromServer \cup
       {[attempt |-> server.attempt, seq |-> server.packets + 1,
         last |-> Len(issued[server.attempt]), gamestate |-> gamestate]}
  /\ UNCHANGED <<client, issued, oobVars, parserVars, netchan, primed>>

-----------------------------------------------------------------------------
(* The observer.                                                           *)

ObserveRequest(p) ==
  /\ ParserBecomes(handleOobPacketFromClient(Parser, p))
  /\ requests' = Left(requests, p)
  /\ toServer' = toServer \cup {p}
  /\ UNCHANGED <<endpointVars, answers, toClient, fromServer, netchan, primed>>

ObserveAnswer(p) ==
  /\ ParserBecomes(handleOobPacketFromServer(Parser, p))
  /\ answers' = Left(answers, p)
  /\ toClient' = toClient \cup {p}
  /\ IF p.type = "connectResponse" /\ p.attempt > netchan.session
     THEN /\ netchan' = [session |-> p.attempt, incomingSequence |-> 0]
          /\ primed' = FALSE
          /\ fromServer' = {m \in fromServer : m.attempt = p.attempt}
     ELSE UNCHANGED <<netchan, primed, fromServer>>
  /\ UNCHANGED <<endpointVars, requests, toServer>>

ObservePacket(m) ==
  /\ m.attempt = netchan.session
  /\ m.seq > netchan.incomingSequence
  /\ netchan' = [netchan EXCEPT !.incomingSequence = m.seq]
  /\ ParserBecomes(handleConnfullPacketFromServer(Parser, m))
  /\ primed' = (primed \/ (m.gamestate /\ connection.state = CA_CONNECTED))
  /\ UNCHANGED <<endpointVars, oobVars, fromServer>>

Next ==
  \/ ClientBegins
  \/ \E p \in toClient : ClientHears(p)
  \/ \E p \in toServer : ServerHears(p)
  \/ \E i \in Indices, text \in {Short, Long} : ServerIssues(CommandsFor(i, text))
  \/ ServerIssues(<<[name |-> "disconnect", index |-> 0, text |-> << >>]>>)
  \/ \E gamestate \in BOOLEAN : ServerSends(gamestate)
  \/ \E p \in requests : ObserveRequest(p)
  \/ \E p \in answers : ObserveAnswer(p)
  \/ \E m \in fromServer : ObservePacket(m)

Spec == Init /\ [][Next]_vars

-----------------------------------------------------------------------------
(* Properties.                                                             *)

OobPacket == [type : {"getchallenge", "challengeResponse", "connect", "connectResponse"},
              attempt : Attempts]

Command == [name : {"cs", "bcs0", "bcs1", "bcs2", "disconnect"}, index : Indices \cup {0},
            text : {<< >>, Short} \cup {<<Long[k]>> : k \in 1 .. 3}]

Message == [attempt : Attempts, seq : 1 .. MaxPackets, last : 0 .. MaxCommands,
            gamestate : BOOLEAN]

\* Every variable keeps its type.
TypeOK ==
  /\ client \in [state : {CA_DISCONNECTED, CA_CONNECTING, CA_CHALLENGING, CA_CONNECTED},
                 attempt : 0 .. MaxAttempts]
  /\ server \in [attempt : 0 .. MaxAttempts, packets : 0 .. MaxPackets]
  /\ issued \in [Attempts -> Seq(Command)]
  /\ \A ps \in {requests, answers, toServer, toClient} : ps \subseteq OobPacket
  /\ fromServer \subseteq Message
  /\ bigInfoStringBuffer \in Seq(Command) /\ primed \in BOOLEAN
  /\ connection \in [state : {CA_DISCONNECTED, CA_CONNECTING, CA_CHALLENGING, CA_CONNECTED},
                     challenge : 0 .. MaxAttempts, serverCommandSequence : 0 .. MaxCommands]
  /\ gameState \in [info : 0 .. MaxAttempts, world : 0 .. MaxAttempts,
                    configStrings : [Indices -> {<< >>, Short, Long}]]
  /\ netchan \in [session : 0 .. MaxAttempts, incomingSequence : 0 .. MaxPackets]

\* "Connected to a new server" is when everything is reset (ServerPacketParser.h:38):
\* nothing that an earlier session brought is there when the client is accepted
\* for the first time in this one, even if that session was left in the middle of a
\* packet (ServerPacketParser.cpp:26-37, 133-138, 619-622).
SessionsStartClean ==
  [][netchan'.session # netchan.session =>
       /\ connection'.serverCommandSequence = 0
       /\ gameState'.configStrings = NewGameState.configStrings
       /\ gameState'.world = 0
       /\ bigInfoStringBuffer' = << >>]_vars

\* While both are connected, the observer knows the client of this attempt: the
\* challenge and the info of its connect packet (ServerPacketParser.cpp:166-177).
ClientIsKnown ==
  client.state = CA_CONNECTED /\ connection.state = CA_CONNECTED =>
    gameState.info = client.attempt /\ connection.challenge = client.attempt

\* Once the gamestate has been seen, the configstrings are those the server had
\* after the last command the parser took, though gamestates are sent again,
\* packets are lost and long strings come in three commands
\* (ServerPacketParser.cpp:179-192, 199-236, 596-669).
ConfigstringsFollow ==
  primed /\ connection.state = CA_CONNECTED =>
    gameState.configStrings =
      ConfigstringsAfter(netchan.session, connection.serverCommandSequence)
=============================================================================
