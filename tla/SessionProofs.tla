--------------------------- MODULE SessionProofs ----------------------------
(***************************************************************************)
(* Theorems about Session, for any configstrings and any number of         *)
(* attempts, commands and packets, as long as no connectionless packet     *)
(* comes late or twice.                                                    *)
(***************************************************************************)
EXTENDS Session, ProofFacts

-----------------------------------------------------------------------------
(* The inductive invariant.                                                *)

\* The server's commands: configstrings in one piece or in three, and nothing
\* after a disconnect.
IsPiece(s, k) ==
  \E i \in Indices :
    /\ s[k] = bcs("bcs0", i, Long[1])
    /\ s[k + 1] = bcs("bcs1", i, Long[2])
    /\ s[k + 2] = bcs("bcs2", i, Long[3])

WellFormed(s) ==
  \A k \in 1 .. Len(s) :
    \/ \E i \in Indices : s[k] = cs(i, Short)
    \/ s[k].name = "disconnect" /\ k = Len(s)
    \/ s[k].name = "bcs0" /\ k + 2 <= Len(s) /\ IsPiece(s, k)
    \/ s[k].name = "bcs1" /\ k > 1 /\ k + 1 <= Len(s) /\ IsPiece(s, k - 1)
    \/ s[k].name = "bcs2" /\ k > 2 /\ IsPiece(s, k - 2)

\* No string is in pieces after the first n commands.
AtWhole(s, n) == n = 0 \/ s[n].name \in {"cs", "bcs2", "disconnect"}

CommandsAreWellFormed ==
  /\ \A a \in Attempts : WellFormed(issued[a])
  /\ \A a \in Attempts : Len(issued[a]) <= MaxCommands
                         /\ AtWhole(issued[a], Len(issued[a]))
  /\ \A a \in Attempts : a > server.attempt => issued[a] = << >>

\* A packet repeats the commands the server had when it sent it; a later one of
\* the same session has no fewer.
PacketsCarryAll ==
  /\ \A m \in fromServer :
       /\ m.attempt <= server.attempt
       /\ m.attempt = server.attempt => m.seq <= server.packets
       /\ m.last <= Len(issued[m.attempt])
       /\ AtWhole(issued[m.attempt], m.last)
  /\ \A m, n \in fromServer : m.attempt = n.attempt /\ m.seq < n.seq => m.last <= n.last

\* The parser between two packets of the session it follows: it has the commands
\* up to one of them, no disconnect among them, and the configstrings these give.
Follows ==
  connection.state = CA_CONNECTED =>
    LET a == netchan.session
        n == connection.serverCommandSequence
    IN /\ a \in Attempts
       /\ n <= Len(issued[a]) /\ AtWhole(issued[a], n)
       /\ \A k \in 1 .. n : issued[a][k].name # "disconnect"
       /\ gameState.configStrings = ConfigstringsAfter(a, n)
       /\ \A m \in fromServer :
            m.attempt = a /\ m.seq > netchan.incomingSequence => m.last >= n

\* Nothing of an earlier session is left.
Clean ==
  /\ connection.serverCommandSequence = 0
  /\ gameState.configStrings = NewGameState.configStrings
  /\ gameState.world = 0

InFlight(rs, ts, as, tc) ==
  requests = rs /\ toServer = ts /\ answers = as /\ toClient = tc

New == server.attempt < client.attempt /\ netchan.session < client.attempt

Known == gameState.info = client.attempt /\ connection.challenge = client.attempt

\* How far the handshake of the attempt has come: where its one connectionless
\* packet is, and what the three parties know by then.
Idle ==
  /\ InFlight({}, {}, {}, {}) /\ client.attempt = 0
  /\ client.state = CA_DISCONNECTED /\ connection.state = CA_DISCONNECTED

GetchallengeSent ==
  /\ InFlight({Oob("getchallenge", client.attempt)}, {}, {}, {})
  /\ client.state = CA_CONNECTING /\ New

GetchallengePassed ==
  /\ InFlight({}, {Oob("getchallenge", client.attempt)}, {}, {})
  /\ client.state = CA_CONNECTING /\ connection.state = CA_CONNECTING /\ New

ChallengeSent ==
  /\ InFlight({}, {}, {Oob("challengeResponse", client.attempt)}, {})
  /\ client.state = CA_CONNECTING /\ connection.state = CA_CONNECTING /\ New

ChallengePassed ==
  /\ InFlight({}, {}, {}, {Oob("challengeResponse", client.attempt)})
  /\ client.state = CA_CONNECTING /\ connection.state = CA_CHALLENGING /\ New /\ Clean

ConnectSent ==
  /\ InFlight({Oob("connect", client.attempt)}, {}, {}, {})
  /\ client.state = CA_CHALLENGING /\ connection.state = CA_CHALLENGING /\ New /\ Clean

ConnectPassed ==
  /\ InFlight({}, {Oob("connect", client.attempt)}, {}, {})
  /\ client.state = CA_CHALLENGING /\ connection.state = CA_CONNECTING
  /\ New /\ Clean /\ Known

ResponseSent ==
  /\ InFlight({}, {}, {Oob("connectResponse", client.attempt)}, {})
  /\ client.state = CA_CHALLENGING /\ connection.state = CA_CONNECTING
  /\ server.attempt = client.attempt /\ netchan.session < client.attempt /\ Clean /\ Known

Settled ==
  /\ connection.state \in {CA_CONNECTED, CA_DISCONNECTED}
  /\ server.attempt = client.attempt /\ netchan.session = client.attempt
  /\ connection.state = CA_CONNECTED => Known

ResponsePassed ==
  /\ InFlight({}, {}, {}, {Oob("connectResponse", client.attempt)})
  /\ client.state = CA_CHALLENGING /\ Settled

Accepted ==
  /\ InFlight({}, {}, {}, {})
  /\ client.state = CA_CONNECTED /\ Settled

Handshake ==
  \/ Idle
  \/ GetchallengeSent \/ GetchallengePassed \/ ChallengeSent \/ ChallengePassed
  \/ ConnectSent \/ ConnectPassed \/ ResponseSent \/ ResponsePassed
  \/ Accepted

Bounded == server.attempt <= client.attempt /\ netchan.session <= client.attempt

IInv ==
  /\ TypeOK
  /\ Bounded
  /\ Handshake
  /\ CommandsAreWellFormed
  /\ PacketsCarryAll
  /\ bigInfoStringBuffer = << >>
  /\ Follows

-----------------------------------------------------------------------------
(* What the parser makes of a message.                                     *)

ConnectionType ==
  [state : {CA_DISCONNECTED, CA_CONNECTING, CA_CHALLENGING, CA_CONNECTED},
   challenge : 0 .. MaxAttempts, serverCommandSequence : 0 .. MaxCommands]

GameStateType ==
  [info : 0 .. MaxAttempts, world : 0 .. MaxAttempts,
   configStrings : [Indices -> {<< >>, Short, Long}]]

ParserType == [connection : ConnectionType, gameState : GameStateType, bigInfo : {<< >>}]

\* The commands a string was begun with that the first k leave unfinished.
Unfinished(s, k) ==
  IF k = 0 THEN << >>
  ELSE IF s[k].name = "bcs0" THEN <<s[k]>>
  ELSE IF s[k].name = "bcs1" THEN <<s[k - 1], s[k]>>
  ELSE << >>

\* The parser p once it has executed the first k commands of session a.
Parsed(p, a, k) ==
  [connection |-> [p.connection EXCEPT !.serverCommandSequence = k],
   gameState |-> [p.gameState EXCEPT !.configStrings = ConfigstringsAfter(a, k)],
   bigInfo |-> Unfinished(issued[a], k)]

Disconnected ==
  [connection |-> NewConnection(0), gameState |-> NewGameState, bigInfo |-> << >>]

ParsedUpTo(p, a, k) ==
  IF k <= p.connection.serverCommandSequence THEN p
  ELSE IF issued[a][k].name = "disconnect" THEN Disconnected
  ELSE Parsed(p, a, k)

\* The parser p follows session a.
InStep(p, a) ==
  LET n == p.connection.serverCommandSequence
  IN /\ n <= Len(issued[a]) /\ AtWhole(issued[a], n)
     /\ \A k \in 1 .. n : issued[a][k].name # "disconnect"
     /\ p.gameState.configStrings = ConfigstringsAfter(a, n)

\* The server's configstrings have the type of the parser's.
LEMMA ConfigstringsType ==
  ASSUME NEW a, NEW n
  PROVE  ConfigstringsAfter(a, n) \in [Indices -> {<< >>, Short, Long}]
BY DEF ConfigstringsAfter

\* A command changes the one configstring it ends the text of.
LEMMA ConfigstringsStep ==
  ASSUME NEW a, NEW k \in Nat \ {0}
  PROVE  ConfigstringsAfter(a, k) =
           [i \in Indices |->
              IF issued[a][k].index = i /\ issued[a][k].name = "cs" THEN Short
              ELSE IF issued[a][k].index = i /\ issued[a][k].name = "bcs2" THEN Long
              ELSE ConfigstringsAfter(a, k - 1)[i]]
<1> DEFINE Texts(n, i) == {l \in 1 .. n : issued[a][l].name \in {"cs", "bcs2"}
                                            /\ issued[a][l].index = i}
           Text(n, i) == IF Texts(n, i) = {} THEN << >>
                         ELSE LET l == CHOOSE l \in Texts(n, i) :
                                         \A m \in Texts(n, i) : m <= l
                              IN IF issued[a][l].name = "cs" THEN Short ELSE Long
<1>1. \A n : ConfigstringsAfter(a, n) = [i \in Indices |-> Text(n, i)]
  BY DEF ConfigstringsAfter
<1>2. ASSUME NEW i \in Indices, issued[a][k].index = i, issued[a][k].name \in {"cs", "bcs2"}
      PROVE  Text(k, i) = IF issued[a][k].name = "cs" THEN Short ELSE Long
  <2>1. k \in Texts(k, i) /\ \A m \in Texts(k, i) : m <= k
    BY <1>2
  <2>2. (CHOOSE l \in Texts(k, i) : \A m \in Texts(k, i) : m <= l) = k
    <3>1. \A l \in Texts(k, i) : (\A m \in Texts(k, i) : m <= l) => l = k
      BY <2>1
    <3> HIDE DEF Texts
    <3> QED
      BY <2>1, <3>1
  <2> QED
    BY <2>1, <2>2
<1>3. ASSUME NEW i \in Indices,
             ~(issued[a][k].index = i /\ issued[a][k].name \in {"cs", "bcs2"})
      PROVE  Text(k, i) = Text(k - 1, i)
  <2>1. Texts(k, i) = Texts(k - 1, i)
    BY <1>3
  <2> QED
    BY <2>1
<1> HIDE DEF Text
<1>4. ASSUME NEW i \in Indices
      PROVE  Text(k, i) = IF issued[a][k].index = i /\ issued[a][k].name = "cs" THEN Short
                          ELSE IF issued[a][k].index = i /\ issued[a][k].name = "bcs2" THEN Long
                          ELSE Text(k - 1, i)
  BY <1>2, <1>3
<1> QED
  BY <1>1, <1>4

\* The three pieces of a long string make the whole of it.
LEMMA PiecesMakeLong ==
  ASSUME NEW seqs, Len(seqs) = 3,
         seqs[1] = <<Long[1]>>, seqs[2] = <<Long[2]>>, seqs[3] = <<Long[3]>>
  PROVE  FlattenSeq(seqs) = Long
<1> DEFINE a == Long[1]
           b == Long[2]
           c == Long[3]
           flatten == CHOOSE f : f = [i \in 1 .. Len(seqs) |->
                                        IF i = 1 THEN seqs[i] ELSE f[i - 1] \o seqs[i]]
<1>1. <<a, b, c>> = Long
  BY DEF Long
<1> HIDE DEF a, b, c
<1>2. \E f : f = [i \in 1 .. Len(seqs) |-> IF i = 1 THEN seqs[i] ELSE f[i - 1] \o seqs[i]]
  <2> DEFINE ab == seqs[1] \o seqs[2]
             g == [i \in 1 .. Len(seqs) |->
                     IF i = 1 THEN seqs[1] ELSE IF i = 2 THEN ab ELSE ab \o seqs[3]]
  <2>1. \A i \in 1 .. Len(seqs) :
          g[i] = IF i = 1 THEN seqs[i] ELSE g[i - 1] \o seqs[i]
    <3>1. \A i \in 1 .. Len(seqs) : i = 1 \/ i = 2 \/ i = 3
      OBVIOUS
    <3>2. g[1] = seqs[1] /\ g[2] = ab /\ g[3] = ab \o seqs[3]
      OBVIOUS
    <3> HIDE DEF g
    <3>3. ASSUME NEW i \in 1 .. Len(seqs)
          PROVE  g[i] = IF i = 1 THEN seqs[i] ELSE g[i - 1] \o seqs[i]
      <4>1. CASE i = 1
        BY <4>1, <3>2
      <4>2. CASE i = 2
        <5>1. i - 1 = 1
          BY <4>2
        <5> QED
          BY <4>2, <5>1, <3>2
      <4>3. CASE i = 3
        <5>1. i - 1 = 2
          BY <4>3
        <5> QED
          BY <4>3, <5>1, <3>2
      <4> QED
        BY <4>1, <4>2, <4>3, <3>1
    <3> QED
      BY <3>3
  <2>2. g = [i \in 1 .. Len(seqs) |-> IF i = 1 THEN seqs[i] ELSE g[i - 1] \o seqs[i]]
    BY <2>1
  <2> HIDE DEF g
  <2> QED
    BY <2>2
<1>3. flatten = [i \in 1 .. Len(seqs) |->
                   IF i = 1 THEN seqs[i] ELSE flatten[i - 1] \o seqs[i]]
  BY <1>2
<1> HIDE DEF flatten
<1>4. flatten[1] = seqs[1] /\ flatten[2] = flatten[1] \o seqs[2]
      /\ flatten[3] = flatten[2] \o seqs[3]
  <2>1. ASSUME NEW i \in 1 .. Len(seqs), i # 1
        PROVE  flatten[i] = flatten[i - 1] \o seqs[i]
    BY <1>3, <2>1
  <2>2. flatten[1] = seqs[1]
    BY <1>3
  <2>3. flatten[2] = flatten[2 - 1] \o seqs[2] /\ flatten[3] = flatten[3 - 1] \o seqs[3]
    <3>1. 2 \in 1 .. Len(seqs) /\ 3 \in 1 .. Len(seqs) /\ 2 # 1 /\ 3 # 1
      OBVIOUS
    <3> QED
      BY ONLY <3>1, <2>1, Zenon
  <2>4. 2 - 1 = 1 /\ 3 - 1 = 2
    OBVIOUS
  <2> QED
    BY <2>2, <2>3, <2>4
<1>5. <<a>> \o <<b>> = <<a, b>>
  <2>1. <<a>> \in Seq({a, b}) /\ b \in {a, b}
    OBVIOUS
  <2> QED
    BY <2>1, ConcatOne, AppendToOne
<1>6. <<a, b>> \o <<c>> = <<a, b, c>>
  <2>1. <<a, b>> \in Seq({a, b, c}) /\ c \in {a, b, c}
    OBVIOUS
  <2> QED
    BY <2>1, ConcatOne, AppendToTwo
<1>7. flatten[3] = Long
  BY <1>1, <1>4, <1>5, <1>6 DEF a, b, c
<1>8. FlattenSeq(seqs) = flatten[Len(seqs)]
  BY DEF FlattenSeq, flatten
<1> QED
  BY <1>7, <1>8

\* Between two commands of a session a string is unfinished only if the next
\* command goes on with it.
LEMMA PiecesFollow ==
  ASSUME NEW s \in Seq(Command), WellFormed(s), NEW k \in 1 .. Len(s)
  PROVE  /\ k > 1 => s[k - 1].name # "disconnect"
         /\ s[k].name \in {"cs", "disconnect", "bcs0"} => Unfinished(s, k - 1) = << >>
         /\ s[k].name = "bcs1" => k > 1 /\ IsPiece(s, k - 1)
                                  /\ Unfinished(s, k - 1) = <<s[k - 1]>>
         /\ s[k].name = "bcs2" => k > 2 /\ IsPiece(s, k - 2)
                                  /\ Unfinished(s, k - 1) = <<s[k - 2], s[k - 1]>>
<1>0. ASSUME NEW l \in 1 .. Len(s)
      PROVE  /\ s[l].name = "disconnect" => l = Len(s)
             /\ s[l].name = "bcs0" => IsPiece(s, l)
             /\ s[l].name = "bcs1" => l > 1 /\ IsPiece(s, l - 1)
             /\ s[l].name = "bcs2" => l > 2 /\ IsPiece(s, l - 2)
  <2>1. \A i : cs(i, Short).name = "cs"
    BY DEF cs
  <2>2. \/ s[l].name = "cs"
        \/ s[l].name = "disconnect" /\ l = Len(s)
        \/ s[l].name = "bcs0" /\ l + 2 <= Len(s) /\ IsPiece(s, l)
        \/ s[l].name = "bcs1" /\ l > 1 /\ l + 1 <= Len(s) /\ IsPiece(s, l - 1)
        \/ s[l].name = "bcs2" /\ l > 2 /\ IsPiece(s, l - 2)
    BY ONLY <2>1, WellFormed(s), l \in 1 .. Len(s), Zenon DEF WellFormed
  <2> QED
    BY <2>2
<1>1. /\ s[k].name = "bcs1" => k > 1 /\ IsPiece(s, k - 1)
      /\ s[k].name = "bcs2" => k > 2 /\ IsPiece(s, k - 2)
  BY <1>0
<1>2. ASSUME k > 1, s[k - 1].name = "bcs0"
      PROVE  s[k].name = "bcs1"
  <2>1. k - 1 \in 1 .. Len(s) /\ (k - 1) + 1 = k
    BY <1>2
  <2>2. IsPiece(s, k - 1)
    BY <1>0, <1>2, <2>1
  <2> QED
    BY <2>1, <2>2 DEF IsPiece, bcs
<1>3. ASSUME k > 1, s[k - 1].name = "bcs1"
      PROVE  s[k].name = "bcs2"
  <2>1. k - 1 \in 1 .. Len(s) /\ ((k - 1) - 1) + 2 = k
    BY <1>3
  <2>2. IsPiece(s, (k - 1) - 1)
    BY <1>0, <1>3, <2>1
  <2> QED
    BY <2>1, <2>2 DEF IsPiece, bcs
<1>4. ASSUME k > 1 PROVE s[k - 1].name # "disconnect"
  <2>1. k - 1 \in 1 .. Len(s) /\ k - 1 # Len(s)
    BY <1>4
  <2> QED
    BY <1>0, <2>1
<1>5. ASSUME s[k].name = "bcs1" PROVE s[k - 1].name = "bcs0"
  <2>1. IsPiece(s, k - 1)
    BY <1>5, <1>1
  <2> QED
    BY <2>1 DEF IsPiece, bcs
<1>6. ASSUME s[k].name = "bcs2" PROVE s[k - 1].name = "bcs1"
  <2>1. k > 2 /\ IsPiece(s, k - 2) /\ (k - 2) + 1 = k - 1
    BY <1>6, <1>1
  <2> QED
    BY <2>1 DEF IsPiece, bcs
<1>7. (k - 1) - 1 = k - 2
  OBVIOUS
<1> QED
  BY <1>1, <1>2, <1>3, <1>4, <1>5, <1>6, <1>7 DEF Unfinished

\* The parser that follows a session has what the server had.
LEMMA ParsedBefore ==
  ASSUME NEW a \in Attempts, issued[a] \in Seq(Command), WellFormed(issued[a]),
         NEW p \in ParserType, InStep(p, a),
         NEW k \in 1 .. Len(issued[a]), k > p.connection.serverCommandSequence
  PROVE  ParsedUpTo(p, a, k - 1) = Parsed(p, a, k - 1)
<1> DEFINE n == p.connection.serverCommandSequence
<1>1. n \in Nat /\ p.bigInfo = << >>
      /\ p.connection = [state |-> p.connection.state, challenge |-> p.connection.challenge,
                         serverCommandSequence |-> n]
      /\ p.gameState = [info |-> p.gameState.info, world |-> p.gameState.world,
                        configStrings |-> p.gameState.configStrings]
      /\ p = [connection |-> p.connection, gameState |-> p.gameState, bigInfo |-> p.bigInfo]
  BY DEF ParserType, ConnectionType, GameStateType
<1>2. CASE k - 1 <= n
  <2>1. k - 1 = n
    BY <1>1, <1>2
  <2>2. Unfinished(issued[a], n) = << >>
    BY DEF InStep, AtWhole, Unfinished
  <2>3. [p.connection EXCEPT !.serverCommandSequence = n] = p.connection
    BY <1>1
  <2>4. [p.gameState EXCEPT !.configStrings = ConfigstringsAfter(a, n)] = p.gameState
    <3>1. p.gameState.configStrings = ConfigstringsAfter(a, n)
      BY DEF InStep
    <3> QED
      BY <1>1, <3>1
  <2> QED
    BY <1>1, <1>2, <2>1, <2>2, <2>3, <2>4 DEF ParsedUpTo, Parsed
<1>3. CASE k - 1 > n
  <2>1. issued[a][k - 1].name # "disconnect"
    BY <1>1, <1>3, PiecesFollow
  <2> QED
    BY <1>1, <1>3, <2>1 DEF ParsedUpTo
<1> QED
  BY <1>1, <1>2, <1>3

\* Resetting leaves nothing of a parser but its buffer.
LEMMA Resets ==
  ASSUME NEW x, NEW y, NEW b, NEW challenge
  PROVE  reset([connection |-> x, gameState |-> y, bigInfo |-> b], challenge)
           = [connection |-> NewConnection(challenge), gameState |-> NewGameState, bigInfo |-> b]
<1>1. \A q, u, v : [q EXCEPT !.connection = u, !.gameState = v]
                     = [[q EXCEPT !.connection = u] EXCEPT !.gameState = v]
  OBVIOUS
<1>2. \A u : [[connection |-> x, gameState |-> y, bigInfo |-> b] EXCEPT !.connection = u]
               = [connection |-> u, gameState |-> y, bigInfo |-> b]
  OBVIOUS
<1>3. \A u, v : [[connection |-> u, gameState |-> y, bigInfo |-> b] EXCEPT !.gameState = v]
                  = [connection |-> u, gameState |-> v, bigInfo |-> b]
  OBVIOUS
<1> QED
  BY <1>1, <1>2, <1>3 DEF reset

\* The parser that is to execute command k of session a.
Taking(p, a, k) ==
  [connection |-> [p.connection EXCEPT !.serverCommandSequence = k],
   gameState |-> [p.gameState EXCEPT !.configStrings = ConfigstringsAfter(a, k - 1)],
   bigInfo |-> Unfinished(issued[a], k - 1)]

\* Setting a configstring and clearing the buffer of pieces change different
\* fields of the parser, so their order does not matter.
LEMMA ClearThenSet ==
  ASSUME NEW a, NEW p, NEW k, NEW i, NEW text
  PROVE  setConfigstring([Taking(p, a, k) EXCEPT !.bigInfo = << >>], i, text)
           = [setConfigstring(Taking(p, a, k), i, text) EXCEPT !.bigInfo = << >>]
BY DEF setConfigstring, Taking

LEMMA SetsConfigstring ==
  ASSUME NEW a, NEW p \in ParserType, NEW k, NEW i, NEW text
  PROVE  setConfigstring(Taking(p, a, k), i, text) =
           [connection |-> [p.connection EXCEPT !.serverCommandSequence = k],
            gameState |-> [p.gameState EXCEPT
                             !.configStrings = [ConfigstringsAfter(a, k - 1) EXCEPT ![i] = text]],
            bigInfo |-> Unfinished(issued[a], k - 1)]
<1>1. p.gameState \in GameStateType
  BY DEF ParserType
<1> DEFINE q == Taking(p, a, k)
<1>2. q.gameState.configStrings = ConfigstringsAfter(a, k - 1)
      /\ q.gameState = [info |-> p.gameState.info, world |-> p.gameState.world,
                        configStrings |-> ConfigstringsAfter(a, k - 1)]
  BY <1>1 DEF GameStateType, Taking
<1>3. setConfigstring(q, i, text) =
        [q EXCEPT !.gameState = [q.gameState EXCEPT
           !.configStrings = [q.gameState.configStrings EXCEPT ![i] = text]]]
  BY DEF setConfigstring
<1>4. \A x : [q.gameState EXCEPT !.configStrings = x] = [p.gameState EXCEPT !.configStrings = x]
  BY <1>1, <1>2 DEF GameStateType
<1>5. \A x : [q EXCEPT !.gameState = x] =
               [connection |-> [p.connection EXCEPT !.serverCommandSequence = k],
                gameState |-> x, bigInfo |-> Unfinished(issued[a], k - 1)]
  BY DEF Taking
<1> HIDE DEF q
<1>6. setConfigstring(q, i, text) =
        [q EXCEPT !.gameState = [p.gameState EXCEPT
           !.configStrings = [ConfigstringsAfter(a, k - 1) EXCEPT ![i] = text]]]
  BY <1>2, <1>3, <1>4
<1> QED
  BY <1>5, <1>6 DEF q

LEMMA TakesNext ==
  ASSUME NEW a, NEW p \in ParserType, NEW k \in Nat \ {0}, NEW c
  PROVE  parseServerCommand(Parsed(p, a, k - 1), k, c) = execute(Taking(p, a, k), c)
<1> DEFINE q == Parsed(p, a, k - 1)
<1>1. p.connection \in ConnectionType
  BY DEF ParserType
<1>2. q.connection = [p.connection EXCEPT !.serverCommandSequence = k - 1]
      /\ q.gameState = Taking(p, a, k).gameState /\ q.bigInfo = Taking(p, a, k).bigInfo
      /\ q = [connection |-> q.connection, gameState |-> q.gameState, bigInfo |-> q.bigInfo]
  BY DEF Parsed, Taking
<1>3. q.connection.serverCommandSequence = k - 1
      /\ [q.connection EXCEPT !.serverCommandSequence = k] = Taking(p, a, k).connection
  BY <1>1, <1>2 DEF ConnectionType, Taking
<1> HIDE DEF q
<1>4. [q EXCEPT !.connection.serverCommandSequence = k] = Taking(p, a, k)
  <2>1. [q EXCEPT !.connection.serverCommandSequence = k]
          = [q EXCEPT !.connection = [q.connection EXCEPT !.serverCommandSequence = k]]
    BY <1>2
  <2> QED
    BY <1>2, <1>3, <2>1 DEF Taking
<1>5. ~(q.connection.serverCommandSequence >= k)
  BY <1>3
<1> QED
  BY <1>4, <1>5 DEF parseServerCommand, q

\* What the kinds of commands do to a parser that has the commands before them.
LEMMA TakesWhole ==
  ASSUME NEW a \in Attempts, issued[a] \in Seq(Command), WellFormed(issued[a]),
         NEW p \in ParserType, NEW k \in 1 .. Len(issued[a]),
         issued[a][k].name = "cs"
  PROVE  parseServerCommand(Parsed(p, a, k - 1), k, issued[a][k]) = Parsed(p, a, k)
<1> DEFINE c == issued[a][k]
<1>1. PICK i \in Indices : c = cs(i, Short)
  BY DEF WellFormed
<1>2. c.name = "cs" /\ c.index = i /\ c.text = Short
  BY <1>1 DEF cs
<1>3. Unfinished(issued[a], k - 1) = << >> /\ Unfinished(issued[a], k) = << >>
  <2>1. Unfinished(issued[a], k) = << >>
    BY <1>2 DEF Unfinished
  <2> QED
    BY <1>2, <2>1, PiecesFollow
<1> DEFINE before == ConfigstringsAfter(a, k - 1)
           after == ConfigstringsAfter(a, k)
<1>4. [before EXCEPT ![i] = Short] = after
  <2>1. after = [j \in Indices |-> IF c.index = j /\ c.name = "cs" THEN Short
                                   ELSE IF c.index = j /\ c.name = "bcs2" THEN Long
                                   ELSE before[j]]
    BY ConfigstringsStep
  <2>2. before \in [Indices -> {<< >>, Short, Long}]
    BY ConfigstringsType
  <2> HIDE DEF before, after, c
  <2> QED
    BY <1>2, <2>1, <2>2
<1> HIDE DEF before, after
<1>5. execute(Taking(p, a, k), c) = setConfigstring(Taking(p, a, k), i, Short)
  BY <1>2 DEF execute
<1>6. k \in Nat \ {0}
  OBVIOUS
<1>7. parseServerCommand(Parsed(p, a, k - 1), k, c) = execute(Taking(p, a, k), c)
  BY <1>6, TakesNext
<1>8. setConfigstring(Taking(p, a, k), i, Short) =
        [connection |-> [p.connection EXCEPT !.serverCommandSequence = k],
         gameState |-> [p.gameState EXCEPT !.configStrings = [before EXCEPT ![i] = Short]],
         bigInfo |-> Unfinished(issued[a], k - 1)]
  BY SetsConfigstring DEF before
<1> HIDE DEF c
<1>9. parseServerCommand(Parsed(p, a, k - 1), k, c) =
        [connection |-> [p.connection EXCEPT !.serverCommandSequence = k],
         gameState |-> [p.gameState EXCEPT !.configStrings = after],
         bigInfo |-> << >>]
  BY <1>3, <1>4, <1>5, <1>7, <1>8
<1>10. Parsed(p, a, k) =
        [connection |-> [p.connection EXCEPT !.serverCommandSequence = k],
         gameState |-> [p.gameState EXCEPT !.configStrings = after],
         bigInfo |-> << >>]
  BY <1>3 DEF Parsed, after
<1> QED
  BY <1>9, <1>10 DEF c

LEMMA TakesDisconnect ==
  ASSUME NEW a \in Attempts, issued[a] \in Seq(Command), WellFormed(issued[a]),
         NEW p \in ParserType, NEW k \in 1 .. Len(issued[a]),
         issued[a][k].name = "disconnect"
  PROVE  parseServerCommand(Parsed(p, a, k - 1), k, issued[a][k]) = Disconnected
<1> DEFINE c == issued[a][k]
<1>1. Unfinished(issued[a], k - 1) = << >>
  BY PiecesFollow
<1>2. k \in Nat \ {0}
  OBVIOUS
<1>3. parseServerCommand(Parsed(p, a, k - 1), k, c) = execute(Taking(p, a, k), c)
  BY <1>2, TakesNext
<1>4. execute(Taking(p, a, k), c) = reset(Taking(p, a, k), 0)
  BY DEF execute
<1>5. reset(Taking(p, a, k), 0) = Disconnected
  <2> DEFINE q == Taking(p, a, k)
  <2>1. q = [connection |-> q.connection, gameState |-> q.gameState, bigInfo |-> << >>]
    BY <1>1 DEF Taking
  <2> HIDE DEF q
  <2>2. \A x, y : reset([connection |-> x, gameState |-> y, bigInfo |-> << >>], 0) = Disconnected
    BY Resets DEF Disconnected
  <2>3. reset(q, 0) = Disconnected
    BY <2>1, <2>2
  <2> QED
    BY <2>3 DEF q
<1> QED
  BY <1>3, <1>4, <1>5

\* A piece that is not the last changes nothing but the buffer.
LEMMA TakesPiece ==
  ASSUME NEW a \in Attempts, issued[a] \in Seq(Command), WellFormed(issued[a]),
         NEW p \in ParserType, NEW k \in 1 .. Len(issued[a]),
         issued[a][k].name \in {"bcs0", "bcs1"}
  PROVE  parseServerCommand(Parsed(p, a, k - 1), k, issued[a][k]) = Parsed(p, a, k)
<1> DEFINE c == issued[a][k]
<1>1. Append(Unfinished(issued[a], k - 1), c) = Unfinished(issued[a], k)
  <2>1. CASE c.name = "bcs0"
    <3>1. Unfinished(issued[a], k - 1) = << >>
      BY <2>1, PiecesFollow
    <3>2. Unfinished(issued[a], k) = <<c>>
      BY <2>1 DEF Unfinished
    <3>3. Append(<< >>, c) = <<c>>
      OBVIOUS
    <3> QED
      BY <3>1, <3>2, <3>3
  <2>2. CASE c.name = "bcs1"
    <3>1. Unfinished(issued[a], k - 1) = <<issued[a][k - 1]>>
      BY <2>2, PiecesFollow
    <3>2. Unfinished(issued[a], k) = <<issued[a][k - 1], c>>
      BY <2>2 DEF Unfinished
    <3> QED
      BY <3>1, <3>2, AppendToOne
  <2> QED
    BY <2>1, <2>2
<1>2. ConfigstringsAfter(a, k) = ConfigstringsAfter(a, k - 1)
  <2>1. ConfigstringsAfter(a, k) = [i \in Indices |-> ConfigstringsAfter(a, k - 1)[i]]
    BY ConfigstringsStep
  <2> QED
    BY <2>1, ConfigstringsType
<1>3. k \in Nat \ {0}
  OBVIOUS
<1>4. parseServerCommand(Parsed(p, a, k - 1), k, c) = execute(Taking(p, a, k), c)
  BY <1>3, TakesNext
<1>5. execute(Taking(p, a, k), c) = [Taking(p, a, k) EXCEPT !.bigInfo = Append(@, c)]
  BY DEF execute
<1>6. [Taking(p, a, k) EXCEPT !.bigInfo = Append(@, c)] = Parsed(p, a, k)
  <2>1. Taking(p, a, k).bigInfo = Unfinished(issued[a], k - 1)
    BY DEF Taking
  <2>2. \A x : [Taking(p, a, k) EXCEPT !.bigInfo = x] =
                 [connection |-> [p.connection EXCEPT !.serverCommandSequence = k],
                  gameState |-> [p.gameState EXCEPT
                                   !.configStrings = ConfigstringsAfter(a, k - 1)],
                  bigInfo |-> x]
    BY DEF Taking
  <2>3. [Taking(p, a, k) EXCEPT !.bigInfo = Append(@, c)]
          = [Taking(p, a, k) EXCEPT !.bigInfo = Unfinished(issued[a], k)]
    BY <1>1, <2>1
  <2> QED
    BY <1>2, <2>2, <2>3 DEF Parsed
<1> QED
  BY <1>4, <1>5, <1>6

\* The last piece completes the string.
LEMMA TakesLastPiece ==
  ASSUME NEW a \in Attempts, issued[a] \in Seq(Command), WellFormed(issued[a]),
         NEW p \in ParserType, NEW k \in 1 .. Len(issued[a]),
         issued[a][k].name = "bcs2"
  PROVE  parseServerCommand(Parsed(p, a, k - 1), k, issued[a][k]) = Parsed(p, a, k)
<1> DEFINE s == issued[a]
           c == s[k]
           q == Taking(p, a, k)
           pieces == <<s[k - 2], s[k - 1], c>>
<1>1. Unfinished(s, k - 1) = <<s[k - 2], s[k - 1]>> /\ Unfinished(s, k) = << >>
  BY PiecesFollow DEF Unfinished
<1>2. PICK i \in Indices : /\ s[k - 2] = bcs("bcs0", i, Long[1])
                           /\ s[k - 1] = bcs("bcs1", i, Long[2])
                           /\ c = bcs("bcs2", i, Long[3])
  <2>1. IsPiece(s, k - 2) /\ (k - 2) + 1 = k - 1 /\ (k - 2) + 2 = k
    BY PiecesFollow
  <2> QED
    BY <2>1 DEF IsPiece
<1>3. s[k - 2].index = i /\ s[k - 2].text = <<Long[1]>> /\ s[k - 1].text = <<Long[2]>>
      /\ c.text = <<Long[3]>> /\ c.index = i
  BY <1>2 DEF bcs
<1>4. Append(Unfinished(s, k - 1), c) = pieces
  BY <1>1, AppendToTwo
<1>5. pieces[1] = s[k - 2] /\ pieces[2] = s[k - 1] /\ pieces[3] = c /\ DOMAIN pieces = 1 .. 3
  OBVIOUS
<1> HIDE DEF pieces
<1>6. FlattenSeq([l \in DOMAIN pieces |-> pieces[l].text]) = Long
  <2> DEFINE texts == [l \in DOMAIN pieces |-> pieces[l].text]
  <2>1. texts[1] = <<Long[1]>> /\ texts[2] = <<Long[2]>> /\ texts[3] = <<Long[3]>>
    BY <1>3, <1>5
  <2>2. Len(texts) = 3
    BY <1>5
  <2> HIDE DEF texts
  <2> QED
    BY <2>1, <2>2, PiecesMakeLong DEF texts
<1>7. k \in Nat \ {0}
  OBVIOUS
<1>8. parseServerCommand(Parsed(p, a, k - 1), k, c) = execute(q, c)
  BY <1>7, TakesNext
<1> DEFINE appended == [q EXCEPT !.bigInfo = Append(@, c)]
<1>9. appended.bigInfo = pieces /\ flushBigInfoString(appended) = [q EXCEPT !.bigInfo = << >>]
  BY <1>4 DEF Taking, flushBigInfoString
<1> HIDE DEF q
<1>10. execute(q, c) = setConfigstring(flushBigInfoString(appended), appended.bigInfo[1].index,
                         FlattenSeq([l \in DOMAIN appended.bigInfo |-> appended.bigInfo[l].text]))
  BY DEF execute
<1> HIDE DEF appended
<1>11. execute(q, c) = setConfigstring([q EXCEPT !.bigInfo = << >>], i, Long)
  BY <1>3, <1>5, <1>6, <1>9, <1>10
<1>12. setConfigstring([q EXCEPT !.bigInfo = << >>], i, Long)
         = [setConfigstring(q, i, Long) EXCEPT !.bigInfo = << >>]
  BY ClearThenSet DEF q
<1> DEFINE before == ConfigstringsAfter(a, k - 1)
           after == ConfigstringsAfter(a, k)
<1>13. [before EXCEPT ![i] = Long] = after
  <2>1. after = [j \in Indices |-> IF c.index = j /\ c.name = "cs" THEN Short
                                   ELSE IF c.index = j /\ c.name = "bcs2" THEN Long
                                   ELSE before[j]]
    BY <1>7, ConfigstringsStep
  <2>2. before \in [Indices -> {<< >>, Short, Long}]
    BY ConfigstringsType
  <2> HIDE DEF before, after, c
  <2> QED
    BY <1>3, <2>1, <2>2 DEF c
<1>14. setConfigstring(q, i, Long) =
         [connection |-> [p.connection EXCEPT !.serverCommandSequence = k],
          gameState |-> [p.gameState EXCEPT !.configStrings = after],
          bigInfo |-> Unfinished(s, k - 1)]
  BY <1>13, SetsConfigstring DEF q
<1> HIDE DEF before, after
<1>15. [setConfigstring(q, i, Long) EXCEPT !.bigInfo = << >>] = Parsed(p, a, k)
  BY <1>1, <1>14 DEF Parsed, after
<1> QED
  BY <1>8, <1>11, <1>12, <1>15

\* A command repeated changes nothing; a new one is executed.
LEMMA TakesOne ==
  ASSUME NEW a \in Attempts, issued[a] \in Seq(Command), WellFormed(issued[a]),
         NEW p \in ParserType, InStep(p, a), NEW k \in 1 .. Len(issued[a])
  PROVE  parseServerCommand(ParsedUpTo(p, a, k - 1), k, issued[a][k]) = ParsedUpTo(p, a, k)
<1> DEFINE n == p.connection.serverCommandSequence
<1>1. n \in Nat
  BY DEF ParserType, ConnectionType
<1>2. CASE k <= n
  <2>1. k - 1 <= n /\ n >= k
    BY <1>1, <1>2
  <2> QED
    BY <1>2, <2>1 DEF ParsedUpTo, parseServerCommand
<1>3. CASE k > n
  <2>1. ~(k <= n)
    BY <1>1, <1>3
  <2>2. ParsedUpTo(p, a, k - 1) = Parsed(p, a, k - 1)
    BY <1>3, ParsedBefore
  <2>3. issued[a][k].name \in {"cs", "bcs0", "bcs1", "bcs2", "disconnect"}
    <3>1. issued[a][k] \in Command
      OBVIOUS
    <3> QED
      BY <3>1 DEF Command
  <2>4. CASE issued[a][k].name = "disconnect"
    <3>1. ParsedUpTo(p, a, k) = Disconnected
      BY <2>1, <2>4 DEF ParsedUpTo
    <3> QED
      BY <2>2, <2>4, <3>1, TakesDisconnect
  <2>5. CASE issued[a][k].name # "disconnect"
    <3>1. ParsedUpTo(p, a, k) = Parsed(p, a, k)
      BY <2>1, <2>5 DEF ParsedUpTo
    <3> QED
      BY <2>2, <2>3, <2>5, <3>1, TakesWhole, TakesPiece, TakesLastPiece
  <2> QED
    BY <2>4, <2>5
<1> QED
  BY <1>1, <1>2, <1>3

\* The parser after a whole message: by induction on its commands.
LEMMA TakesAll ==
  ASSUME NEW m \in Message, issued[m.attempt] \in Seq(Command),
         WellFormed(issued[m.attempt]), m.last <= Len(issued[m.attempt]),
         NEW p \in ParserType, InStep(p, m.attempt)
  PROVE  parseMessage(p, m) =
           IF m.gamestate THEN parseGamestate(ParsedUpTo(p, m.attempt, m.last), m)
           ELSE [ParsedUpTo(p, m.attempt, m.last) EXCEPT !.gameState.world = m.attempt]
<1> DEFINE a == m.attempt
           s == issued[a]
           Step(f, k) == IF k = 0 THEN p ELSE parseServerCommand(f[k - 1], k, s[k])
           IsAfter(f) == f = [k \in 0 .. m.last |-> Step(f, k)]
           after == CHOOSE f : IsAfter(f)
<1>1. a \in Attempts /\ m.last \in Nat
  BY DEF Message
<1>2. \E f : IsAfter(f)
  <2> DEFINE f == [k \in 0 .. m.last |-> ParsedUpTo(p, a, k)]
  <2>1. ASSUME NEW k \in 0 .. m.last PROVE f[k] = Step(f, k)
    <3>1. CASE k = 0
      <4>1. p.connection.serverCommandSequence \in Nat
        BY DEF ParserType, ConnectionType
      <4>2. ParsedUpTo(p, a, 0) = p
        BY <4>1 DEF ParsedUpTo
      <4> QED
        BY <3>1, <4>2
    <3>2. CASE k # 0
      <4>1. k - 1 \in 0 .. m.last /\ k \in 1 .. Len(s)
        BY <1>1, <3>2
      <4>2. parseServerCommand(ParsedUpTo(p, a, k - 1), k, s[k]) = ParsedUpTo(p, a, k)
        BY <1>1, <4>1, TakesOne
      <4> QED
        BY <3>2, <4>1, <4>2
    <3> QED
      BY <3>1, <3>2
  <2>2. f = [k \in 0 .. m.last |-> f[k]]
    OBVIOUS
  <2> HIDE DEF f, Step
  <2>3. IsAfter(f)
    BY <2>1, <2>2
  <2> QED
    BY <2>3
<1>3. IsAfter(after)
  BY <1>2
<1> HIDE DEF after
<1>4. \A k \in 0 .. m.last : after[k] = Step(after, k)
  BY <1>3
<1>5. ASSUME NEW n \in Nat, n \in 0 .. m.last => after[n] = ParsedUpTo(p, a, n)
      PROVE  n + 1 \in 0 .. m.last => after[n + 1] = ParsedUpTo(p, a, n + 1)
  <2> SUFFICES ASSUME n + 1 \in 0 .. m.last PROVE after[n + 1] = ParsedUpTo(p, a, n + 1)
    OBVIOUS
  <2>1. n \in 0 .. m.last /\ n + 1 # 0 /\ (n + 1) - 1 = n /\ n + 1 \in 1 .. Len(s)
    BY <1>1
  <2>2. after[n + 1] = parseServerCommand(after[n], n + 1, s[n + 1])
    BY <1>4, <2>1
  <2>3. parseServerCommand(ParsedUpTo(p, a, n), n + 1, s[n + 1]) = ParsedUpTo(p, a, n + 1)
    BY <1>1, <2>1, TakesOne
  <2> QED
    BY <1>5, <2>1, <2>2, <2>3
<1>6. after[m.last] = ParsedUpTo(p, a, m.last)
  <2> DEFINE S == {n \in Nat : n \in 0 .. m.last => after[n] = ParsedUpTo(p, a, n)}
  <2>1. 0 \in S
    <3>1. p.connection.serverCommandSequence \in Nat
      BY DEF ParserType, ConnectionType
    <3>2. ParsedUpTo(p, a, 0) = p
      BY <3>1 DEF ParsedUpTo
    <3> QED
      BY <1>1, <1>4, <3>2
  <2>2. \A n \in S : n + 1 \in S
    BY <1>5
  <2>3. S = Nat
    <3> HIDE DEF S
    <3>1. S \in SUBSET Nat
      BY DEF S
    <3> QED
      BY <2>1, <2>2, <3>1, SetInduction
  <2> QED
    BY <1>1, <2>3
<1>7. parseMessage(p, m) =
        IF m.gamestate THEN parseGamestate(after[m.last], m)
        ELSE [after[m.last] EXCEPT !.gameState.world = m.attempt]
  BY DEF parseMessage, after
<1> QED
  BY <1>6, <1>7

-----------------------------------------------------------------------------
(* Where a connectionless packet is, so far has the handshake come.        *)

LEMMA Requests ==
  ASSUME Handshake, NEW p \in requests
  PROVE  \/ GetchallengeSent /\ p = Oob("getchallenge", client.attempt)
         \/ ConnectSent /\ p = Oob("connect", client.attempt)
BY DEF Handshake, InFlight, Idle, GetchallengeSent, GetchallengePassed, ChallengeSent,
   ChallengePassed, ConnectSent, ConnectPassed, ResponseSent, ResponsePassed, Accepted

LEMMA RequestsPassed ==
  ASSUME Handshake, NEW p \in toServer
  PROVE  \/ GetchallengePassed /\ p = Oob("getchallenge", client.attempt)
         \/ ConnectPassed /\ p = Oob("connect", client.attempt)
BY DEF Handshake, InFlight, Idle, GetchallengeSent, GetchallengePassed, ChallengeSent,
   ChallengePassed, ConnectSent, ConnectPassed, ResponseSent, ResponsePassed, Accepted

LEMMA Answers ==
  ASSUME Handshake, NEW p \in answers
  PROVE  \/ ChallengeSent /\ p = Oob("challengeResponse", client.attempt)
         \/ ResponseSent /\ p = Oob("connectResponse", client.attempt)
BY DEF Handshake, InFlight, Idle, GetchallengeSent, GetchallengePassed, ChallengeSent,
   ChallengePassed, ConnectSent, ConnectPassed, ResponseSent, ResponsePassed, Accepted

LEMMA AnswersPassed ==
  ASSUME Handshake, NEW p \in toClient
  PROVE  \/ ChallengePassed /\ p = Oob("challengeResponse", client.attempt)
         \/ ResponsePassed /\ p = Oob("connectResponse", client.attempt)
BY DEF Handshake, InFlight, Idle, GetchallengeSent, GetchallengePassed, ChallengeSent,
   ChallengePassed, ConnectSent, ConnectPassed, ResponseSent, ResponsePassed, Accepted

LEMMA OobFields ==
  \A type, attempt : Oob(type, attempt).type = type /\ Oob(type, attempt).attempt = attempt
BY DEF Oob

-----------------------------------------------------------------------------
(* The invariant holds at first, and every step keeps it.                  *)

LEMMA InitIInv == Init => IInv
<1> SUFFICES ASSUME Init PROVE IInv
  OBVIOUS
<1> USE SessionAssumption
<1>1. TypeOK
  <2>1. \A a \in Attempts : issued[a] \in Seq(Command)
    BY DEF Init
  <2>2. issued \in [Attempts -> Seq(Command)]
    BY <2>1 DEF Init
  <2>3. connection \in [state : {CA_DISCONNECTED, CA_CONNECTING, CA_CHALLENGING, CA_CONNECTED},
                     challenge : 0 .. MaxAttempts, serverCommandSequence : 0 .. MaxCommands]
    BY DEF Init, NewConnection
  <2>4. gameState \in [info : 0 .. MaxAttempts, world : 0 .. MaxAttempts,
                    configStrings : [Indices -> {<< >>, Short, Long}]]
    BY DEF Init, NewGameState
  <2>5. client \in [state : {CA_DISCONNECTED, CA_CONNECTING, CA_CHALLENGING, CA_CONNECTED},
                 attempt : 0 .. MaxAttempts]
        /\ server \in [attempt : 0 .. MaxAttempts, packets : 0 .. MaxPackets]
        /\ netchan \in [session : 0 .. MaxAttempts, incomingSequence : 0 .. MaxPackets]
    BY DEF Init
  <2>6. /\ \A ps \in {requests, answers, toServer, toClient} : ps \subseteq OobPacket
        /\ fromServer \subseteq Message /\ bigInfoStringBuffer \in Seq(Command)
        /\ primed \in BOOLEAN
    <3>1. << >> \in Seq(Command)
      OBVIOUS
    <3>2. bigInfoStringBuffer \in Seq(Command)
      BY <3>1 DEF Init
    <3>3. \A ps \in {requests, answers, toServer, toClient} : ps = {}
      BY DEF Init
    <3> QED
      BY <3>2, <3>3 DEF Init
  <2> QED
    BY <2>2, <2>3, <2>4, <2>5, <2>6 DEF TypeOK
<1>2. Bounded /\ Handshake /\ PacketsCarryAll /\ bigInfoStringBuffer = << >> /\ Follows
  BY DEF Init, Bounded, Handshake, Idle, InFlight, PacketsCarryAll, Follows, NewConnection,
     CA_DISCONNECTED, CA_CONNECTED
<1>3. CommandsAreWellFormed
  BY DEF Init, CommandsAreWellFormed, WellFormed, AtWhole
<1> QED
  BY <1>1, <1>2, <1>3 DEF IInv

\* Nothing but the handshake is about the client and the connectionless packets.
LEMMA Frame ==
  ASSUME CommandsAreWellFormed, UNCHANGED <<issued, server>>
  PROVE  CommandsAreWellFormed'
BY DEF CommandsAreWellFormed, WellFormed, AtWhole, IsPiece

LEMMA PacketsFrame ==
  ASSUME PacketsCarryAll, UNCHANGED <<issued, server, fromServer>>
  PROVE  PacketsCarryAll'
BY DEF PacketsCarryAll, AtWhole

LEMMA FollowsFrame ==
  ASSUME Follows, UNCHANGED <<issued, fromServer, connection, gameState, netchan>>
  PROVE  Follows'
<1>1. \A a, n : ConfigstringsAfter(a, n)' = ConfigstringsAfter(a, n)
  BY DEF ConfigstringsAfter
<1> QED
  BY <1>1 DEF Follows, AtWhole

LEMMA ClientBeginsIInv ==
  ASSUME IInv, ~LateHandshake, ClientBegins
  PROVE  IInv'
<1> USE SessionAssumption
<1>1. TypeOK'
  <2>0. client.attempt \in 0 .. MaxAttempts
    BY DEF IInv, TypeOK
  <2>1. client.attempt + 1 \in Attempts
    BY <2>0 DEF ClientBegins, Attempts
  <2>2. Oob("getchallenge", client.attempt + 1) \in OobPacket
    BY <2>1 DEF Oob, OobPacket
  <2> QED
    BY <2>1, <2>2 DEF IInv, TypeOK, ClientBegins, Attempts, parserVars
<1>2. Bounded' /\ Handshake'
  <2>1. GetchallengeSent' /\ Bounded'
    BY DEF IInv, TypeOK, Bounded, ClientBegins, GetchallengeSent, InFlight, New
  <2> QED
    BY <2>1 DEF Handshake
<1>3. CommandsAreWellFormed' /\ PacketsCarryAll' /\ Follows' /\ bigInfoStringBuffer' = << >>
  BY Frame, PacketsFrame, FollowsFrame DEF IInv, ClientBegins, parserVars
<1> QED
  BY <1>1, <1>2, <1>3 DEF IInv

LEMMA ClientHearsIInv ==
  ASSUME IInv, ~LateHandshake, NEW p \in toClient, ClientHears(p)
  PROVE  IInv'
<1> USE SessionAssumption
<1>0. UNCHANGED <<server, issued, answers, toServer, fromServer, connection, gameState,
                  bigInfoStringBuffer, netchan, primed>>
      /\ toClient' = toClient \ {p} /\ Handshake
  BY DEF ClientHears, parserVars, Left, IInv
<1>1. CASE ChallengePassed /\ p = Oob("challengeResponse", client.attempt)
  <2>1. p.type = "challengeResponse" /\ p.attempt = client.attempt
    BY <1>1, OobFields
  <2>2. client' = [client EXCEPT !.state = CA_CHALLENGING]
        /\ requests' = requests \cup {Oob("connect", client.attempt)}
    BY <2>1 DEF ClientHears
  <2>3. ConnectSent'
    BY <1>0, <1>1, <2>2 DEF ChallengePassed, ConnectSent, InFlight, New, Clean, IInv, TypeOK
  <2>4. TypeOK'
    <3>1. Oob("connect", client.attempt) \in OobPacket
      BY <1>0, <1>1, <2>1 DEF IInv, TypeOK, OobPacket, Oob
    <3> QED
      BY <1>0, <2>2, <3>1 DEF IInv, TypeOK
  <2> QED
    BY <1>0, <2>2, <2>3, <2>4, Frame, PacketsFrame, FollowsFrame
    DEF IInv, Handshake, Bounded, TypeOK
<1>2. CASE ResponsePassed /\ p = Oob("connectResponse", client.attempt)
  <2>1. p.type = "connectResponse" /\ p.attempt = client.attempt
    BY <1>2, OobFields
  <2>2. client' = [client EXCEPT !.state = CA_CONNECTED] /\ requests' = requests
    BY <2>1 DEF ClientHears
  <2>3. Accepted'
    BY <1>0, <1>2, <2>2 DEF ResponsePassed, Accepted, Settled, InFlight, Known, IInv, TypeOK
  <2>4. TypeOK'
    BY <1>0, <2>2 DEF IInv, TypeOK
  <2> QED
    BY <1>0, <2>2, <2>3, <2>4, Frame, PacketsFrame, FollowsFrame
    DEF IInv, Handshake, Bounded, TypeOK
<1> QED
  BY <1>0, <1>1, <1>2, AnswersPassed

LEMMA ServerHearsIInv ==
  ASSUME IInv, ~LateHandshake, NEW p \in toServer, ServerHears(p)
  PROVE  IInv'
<1> USE SessionAssumption
<1>0. UNCHANGED <<client, issued, requests, toClient, fromServer, connection, gameState,
                  bigInfoStringBuffer, netchan, primed>>
      /\ toServer' = toServer \ {p} /\ Handshake
  BY DEF ServerHears, parserVars, Left, IInv
<1>1. CASE GetchallengePassed /\ p = Oob("getchallenge", client.attempt)
  <2>1. p.type = "getchallenge" /\ p.attempt = client.attempt
    BY <1>1, OobFields
  <2>2. server' = server /\ answers' = answers \cup {Oob("challengeResponse", client.attempt)}
    BY <2>1 DEF ServerHears
  <2>3. ChallengeSent'
    BY <1>0, <1>1, <2>2 DEF GetchallengePassed, ChallengeSent, InFlight, New
  <2>4. TypeOK'
    <3>1. Oob("challengeResponse", client.attempt) \in OobPacket
      BY <1>0, <1>1, <2>1 DEF IInv, TypeOK, OobPacket, Oob
    <3> QED
      BY <1>0, <2>2, <3>1 DEF IInv, TypeOK
  <2> QED
    BY <1>0, <2>2, <2>3, <2>4, Frame, PacketsFrame, FollowsFrame DEF IInv, Handshake, Bounded
<1>2. CASE ConnectPassed /\ p = Oob("connect", client.attempt)
  <2>1. p.type = "connect" /\ p.attempt = client.attempt
    BY <1>2, OobFields
  <2>2. server' = [attempt |-> client.attempt, packets |-> 0]
        /\ answers' = answers \cup {Oob("connectResponse", client.attempt)}
    BY <2>1 DEF ServerHears
  <2>3. ResponseSent'
    BY <1>0, <1>2, <2>2 DEF ConnectPassed, ResponseSent, InFlight, New, Clean, Known
  <2>4. TypeOK'
    <3>1. Oob("connectResponse", client.attempt) \in OobPacket
      BY <1>0, <1>2, <2>1 DEF IInv, TypeOK, OobPacket, Oob
    <3> QED
      BY <1>0, <2>2, <3>1 DEF IInv, TypeOK
  <2>5. server.attempt \in Nat /\ client.attempt \in Nat /\ server.attempt < client.attempt
    BY <1>2 DEF IInv, TypeOK, ConnectPassed, New
  <2>6. CommandsAreWellFormed'
    BY <1>0, <2>2, <2>5 DEF IInv, CommandsAreWellFormed, WellFormed, AtWhole, IsPiece, Attempts
  <2>7. PacketsCarryAll'
    <3>1. \A m \in fromServer : m.attempt \in Nat
      BY DEF IInv, TypeOK, Message, Attempts
    <3> QED
      BY <1>0, <2>2, <2>5, <3>1 DEF IInv, PacketsCarryAll, AtWhole
  <2>8. Bounded' /\ Handshake'
    BY <1>0, <2>2, <2>3, <2>5 DEF IInv, Bounded, Handshake
  <2> QED
    BY <1>0, <2>4, <2>6, <2>7, <2>8, FollowsFrame DEF IInv
<1> QED
  BY <1>0, <1>1, <1>2, RequestsPassed

\* What the server has issued, by the number of commands the parser has taken.
LEMMA ConfigstringsKept ==
  ASSUME NEW a, NEW n \in Nat, \A k \in 1 .. n : issued'[a][k] = issued[a][k]
  PROVE  ConfigstringsAfter(a, n)' = ConfigstringsAfter(a, n)
<1> DEFINE Texts(s, i) == {k \in 1 .. n : s[k].name \in {"cs", "bcs2"} /\ s[k].index = i}
           Text(s, i) == IF Texts(s, i) = {} THEN << >>
                         ELSE LET k == CHOOSE k \in Texts(s, i) :
                                         \A l \in Texts(s, i) : l <= k
                              IN IF s[k].name = "cs" THEN Short ELSE Long
<1>1. ConfigstringsAfter(a, n) = [i \in Indices |-> Text(issued[a], i)]
      /\ ConfigstringsAfter(a, n)' = [i \in Indices |-> Text(issued'[a], i)]
  BY DEF ConfigstringsAfter
<1>2. ASSUME NEW i \in Indices PROVE Text(issued[a], i) = Text(issued'[a], i)
  <2>1. Texts(issued[a], i) = Texts(issued'[a], i)
    OBVIOUS
  <2>2. CASE Texts(issued[a], i) = {}
    BY <2>1, <2>2
  <2>3. CASE Texts(issued[a], i) # {}
    <3> DEFINE l == CHOOSE k \in Texts(issued[a], i) : \A l \in Texts(issued[a], i) : l <= k
    <3>1. Text(issued[a], i) = (IF issued[a][l].name = "cs" THEN Short ELSE Long)
          /\ Text(issued'[a], i) = (IF issued'[a][l].name = "cs" THEN Short ELSE Long)
      BY <2>1, <2>3
    <3>2. \E k \in Texts(issued[a], i) : \A j \in Texts(issued[a], i) : j <= k
      <4>1. Texts(issued[a], i) \in SUBSET Nat /\ \A k \in Texts(issued[a], i) : k <= n
        OBVIOUS
      <4> HIDE DEF Texts
      <4> QED
        BY <2>3, <4>1, HasLast
    <3>3. l \in Texts(issued[a], i)
      BY <3>2
    <3>4. l \in 1 .. n
      BY <3>3
    <3> HIDE DEF l, Text
    <3> QED
      BY <3>1, <3>4
  <2> QED
    BY <2>2, <2>3
<1> HIDE DEF Text
<1>3. [i \in Indices |-> Text(issued[a], i)] = [i \in Indices |-> Text(issued'[a], i)]
  BY <1>2
<1> QED
  BY <1>1, <1>3

\* Commands that end no text go unnoticed, and those that do come whole.
LEMMA ServerIssuesIInv ==
  ASSUME IInv, ~LateHandshake, NEW new \in Seq(Command), WellFormed(new), new # << >>,
         AtWhole(new, Len(new)), ServerIssues(new)
  PROVE  IInv'
<1> USE SessionAssumption
<1> DEFINE a == server.attempt
           old == issued[a]
           s == old \o new
<1>0. /\ UNCHANGED <<client, server, requests, answers, toServer, toClient, fromServer,
                     connection, gameState, bigInfoStringBuffer, netchan, primed>>
      /\ issued' = [issued EXCEPT ![a] = s]
      /\ a \in Attempts /\ old \in Seq(Command) /\ WellFormed(old)
      /\ AtWhole(old, Len(old)) /\ Len(s) <= MaxCommands
      /\ \A k \in 1 .. Len(old) : old[k].name # "disconnect"
      /\ issued \in [Attempts -> Seq(Command)] /\ a \in Nat
  <2>1. /\ UNCHANGED <<client, server, requests, answers, toServer, toClient, fromServer,
                       connection, gameState, bigInfoStringBuffer, netchan, primed>>
        /\ issued' = [issued EXCEPT ![a] = s]
        /\ a # 0 /\ ~Dropped(a) /\ Len(old) + Len(new) <= MaxCommands
    BY DEF ServerIssues, oobVars, parserVars
  <2>2. /\ server \in [attempt : 0 .. MaxAttempts, packets : 0 .. MaxPackets]
        /\ issued \in [Attempts -> Seq(Command)]
    BY DEF IInv, TypeOK
  <2>3. a \in Attempts /\ a \in Nat
    BY <2>1, <2>2 DEF Attempts
  <2>4. old \in Seq(Command)
    BY <2>2, <2>3
  <2> HIDE DEF a
  <2>5. WellFormed(old) /\ AtWhole(old, Len(old))
    BY <2>3 DEF IInv, CommandsAreWellFormed
  <2> HIDE DEF old
  <2>6. Len(s) = Len(old) + Len(new)
    BY <2>4
  <2>7. \A k \in 1 .. Len(old) : old[k].name # "disconnect"
    BY <2>1, <2>4 DEF Dropped, old
  <2> QED
    BY <2>1, <2>2, <2>3, <2>4, <2>5, <2>6, <2>7
<1>1. s \in Seq(Command) /\ Len(s) = Len(old) + Len(new) /\ Len(new) \in Nat /\ Len(old) \in Nat
      /\ Len(new) > 0
  BY <1>0
<1>2. \A k \in 1 .. Len(old) : s[k] = old[k]
  BY <1>0
<1>3. \A k \in 1 .. Len(new) : s[Len(old) + k] = new[k]
  BY <1>0
<1>4. issued'[a] = s /\ \A b \in Attempts : b # a => issued'[b] = issued[b]
  BY <1>0
<1> HIDE DEF s
<1>5. WellFormed(s)
  <2>1. ASSUME NEW k \in 1 .. Len(old)
        PROVE  \/ \E i \in Indices : s[k] = cs(i, Short)
               \/ s[k].name = "disconnect" /\ k = Len(s)
               \/ s[k].name = "bcs0" /\ k + 2 <= Len(s) /\ IsPiece(s, k)
               \/ s[k].name = "bcs1" /\ k > 1 /\ k + 1 <= Len(s) /\ IsPiece(s, k - 1)
               \/ s[k].name = "bcs2" /\ k > 2 /\ IsPiece(s, k - 2)
    <3>1. s[k] = old[k] /\ old[k].name # "disconnect"
      BY <1>0, <1>2
    <3>2. \/ \E i \in Indices : old[k] = cs(i, Short)
          \/ old[k].name = "bcs0" /\ k + 2 <= Len(old) /\ IsPiece(old, k)
          \/ old[k].name = "bcs1" /\ k > 1 /\ k + 1 <= Len(old) /\ IsPiece(old, k - 1)
          \/ old[k].name = "bcs2" /\ k > 2 /\ IsPiece(old, k - 2)
      <4> HIDE DEF old
      <4> QED
        BY <1>0, <3>1, Zenon DEF WellFormed
    <3>3. ASSUME NEW l \in 1 .. Len(old) - 2, IsPiece(old, l)
          PROVE  IsPiece(s, l)
      <4>1. s[l] = old[l] /\ s[l + 1] = old[l + 1] /\ s[l + 2] = old[l + 2]
        BY <1>1, <1>2
      <4> QED
        BY <3>3, <4>1 DEF IsPiece
    <3> HIDE DEF old
    <3> QED
      BY <1>1, <3>1, <3>2, <3>3
  <2>2. ASSUME NEW k \in 1 .. Len(s), k \notin 1 .. Len(old)
        PROVE  \/ \E i \in Indices : s[k] = cs(i, Short)
               \/ s[k].name = "disconnect" /\ k = Len(s)
               \/ s[k].name = "bcs0" /\ k + 2 <= Len(s) /\ IsPiece(s, k)
               \/ s[k].name = "bcs1" /\ k > 1 /\ k + 1 <= Len(s) /\ IsPiece(s, k - 1)
               \/ s[k].name = "bcs2" /\ k > 2 /\ IsPiece(s, k - 2)
    <3>1. PICK h \in Nat : h = Len(old)
      BY <1>1
    <3>2. k - h \in 1 .. Len(new)
      BY <1>1, <2>2, <3>1
    <3>3. \A l \in 1 .. Len(s) : l - h \in 1 .. Len(new) => s[l] = new[l - h]
      <4>1. \A l \in 1 .. Len(s) : h + (l - h) = l
        BY <1>1, <3>1
      <4> HIDE DEF old
      <4> QED
        BY <1>3, <3>1, <4>1
    <3>4. s[k] = new[k - h]
      BY <3>2, <3>3
    <3>5. \/ \E i \in Indices : new[k - h] = cs(i, Short)
          \/ new[k - h].name = "disconnect" /\ k - h = Len(new)
          \/ new[k - h].name = "bcs0" /\ (k - h) + 2 <= Len(new) /\ IsPiece(new, k - h)
          \/ new[k - h].name = "bcs1" /\ k - h > 1 /\ (k - h) + 1 <= Len(new)
             /\ IsPiece(new, (k - h) - 1)
          \/ new[k - h].name = "bcs2" /\ k - h > 2 /\ IsPiece(new, (k - h) - 2)
      BY <3>2, Zenon DEF WellFormed
    <3>6. ASSUME NEW l \in 1 .. Len(s), l - h \in 1 .. Len(new) - 2, IsPiece(new, l - h)
          PROVE  IsPiece(s, l)
      <4>1. /\ l + 1 \in 1 .. Len(s) /\ (l + 1) - h \in 1 .. Len(new) /\ (l + 1) - h = (l - h) + 1
            /\ l + 2 \in 1 .. Len(s) /\ (l + 2) - h \in 1 .. Len(new) /\ (l + 2) - h = (l - h) + 2
            /\ l - h \in 1 .. Len(new)
        BY <1>1, <3>1, <3>6
      <4>2. s[l] = new[l - h] /\ s[l + 1] = new[(l - h) + 1] /\ s[l + 2] = new[(l - h) + 2]
        BY <3>3, <4>1
      <4> QED
        BY <3>6, <4>2 DEF IsPiece
    <3>7. (k - h) - 1 = (k - 1) - h /\ (k - h) - 2 = (k - 2) - h /\ Len(s) = h + Len(new)
          /\ Len(new) \in Nat
      BY <1>1, <3>1
    <3>8. ASSUME IsPiece(new, k - h), (k - h) + 2 <= Len(new)
          PROVE  IsPiece(s, k) /\ k + 2 <= Len(s)
      BY <3>2, <3>6, <3>7, <3>8
    <3>9. ASSUME IsPiece(new, (k - h) - 1), k - h > 1, (k - h) + 1 <= Len(new)
          PROVE  IsPiece(s, k - 1) /\ k > 1 /\ k + 1 <= Len(s)
      <4>1. k - 1 \in 1 .. Len(s) /\ (k - 1) - h \in 1 .. Len(new) - 2
        BY <3>2, <3>7, <3>9
      <4> QED
        BY <3>6, <3>7, <3>9, <4>1
    <3>10. ASSUME IsPiece(new, (k - h) - 2), k - h > 2
           PROVE  IsPiece(s, k - 2) /\ k > 2
      <4>1. k - 2 \in 1 .. Len(s) /\ (k - 2) - h \in 1 .. Len(new) - 2
        BY <3>2, <3>7, <3>10
      <4> QED
        BY <3>6, <3>7, <3>10, <4>1
    <3>11. k - h = Len(new) => k = Len(s)
      BY <3>7
    <3> QED
      BY <3>4, <3>5, <3>8, <3>9, <3>10, <3>11, Zenon
  <2> HIDE DEF old
  <2> QED
    BY <2>1, <2>2 DEF WellFormed
<1>6. AtWhole(s, Len(s))
  BY <1>1, <1>3 DEF AtWhole
<1>7. \A b \in Attempts : \A k \in 1 .. Len(issued[b]) : issued'[b][k] = issued[b][k]
  BY <1>2, <1>4
<1>8. \A b \in Attempts : Len(issued[b]) \in Nat /\ Len(issued'[b]) \in Nat
                           /\ Len(issued[b]) <= Len(issued'[b])
  BY <1>0, <1>1, <1>4
<1> HIDE DEF old
<1>9. TypeOK'
  BY <1>0, <1>1 DEF IInv, TypeOK
<1>10. Bounded' /\ Handshake'
  BY <1>0 DEF IInv, Bounded, Handshake, InFlight, Idle, GetchallengeSent, GetchallengePassed,
     ChallengeSent, ChallengePassed, ConnectSent, ConnectPassed, ResponseSent, ResponsePassed,
     Accepted, Settled, New, Clean, Known
<1>11. CommandsAreWellFormed'
  <2>1. \A b \in Attempts : WellFormed(issued'[b])
    BY <1>4, <1>5 DEF IInv, CommandsAreWellFormed
  <2>2. \A b \in Attempts : Len(issued'[b]) <= MaxCommands
                             /\ AtWhole(issued'[b], Len(issued'[b]))
    BY <1>0, <1>4, <1>6 DEF IInv, CommandsAreWellFormed
  <2>3. \A b \in Attempts : b > server'.attempt => issued'[b] = << >>
    BY <1>0, <1>4 DEF IInv, CommandsAreWellFormed
  <2> QED
    BY <2>1, <2>2, <2>3 DEF CommandsAreWellFormed
<1>12. \A b \in Attempts, n \in Nat : n <= Len(issued[b]) =>
         (AtWhole(issued[b], n) <=> AtWhole(issued'[b], n))
  BY <1>7 DEF AtWhole
<1>13. PacketsCarryAll'
  <2>1. \A m \in fromServer : m.attempt \in Attempts /\ m.last \in Nat
    BY DEF IInv, TypeOK, Message
  <2> QED
    BY <1>0, <1>8, <1>12, <2>1 DEF IInv, PacketsCarryAll
<1>14. Follows'
  <2> SUFFICES ASSUME (connection.state = CA_CONNECTED)' PROVE Follows'
    BY DEF Follows
  <2>1. connection.state = CA_CONNECTED
        /\ netchan.session \in Attempts /\ connection.serverCommandSequence \in Nat
    BY <1>0 DEF IInv, Follows, TypeOK
  <2>2. PICK b \in Attempts : b = netchan.session
    BY <2>1
  <2>3. PICK n \in Nat : n = connection.serverCommandSequence
    BY <2>1
  <2>4. /\ n <= Len(issued[b]) /\ AtWhole(issued[b], n)
        /\ \A k \in 1 .. n : issued[b][k].name # "disconnect"
        /\ gameState.configStrings = ConfigstringsAfter(b, n)
        /\ \A m \in fromServer :
             m.attempt = b /\ m.seq > netchan.incomingSequence => m.last >= n
    BY <2>1, <2>2, <2>3 DEF IInv, Follows
  <2>5. \A k \in 1 .. n : issued'[b][k] = issued[b][k]
    BY <1>7, <1>8, <2>4
  <2>6. ConfigstringsAfter(b, n)' = ConfigstringsAfter(b, n)
    BY <2>5, ConfigstringsKept
  <2>7. n <= Len(issued'[b]) /\ AtWhole(issued'[b], n)
    BY <1>8, <1>12, <2>4
  <2>8. b = netchan'.session /\ n = connection'.serverCommandSequence
    BY <1>0, <2>2, <2>3
  <2> QED
    BY <1>0, <2>4, <2>5, <2>6, <2>7, <2>8 DEF Follows
<1> QED
  BY <1>0, <1>9, <1>10, <1>11, <1>13, <1>14 DEF IInv

\* Every text goes out whole.
LEMMA CommandsForText ==
  ASSUME NEW i \in Indices, NEW text \in {Short, Long}
  PROVE  LET new == CommandsFor(i, text)
         IN new \in Seq(Command) /\ WellFormed(new) /\ new # << >> /\ AtWhole(new, Len(new))
<1>1. CASE text = Short
  <2> DEFINE c == cs(i, Short)
  <2>1. c \in Command /\ c.name = "cs" /\ c = cs(i, Short)
    BY DEF cs, Command
  <2>2. CommandsFor(i, text) = <<c>>
    <3>1. Len(text) = 1
      BY <1>1 DEF Short
    <3> QED
      BY <1>1, <3>1 DEF CommandsFor
  <2> HIDE DEF c
  <2>3. <<c>> \in Seq(Command) /\ Len(<<c>>) = 1 /\ <<c>>[1] = c /\ <<c>> # << >>
    BY <2>1
  <2>4. WellFormed(<<c>>)
    BY <2>1, <2>3 DEF WellFormed
  <2>5. AtWhole(<<c>>, Len(<<c>>))
    BY <2>1, <2>3 DEF AtWhole
  <2> QED
    BY <2>2, <2>3, <2>4, <2>5
<1>2. CASE text = Long
  <2> DEFINE c0 == bcs("bcs0", i, Long[1])
             c1 == bcs("bcs1", i, Long[2])
             c2 == bcs("bcs2", i, Long[3])
             new == <<c0, c1, c2>>
  <2>1. c0 \in Command /\ c1 \in Command /\ c2 \in Command
        /\ c0.name = "bcs0" /\ c1.name = "bcs1" /\ c2.name = "bcs2"
    BY DEF bcs, Command
  <2>2. CommandsFor(i, text) = new
    <3>1. Len(text) # 1
      BY <1>2 DEF Long
    <3> QED
      BY <1>2, <3>1 DEF CommandsFor
  <2> HIDE DEF c0, c1, c2
  <2>3. new \in Seq(Command) /\ Len(new) = 3 /\ new # << >>
        /\ new[1] = c0 /\ new[2] = c1 /\ new[3] = c2
    BY <2>1
  <2> HIDE DEF new
  <2>4. IsPiece(new, 1)
    <3>1. 1 + 1 = 2 /\ 1 + 2 = 3
      OBVIOUS
    <3> QED
      BY <2>3, <3>1 DEF IsPiece, c0, c1, c2
  <2>5. ASSUME NEW k \in 1 .. Len(new)
        PROVE  \/ new[k].name = "bcs0" /\ k + 2 <= Len(new) /\ IsPiece(new, k)
               \/ new[k].name = "bcs1" /\ k > 1 /\ k + 1 <= Len(new) /\ IsPiece(new, k - 1)
               \/ new[k].name = "bcs2" /\ k > 2 /\ IsPiece(new, k - 2)
    <3>1. k = 1 \/ (k = 2 /\ k - 1 = 1) \/ (k = 3 /\ k - 2 = 1)
      BY <2>3
    <3> QED
      BY <2>1, <2>3, <2>4, <3>1
  <2>6. WellFormed(new)
    BY <2>5, Zenon DEF WellFormed
  <2>7. AtWhole(new, Len(new))
    BY <2>1, <2>3 DEF AtWhole
  <2> QED
    BY <2>2, <2>3, <2>6, <2>7
<1> QED
  BY <1>1, <1>2

LEMMA DisconnectCommand ==
  LET new == <<[name |-> "disconnect", index |-> 0, text |-> << >>]>>
  IN new \in Seq(Command) /\ WellFormed(new) /\ new # << >> /\ AtWhole(new, Len(new))
<1> DEFINE c == [name |-> "disconnect", index |-> 0, text |-> << >>]
<1>1. c \in Command /\ c.name = "disconnect"
  BY DEF Command
<1> HIDE DEF c
<1>2. <<c>> \in Seq(Command) /\ Len(<<c>>) = 1 /\ <<c>>[1] = c /\ <<c>> # << >>
  BY <1>1
<1>3. WellFormed(<<c>>) /\ AtWhole(<<c>>, Len(<<c>>))
  BY <1>1, <1>2 DEF WellFormed, AtWhole
<1> QED
  BY <1>2, <1>3 DEF c

LEMMA ServerSendsIInv ==
  ASSUME IInv, ~LateHandshake, NEW gamestate \in BOOLEAN, ServerSends(gamestate)
  PROVE  IInv'
<1> USE SessionAssumption
<1> DEFINE a == server.attempt
           m == [attempt |-> a, seq |-> server.packets + 1, last |-> Len(issued[a]),
                 gamestate |-> gamestate]
<1>0. /\ UNCHANGED <<client, issued, requests, answers, toServer, toClient,
                     connection, gameState, bigInfoStringBuffer, netchan, primed>>
      /\ server' = [server EXCEPT !.packets = server.packets + 1]
      /\ fromServer' = fromServer \cup {m}
      /\ a \in Attempts /\ server.packets \in Nat /\ server.packets < MaxPackets
  <2>1. server \in [attempt : 0 .. MaxAttempts, packets : 0 .. MaxPackets]
    BY DEF IInv, TypeOK
  <2>2. a \in Attempts /\ server.packets \in Nat /\ server.packets < MaxPackets
    BY <2>1 DEF ServerSends, Attempts
  <2> QED
    BY <2>2 DEF ServerSends, oobVars, parserVars
<1>1. server'.attempt = a /\ server'.packets = server.packets + 1
  BY <1>0 DEF IInv, TypeOK
<1>2. /\ issued[a] \in Seq(Command) /\ Len(issued[a]) \in 0 .. MaxCommands
      /\ AtWhole(issued[a], Len(issued[a])) /\ WellFormed(issued[a])
  BY <1>0 DEF IInv, TypeOK, CommandsAreWellFormed
<1>3. m.attempt = a /\ m.seq = server.packets + 1 /\ m.last = Len(issued[a]) /\ m \in Message
  BY <1>0, <1>2 DEF Message
<1> HIDE DEF m
<1>4. TypeOK'
  <2>0. fromServer \subseteq Message
    BY DEF IInv, TypeOK
  <2>1. fromServer' \subseteq Message
    BY <1>0, <1>3, <2>0
  <2>2. server' \in [attempt : 0 .. MaxAttempts, packets : 0 .. MaxPackets]
    <3>1. server \in [attempt : 0 .. MaxAttempts, packets : 0 .. MaxPackets]
      BY DEF IInv, TypeOK
    <3> QED
      BY <1>0, <3>1
  <2> QED
    BY <1>0, <2>1, <2>2 DEF IInv, TypeOK
<1>5. Bounded' /\ Handshake'
  BY <1>0, <1>1 DEF IInv, Bounded, Handshake, InFlight, Idle, GetchallengeSent,
     GetchallengePassed, ChallengeSent, ChallengePassed, ConnectSent, ConnectPassed,
     ResponseSent, ResponsePassed, Accepted, Settled, New, Clean, Known
<1>6. CommandsAreWellFormed'
  BY <1>0, <1>1 DEF IInv, CommandsAreWellFormed, WellFormed, AtWhole, IsPiece
<1>7. \A n \in fromServer : n.last \in Nat /\ n.seq \in Nat /\ n.attempt \in Attempts
  BY DEF IInv, TypeOK, Message
<1>8. PacketsCarryAll'
  <2>1. \A n \in fromServer' :
          /\ n.attempt <= server'.attempt
          /\ n.attempt = server'.attempt => n.seq <= server'.packets
          /\ n.last <= Len(issued'[n.attempt])
          /\ AtWhole(issued'[n.attempt], n.last)
    <3>1. \A n \in fromServer :
          /\ n.attempt <= a
          /\ n.attempt = a => n.seq <= server.packets
          /\ n.last <= Len(issued[n.attempt])
          /\ AtWhole(issued[n.attempt], n.last)
      BY DEF IInv, PacketsCarryAll
    <3>2. a <= a
      BY <1>0 DEF Attempts
    <3> HIDE DEF a
    <3> QED
      BY <1>0, <1>1, <1>2, <1>3, <1>7, <3>1, <3>2
  <2>2. \A n, o \in fromServer' : n.attempt = o.attempt /\ n.seq < o.seq => n.last <= o.last
    <3>1. \A n, o \in fromServer : n.attempt = o.attempt /\ n.seq < o.seq => n.last <= o.last
      BY DEF IInv, PacketsCarryAll
    <3>2. \A n \in fromServer : n.attempt = a => n.seq <= server.packets
                                                  /\ n.last <= Len(issued[a])
      BY DEF IInv, PacketsCarryAll
    <3> HIDE DEF a
    <3> QED
      BY <1>0, <1>2, <1>3, <1>7, <3>1, <3>2
  <2> QED
    BY <2>1, <2>2 DEF PacketsCarryAll, AtWhole
<1>9. Follows'
  <2>1. ASSUME connection.state = CA_CONNECTED
        PROVE  /\ netchan.session \in Attempts
               /\ connection.serverCommandSequence <= Len(issued[netchan.session])
               /\ AtWhole(issued[netchan.session], connection.serverCommandSequence)
               /\ \A k \in 1 .. connection.serverCommandSequence :
                    issued[netchan.session][k].name # "disconnect"
               /\ gameState.configStrings =
                    ConfigstringsAfter(netchan.session, connection.serverCommandSequence)
               /\ \A n \in fromServer : n.attempt = netchan.session
                    /\ n.seq > netchan.incomingSequence
                      => n.last >= connection.serverCommandSequence
    BY <2>1 DEF IInv, Follows
  <2>2. \A b, n : ConfigstringsAfter(b, n)' = ConfigstringsAfter(b, n)
    BY <1>0 DEF ConfigstringsAfter
  <2>3. connection.serverCommandSequence \in Nat
    BY DEF IInv, TypeOK
  <2> HIDE DEF a
  <2> QED
    BY <1>0, <1>2, <1>3, <2>1, <2>2, <2>3 DEF Follows, AtWhole
<1> QED
  BY <1>0, <1>4, <1>5, <1>6, <1>8, <1>9 DEF IInv

LEMMA ObserveRequestIInv ==
  ASSUME IInv, ~LateHandshake, NEW p \in requests, ObserveRequest(p)
  PROVE  IInv'
<1> USE SessionAssumption
<1>0. /\ UNCHANGED <<client, server, issued, answers, toClient, fromServer, netchan, primed>>
      /\ requests' = requests \ {p} /\ toServer' = toServer \cup {p}
      /\ Handshake /\ client.attempt \in 0 .. MaxAttempts
      /\ ParserBecomes(handleOobPacketFromClient(Parser, p))
      /\ connection \in ConnectionType /\ gameState \in GameStateType
  BY DEF ObserveRequest, endpointVars, Left, IInv, TypeOK, ConnectionType, GameStateType
<1>1. p \in OobPacket
  BY DEF IInv, TypeOK
<1>2. CASE GetchallengeSent /\ p = Oob("getchallenge", client.attempt)
  <2>1. p.type = "getchallenge" /\ p.attempt = client.attempt
    BY <1>2, OobFields
  <2>2. connection' = [connection EXCEPT !.state = CA_CONNECTING]
        /\ gameState' = gameState /\ bigInfoStringBuffer' = bigInfoStringBuffer
    BY <1>0, <2>1 DEF ParserBecomes, handleOobPacketFromClient, setConnectionState, Parser
  <2>3. connection' \in ConnectionType /\ connection'.state = CA_CONNECTING
    BY <1>0, <2>2 DEF ConnectionType
  <2>4. GetchallengePassed'
    BY <1>0, <1>2, <2>3 DEF GetchallengeSent, GetchallengePassed, InFlight, New
  <2>5. Follows'
    BY <2>3 DEF Follows, CA_CONNECTING, CA_CONNECTED
  <2>6. TypeOK'
    BY <1>0, <1>1, <2>2, <2>3 DEF IInv, TypeOK, ConnectionType
  <2> QED
    BY <1>0, <2>2, <2>4, <2>5, <2>6, Frame, PacketsFrame DEF IInv, Handshake, Bounded
<1>3. CASE ConnectSent /\ p = Oob("connect", client.attempt)
  <2>1. p.type = "connect" /\ p.attempt = client.attempt
    BY <1>3, OobFields
  <2>2. connection' = [connection EXCEPT !.challenge = client.attempt, !.state = CA_CONNECTING]
        /\ gameState' = [gameState EXCEPT !.info = client.attempt]
        /\ bigInfoStringBuffer' = bigInfoStringBuffer
    BY <1>0, <2>1 DEF ParserBecomes, handleOobPacketFromClient, setConnectionState, Parser
  <2>3. connection' \in ConnectionType /\ connection'.state = CA_CONNECTING
        /\ connection'.challenge = client.attempt
        /\ connection'.serverCommandSequence = connection.serverCommandSequence
    BY <1>0, <2>2 DEF ConnectionType
  <2>4. gameState' \in GameStateType /\ gameState'.info = client.attempt
        /\ gameState'.configStrings = gameState.configStrings
        /\ gameState'.world = gameState.world
    BY <1>0, <2>2 DEF GameStateType
  <2>5. ConnectPassed'
    BY <1>0, <1>3, <2>3, <2>4 DEF ConnectSent, ConnectPassed, InFlight, New, Clean, Known
  <2>6. Follows'
    BY <2>3 DEF Follows, CA_CONNECTING, CA_CONNECTED
  <2>7. TypeOK'
    <3>0. requests \subseteq OobPacket /\ toServer \subseteq OobPacket
      BY DEF IInv, TypeOK
    <3>1. requests' \subseteq OobPacket /\ toServer' \subseteq OobPacket
      BY <1>0, <1>1, <3>0
    <3>2. connection' \in ConnectionType /\ gameState' \in GameStateType
      BY <2>3, <2>4
    <3>3. bigInfoStringBuffer' = bigInfoStringBuffer
      BY <2>2
    <3> QED
      BY <1>0, <3>1, <3>2, <3>3 DEF IInv, TypeOK, ConnectionType, GameStateType
  <2> QED
    BY <1>0, <2>2, <2>5, <2>6, <2>7, Frame, PacketsFrame DEF IInv, Handshake, Bounded
<1> QED
  BY <1>0, <1>2, <1>3, Requests

LEMMA NewStateType ==
  /\ NewGameState \in GameStateType
  /\ NewGameState.configStrings = [i \in Indices |-> << >>] /\ NewGameState.world = 0
  /\ \A challenge \in 0 .. MaxAttempts :
       /\ NewConnection(challenge) \in ConnectionType
       /\ NewConnection(challenge).state = CA_DISCONNECTED
       /\ NewConnection(challenge).challenge = challenge
       /\ NewConnection(challenge).serverCommandSequence = 0
BY SessionAssumption DEF NewGameState, GameStateType, NewConnection, ConnectionType

\* A session begins with no commands and empty configstrings.
LEMMA NothingIssued ==
  ASSUME NEW a
  PROVE  ConfigstringsAfter(a, 0) = NewGameState.configStrings
BY NewStateType DEF ConfigstringsAfter

LEMMA ObserveAnswerIInv ==
  ASSUME IInv, ~LateHandshake, NEW p \in answers, ObserveAnswer(p)
  PROVE  IInv'
<1> USE SessionAssumption
<1>0. /\ UNCHANGED <<client, server, issued, requests, toServer>>
      /\ answers' = answers \ {p} /\ toClient' = toClient \cup {p}
      /\ Handshake /\ client.attempt \in 0 .. MaxAttempts
      /\ ParserBecomes(handleOobPacketFromServer(Parser, p))
      /\ connection \in ConnectionType /\ gameState \in GameStateType
      /\ netchan.session \in Nat
  BY DEF ObserveAnswer, endpointVars, Left, IInv, TypeOK, ConnectionType, GameStateType
<1>1. p \in OobPacket
  BY DEF IInv, TypeOK
<1>2. CASE ChallengeSent /\ p = Oob("challengeResponse", client.attempt)
  <2>1. p.type = "challengeResponse" /\ p.attempt = client.attempt
    BY <1>2, OobFields
  <2>2. UNCHANGED <<netchan, primed, fromServer>>
    BY <2>1 DEF ObserveAnswer
  <2> DEFINE new == [NewConnection(client.attempt) EXCEPT !.state = CA_CHALLENGING]
  <2>3. connection' = new /\ gameState' = NewGameState
        /\ bigInfoStringBuffer' = bigInfoStringBuffer
    <3>1. handleOobPacketFromServer(Parser, p)
            = setConnectionState(reset(Parser, client.attempt), CA_CHALLENGING)
      BY <1>2, <2>1 DEF handleOobPacketFromServer, Parser, ChallengeSent
    <3>2. reset(Parser, client.attempt) = [connection |-> NewConnection(client.attempt),
                             gameState |-> NewGameState, bigInfo |-> bigInfoStringBuffer]
      BY Resets DEF Parser
    <3> QED
      BY <1>0, <3>1, <3>2 DEF ParserBecomes, setConnectionState
  <2>4. connection' \in ConnectionType /\ connection'.state = CA_CHALLENGING
        /\ connection'.serverCommandSequence = 0
    BY <1>0, <2>3, NewStateType DEF ConnectionType
  <2>5. ChallengePassed'
    BY <1>0, <1>2, <2>2, <2>3, <2>4, NewStateType
    DEF ChallengeSent, ChallengePassed, InFlight, New, Clean
  <2>6. Follows'
    BY <2>4 DEF Follows, CA_CHALLENGING, CA_CONNECTED
  <2>7. TypeOK'
    BY <1>0, <1>1, <2>2, <2>3, <2>4, NewStateType DEF IInv, TypeOK, ConnectionType, GameStateType
  <2> QED
    BY <1>0, <2>2, <2>3, <2>5, <2>6, <2>7, Frame, PacketsFrame DEF IInv, Handshake, Bounded
<1>3. CASE ResponseSent /\ p = Oob("connectResponse", client.attempt)
  <2>1. p.type = "connectResponse" /\ p.attempt = client.attempt
        /\ p.attempt > netchan.session /\ client.attempt \in Attempts
    <3>1. client.attempt > netchan.session
      BY <1>0, <1>3 DEF ResponseSent
    <3>2. client.attempt \in Attempts
      BY <1>0, <3>1 DEF Attempts
    <3> QED
      BY <1>3, <3>1, <3>2, OobFields
  <2>2. /\ netchan' = [session |-> client.attempt, incomingSequence |-> 0]
        /\ primed' = FALSE
        /\ fromServer' = {m \in fromServer : m.attempt = client.attempt}
    BY <2>1 DEF ObserveAnswer
  <2>3. connection' = [connection EXCEPT !.state = CA_CONNECTED] /\ gameState' = gameState
        /\ bigInfoStringBuffer' = bigInfoStringBuffer
    BY <1>0, <2>1 DEF ParserBecomes, handleOobPacketFromServer, setConnectionState, Parser
  <2>4. connection' \in ConnectionType /\ connection'.state = CA_CONNECTED
        /\ connection'.serverCommandSequence = connection.serverCommandSequence
        /\ connection'.challenge = connection.challenge
    BY <1>0, <2>3 DEF ConnectionType
  <2>5. ResponsePassed'
    BY <1>0, <1>3, <2>2, <2>3, <2>4
    DEF ResponseSent, ResponsePassed, Settled, InFlight, Known
  <2>6. PacketsCarryAll'
    BY <1>0, <2>2 DEF IInv, PacketsCarryAll, AtWhole
  <2>7. Follows'
    <3>1. connection.serverCommandSequence = 0
          /\ gameState.configStrings = NewGameState.configStrings
      BY <1>3 DEF ResponseSent, Clean
    <3>2. \A m \in fromServer : m.last >= 0
      BY DEF IInv, TypeOK, Message
    <3>3. Len(issued[client.attempt]) >= 0
      BY <2>1 DEF IInv, TypeOK
    <3>4. connection'.serverCommandSequence = 0 /\ netchan'.session = client.attempt
          /\ netchan'.incomingSequence = 0
      BY <2>2, <2>4, <3>1
    <3>5. gameState'.configStrings = [i \in Indices |-> << >>]
      BY <2>3, <3>1, NewStateType
    <3>6. ConfigstringsAfter(netchan.session, connection.serverCommandSequence)'
            = [i \in Indices |-> << >>]
      BY <3>4 DEF ConfigstringsAfter
    <3> QED
      BY <1>0, <2>1, <2>2, <3>2, <3>3, <3>4, <3>5, <3>6 DEF Follows, AtWhole
  <2>8. TypeOK'
    <3>1. netchan' \in [session : 0 .. MaxAttempts, incomingSequence : 0 .. MaxPackets]
      BY <1>0, <2>2
    <3>2. fromServer' \subseteq Message /\ primed' \in BOOLEAN
      BY <2>2 DEF IInv, TypeOK
    <3>3. \A ps \in {requests, answers, toServer, toClient}' : ps \subseteq OobPacket
      BY <1>0, <1>1 DEF IInv, TypeOK
    <3> QED
      BY <1>0, <2>3, <2>4, <3>1, <3>2, <3>3 DEF IInv, TypeOK, ConnectionType
  <2>9. Bounded'
    BY <1>0, <2>2 DEF IInv, Bounded
  <2> QED
    BY <1>0, <2>3, <2>5, <2>6, <2>7, <2>8, <2>9, Frame DEF IInv, Handshake
<1> QED
  BY <1>0, <1>2, <1>3, Answers

\* The parser after a packet of the session it follows: it has all the packet's
\* commands, or a disconnect among them.
LEMMA TakesPacket ==
  ASSUME IInv, NEW m \in fromServer, m.attempt = netchan.session,
         m.seq > netchan.incomingSequence, connection.state = CA_CONNECTED,
         NEW r, r = parseMessage(Parser, m)
  PROVE  /\ r \in ParserType
         /\ r.connection.state \in {CA_CONNECTED, CA_DISCONNECTED}
         /\ r.connection.state = CA_CONNECTED =>
              /\ r.connection.serverCommandSequence = m.last
              /\ r.connection.challenge = connection.challenge
              /\ r.gameState.info = gameState.info
              /\ r.gameState.configStrings = ConfigstringsAfter(m.attempt, m.last)
              /\ \A k \in 1 .. m.last : issued[m.attempt][k].name # "disconnect"
<1> USE SessionAssumption
<1> DEFINE p == Parser
           a == m.attempt
           n == connection.serverCommandSequence
           s == issued[a]
           d == ParsedUpTo(p, a, m.last)
<1>1. m \in Message /\ a \in Attempts /\ m.last \in 0 .. MaxCommands /\ a \in 0 .. MaxAttempts
  BY DEF IInv, TypeOK, Message, Attempts
<1>2. s \in Seq(Command) /\ WellFormed(s) /\ m.last <= Len(s) /\ AtWhole(s, m.last)
  BY <1>1 DEF IInv, TypeOK, CommandsAreWellFormed, PacketsCarryAll
<1>3. p \in ParserType /\ p.connection = connection /\ p.gameState = gameState
      /\ p.bigInfo = << >> /\ connection \in ConnectionType /\ gameState \in GameStateType
      /\ p = [connection |-> connection, gameState |-> gameState, bigInfo |-> << >>]
      /\ r = parseMessage(p, m)
  BY DEF IInv, TypeOK, Parser, ParserType, ConnectionType, GameStateType
<1>4. n \in Nat /\ n <= m.last /\ InStep(p, a)
  <2>1. n \in Nat
    BY <1>3 DEF ConnectionType
  <2> QED
    BY <1>3, <2>1 DEF IInv, Follows, InStep
<1> HIDE DEF p
<1>5. r = IF m.gamestate THEN parseGamestate(d, m) ELSE [d EXCEPT !.gameState.world = a]
  BY <1>1, <1>2, <1>3, <1>4, TakesAll
<1> DEFINE Good(q) ==
             /\ q.connection \in ConnectionType /\ q.gameState \in GameStateType
             /\ q.bigInfo = << >>
             /\ q = [connection |-> q.connection, gameState |-> q.gameState,
                     bigInfo |-> q.bigInfo]
             /\ q.connection.state \in {CA_CONNECTED, CA_DISCONNECTED}
             /\ q.connection.state = CA_CONNECTED =>
                  /\ q.connection.serverCommandSequence = m.last
                  /\ q.connection.challenge = connection.challenge
                  /\ q.gameState.info = gameState.info
                  /\ q.gameState.configStrings = ConfigstringsAfter(a, m.last)
                  /\ \A k \in 1 .. m.last : s[k].name # "disconnect"
<1>6. Good(d)
  <2>1. CASE m.last <= n
    <3>1. d = p /\ n = m.last
      BY <1>1, <1>3, <1>4, <2>1 DEF ParsedUpTo
    <3> QED
      BY <1>3, <1>4, <3>1 DEF InStep
  <2>2. CASE m.last > n /\ s[m.last].name = "disconnect"
    <3>1. d = Disconnected
      BY <1>1, <1>3, <1>4, <2>2 DEF ParsedUpTo
    <3>2. NewConnection(0) \in ConnectionType /\ NewConnection(0).state = CA_DISCONNECTED
      BY NewStateType
    <3> QED
      BY <3>1, <3>2, NewStateType DEF Disconnected, CA_CONNECTED, CA_DISCONNECTED
  <2>3. CASE m.last > n /\ s[m.last].name # "disconnect"
    <3>1. d = Parsed(p, a, m.last)
      BY <1>1, <1>3, <1>4, <2>3 DEF ParsedUpTo
    <3>2. m.last \in 1 .. Len(s)
      BY <1>1, <1>2, <1>4, <2>3
    <3>3. Unfinished(s, m.last) = << >>
      BY <1>2, <3>2 DEF Unfinished, AtWhole
    <3>4. \A k \in 1 .. m.last : s[k].name # "disconnect"
      <4>1. ASSUME NEW k \in 1 .. m.last, k # m.last PROVE s[k].name # "disconnect"
        <5>1. k + 1 \in 1 .. Len(s) /\ k + 1 > 1 /\ (k + 1) - 1 = k
          BY <1>1, <1>2, <3>2, <4>1
        <5> QED
          BY <1>2, <5>1, PiecesFollow
      <4> QED
        BY <2>3, <4>1
    <3>5. d.connection = [connection EXCEPT !.serverCommandSequence = m.last]
          /\ d.gameState = [gameState EXCEPT !.configStrings = ConfigstringsAfter(a, m.last)]
          /\ d.bigInfo = << >>
          /\ d = [connection |-> d.connection, gameState |-> d.gameState, bigInfo |-> d.bigInfo]
      BY <1>3, <3>1, <3>3 DEF Parsed
    <3> HIDE DEF d
    <3>6. d.connection \in ConnectionType /\ d.connection.state = CA_CONNECTED
          /\ d.connection.serverCommandSequence = m.last
          /\ d.connection.challenge = connection.challenge
      BY <1>1, <1>3, <3>5 DEF ConnectionType
    <3>7. d.gameState \in GameStateType /\ d.gameState.info = gameState.info
          /\ d.gameState.configStrings = ConfigstringsAfter(a, m.last)
      BY <1>3, <3>5, ConfigstringsType DEF GameStateType
    <3> QED
      BY <3>4, <3>5, <3>6, <3>7
  <2> QED
    BY <1>1, <1>4, <2>1, <2>2, <2>3
<1> HIDE DEF d
<1>7. Good(r)
  <2>1. CASE m.gamestate
    <3> DEFINE dc == [d.connection EXCEPT !.serverCommandSequence = m.last]
               dg == [d.gameState EXCEPT !.configStrings = ConfigstringsAfter(a, m.last)]
    <3>1. r = [connection |-> dc, gameState |-> dg, bigInfo |-> << >>]
      <4>1. \A q, u, v : [q EXCEPT !.connection.serverCommandSequence = u,
                                   !.gameState.configStrings = v]
               = [[q EXCEPT !.connection.serverCommandSequence = u]
                     EXCEPT !.gameState.configStrings = v]
        OBVIOUS
      <4>2. [d EXCEPT !.connection.serverCommandSequence = m.last]
              = [connection |-> dc, gameState |-> d.gameState, bigInfo |-> d.bigInfo]
        BY <1>6
      <4>3. \A c : [[connection |-> c, gameState |-> d.gameState, bigInfo |-> d.bigInfo]
                      EXCEPT !.gameState.configStrings = ConfigstringsAfter(a, m.last)]
              = [connection |-> c, gameState |-> dg, bigInfo |-> d.bigInfo]
        OBVIOUS
      <4>4. r = [d EXCEPT !.connection.serverCommandSequence = m.last,
                          !.gameState.configStrings = ConfigstringsAfter(a, m.last)]
        BY <1>5, <2>1 DEF parseGamestate
      <4> HIDE DEF dc, dg
      <4>5. r = [[d EXCEPT !.connection.serverCommandSequence = m.last]
                   EXCEPT !.gameState.configStrings = ConfigstringsAfter(a, m.last)]
        BY <4>1, <4>4
      <4>6. r = [connection |-> dc, gameState |-> dg, bigInfo |-> d.bigInfo]
        BY <4>2, <4>3, <4>5
      <4> QED
        BY <1>6, <4>6
    <3>2. dc \in ConnectionType /\ dc.state = d.connection.state
          /\ dc.challenge = d.connection.challenge /\ dc.serverCommandSequence = m.last
      BY <1>1, <1>6 DEF ConnectionType
    <3>3. dg \in GameStateType /\ dg.info = d.gameState.info
          /\ dg.configStrings = ConfigstringsAfter(a, m.last)
      BY <1>6, ConfigstringsType DEF GameStateType
    <3> HIDE DEF dc, dg
    <3> QED
      BY <1>6, <3>1, <3>2, <3>3
  <2>2. CASE ~m.gamestate
    <3> DEFINE dg == [d.gameState EXCEPT !.world = a]
    <3>1. r = [connection |-> d.connection, gameState |-> dg, bigInfo |-> << >>]
      BY <1>5, <1>6, <2>2
    <3>2. dg \in GameStateType /\ dg.info = d.gameState.info
          /\ dg.configStrings = d.gameState.configStrings
      BY <1>1, <1>6 DEF GameStateType
    <3> HIDE DEF dg
    <3> QED
      BY <1>6, <3>1, <3>2
  <2> QED
    BY <2>1, <2>2
<1> QED
  BY <1>7 DEF ParserType

LEMMA ObservePacketIInv ==
  ASSUME IInv, ~LateHandshake, NEW m \in fromServer, ObservePacket(m)
  PROVE  IInv'
<1> USE SessionAssumption
<1>0. /\ UNCHANGED <<client, server, issued, requests, answers, toServer, toClient, fromServer>>
      /\ m.attempt = netchan.session /\ m.seq > netchan.incomingSequence
      /\ netchan' = [netchan EXCEPT !.incomingSequence = m.seq] /\ primed' \in BOOLEAN
      /\ ParserBecomes(handleConnfullPacketFromServer(Parser, m))
      /\ netchan \in [session : 0 .. MaxAttempts, incomingSequence : 0 .. MaxPackets]
      /\ connection \in ConnectionType
  BY DEF ObservePacket, endpointVars, oobVars, IInv, TypeOK, ConnectionType
<1>1. /\ m \in Message /\ m.seq \in 1 .. MaxPackets
      /\ netchan'.session = netchan.session /\ netchan'.incomingSequence = m.seq
      /\ netchan' \in [session : 0 .. MaxAttempts, incomingSequence : 0 .. MaxPackets]
  <2>1. m \in Message
    BY DEF IInv, TypeOK
  <2>2. m.seq \in 1 .. MaxPackets
    BY <2>1 DEF Message
  <2> QED
    BY <1>0, <2>1, <2>2
<1>2. CommandsAreWellFormed' /\ PacketsCarryAll' /\ Bounded'
  BY <1>0, <1>1, Frame, PacketsFrame DEF IInv, Bounded
<1>3. \A b, n : ConfigstringsAfter(b, n)' = ConfigstringsAfter(b, n)
  BY <1>0 DEF ConfigstringsAfter
<1>4. CASE connection.state # CA_CONNECTED
  <2>1. handleConnfullPacketFromServer(Parser, m) = Parser
    BY <1>0, <1>4 DEF handleConnfullPacketFromServer, Parser, ConnectionType, CA_CONNECTED,
       CA_CHALLENGING, CA_CONNECTING, CA_DISCONNECTED
  <2>2. UNCHANGED <<connection, gameState, bigInfoStringBuffer>>
    BY <1>0, <2>1 DEF ParserBecomes, Parser
  <2>3. Handshake'
    BY <1>0, <1>1, <2>2 DEF IInv, Handshake, InFlight, Idle, GetchallengeSent,
       GetchallengePassed, ChallengeSent, ChallengePassed, ConnectSent, ConnectPassed,
       ResponseSent, ResponsePassed, Accepted, Settled, New, Clean, Known
  <2>4. Follows'
    BY <1>4, <2>2 DEF Follows
  <2>5. TypeOK'
    BY <1>0, <1>1, <2>2 DEF IInv, TypeOK
  <2> QED
    BY <1>2, <2>2, <2>3, <2>4, <2>5 DEF IInv
<1>5. CASE connection.state = CA_CONNECTED
  <2> DEFINE r == parseMessage(Parser, m)
  <2>1. handleConnfullPacketFromServer(Parser, m) = r
    BY <1>5 DEF handleConnfullPacketFromServer, Parser, CA_CONNECTED
  <2>2. connection' = r.connection /\ gameState' = r.gameState /\ bigInfoStringBuffer' = r.bigInfo
    BY <1>0, <2>1 DEF ParserBecomes
  <2>3. /\ r \in ParserType
        /\ r.connection.state \in {CA_CONNECTED, CA_DISCONNECTED}
        /\ r.connection.state = CA_CONNECTED =>
             /\ r.connection.serverCommandSequence = m.last
             /\ r.connection.challenge = connection.challenge
             /\ r.gameState.info = gameState.info
             /\ r.gameState.configStrings = ConfigstringsAfter(m.attempt, m.last)
             /\ \A k \in 1 .. m.last : issued[m.attempt][k].name # "disconnect"
    BY <1>0, <1>5, TakesPacket
  <2> HIDE DEF r
  <2>4. connection' \in ConnectionType /\ gameState' \in GameStateType
        /\ bigInfoStringBuffer' = << >>
    BY <2>2, <2>3 DEF ParserType
  <2>5. Handshake'
    <3>1. GetchallengeSent \/ ResponsePassed \/ Accepted
      BY <1>5 DEF IInv, Handshake, Idle, GetchallengePassed, ChallengeSent, ChallengePassed,
         ConnectSent, ConnectPassed, ResponseSent, CA_CONNECTED, CA_CHALLENGING,
         CA_CONNECTING, CA_DISCONNECTED
    <3>2. GetchallengeSent => GetchallengeSent'
      BY <1>0, <1>1 DEF GetchallengeSent, InFlight, New
    <3>3. Settled => Settled'
      BY <1>0, <1>1, <1>5, <2>2, <2>3 DEF Settled, Known
    <3> QED
      BY <1>0, <3>1, <3>2, <3>3 DEF Handshake, ResponsePassed, Accepted, InFlight
  <2>6. Follows'
    <3> SUFFICES ASSUME connection'.state = CA_CONNECTED PROVE Follows'
      BY DEF Follows
    <3>1. /\ connection'.serverCommandSequence = m.last
          /\ gameState'.configStrings = ConfigstringsAfter(m.attempt, m.last)
          /\ \A k \in 1 .. m.last : issued[m.attempt][k].name # "disconnect"
      BY <2>2, <2>3
    <3>2. m.attempt \in Attempts /\ m.last <= Len(issued[m.attempt])
          /\ AtWhole(issued[m.attempt], m.last)
      BY <1>1 DEF IInv, PacketsCarryAll, Message
    <3>3. \A n \in fromServer : n.attempt = m.attempt /\ n.seq > m.seq => n.last >= m.last
      <4>1. \A n \in fromServer : n.last \in Nat /\ n.seq \in Nat
        <5>1. fromServer \subseteq Message
          BY DEF IInv, TypeOK
        <5> QED
          BY <5>1 DEF Message
      <4> QED
        BY <1>1, <4>1 DEF IInv, PacketsCarryAll, Message
    <3>4. ConfigstringsAfter(netchan.session, connection.serverCommandSequence)'
            = ConfigstringsAfter(m.attempt, m.last)
      <4>1. netchan'.session = m.attempt /\ connection'.serverCommandSequence = m.last
            /\ issued' = issued
        BY <1>0, <1>1, <3>1
      <4> QED
        BY ONLY <4>1 DEF ConfigstringsAfter
    <3> QED
      BY <1>0, <1>1, <3>1, <3>2, <3>3, <3>4 DEF Follows, AtWhole
  <2>7. TypeOK'
    <3>1. bigInfoStringBuffer' \in Seq(Command)
      BY <2>4 DEF IInv, TypeOK
    <3> QED
      BY <1>0, <1>1, <2>4, <3>1 DEF IInv, TypeOK, ConnectionType, GameStateType
  <2> QED
    BY <1>2, <2>4, <2>5, <2>6, <2>7 DEF IInv
<1> QED
  BY <1>4, <1>5

LEMMA IInvStep ==
  ASSUME ~LateHandshake, IInv, [Next]_vars
  PROVE  IInv'
<1>1. CASE ClientBegins
  BY <1>1, ClientBeginsIInv
<1>2. ASSUME NEW p \in toClient, ClientHears(p) PROVE IInv'
  BY <1>2, ClientHearsIInv
<1>3. ASSUME NEW p \in toServer, ServerHears(p) PROVE IInv'
  BY <1>3, ServerHearsIInv
<1>4. ASSUME NEW i \in Indices, NEW text \in {Short, Long}, ServerIssues(CommandsFor(i, text))
      PROVE  IInv'
  BY <1>4, CommandsForText, ServerIssuesIInv
<1>5. CASE ServerIssues(<<[name |-> "disconnect", index |-> 0, text |-> << >>]>>)
  BY <1>5, DisconnectCommand, ServerIssuesIInv
<1>6. ASSUME NEW gamestate \in BOOLEAN, ServerSends(gamestate) PROVE IInv'
  BY <1>6, ServerSendsIInv
<1>7. ASSUME NEW p \in requests, ObserveRequest(p) PROVE IInv'
  BY <1>7, ObserveRequestIInv
<1>8. ASSUME NEW p \in answers, ObserveAnswer(p) PROVE IInv'
  BY <1>8, ObserveAnswerIInv
<1>9. ASSUME NEW m \in fromServer, ObservePacket(m) PROVE IInv'
  BY <1>9, ObservePacketIInv
<1>10. CASE UNCHANGED vars
  <2>1. UNCHANGED <<client, server, issued, requests, answers, toServer, toClient, fromServer,
                    connection, gameState, bigInfoStringBuffer, netchan, primed>>
    BY <1>10 DEF vars, endpointVars, oobVars, parserVars
  <2>2. TypeOK'
    BY <2>1 DEF IInv, TypeOK
  <2>3. Bounded' /\ Handshake'
    BY <2>1 DEF IInv, Bounded, Handshake, InFlight, Idle, GetchallengeSent,
       GetchallengePassed, ChallengeSent, ChallengePassed, ConnectSent, ConnectPassed,
       ResponseSent, ResponsePassed, Accepted, Settled, New, Clean, Known
  <2> QED
    BY <2>1, <2>2, <2>3, Frame, PacketsFrame, FollowsFrame DEF IInv
<1> QED
  BY <1>1, <1>2, <1>3, <1>4, <1>5, <1>6, <1>7, <1>8, <1>9, <1>10 DEF Next

LEMMA SpecIInv ==
  ASSUME ~LateHandshake
  PROVE  Spec => []IInv
<1>1. IInv /\ [Next]_vars => IInv'
  BY IInvStep
<1> QED
  BY InitIInv, <1>1, PTL DEF Spec

-----------------------------------------------------------------------------
(* The theorems.                                                           *)

\* Every variable keeps its type: the commands that complete a string find all
\* of it in the buffer, so a configstring is empty, a short text or a long one
\* (ServerPacketParser.cpp:596-669).
THEOREM TypeCorrect ==
  ASSUME ~LateHandshake
  PROVE  Spec => []TypeOK
<1>1. IInv => TypeOK
  BY DEF IInv
<1> QED
  BY <1>1, SpecIInv, PTL

\* The client that is connected is the one the parser knows, whatever attempts
\* were given up before (ServerPacketParser.cpp:166-177).
THEOREM ConnectedClientIsKnown ==
  ASSUME ~LateHandshake
  PROVE  Spec => []ClientIsKnown
<1>1. IInv => ClientIsKnown
  BY DEF IInv, ClientIsKnown, Handshake, Idle, GetchallengeSent, GetchallengePassed,
     ChallengeSent, ChallengePassed, ConnectSent, ConnectPassed, ResponseSent, ResponsePassed,
     Accepted, Settled, Known, CA_CONNECTED, CA_CHALLENGING, CA_CONNECTING, CA_DISCONNECTED
<1> QED
  BY <1>1, SpecIInv, PTL

\* The configstrings are the server's, as of the last command taken, for every
\* loss of packets, every repetition of commands and every gamestate sent again
\* (ServerPacketParser.cpp:179-192, 199-236, 596-669).
THEOREM ConfigstringsAreTheServers ==
  ASSUME ~LateHandshake
  PROVE  Spec => []ConfigstringsFollow
<1>1. IInv => ConfigstringsFollow
  BY DEF IInv, ConfigstringsFollow, Follows
<1> QED
  BY <1>1, SpecIInv, PTL

\* A session begins with nothing of the one before, even one that was left in the
\* middle (ServerPacketParser.cpp:26-37, 133-138, 619-622).
THEOREM SessionsBeginClean ==
  ASSUME ~LateHandshake
  PROVE  Spec => SessionsStartClean
<1> DEFINE Started == netchan'.session # netchan.session =>
                        /\ connection'.serverCommandSequence = 0
                        /\ gameState'.configStrings = NewGameState.configStrings
                        /\ gameState'.world = 0
                        /\ bigInfoStringBuffer' = << >>
<1>1. ASSUME IInv, [Next]_vars PROVE [Started]_vars
  <2> SUFFICES ASSUME Next, netchan'.session # netchan.session
               PROVE  Started
    BY <1>1
  <2>1. netchan' = netchan
        \/ (\E m \in fromServer : ObservePacket(m))
        \/ (\E p \in answers : ObserveAnswer(p))
    BY DEF Next, ClientBegins, ClientHears, ServerHears, ServerIssues, ServerSends, ObserveRequest
  <2>2. ASSUME NEW m \in fromServer, ObservePacket(m) PROVE FALSE
    BY <1>1, <2>2 DEF ObservePacket, IInv, TypeOK
  <2>3. ASSUME NEW p \in answers, ObserveAnswer(p) PROVE Started
    <3>1. p.type = "connectResponse" /\ ResponseSent
      <4>1. p.type = "connectResponse"
        BY <2>3 DEF ObserveAnswer
      <4>2. \/ ChallengeSent /\ p = Oob("challengeResponse", client.attempt)
            \/ ResponseSent /\ p = Oob("connectResponse", client.attempt)
        BY <1>1, Answers DEF IInv
      <4>3. Oob("challengeResponse", client.attempt).type # "connectResponse"
        BY OobFields
      <4> QED
        BY <4>1, <4>2, <4>3
    <3>2. ParserBecomes(setConnectionState(Parser, CA_CONNECTED))
      BY <2>3, <3>1 DEF ObserveAnswer, handleOobPacketFromServer
    <3>3. connection' = [connection EXCEPT !.state = CA_CONNECTED] /\ gameState' = gameState
          /\ bigInfoStringBuffer' = bigInfoStringBuffer
      BY <3>2 DEF ParserBecomes, setConnectionState, Parser
    <3>4. connection'.serverCommandSequence = connection.serverCommandSequence
      BY <1>1, <3>3 DEF IInv, TypeOK
    <3> QED
      BY <1>1, <3>1, <3>3, <3>4 DEF IInv, ResponseSent, Clean
  <2> QED
    BY <2>1, <2>2, <2>3
<1>2. IInv /\ [Next]_vars => [Started]_vars
  BY <1>1
<1> QED
  BY <1>2, SpecIInv, PTL DEF Spec, SessionsStartClean
=============================================================================
