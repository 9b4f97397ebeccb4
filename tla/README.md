# A TLA+ verification of JKAProto

JKAProto is a C++ library for programs that sit on (or listen to) the connection
between a *Jedi Academy* client and a server: it reassembles and orders datagrams,
decodes them, and rebuilds from them the state of the game as the client knows it.
This directory holds TLA+ models of that library, the TLC configurations that check
them, and TLAPS proofs that most of what is checked holds for every size of the model.

The library's user is called *the application* or *the observer*; the *endpoints* are the
game's client and server, which are not in this repository and are modelled from what
`src/` expects of them.

## 1. Inventory

| Component | Source | State | Operations | Hard because |
|---|---|---|---|---|
| **Netchan, FragmentBuffer** | `include/JKAProto/protocol/Netchan.h`, `FragmentBuffer.h` | `incomingSequence`, `outgoingSequence`, the buffer and whose fragments it holds | `processIncomingPacket`, `processOutgoingPacket`, `setInitialConnectedState`, `reset` | UDP: loss, duplication, reordering, truncation, packets of an earlier session |
| **PacketEncoder** | `protocol/PacketEncoder.h` | none | `encode`/`decode` with a key taken from the command the peer acknowledged | the key depends on what both directions have brought so far |
| **Reliable commands** | `ReliableCommandsStore.h`, `ClientConnection.h`, both parsers | two rings of 128 commands, `reliableSequence`, `reliableAcknowledge`, `serverCommandSequence` | `parseServerCommand`, `parseClientCommand`, acknowledgements | shared by both directions; rings wrap; commands are repeated until acknowledged |
| **Snapshots and entities** | `ServerPacketParser.cpp`, `ClientGameState.h`, `CompressedMessage.cpp` | 32 snapshots, the ring of 2048 parsed entities, baselines, current entities | `parseSnapshot`, `parsePacketEntities`, `parseDeltaEntity`, `parseGamestate` | differences from bases that may be lost, overwritten or too old |
| **CEntity** | `CEntity.h`, `AnimationState` | `valid`, `state`, `lastFiredEvent`, animations | `addEntity`, `changeEntity`, `removeEntity`, `extractNewCurrentEvent` | an event must fire once although its entity is sent many times |
| **Connection** | `ServerPacketParser.cpp`, `ClientConnection.h` | `state`, `challenge`, `qport`, the client's info | the four connectionless packets, `reset`, `disconnect` | unordered handshake packets; a reset in the middle of a packet |
| **Configstrings, big info strings** | `ServerPacketParser.cpp` | the configstrings, `bigInfoStringBuffer` | `cs`, `bcs0`–`bcs2`, `clearConfigstrings` | a string in three commands that is executed as a command |
| **User moves** | `ClientPacketParser.cpp` | `lastUsercmd` | `parseUserMove`, `executeUserCmd` | a key made of three counters; moves are repeated |
| **Commands** | `CommandParser`, `CommandExecutor`, `AdvancedCommandExecutor` | registered handlers | tokenize, dispatch, choose an overload | quotes and comments; the order in which overloads are tried |
| **CompressedMessage** | `protocol/CompressedMessage.h`, `.cpp`, `jka/JKADefsNet.h` | a buffer, a bit position, the check for room | read and write numbers, strings, moves, entities, players | widths and signs; a bit too many shifts all that follows |
| **Huffman** | `Huffman.cpp` | the adaptive tree | `compress`, `decompress` | both ends must go through the same trees |
| **Connectionless packets, JKAInfo** | `packets/`, `JKAInfo.cpp` | none | recognise, parse and build | players' names and malformed lines in a status |
| **Tables, utilities** | `jka/`, `utility/`, `Geometry.h` | none | names of events and animations, views, casts, vectors | – |

How they interact: the application hands a datagram to the `Netchan` of its direction
(through `RawPacket`, which knows the flag and the header). What the Netchan lets through
is decoded by `PacketEncoder` with a text from `ReliableCommandsStore` and parsed by
`ServerPacketParser` or `ClientPacketParser`. Both parsers share one `ReliableCommandsStore`,
one `ClientConnection` and one `ClientGameState`, and tell an event listener what they find.
There are no threads; the concurrency is between the two endpoints and the network.

What makes each part correct:

* Netchan: whole messages only, each at most once and in order, nothing of another session,
  and no message lost for a reason of its own.
* Reliable commands and PacketEncoder: every packet is decoded with the text it was scrambled
  with; the listener hears each command once, in order, and before the endpoint does.
* Snapshots: one marked valid is exactly what the server said; what the server may use as a
  base is kept; the current entities are those of the current snapshot.
* CEntity: an event fires once. User moves: one is executed once, in order. Connection: what is known of a session belongs to that session.
* Codecs: reading gives back what was written, and ends where the writer did. Commands: the one that was
  meant is called, with its arguments.

`PROJECT.json` lists the hazards of the code line by line, with the properties that watch them.

## 2. Modules

| Module | What it is |
|---|---|
| `FragmentBuffer` | the buffer's operations, as operators on a record |
| `Netchan` | one Netchan, a peer that fragments, a network that may do anything, reconnects |
| `DatagramChannel` | what the receiving half of a Netchan promises (abstract) |
| `NetchanStream` | Netchan behind a FIFO that loses nothing: the liveness half |
| `ReliableCommands` | both endpoints, both directions, the shared store, the order filter |
| `Snapshots` | a server whose world changes, lost messages, and `ServerPacketParser`'s picture of the world |
| `Session` | the handshake of one connection after another, the reset, configstrings |
| `EntityEvents` | one CEntity, its events at the server, and the application that takes them |
| `UserMoves` | a client's moves, repeated in packets that may be lost, and the filter |
| `Command` | texts, commands as lines, and the types of arguments (operators) |
| `CommandParser` | `parseCommand`, a turn of its loop at a time |
| `CommandOverloads` | `AdvancedCommandExecutor`: registering functions and calling them |
| `Callbacks` | the three ways the application is called, checked in one run: `CommandOverloads`, `EntityEvents`, `UserMoves` |
| `Huffman` | the adaptive Huffman code at both ends |
| `NetFields` | the four tables of fields |
| `CompressedMessage` | bits, numbers, strings, floats and moves (operators) |
| `StateDeltas` | entities and players as differences (operators) |
| `PacketEncoder` | the headers of packets and the xor behind them (operators) |
| `Messages` | one message written with these operators, then read |
| `ConnlessPackets` | a connectionless packet made, recognised and parsed |
| `Codecs` | what is written and read, checked in one run: `Huffman`, `Messages`, `CommandParser`, `ConnlessPackets` |
| `NetchanProofs` | theorems about `Netchan` and `NetchanStream` |
| `ReliableProofs`, `SessionProofs`, `SnapshotProofs` | theorems about `ReliableCommands`, `Session` and `Snapshots` |
| `EventsAndMovesProofs` | theorems about `EntityEvents` and `UserMoves` |
| `OverloadsProofs` | theorems about `CommandOverloads` |
| `CommandsAndPacketsProofs` | theorems about `CommandParser` and `ConnlessPackets` |
| `ProofFacts` | lemmas several of them need: remainders, induction on sets of numbers, sequences |

### Netchan

A message is its session, its sequence and its length; a byte of it is that session and sequence
together with its offset, so that a byte in the wrong place or of the wrong message can be told
from the right one. The network is the set `sent`: every packet of every message in it
may be received at any time, any number of times, or never, and fragments also cut short.
`processIncomingPacket` is the code's function with its three ends: a whole packet, a fragment, and a
fragment shorter than it says, which is ignored. `Int16` is what the field
`fragmentStart` goes through. A packet's header of `SEQUENCE_LEN` bytes is kept apart in the buffer
(`header`), as what matters is whether it is there. `processOutgoingPacket` keeps the
`outgoingSequence`; `reset` and `setInitialConnectedState` together are the action of a reconnect:
in the protocol a session begins with the connectionless handshake, during which no sequenced
packet is processed. With `StalePackets`, packets outlive their session; the run has none, the theorem
`NothingIsSpliced` has them.

### ReliableCommands

A command is its number. `server` and `client` say how many commands an endpoint has issued,
how many of them are acknowledged, and the peer's last command it has. Every packet
carries all unacknowledged commands and is scrambled with the text of the last command acknowledged;
the observer decodes it with its own ring (`serverPacketKey`, `clientPacketKey`). Packets between server and observer, and
between observer and client, are sets: each leg loses, duplicates and reorders on its own, and the
observer's Netchan filter drops what is not newer. The observer's two `handleConnfullPacket...` functions are one action each, with the
acknowledgement, the clamp of `reliableAcknowledge`, the commands and the gamestate in the
order the code has them.

`Window`, the number of unacknowledged commands, is less than the size of the ring. With as many as the ring
has slots the text of the acknowledged command is overwritten by the newest one before the packet that
needs it is decoded.

### Snapshots

The server's `world` is a set of numbered entities and the number of the player watched. Each message
changes it in one place at most and may be lost on the way to the observer. `EntityDeltas` is what the server writes: entities that differ,
entities that are new (from the baseline), entities that are gone. An entity has two fields so that
a difference can leave one to the base. On the observer's side `parseSnapshot`, `parsePacketEntities` (a turn
of its merge loop is `ParseTurn`), `parseDeltaEntity` and `readDeltaEntity` are translated one to one,
with both rings and with the aliasing that happens when the slot being written is the base being read.
What is abstracted: the player state is the player's number, no vehicle, no area mask, no times.

`OnPath` says whether the observer takes everything the server may use as a base (a proxy) or only listens.

### Session

A client begins an attempt to connect, is given a challenge, sends its info, is accepted and plays, and may begin
again at any point; the server may drop it. An attempt is its number, which is also its challenge and its info. Every connectionless packet
passes the observer on its way (`requests` and `answers` before, `toServer` and `toClient` after); with
`LateHandshake` it may come late or again. The parser's operations are functions of its state
`[connection, gameState, bigInfo]`, named as in the code; each of the three `handle...` functions is one action. A
message's commands come before its gamestate or snapshot, as the server writes them, and go on after a
`disconnect`. `CommandsFor` sends a long text as `bcs0`, `bcs1` and `bcs2`; the buffer they build is
executed by `execute` as the `cs` it spells. The application starts its Netchan again when the client is accepted for the first time
in an attempt: the moment at which `SessionsStartClean` looks at what is left of the session before.
The endpoints ignore packets of other attempts, which is what the challenge is for.

### Huffman

`compressor` and `decompressor` are the two `huff_t`: nodes and cells are numbers (0 is `NULL`), a node is a record with
the fields of `node_t`, and a `node_t **` is a cell, which holds a node or, on the free list, the next cell.
`increment` is in the pieces its blocks are (`GoLast`, `LeaveBlock`, `JoinBlock`, `AfterParent`); `swaplist` is
written as what it does, an exchange of two nodes in every link. A round of each loop is an action; `compress` ends
before `decompress` begins. Symbols have `SymbolBits` bits, and bytes of the size field `ByteValues` values, which are read as signed.

### EntityEvents

Either the player's own entity or another one. An event is its type, its nonce and a number that is not in the program but tells
events apart; `fired` is what the application has taken. For the player, `BG_PlayerStateToEntityState` puts one event at a
time in the entity; the counter that says which one, `entityEventSequence`, is not sent, so it is the one in the snapshot the
new one is a difference of (`snapshots`, `acked`). Another entity is an event entity, whose type is its event, or a regular one; the server
uses its number for others as it likes, and the observer adds, changes and removes it.

Two constants open what the passing run leaves out. `AnyFull` lets the server send a snapshot without a base at any time, not only before the first
acknowledgement; the counter then starts at 0 and events that are still in the player's state fire again. `Returns` lets
an entity leave the snapshots and come back with the event it had; `removeEntity` forgets what was fired, so it fires again.
In both cases `EventsFireOnce` fails.

### UserMoves

A move is its time, and several moves can have one. A packet repeats moves from some move on, as `CL_WritePacket` does; what was read from packets is `received`, what the
listener was told of `executed`. `executeUserCmds` is the loop over the moves of a packet. Packets with none or more than `MAX_PACKET_USERCMDS` moves are not read, as in the code. Which key the fields
are scrambled with is not here; that they survive any key is `MovesReadBack`.

### CommandParser and CommandOverloads

`parseCommand`'s loop has five branches, which are five actions. A line is any sequence of `Letters`, or one that `concatEscape` made of a command;
the run's letters are one of each sort the parser tells apart (`SomeLetters`: `a`, a space, a quote, `/` and `*`), the theorems have any.
`Words` says what the words of a line are from its end, without any index that runs ahead.

A registered function is the sequence of its parameters' kinds. `compile_command` counts its active parameters and collects arguments, tail and labels; `add`
sorts, and `execute` calls the first overload that matches. The code's comparison is not a strict weak order, so that the standard leaves the
result open: `Insert` is what libstdc++ does with at most 16 elements, an insertion sort with a guard for the first place. Which functions, texts
and commands there are is left to constants; `Callbacks` chooses them for its run.

### CompressedMessage, StateDeltas, PacketEncoder, Messages

The object is a record with its members (`data`, `bit`, `cursize`, `readcount`, `maxSize`, `overflowed`), and each member function an
operator on it, named as in the code. Numbers go through it bit by bit, in two's complement, and a float is its bits; a field of the four tables is its place and its
width, which are all `readDelta...` and `writeDelta...` look at. What is abstracted: the code of a byte is a prefix code with
lengths of its own instead of those the trained tree gives it.

`Messages` writes one item of any kind (every field of every table but the last of an entity, alone and together with the first field, every array, moves with each field
changed, keys, strings, headers of packets) and a number behind it, then reads them. With `SmallBuffer` the number comes first, and there is room for a part of
an item behind it: `written` are the items that are wholly in the message, `cut` those of which a part found no room. The check for room is made before each write and is
"close enough" (`CompressedMessage.h:106`); a write that would go past the end of the buffer all the same is left out, as what is there is not the message's.

A field of negative width (`modelindex` of entities; `weaponTime`, `viewheight`, `basespeed`, `pm_time` and `eventParms[0]` in the tables of players) is written with no bits and read with 8
or 16, as in the code (section 4). `LostFields` are those of an item that have changed. `EntitiesReadBack` and `PlayersReadBack` say that what is in front of the first of them is read
back, and the whole of a state without any; `InPlace` exempts what is behind such a state in the message.

### ConnlessPackets

A packet is made from its type and data, recognised by `parsePacket` and parsed by its type's function; the loop over the lines of a status is an action. The prefix and a name are one
character each. `fromInfostring` and `toInfostring` are `JKAInfo`. Reading puts keys in lower case (`Lowered`), writing and looking up do not: a field is found under its key in lower case
only, and of keys that differ in case one is left, whose is for the order of the map to say, which is any order here (`ValuesTold`). What packets are made of comes in as constants: characters, keys and values of infos,
addresses, and for the lines of a status names, numbers and lines that are no players. `Codecs` has the values the run gives them.

`Codecs` and `Callbacks` put modules side by side that share no state: a behaviour is one of any of them. They are there so that
one configuration checks them all. They extend the modules that have theorems (`Callbacks` all three of its own, `Codecs` `CommandParser` and `ConnlessPackets`), so that
TLC evaluates their assumptions, and `Codecs` instantiates the rest.

## 3. Runs

| Run | Bounds | Shows |
|---|---|---|
| `netchan_lossy` | fragments of 2 bytes, messages of 0–5 (up to three fragments), 3 messages, 2 outgoing, 1 reconnect | types; the buffer is always a prefix of one message, no byte out of place; the assertion of `setFragmentSequence` holds; sequences are encoded once; **Netchan implements DatagramChannel** |
| `netchan_stream` | messages of 0–7, 3 of them, FIFO | every message is delivered, and no packet is needed twice |
| `netchan_maxmsglen` (violation) | messages up to 12 with a `SHORT_MAX` of 7 | finding 1 |
| `reliable` | rings of 3, window 2, 4 commands a side, 3 packets of the server and 2 of the client | types; every packet is decoded with the right key; commands are heard once, in order, and ahead of the endpoints; acknowledgements and sequences never go back |
| `snapshots_delta` | 3 entity numbers, ring of 5 parsed entities with a margin of 2, 2 snapshots kept, 5 messages, 2 maps | a valid snapshot is exact; usable bases are kept; the current entities follow |
| `snapshots_newmap` (violation) | the same, the second map lacks a baseline of the first | finding 2 |
| `snapshots_removed` (violation) | the same, on path | finding 3 |
| `session_calm` | 2 attempts, 1 configstring, 4 commands and 2 packets a session, each handshake packet once | types; a session starts clean; the client is known; configstrings follow commands and gamestates |
| `session_late` (violation) | the same with 1 command, handshake packets late or twice | finding 4 |
| `codecs` | Huffman: every message of up to 7 of 4 symbols. Messages: every kind of item, then a number, or in 12 bytes a number, then every kind of item; strings of up to 2. Command lines of up to 6 characters, or of 3 arguments of up to 2. Packets with 3 characters of data, 2 servers, 3 lines, the last ended by a newline or not | the trees of both ends agree, list, blocks and cells stay whole, the code is optimal; every item of a message is read as written, but for states whose fields of negative width change, of which the front is; the reader ends where the writer did, and a message that is cut off is the beginning of the whole one; the tokens of a line are its words, and arguments survive; packets, infos, server lists and statuses are read back |
| `callbacks` | up to 3 functions of a name (of the third on, of strings and tails only), commands of up to 2 arguments of every type and one of 3; 2 events kept, 3 events, 1 external one, 4 snapshots; 5 moves at 4 times, 2 packets in flight, each of up to 3 moves, of which 2 can be read | a command calls a function that takes it, with each argument once; an event fires once; a move is executed once, in order |
| `events_twice` (violation) | the events of `callbacks` | finding 5 |

Why the bounds are enough. Three fragments are the first, a middle and the last, and the last can be empty; three messages
let one overtake another in mid-assembly; one reconnect is enough for something stale. The
rings wrap in every run about them (4 commands over 3 slots; 4 messages over 2
snapshots; up to 8 entities over 5 slots), which is where they can go wrong; the real sizes (128, 32, 2048) only delay it.
Two attempts are the
least in which one can disturb the next, and four commands are a long configstring and a short one, or one and the disconnect.
Seven symbols
are enough for weights that make every branch of `increment` run, the one where a node meets its parent included (its mutant is found).
Messages need one item of each kind and value the code treats differently, since items share nothing but the position, and the number behind it shows whether that is right.
Five bytes of number in twelve of buffer leave room for the front of a move, an entity or a player, and not for all of most.
Six characters are a word, a comment of four characters and what follows it, or two quoted words. Three overloads are the least in which
the order can come out wrong, and three events the least that do not fit two places.
In `snapshots_delta` the margin is as large as the most new entities of one snapshot, as the code presumes.

Fairness is assumed only in `NetchanStream`: `WF(StreamReceive)`, since the application polls its socket for as
long as it runs and `processIncomingPacket` never waits. Nothing is assumed of senders, so the property is about messages sent.
`CHECK_DEADLOCK FALSE` stands where the bound on messages, commands or packets ends every behaviour.

Every property of a passing run has a mutant (`PROJECT.json`): a definition changed as a plausible mistake
would change it, with which TLC finds the property violated. The mutated forms are in the modules, marked so.

## 4. Findings

1. **Long messages are never delivered** (`netchan_maxmsglen`). `Netchan.h:61` reads the start of a fragment as `int16_t`. From 32768 on it
   is negative, differs from what is collected, and clears the buffer. `MAX_MSGLEN` is 49152.
2. **Baselines survive a change of map** (`snapshots_newmap`). `parseGamestate` clears the configstrings, not the baselines. An
   entity that the new map has no baseline for is decoded from the old map's, and the snapshot counts as valid.
3. **Current entities lose entities of the current snapshot** (`snapshots_removed`). `parseDeltaEntity` skips unchanged entities;
   its comment says that those which are not valid are copied. The server's base lags behind by the round trip, so an
   entity removed by one snapshot and back in the next, unchanged against the base, stays invalid.
4. **A late `connectResponse` makes the parser skip the reset** (`session_late`). `connectResponse` is taken in any state; `challengeResponse`
   resets only in `CA_CONNECTING`. The answer to an attempt that was given up, arriving between `getchallenge` and `challengeResponse` of the next
   one, leaves the old session's configstrings, command sequence and world in place.
5. **An event fires twice** (`events_twice`). While an event that others set on the player is there, it is what was fired last, and the entity keeps it when it
   ends. A snapshot whose base is from before the player's own event puts that event in the entity again: it differs from the one fired last, and fires
   again. `CEntity.h:162-164` says that this must not happen. `EventsFireOnce` allows for exactly this case.

With `LateHandshake`, `ClientIsKnown` fails too: a second copy of the `challengeResponse` after the `connect`
packet finds `CA_CONNECTING` again and resets the info that packet brought (`ServerPacketParser.cpp:27`). And `reset` sets the state to
`CA_DISCONNECTED` without telling the listener, to whom `onConnectionStateChanged` then reports a change from a state it was never told of.

The size in front of compressed data is read through `char` (`Huffman.cpp:218`). Where `char` is signed, no message whose length has a low byte of 128 or
more can be read: 128 to 255 symbols become a size no string can have (an exception), 384 to 511 lose 256. With `ByteValues = 4`, `RoundTrip` of
`Codecs` shows it for a message of two symbols.

What follows was met while modelling and has no run of its own; the properties named say what holds instead.

* *Overloads.* `AdvancedCommandExecutor.h:649` says that overloads with tails are always the last. The comparison (lines 648–652) puts one with a tail before
  one without if it has fewer arguments, so `f(int, int)` may or may not be tried before `f(tail)`. `BestOverloadIsCalled` has as its condition that there is no such pair.
* *Events.* An event entity in a slot that another event entity has just left, and an event with the nonce of the last one fired, never fire.
  `toEngineEventValue` (`CEntity.h:31`) shifts a nonce that was never shifted back.
* *Moves.* `ClientGameState::reset` (line 28) keeps `lastUsercmd`: on a new server whose time is behind the old one's, every move is dropped until it has caught up.
  And `executeUserCmd` takes one of several moves of one time, so `MovesAreExecutedOnce` speaks of times.
* *Keys of moves.* `kbitmask` (`CompressedMessage.h:344`) is indexed by the width, so the mask has a bit more than the field: a scrambled field can be read with a bit above
  its width that was not sent. `SameMove` compares the bits that are sent.
* *Entities.* `readDeltaEntity` refuses an entity whose last field has changed (`CompressedMessage.cpp:92`, `>=`), which `writeDeltaEntity` writes. `EntityTable` leaves that field alone.
* *Fields of negative width.* `writeBitsVariable` (`CompressedMessage.h:75-99`) does not take the sign off a width, so its loop over the bytes (line 94) does not run: the field's flag is sent and none of its bits.
  `readBitsVariable` (line 162) takes it off and reads 8 or 16 bits, which are those of what comes next. An entity whose `modelindex` becomes anything but zero (`JKADefsNet.h:88`), and a player whose
  `weaponTime`, `viewheight`, `basespeed`, `pm_time` or `eventParms[0]` changes at all (lines 225, 237, 252, 256, 280 and those of the other two tables), is not read back from there on, and neither is the rest of the message.
  Nothing in the library calls the writers, and no doc or test speaks of them. The run has such changes; `EntitiesReadBack`, `PlayersReadBack` and `ReaderEndsWhereWriterDid` say what holds in spite of them.
* *Command lines.* Two comments in a row give an empty argument, as `advanceToNextToken` (`CommandParser.cpp:249`) skips one. `concatEscape` never quotes the first
  argument nor one with a line break (`CommandParser.h:101`), though the comment of line 125 promises to quote those with spaces.
* *Server lists.* The backslash behind the packet's name is the separator, and `parse` looks for another in front of the first server (`Getservers.h:75-79`): if
  a master server sends only one, its first server is skipped. The lists of the model have both, as `getRawPacket` makes them. The mark of the end
  is compared one byte past a list that ends in `\EO` (line 102). And it is no different from an address: a list ends in front of a server whose address begins with
  the bytes of `EOT`, 69.79.84.
* *Statuses.* A backslash in a player's name is taken for the last of the infostring, so the lines up to it become part of the infostring (`Getstatus.h:114`); names in the
  model have none. The packet keeps as its data only what its parser has not consumed (line 186).
* *Names of events.* `tryParseUnknownEventName` (`JKAEvents.cpp:36`) has its test of the error turned around: a valid number gives nothing.

Constants of `Snapshots` lead to three more places where the code is weaker than it looks; they are
listed as hazards and have no run of their own. With `BlankEntities = TRUE`
`SnapshotsAreExact` fails because `readDeltaEntity` (`CompressedMessage.cpp:86`) copies the number of an
empty baseline, 0. With more new entities in a snapshot than `MARGIN` (`MAX_GENTITIES = 5, MARGIN = 1, MAX_PARSE_ENTITIES = 4`) it fails because they overwrite the base before it is
read (`ServerPacketParser.cpp:279`). And without `chained`, `CurrentEntitiesFollow` fails already when a complete snapshot follows another: nothing removes
the entities that are gone, although `CEntity.h:85` says that a valid entity is in the current snapshot.

## 5. Proofs

TLC looks at small instances; the theorems below hold for every value of the constants that satisfies the named assumptions of
the modules (`ASSUME`, evaluated by TLC in every run) and what the last column says. The bounds on messages, commands and
packets are constants too, so that the theorems are about runs of any length.

| Module | Theorem | States | Provided that |
|---|---|---|---|
| `NetchanProofs` | `TypeCorrect` | `[]TypeOK` | |
| | `InductiveInvariant` | `[]IInv` | |
| | `NothingIsSpliced` | `[]BytesInPlace` | |
| | `NothingIsEncodedTwice` | `[]EncodedInOrder` | |
| | `AssertionHolds` | `[]HeaderIsPresent` | |
| | `NothingIsLeftBehind` | `[]CollectedPrefix` | no stale packets |
| | `ImplementsDatagramChannel` | `DeliversDatagrams` (refinement) | no stale packets |
| | `StreamInductiveInvariant` | `[](TypeOK /\ IInv /\ StreamInv)` | |
| | `StreamIsANetchan` | `StreamSpec => Spec` | |
| | `FittingMessagesArrive` | with the wire empty, the messages delivered are those that fit | |
| | `DrainedStreamIsDelivered` | `[]DrainedMeansDelivered` | all fragments start at most at `SHORT_MAX` |
| `ReliableProofs` | `TypeCorrect` | `[]TypeOK` | |
| | `ServerPacketsAreDecoded` | `[]ServerPacketsDecode` | |
| | `ClientPacketsAreDecoded` | `[]ClientPacketsDecode` | |
| | `CommandsHeardInOrder` | `[]CommandsInOrder` | |
| | `ObserverStaysAhead` | `[]ObserverIsAhead` | |
| | `SequencesNeverGoBack` | `NeverBack` (an action property) | |
| `SessionProofs` | `TypeCorrect` | `[]TypeOK` | no late handshake packets |
| | `ConnectedClientIsKnown` | `[]ClientIsKnown` | the same |
| | `ConfigstringsAreTheServers` | `[]ConfigstringsFollow` | the same |
| | `SessionsBeginClean` | `SessionsStartClean` (an action property) | the same |
| `SnapshotProofs` | `TypeCorrect` | `[]TypeOK` | |
| | `TakenSnapshotsAreKept` | `[]BasesAreKept` | |
| | `ValidSnapshotsAreExact` | `[]SnapshotsAreExact` | `BaselinesStay`, no blank entity, `[]NewcomersFit` |
| | `CurrentEntitiesAreTold` | `[]CurrentEntitiesFollow` | no blank entity, `MAX_GENTITIES <= MAX_PARSE_ENTITIES` |
| `EventsAndMovesProofs` | `MovesAreTold` | `[]MovesAreExecutedOnce` | |
| | `EventsAreTakenOnce` | `[]EventsFireOnce` | neither `AnyFull` nor `Returns` |
| `OverloadsProofs` | `TakersAreCalled` | `[]BestOverloadIsCalled` | |
| | `ArgumentsArePassed` | `[]EveryArgumentIsPassed` | |
| `CommandsAndPacketsProofs` | `TokensAreWords` | `[]TokensAreTheWords` | |
| | `ArgumentsAreRead` | `[]ArgumentsSurvive` | |
| | `PacketsAreReadBack` | `[]PacketsReadBack` | |
| | `StatusesAreReadBack` | `[]StatusReadsBack` | |

### What is assumed

* `Netchan`: a fragment has at least one byte, and `MAX_MSGLEN <= 2 * SHORT_MAX + 1`, that is, a length fits the 16 bits it is sent in (49152 does).
  That all fragments start at most at `SHORT_MAX` is *not* so in the code (finding 1). `FittingMessagesArrive` therefore has no such condition: it says
  which messages get through, `DrainedStreamIsDelivered` only what follows when all do.
* `ReliableCommands`: `Window <= MAX_RELIABLE_COMMANDS - 1`, the protocol's rule (section 2).
* `Session`: with `LateHandshake` the theorems are false (finding 4).
* `Snapshots`: what findings 2 and the last paragraph of section 4 show to be needed. `NewcomersFit` says that no message has more entities that
  its base had not than `MARGIN` (128 of 2048 slots); a server is free to announce more, and then a valid snapshot can be wrong. It is a hypothesis on the behaviour, as it
  is the world's doing and not a constant's. `MAX_GENTITIES <= MAX_PARSE_ENTITIES` holds (1024 and 2048), though the run has room for less.
* `EntityEvents`: what finding 5 and section 2 say about snapshots without a base and entities that come back.
* `CommandOverloads`: a name has at most 16 functions. Up to there `std::sort` of libstdc++ is the insertion sort of the model; beyond, with a comparison that
  is no strict weak order, its result may be anything, and the code's promise with it.
* `CommandParser`: a command that is made a line has arguments that can be told apart in one (`Told`): none is empty or has a quote, and those that
  `concatEscape` does not put in quotes (the first, and all without a space) have no line break and no comment mark. Nothing is assumed of other lines.
* `ConnlessPackets` (`PacketsAssumption`): keys and values have no backslash, which nothing escapes (they may be in any case, and two keys may differ in nothing else); no address begins with the bytes of `EOT`, and no name has a quote or a backslash
  (section 4); scores and pings are numbers. Of a line that is no player it is said how it differs from one (`IsMalformed`). Nothing is assumed of the data of other packets.

### Netchan

None of the properties is inductive alone: that a delivered message is right depends on what was
in the buffer, and what is in the buffer on which packets were accepted before. `IInv` adds:
the sequences the peer used are those up to `serverSequence` (`SentInOrder`), the header is
there (`HeaderWritten`), what is in the buffer is, byte by byte, of the message whose sequence the buffer has
(`BufferInPlace`), delivered sequences do not exceed `incomingSequence` (`DeliveredBefore`), and encoded ones are below
`outgoingSequence` (`EncodedBefore`). `FragmentEffect` says what one fragment can do to the buffer (nothing,
clear it, extend it, or complete it), and `JoinInPlace` that appending the bytes from offset *n* to the first *n* bytes gives the first
*n + m*: the reason why the comparison of the fragment's start with the collected size is enough. Without stale
packets a message is determined by its sequence (`BeforeIsPrefix`), so bytes in place are a prefix of one message, and a completed one
is all of it. The refinement needs one more step, `IncomingDelivers`: what the
parser is handed is a message in `sent`, newer than all before, which is `DatagramChannel!Deliver`. Its mapping is the identity on
`session`, `sent` and `delivered`.

`StreamInv` is the other half: with a wire that loses nothing, which packet of which message comes at each place (`WireInOrder`, `NextIs`), and what
the receiver has when it is about to be given it (`Receiver`): everything before that fits is delivered, and of the message itself the
bytes before are collected, unless the start is beyond `SHORT_MAX` already. `FragmentTaken` computes `processFragment` in that situation.

### Reliable commands

`Way` states what holds between an endpoint that sends, the observer and the endpoint that receives, and is used for both directions. Its core is the chain
`sender.acked <= receiver.peerCommand <= seen <= sender.issued <= sender.acked + Window`: with it, `RingHas` (a ring has the last
commands as far as it has slots) gives that the key of a packet is still there. What makes it inductive is about packets in flight: a packet leaves
out only commands the observer has seen (`LeavesOutOnly`), and those the observer would still let through have nothing older than what
it has. The gamestate's assignment of `serverCommandSequence` needs the same fact to be harmless. `HeardOn` is the part of `CommandsInOrder` about the listener.

### Session

`Handshake` is a disjunction of ten stages: where the attempt's only connectionless packet is, and what client, server and observer know by then.
`Follows` says that the parser is where one of the session's packets leaves it, with the
configstrings the commands up to there give. A message is many commands, so `TakesAll` carries `InStep` and `ParsedUpTo` through the loop of
`parseServerCommand`, with one lemma for each kind of command (`TakesWhole`, `TakesPiece`, `TakesLastPiece`, `TakesDisconnect`); `WellFormed` says that the pieces of a long string
are always together, and `PacketsCarryAll` that no packet ends between them.

### Snapshots

`TypeCorrect` includes the loop of `parsePacketEntities` (`ParseKeeps`). `TakenSnapshotsAreKept` needs `TakenInOrder` and that neither the
new snapshot nor the skipped ones share a slot with one that counts (`OtherSlots`).

`ValidSnapshotsAreExact` rests on `MergeExact`: merging a frame the ring still has with the
difference from it gives the new frame, and puts it in the ring in order. `Merged` is the loop's invariant at each number, stated with `Rank`, an
entity's place among the numbers of its frame. It says what is written, what of the old frame is left, and that the two do
not overlap. A slot is written only when what the old frame had there is merged already, or in the very turn that reads it. `ExactInv` says of
each frame kept that the ring holds it as long as it is within the margin.

`CurrentEntitiesAreTold` has `ChainInv`: while snapshots are chained, the last frame is what was parsed last, the ring lists it, and the current entities `Following` it. Margins
play no part in it, since nothing is parsed in between.

### Moves and events

`MovesInv`: the moves of a packet are in the order they were made, a packet in flight has all moves not later than one of its own that may
come behind it (`PacketsAreRepeated`), and a move that comes too late to be executed was received before (`LateIsReceived`): the reason why a filter that
looks at times alone loses nothing. `PacketIsExecuted` is the loop.

`OtherInv` and `PlayerInv` are about the two kinds of entity. For another entity, what fired and is still announced
is known to the entity (`OtherKnows`). For the player, as long as others have set no event on it (`OwnOnce`), the counters that
snapshots remember only rise (`SequencesRise`), the event shown is the one of its number and none after it was shown (`ShownIsTrue`), and what fired is known (`FiredIsKnown`): then an event shown again has the
nonce and type of the one that fired. `ExternalsOnce` holds in any case. Nothing is needed of the number of nonces: with too few of them an event of the same type
as the one fired last goes unnoticed, but none fires again.

### Commands

*Functions and their order.* The comparison by which overloads are sorted (`CompiledCommandCompare`) is no order: of `f(int, int)` and `f(tail)` each is less than the
other. `TakersAreCalled` therefore cannot rest on the result being sorted. What `Insert` does keep, whatever the comparison says, is that the
functions are those there were and the new one (`OverloadsKept`: the overloads are the functions registered, compiled), and, if none
with a tail has fewer arguments than one without (`Ranked`), that all those without tails are in front (`TailsLast`). `CallKept` says that what was called is the first that matches, and compiling counts what matching asks for
(`ArgsSoFar`, `TailSoFar`, one parameter at a time). `CompiledIsLabelled` is the same loop seen from the usage: each argument has the label nearest behind it.

*Tokens.* That the tokens found are the words is no invariant of the loop, as words are defined from the end of the line and the parser comes from its front. `NoWordIsLost` joins
the two: the tokens there are, and the words of the rest with the unfinished token glued to the first of them, are the words of the line. `Advances` describes
`advanceToNextToken`, which must not skip anything but separators and one comment. `NoTokenIsEmpty` says why a line with at
most one comment has no empty argument: where one ends, there is a character to come or none at all.

*Arguments.* `CommandIsRead` follows the parser through a line made of a command by where it is: in the name, before the quote of an argument,
in its text, or done (`InName`, `BeforeQuote`, `InText`, `AllRead`). `LaidOut` says where `concatEscape` put each argument, and is proved of the flattened sequence.
A `/*` in an argument is text because the argument is in quotes while the parser goes through it; the arguments that are not in quotes have none (`Told`).

### Connectionless packets

The name of a packet ends at the first separator, so `PacketIsRead` needs nothing of the data. For infos and lists of servers the text is described by where its parts lie:
`IsField` gives the places of a key and its value, `ServersLie` those of addresses, and `FlatGrows` is why a part lies where the lengths of those before it
say. The readers are recursive functions; that they exist is shown first (`InfosExist`, `ServersExist`), then that reading from the place of a part gives that part and what is read from the next
(`FieldJoins`, `ServerIsRead`), from the last part to the first. `HoldsFrom` is what is kept on the way through an info: each field read so far is one of those written whose key is its name in
lower case, and each key has one, but perhaps the last, whose empty value is not read. It needs no two keys to differ, so that keys which become the same are no case of their own. A backslash in an address does no harm, for the reader goes six bytes on without a look.

For a status, `Reading` is the invariant of the loop: it has read the first *k* lines, or is still in the heading, and stands at a newline. The players it has, without the malformed ones,
are those the *k* lines tell of; until there is a valid player the infostring is all that precedes that newline, and afterwards what precedes the first line that tells of one. `Turn` lists
what a turn can do by where the two quotes are. Which of these it is follows from the text behind the newline: `LineLeads` says that the next line is in
front, `FindsPlayer` and `FindsJunk` what the quotes in a line look like. A newline in a name does not end the line because the place after a player is taken
from the second quote; and the loop may end early, at a line without quotes, only if no line behind it has one (`NoQuoteNoPlayer`).

### Only model-checked

* Liveness (`EveryMessageDelivered`): temporal reasoning about fairness is beyond the prover. Its safety half is `FittingMessagesArrive`.
* `Huffman` and `Messages`, and so the rest of what `codecs` checks: they have recursive operators, with which the prover loses its arithmetic backend, and what those compute for every input needs
  induction over data. Where a loop or a text is bounded by a number (the moves of a packet, the commands of a message, the merge, the fields of an info), induction was possible
  in the form `ProofFacts!SetInduction`: a set of numbers with 0 and every successor of a member is all of `Nat`.

## 6. Plan

1. *(done)* Netchan, with its abstract specification, liveness and proofs.
2. *(done)* Reliable commands, snapshots, the session, events and moves, each with the proof of what its run checks.
3. *(done)* The codecs and the commands, against reference definitions.
4. *(done)* Proofs about the commands and the connectionless packets; what is left of the codecs are `Huffman` and `Messages`, of which the operators that
   are not recursive (the keys of `PacketEncoder`, widths and signs of numbers) come first.
5. Proofs that finding 4 is the only way a session can go wrong: `ClientIsKnown` with late packets, but for those of an attempt that was given up.
6. `Session` composed with `ReliableCommands`, whose Init it leads to.
7. Liveness of reliable commands over a network that is lossy but fair.

## 7. Not modelled

* The lengths of the trained Huffman code: `CompressedMessage` works with any prefix code. Headers whose codes are longer than the bytes left
  for them (`PacketEncoder.h:58`) would be scrambled before they are read; those of the run are short enough.
* `parseUserMove`'s choice of a key, and numbers out of range or in other forms than decimal in arguments of commands.
* Malformed messages: the models' packets come from correct endpoints. Truncated fragments are the exception, since `Netchan` handles them.
* `svc_setgame`, `svc_download`, RMG data: read and discarded.
* `saveState` and `restoreState` of a message but for their use in `peekLong`; the text of a function's usage.
* `AnimationState`: a clock and a frame number per animation, which no other part reads.
* The tables of animations (`JKAAnims`, a quarter of the implementation's lines) and of the names of events; what `BG_PlayerStateToEntityState` copies besides events. Data without control.
* Geometry, hashes at compile time, views and casts: no state, no control.
* Sequence numbers and entity counters are unbounded where the code has `int32_t`; a session does not live long enough to wrap them.
