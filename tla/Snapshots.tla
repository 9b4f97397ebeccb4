----------------------------- MODULE Snapshots -----------------------------
(***************************************************************************)
(* The world as ServerPacketParser rebuilds it.  Every message the server  *)
(* sends carries a snapshot, complete or as the difference from an earlier *)
(* one; parseSnapshot decides whether it still has that earlier snapshot,  *)
(* parsePacketEntities merges the difference with it into the ring         *)
(* parseEntities, and currentEntities follows for the application's sake.  *)
(* Some messages never arrive; those that do arrive in order, as Netchan   *)
(* sees to.  The server takes as the base a snapshot of this map that the  *)
(* client acknowledged: one the application took if all the traffic passes *)
(* through it (OnPath), any snapshot sent if it only listens.              *)
(*                                                                         *)
(* An entity has its number and two fields, so that a difference can carry *)
(* one and leave the other to the base.  Of the player state only the      *)
(* player's number is kept.                                                *)
(***************************************************************************)
EXTENDS Integers, Sequences, FiniteSets

CONSTANTS MAX_GENTITIES,       \* the last number stands for "no entity"
          MAX_PARSE_ENTITIES,  \* slots of the ring of parsed entities
          MARGIN,              \* slots of it that are kept free of old bases
          PACKET_BACKUP,       \* snapshots kept
          OnPath,              \* is every base of the server's one the observer took?
          BaselinesStay,       \* has the next map all the baselines of the last?
          BlankEntities,       \* does the server have entities that are all zero?
          MaxMessages,         \* bound: messages the server sends
          MaxMaps              \* bound: maps it plays

ASSUME SnapshotsAssumption ==
  /\ MAX_GENTITIES \in Nat \ {0, 1}
  /\ MARGIN \in Nat \ {0}
  /\ MAX_PARSE_ENTITIES \in Nat /\ MAX_PARSE_ENTITIES > MARGIN
  /\ PACKET_BACKUP \in Nat \ {0}
  /\ OnPath \in BOOLEAN /\ BaselinesStay \in BOOLEAN /\ BlankEntities \in BOOLEAN
  /\ MaxMessages \in Nat /\ MaxMaps \in Nat \ {0}

VARIABLES
  world,      \* what the server would send now: [ps, entities]
  baselines,  \* the server's baselines of this map, by entity number
  sent,       \* history: the world each message was about
  mapStart,   \* the message that carried the gamestate of this map
  maps,       \* maps played
  gameState,  \* the observer's ClientGameState
  taken,      \* history: the messages whose snapshot was valid
  chained     \* history: was every snapshot a difference from the one before?

serverVars == <<world, baselines, sent, mapStart, maps>>
vars == <<serverVars, gameState, taken, chained>>

NoEntity == MAX_GENTITIES - 1
Numbers  == 0 .. NoEntity - 1
INVALID_NUM == MAX_GENTITIES + 1

Blank(n) == [number |-> n, x |-> 0, y |-> 0]
Entity   == [number : 0 .. NoEntity, x : 0 .. 1, y : 0 .. 1]
\* What the server has: x is set, unless all is zero.
EntitiesNumbered(n) ==
  {e \in Entity : e.number = n /\ (e.x = 1 \/ (BlankEntities /\ e = Blank(n)))}

Images(f) == {f[i] : i \in DOMAIN f}

-----------------------------------------------------------------------------
(* The server.                                                             *)

\* The fields of a record that differ from those of another.
Changes(from, to) == [f \in {g \in DOMAIN to : to[g] # from[g]} |-> to[f]]

BaselineOf(n) == IF n \in DOMAIN baselines THEN baselines[n] ELSE Blank(0)

\* The server's message: an entity both worlds have is sent if it differs, a
\* new one as the difference from its baseline, one that is gone as a removal.
EntityDeltas(from, to) ==
  LET both == DOMAIN from \cap DOMAIN to
  IN [n \in {m \in DOMAIN from \cup DOMAIN to : m \in both => from[m] # to[m]} |->
       [remove |-> n \notin DOMAIN to,
        fields |-> IF n \notin DOMAIN to THEN << >>
                   ELSE LET base == IF n \in both THEN from[n] ELSE BaselineOf(n)
                        IN Changes([base EXCEPT !.number = n], to[n])]]

NoWorld == [ps |-> [number |-> 0], entities |-> << >>]

Message(base, to) ==
  LET from == IF base = 0 THEN NoWorld ELSE sent[base]
  IN [number   |-> Len(sent) + 1,
      base     |-> base,
      ps       |-> Changes(from.ps, to.ps),
      entities |-> EntityDeltas(from.entities, to.entities)]

Without(f, n) == [m \in DOMAIN f \ {n} |-> f[m]]
With(f, e)    == [m \in DOMAIN f \cup {e.number} |-> IF m = e.number THEN e ELSE f[m]]

\* Between two messages one entity comes, changes or goes, or another player
\* is watched; the player watched is never among the entities.
NextWorlds ==
  {world}
    \cup {[world EXCEPT !.entities = Without(@, n)] : n \in DOMAIN world.entities}
    \cup {[world EXCEPT !.entities = With(@, e)] :
            e \in UNION {EntitiesNumbered(n) : n \in Numbers \ {world.ps.number}}}
    \cup {[ps |-> [number |-> n], entities |-> Without(world.entities, n)] : n \in Numbers}

-----------------------------------------------------------------------------
(* The observer.                                                           *)

NoFrame == [valid |-> FALSE, messageNum |-> 0, ps |-> [number |-> 0],
            parseEntitiesNum |-> 0, numEntities |-> 0]

GameStateReset ==
  [entityBaselines  |-> [n \in 0 .. NoEntity |-> Blank(0)],
   parseEntities    |-> [i \in 0 .. MAX_PARSE_ENTITIES - 1 |-> Blank(0)],
   currentEntities  |-> [n \in 0 .. NoEntity |-> [valid |-> FALSE, state |-> Blank(0)]],
   curSnap          |-> NoFrame,
   snapshots        |-> [i \in 0 .. PACKET_BACKUP - 1 |-> NoFrame],
   parseEntitiesNum |-> 0]

ApplyFields(from, fields) ==
  [f \in DOMAIN from |-> IF f \in DOMAIN fields THEN fields[f] ELSE from[f]]

\* Mutant: a removal leaves a number that does not mean "no entity".
RemoveToNextNumber(from, delta, number) ==
  IF delta.remove THEN Blank(NoEntity + 1)
  ELSE IF delta.fields = << >> THEN from
  ELSE ApplyFields([from EXCEPT !.number = number], delta.fields)

\* Without any change the whole of "from" is copied, its number too.
readDeltaEntity(from, delta, number) ==
  IF delta.remove THEN Blank(NoEntity)
  ELSE IF delta.fields = << >> THEN from
  ELSE ApplyFields([from EXCEPT !.number = number], delta.fields)

\* What the gamestate has no baseline for stays as it was.
parseBaselines(g, sentBaselines) ==
  [g EXCEPT !.entityBaselines =
     [n \in DOMAIN @ |->
        IF n \in DOMAIN sentBaselines
        THEN readDeltaEntity(Blank(0),
               [remove |-> FALSE, fields |-> Changes(Blank(n), sentBaselines[n])], n)
        ELSE @[n]]]

ParseSlot(i) == i % MAX_PARSE_ENTITIES

\* Mutant: a removed entity stays.
RemoveNothing(entities, n) == entities

onEntityRemoved(entities, n) ==
  IF entities[n].valid THEN [entities EXCEPT ![n].valid = FALSE] ELSE entities

\* onEntityAdded and onEntityChanged leave the entity the same.
onEntityUpdated(entities, state) ==
  [entities EXCEPT ![state.number] = [valid |-> TRUE, state |-> state]]

\* p is the parse under way; the entity it is parsed from was at slot "at" of
\* parseEntities, or is a baseline (at = -1).
parseDeltaEntity(p, from, at, state, unchanged) ==
  LET slot    == ParseSlot(p.parseEntitiesNum)
      written == [p EXCEPT !.parseEntities[slot] = state]
      removed == IF at = slot THEN state.number ELSE from.number
  IN IF state.number = NoEntity
     THEN [written EXCEPT !.currentEntities = onEntityRemoved(@, removed)]
     ELSE [written EXCEPT
             !.parseEntitiesNum = @ + 1,
             !.numEntities = @ + 1,
             !.currentEntities = IF unchanged THEN @ ELSE onEntityUpdated(@, state)]

OldNumber(p, old, index) ==
  IF index >= old.numEntities THEN INVALID_NUM
  ELSE p.parseEntities[ParseSlot(old.parseEntitiesNum + index)].number

Advanced(p, old) ==
  [p EXCEPT !.oldindex = @ + 1, !.oldnum = OldNumber(p, old, p.oldindex + 1)]

\* One turn of parsePacketEntities: the lower of the next number of the message
\* and the next number of the old frame.
ParseTurn(p, old, deltas, entityBaselines) ==
  LET newnum == IF p.pending = {} THEN INVALID_NUM
                ELSE CHOOSE n \in p.pending : \A m \in p.pending : n <= m
      at     == ParseSlot(old.parseEntitiesNum + p.oldindex)
      from   == p.parseEntities[at]
      read   == [p EXCEPT !.pending = @ \ {newnum}]
  IN IF p.oldnum = INVALID_NUM /\ newnum = INVALID_NUM THEN p
     ELSE IF p.oldnum < newnum
     THEN Advanced(parseDeltaEntity(p, from, at, from, TRUE), old)
     ELSE IF p.oldnum = newnum
     THEN Advanced(parseDeltaEntity(read, from, at,
                     readDeltaEntity(from, deltas[newnum], newnum), FALSE), old)
     ELSE LET base == entityBaselines[newnum]
          IN parseDeltaEntity(read, base, -1,
               readDeltaEntity(base, deltas[newnum], newnum), FALSE)

parsePacketEntities(g, old, deltas) ==
  LET start == [parseEntities    |-> g.parseEntities,
                parseEntitiesNum |-> g.parseEntitiesNum,
                currentEntities  |-> g.currentEntities,
                numEntities      |-> 0,
                oldindex         |-> 0,
                oldnum           |-> OldNumber(g, old, 0),
                pending          |-> DOMAIN deltas]
      turns == Cardinality(DOMAIN deltas) + old.numEntities
      parse[i \in 0 .. turns] ==
        IF i = 0 THEN start
        ELSE ParseTurn(parse[i - 1], old, deltas, g.entityBaselines)
  IN parse[turns]

\* Mutant: any snapshot in the slot will do.
AnySnapshotInSlot(g, old, deltaNum) ==
  /\ old.valid
  /\ g.parseEntitiesNum - old.parseEntitiesNum <= MAX_PARSE_ENTITIES - MARGIN

CanDeltaFrom(g, old, deltaNum) ==
  /\ old.valid
  /\ old.messageNum = deltaNum
  /\ g.parseEntitiesNum - old.parseEntitiesNum <= MAX_PARSE_ENTITIES - MARGIN

SnapshotSlot(n) == n % PACKET_BACKUP

\* Mutant: the snapshot before this one is invalidated too.
InvalidateLast(g, messageNum) ==
  LET first == IF messageNum - g.curSnap.messageNum >= PACKET_BACKUP
               THEN messageNum - (PACKET_BACKUP - 1) ELSE g.curSnap.messageNum
      slots == {SnapshotSlot(n) : n \in first .. messageNum - 1}
  IN [i \in DOMAIN g.snapshots |->
       IF i \in slots THEN [g.snapshots[i] EXCEPT !.valid = FALSE] ELSE g.snapshots[i]]

\* The snapshots of the messages between the last snapshot and this one.
InvalidateSkipped(g, messageNum) ==
  LET next  == g.curSnap.messageNum + 1
      first == IF messageNum - next >= PACKET_BACKUP
               THEN messageNum - (PACKET_BACKUP - 1) ELSE next
      slots == {SnapshotSlot(n) : n \in first .. messageNum - 1}
  IN [i \in DOMAIN g.snapshots |->
       IF i \in slots THEN [g.snapshots[i] EXCEPT !.valid = FALSE] ELSE g.snapshots[i]]

PlayerEntity(n) == [number |-> n, x |-> 1, y |-> 1]

\* The entities and the player are updated even if the snapshot is dropped.
parseSnapshot(g, m) ==
  LET old    == IF m.base <= 0 THEN NoFrame ELSE g.snapshots[SnapshotSlot(m.base)]
      valid  == m.base <= 0 \/ CanDeltaFrom(g, old, m.base)
      ps     == ApplyFields(old.ps, m.ps)
      parsed == parsePacketEntities(g, old, m.entities)
      frame  == [valid |-> valid, messageNum |-> m.number, ps |-> ps,
                 parseEntitiesNum |-> g.parseEntitiesNum,
                 numEntities |-> parsed.numEntities]
      after  == [g EXCEPT
                   !.parseEntities = parsed.parseEntities,
                   !.parseEntitiesNum = parsed.parseEntitiesNum,
                   !.currentEntities = onEntityUpdated(parsed.currentEntities,
                                                       PlayerEntity(ps.number))]
  IN IF ~valid THEN after
     ELSE [after EXCEPT
             !.curSnap = frame,
             !.snapshots = [InvalidateSkipped(g, m.number) EXCEPT
                              ![SnapshotSlot(m.number)] = frame]]

-----------------------------------------------------------------------------
MapBaselines ==
  UNION {{[n \in S |-> PlayerEntity(n)]} : S \in SUBSET (Numbers \ {0})}

Init ==
  /\ world = NoWorld
  /\ baselines \in MapBaselines
  /\ sent = <<NoWorld>>
  /\ mapStart = 1
  /\ maps = 1
  /\ gameState = parseBaselines(GameStateReset, baselines)
  /\ taken = {}
  /\ chained = TRUE

Bases == {0} \cup {n \in mapStart + 1 .. Len(sent) : OnPath => n \in taken}

Send ==
  /\ Len(sent) < MaxMessages
  /\ world' \in NextWorlds
  /\ sent' = Append(sent, world')
  /\ UNCHANGED <<baselines, mapStart, maps>>

SnapshotLost ==
  /\ Send
  /\ UNCHANGED <<gameState, taken, chained>>

SnapshotReceived ==
  /\ Send
  /\ \E base \in Bases :
       LET m == Message(base, world')
       IN /\ gameState' = parseSnapshot(gameState, m)
          /\ taken' = IF gameState'.curSnap.messageNum = m.number
                      THEN taken \cup {m.number} ELSE taken
          /\ chained' = (chained /\ m.number \in taken' /\ base = gameState.curSnap.messageNum)

\* The same connection goes on with another map.
GamestateReceived ==
  /\ Len(sent) < MaxMessages
  /\ maps < MaxMaps
  /\ maps' = maps + 1
  /\ baselines' \in MapBaselines
  /\ BaselinesStay => DOMAIN baselines \subseteq DOMAIN baselines'
  /\ world' = NoWorld
  /\ sent' = Append(sent, NoWorld)
  /\ mapStart' = Len(sent')
  /\ gameState' = parseBaselines(gameState, baselines')
  /\ chained' = FALSE
  /\ UNCHANGED taken

Next == SnapshotLost \/ SnapshotReceived \/ GamestateReceived

Spec == Init /\ [][Next]_vars
-----------------------------------------------------------------------------
(* Properties.                                                             *)

World == {w \in [ps : [number : Numbers],
                 entities : UNION {[S -> Entity] : S \in SUBSET Numbers}] :
            /\ w.ps.number \notin DOMAIN w.entities
            /\ \A n \in DOMAIN w.entities : w.entities[n] \in EntitiesNumbered(n)}

Frame == [valid : BOOLEAN, messageNum : 0 .. MaxMessages, ps : [number : Numbers],
          parseEntitiesNum : Nat, numEntities : Nat]

ClientGameState ==
  [entityBaselines  : [0 .. NoEntity -> Entity],
   parseEntities    : [0 .. MAX_PARSE_ENTITIES - 1 -> Entity],
   currentEntities  : [0 .. NoEntity -> [valid : BOOLEAN, state : Entity]],
   curSnap          : Frame,
   snapshots        : [0 .. PACKET_BACKUP - 1 -> Frame],
   parseEntitiesNum : Nat]

\* Everything keeps its type; in particular no slot of parseEntities holds a
\* number beyond the one that means "no entity" (ServerPacketParser.cpp:516).
TypeOK ==
  /\ sent \in Seq(World) /\ world = sent[Len(sent)]
  /\ baselines \in MapBaselines
  /\ mapStart \in 1 .. Len(sent) /\ maps \in 1 .. MaxMaps
  /\ taken \subseteq 2 .. Len(sent)
  /\ chained \in BOOLEAN
  /\ gameState \in ClientGameState

FrameEntities(frame) ==
  {gameState.parseEntities[ParseSlot(frame.parseEntitiesNum + i)] :
     i \in 0 .. frame.numEntities - 1}

WithinMargin(frame) ==
  gameState.parseEntitiesNum - frame.parseEntitiesNum <= MAX_PARSE_ENTITIES - MARGIN

IsExact(frame) ==
  /\ frame.ps = sent[frame.messageNum].ps
  /\ frame.numEntities = Cardinality(DOMAIN sent[frame.messageNum].entities)
  /\ FrameEntities(frame) = Images(sent[frame.messageNum].entities)

\* A snapshot marked valid (JKAStructs.h:377) says what the server said in that
\* message, entity by entity, for as long as the ring of parsed entities still
\* has room for it, however many messages were lost and whatever the server
\* took as the base (ServerPacketParser.cpp:264-284).
SnapshotsAreExact ==
  \A frame \in Images(gameState.snapshots) \cup {gameState.curSnap} :
    frame.valid /\ WithinMargin(frame) => IsExact(frame)

\* What was taken as valid can be the base of the next message for as long as
\* the server may use it: neither the slots of skipped messages that are
\* invalidated (ServerPacketParser.cpp:323-330) nor a dropped snapshot hit it.
BasesAreKept ==
  \A n \in taken :
    n > Len(sent) - PACKET_BACKUP =>
      LET frame == gameState.snapshots[SnapshotSlot(n)]
      IN frame.valid /\ frame.messageNum = n

Watched == {sent[n].ps.number : n \in taken}

\* While each snapshot is the difference from the one received before, the
\* current entities are those of the snapshot with their states, and besides
\* them only players watched now or earlier (ServerPacketParser.cpp:308-311,
\* 517-537).
CurrentEntitiesFollow ==
  chained /\ gameState.curSnap.valid =>
    LET entities == sent[gameState.curSnap.messageNum].entities
    IN /\ \A n \in DOMAIN entities :
            gameState.currentEntities[n] = [valid |-> TRUE, state |-> entities[n]]
       /\ \A n \in Numbers : gameState.currentEntities[n].valid =>
            n \in DOMAIN entities \cup Watched

\* ServerPacketParser.cpp:530: "Copy only if current centity is not valid OR the
\* entity is changed": no entity of the current snapshot is left invalid.
PresentEntitiesAreValid ==
  gameState.curSnap.valid =>
    \A n \in DOMAIN sent[gameState.curSnap.messageNum].entities :
      gameState.currentEntities[n].valid
=============================================================================
