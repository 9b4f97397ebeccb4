--------------------------- MODULE SnapshotProofs ---------------------------
(***************************************************************************)
(* Proofs about Snapshots.                                                 *)
(***************************************************************************)
EXTENDS Snapshots, ProofFacts

EntityFields == {"number", "x", "y"}

-----------------------------------------------------------------------------
(* Differences between entities.                                           *)

LEMMA EntityRecord ==
  ASSUME NEW e \in Entity
  PROVE  /\ DOMAIN e = EntityFields
         /\ e.number \in 0 .. NoEntity /\ e.x \in 0 .. 1 /\ e.y \in 0 .. 1
BY DEF Entity, EntityFields

LEMMA BlankIsEntity ==
  ASSUME NEW n \in 0 .. NoEntity
  PROVE  Blank(n) \in Entity /\ Blank(n).number = n
BY DEF Blank, Entity

LEMMA Renumbered ==
  ASSUME NEW e \in Entity, NEW n \in 0 .. NoEntity
  PROVE  /\ [e EXCEPT !.number = n] \in Entity
         /\ [e EXCEPT !.number = n] = [number |-> n, x |-> e.x, y |-> e.y]
BY DEF Entity

\* Applying fields of one entity to another gives an entity.
LEMMA ApplyFieldsType ==
  ASSUME NEW from \in Entity, NEW to \in Entity, NEW base \in Entity
  PROVE  ApplyFields(from, Changes(base, to)) \in Entity
<1> DEFINE fields == Changes(base, to)
           r == ApplyFields(from, fields)
<1>1. DOMAIN fields \subseteq EntityFields /\ \A f \in DOMAIN fields : fields[f] = to[f]
  BY EntityRecord DEF Changes
<1>2. r = [f \in EntityFields |-> r[f]]
      /\ \A f \in EntityFields : r[f] \in {from[f], to[f]}
  BY <1>1, EntityRecord DEF ApplyFields
<1>3. r["number"] \in 0 .. NoEntity /\ r["x"] \in 0 .. 1 /\ r["y"] \in 0 .. 1
  BY <1>2, EntityRecord DEF EntityFields
<1> HIDE DEF r
<1>4. r = [number |-> r["number"], x |-> r["x"], y |-> r["y"]]
  BY <1>2 DEF EntityFields
<1> QED
  BY <1>3, <1>4 DEF Entity, r

\* The changes from one entity to another, applied to the first, give the other.
LEMMA ApplyChanges ==
  ASSUME NEW from \in Entity, NEW to \in Entity
  PROVE  ApplyFields(from, Changes(from, to)) = to
<1> DEFINE fields == Changes(from, to)
           r == ApplyFields(from, fields)
<1>1. DOMAIN fields = {f \in EntityFields : to[f] # from[f]}
      /\ \A f \in DOMAIN fields : fields[f] = to[f]
  BY EntityRecord DEF Changes
<1>2. r = [f \in EntityFields |-> r[f]] /\ \A f \in EntityFields : r[f] = to[f]
  BY <1>1, EntityRecord DEF ApplyFields
<1> HIDE DEF r
<1>3. r = [number |-> r["number"], x |-> r["x"], y |-> r["y"]]
      /\ r["number"] = to["number"] /\ r["x"] = to["x"] /\ r["y"] = to["y"]
  BY <1>2 DEF EntityFields
<1> QED
  BY <1>3 DEF Entity, r

\* A delta tells which entity it is: it has a field, or what it is applied to has
\* the number already.
Telling(base, to, n) == base.number = n \/ [base EXCEPT !.number = n] # to

\* A delta is read exactly from the entity it was written from, under its number;
\* if nothing is sent at all the number has to be the same.
LEMMA ReadDeltaExact ==
  ASSUME NEW from \in Entity, NEW to \in Entity, NEW n \in 0 .. NoEntity,
         NEW delta, delta.remove = FALSE,
         delta.fields = Changes([from EXCEPT !.number = n], to),
         Telling(from, to, n)
  PROVE  readDeltaEntity(from, delta, n) = to
<1> DEFINE base == [from EXCEPT !.number = n]
<1>1. base \in Entity
  BY Renumbered
<1>2. CASE delta.fields = << >>
  <2>1. DOMAIN Changes(base, to) = {}
    BY <1>2
  <2>2. \A f \in EntityFields : to[f] = base[f]
    BY <2>1, EntityRecord DEF Changes
  <2>3. to = base
    <3>1. to["number"] = base["number"] /\ to["x"] = base["x"] /\ to["y"] = base["y"]
      BY <2>2 DEF EntityFields
    <3> QED
      BY <1>1, <3>1 DEF Entity
  <2>4. from = base
    BY <2>3 DEF Entity, Telling
  <2> QED
    BY <1>2, <2>3, <2>4 DEF readDeltaEntity
<1>3. CASE delta.fields # << >>
  <2>1. ApplyFields(base, Changes(base, to)) = to
    BY <1>1, ApplyChanges
  <2> QED
    BY <1>3, <2>1 DEF readDeltaEntity
<1> QED
  BY <1>2, <1>3

-----------------------------------------------------------------------------
(* What the messages carry.                                                *)

\* Entities by their numbers.
EntityMap(e) ==
  /\ DOMAIN e \subseteq Numbers
  /\ e = [n \in DOMAIN e |-> e[n]]
  /\ \A n \in DOMAIN e : e[n] \in Entity /\ e[n].number = n

LEMMA WorldParts ==
  ASSUME NEW w \in World
  PROVE  /\ w.ps \in [number : Numbers] /\ w.ps.number \in Numbers
         /\ w.ps.number \notin DOMAIN w.entities
         /\ EntityMap(w.entities)
         /\ \A n \in DOMAIN w.entities : BlankEntities \/ w.entities[n].x = 1
<1>1. w.ps \in [number : Numbers] /\ w.ps.number \notin DOMAIN w.entities
  BY DEF World
<1>2. PICK S \in SUBSET Numbers : w.entities \in [S -> Entity]
  BY DEF World
<1>3. \A n \in DOMAIN w.entities : w.entities[n] \in EntitiesNumbered(n)
  BY DEF World
<1>4. EntityMap(w.entities)
  BY <1>2, <1>3 DEF EntityMap, EntitiesNumbered
<1> QED
  BY <1>1, <1>3, <1>4 DEF EntitiesNumbered

LEMMA NoWorldIsWorld ==
  NoWorld \in World /\ EntityMap(NoWorld.entities) /\ DOMAIN NoWorld.entities = {}
<1>1. DOMAIN NoWorld.entities = {}
  BY DEF NoWorld
<1>2. NoWorld.entities \in [{} -> Entity]
  BY DEF NoWorld
<1>3. 0 \in Numbers
  BY SnapshotsAssumption DEF Numbers, NoEntity
<1>4. NoWorld \in World
  BY <1>1, <1>2, <1>3 DEF World, NoWorld
<1> QED
  BY <1>1, <1>4, WorldParts

\* A base and a world say what their message says of an entity.
LEMMA DeltasAbout ==
  ASSUME NEW from, NEW to
  PROVE  DOMAIN EntityDeltas(from, to)
           = {n \in DOMAIN from \cup DOMAIN to :
                n \in DOMAIN from \cap DOMAIN to => from[n] # to[n]}
BY DEF EntityDeltas

LEMMA DeltasSay ==
  ASSUME NEW from, NEW to, NEW n \in DOMAIN EntityDeltas(from, to),
         NEW delta, delta = EntityDeltas(from, to)[n]
  PROVE  /\ n \notin DOMAIN to => delta.remove = TRUE
         /\ n \in DOMAIN to => delta.remove = FALSE
         /\ n \in DOMAIN to /\ n \in DOMAIN from =>
              delta.fields = Changes([from[n] EXCEPT !.number = n], to[n])
         /\ n \in DOMAIN to /\ n \notin DOMAIN from =>
              delta.fields = Changes([BaselineOf(n) EXCEPT !.number = n], to[n])
BY DEF EntityDeltas

\* Whatever a delta is applied to, it gives an entity.
ReadsEntities(deltas) ==
  /\ DOMAIN deltas \subseteq Numbers
  /\ \A n \in DOMAIN deltas : \A e \in Entity : readDeltaEntity(e, deltas[n], n) \in Entity

LEMMA BaselineType ==
  ASSUME baselines \in MapBaselines, NEW n \in Numbers
  PROVE  /\ BaselineOf(n) \in Entity
         /\ n \in DOMAIN baselines => BaselineOf(n) = PlayerEntity(n)
         /\ n \notin DOMAIN baselines => BaselineOf(n) = Blank(0)
<1>1. PICK S \in SUBSET (Numbers \ {0}) : baselines = [m \in S |-> PlayerEntity(m)]
  BY DEF MapBaselines
<1>2. n \in 0 .. NoEntity /\ 0 \in 0 .. NoEntity
  BY SnapshotsAssumption DEF Numbers, NoEntity
<1>3. PlayerEntity(n) \in Entity /\ Blank(0) \in Entity
  BY <1>2, BlankIsEntity DEF PlayerEntity, Entity
<1> QED
  BY <1>1, <1>3 DEF BaselineOf

LEMMA DeltasRead ==
  ASSUME baselines \in MapBaselines, NEW from, NEW to, EntityMap(from), EntityMap(to)
  PROVE  ReadsEntities(EntityDeltas(from, to))
<1> DEFINE deltas == EntityDeltas(from, to)
<1>1. DOMAIN deltas \subseteq Numbers
  <2>1. DOMAIN deltas \subseteq DOMAIN from \cup DOMAIN to
    BY DEF EntityDeltas
  <2> QED
    BY <2>1 DEF EntityMap
<1>2. ASSUME NEW n \in DOMAIN deltas, NEW e \in Entity
      PROVE  readDeltaEntity(e, deltas[n], n) \in Entity
  <2>1. n \in 0 .. NoEntity /\ NoEntity \in 0 .. NoEntity
    BY <1>1, SnapshotsAssumption DEF Numbers, NoEntity
  <2>2. CASE n \notin DOMAIN to
    <3>1. deltas[n].remove
      BY <2>2, DeltasSay
    <3> QED
      BY <2>1, <3>1, BlankIsEntity DEF readDeltaEntity
  <2>3. CASE n \in DOMAIN to
    <3> DEFINE base == IF n \in DOMAIN from THEN from[n] ELSE BaselineOf(n)
    <3>1. deltas[n].remove = FALSE
          /\ deltas[n].fields = Changes([base EXCEPT !.number = n], to[n])
      BY <2>3, DeltasSay
    <3>2. [base EXCEPT !.number = n] \in Entity /\ to[n] \in Entity
      BY <1>1, <2>1, <2>3, BaselineType, Renumbered DEF EntityMap
    <3>3. ApplyFields([e EXCEPT !.number = n], deltas[n].fields) \in Entity
      BY <2>1, <3>1, <3>2, Renumbered, ApplyFieldsType
    <3> QED
      BY <3>1, <3>3 DEF readDeltaEntity
  <2> QED
    BY <2>2, <2>3
<1> QED
  BY <1>1, <1>2 DEF ReadsEntities

-----------------------------------------------------------------------------
(* One turn of parsePacketEntities.                                        *)

Ring == [0 .. MAX_PARSE_ENTITIES - 1 -> Entity]
CurrentEntities == [0 .. NoEntity -> [valid : BOOLEAN, state : Entity]]

ParseType ==
  [parseEntities : Ring, parseEntitiesNum : Nat, currentEntities : CurrentEntities,
   numEntities : Nat, oldindex : Nat, oldnum : 0 .. INVALID_NUM, pending : SUBSET Numbers]

LEMMA Constants ==
  /\ NoEntity \in Nat /\ NoEntity >= 1 /\ Numbers = 0 .. NoEntity - 1
  /\ INVALID_NUM \in Nat /\ INVALID_NUM = NoEntity + 2
  /\ MAX_PARSE_ENTITIES \in Nat \ {0}
  /\ \A i \in Nat : ParseSlot(i) \in 0 .. MAX_PARSE_ENTITIES - 1
<1>1. MAX_PARSE_ENTITIES \in Nat \ {0}
  BY SnapshotsAssumption
<1> QED
  BY <1>1, SnapshotsAssumption DEF NoEntity, Numbers, INVALID_NUM, ParseSlot

LEMMA InvalidIsLarger ==
  INVALID_NUM \in 0 .. INVALID_NUM /\ \A n \in 0 .. NoEntity : n \in 0 .. INVALID_NUM /\ n < INVALID_NUM
BY Constants

LEMMA NumberRange ==
  /\ NoEntity \in Nat /\ INVALID_NUM \in Nat /\ NoEntity \in 0 .. NoEntity
  /\ \A n \in Numbers :
       n \in Nat /\ n < INVALID_NUM /\ n < NoEntity /\ n # NoEntity /\ n \in 0 .. NoEntity
BY Constants

LEMMA RemovedType ==
  ASSUME NEW c \in CurrentEntities, NEW n \in 0 .. NoEntity
  PROVE  onEntityRemoved(c, n) \in CurrentEntities
<1>1. c[n] \in [valid : BOOLEAN, state : Entity]
  BY DEF CurrentEntities
<1>2. [c[n] EXCEPT !.valid = FALSE] \in [valid : BOOLEAN, state : Entity]
  BY <1>1
<1> QED
  BY <1>2 DEF onEntityRemoved, CurrentEntities

LEMMA UpdatedType ==
  ASSUME NEW c \in CurrentEntities, NEW e \in Entity
  PROVE  onEntityUpdated(c, e) \in CurrentEntities
<1>1. [valid |-> TRUE, state |-> e] \in [valid : BOOLEAN, state : Entity]
  OBVIOUS
<1> QED
  BY <1>1 DEF onEntityUpdated, CurrentEntities

\* One entity is written into the ring, and kept there unless it was removed.
Writes(p, r, state) ==
  /\ r.parseEntities = [p.parseEntities EXCEPT ![ParseSlot(p.parseEntitiesNum)] = state]
  /\ IF state.number = NoEntity
     THEN r.numEntities = p.numEntities /\ r.parseEntitiesNum = p.parseEntitiesNum
     ELSE r.numEntities = p.numEntities + 1
          /\ r.parseEntitiesNum = p.parseEntitiesNum + 1

\* An entity that changed is shown to the application, one that is gone taken from it;
\* the number of the latter is read after the slot "at" may have been written.
Shows(p, r, from, at, state) ==
  r.currentEntities =
    IF state.number = NoEntity
    THEN onEntityRemoved(p.currentEntities,
           IF at = ParseSlot(p.parseEntitiesNum) THEN state.number ELSE from.number)
    ELSE onEntityUpdated(p.currentEntities, state)

\* The rest of the parse is as it was.
Stays(p, r) ==
  r.oldindex = p.oldindex /\ r.oldnum = p.oldnum /\ r.pending = p.pending

LEMMA DeltaEntityParts ==
  ASSUME NEW p \in ParseType, NEW from \in Entity, NEW state \in Entity, NEW at,
         NEW unchanged \in BOOLEAN
  PROVE  /\ parseDeltaEntity(p, from, at, state, unchanged) \in ParseType
         /\ Writes(p, parseDeltaEntity(p, from, at, state, unchanged), state)
         /\ Stays(p, parseDeltaEntity(p, from, at, state, unchanged))
<1> DEFINE r == parseDeltaEntity(p, from, at, state, unchanged)
           slot == ParseSlot(p.parseEntitiesNum)
           ring == [p.parseEntities EXCEPT ![slot] = state]
           written == [p EXCEPT !.parseEntities[slot] = state]
           removed == IF at = slot THEN state.number ELSE from.number
<1>1. ring \in Ring
  <2>1. p.parseEntities \in Ring
    BY DEF ParseType
  <2> QED
    BY <2>1 DEF Ring
<1>2. written = [p EXCEPT !.parseEntities = ring]
  BY DEF ParseType
<1> HIDE DEF ring
<1>3. /\ written \in ParseType /\ written.parseEntities = ring
      /\ written.parseEntitiesNum = p.parseEntitiesNum
      /\ written.currentEntities = p.currentEntities /\ written.numEntities = p.numEntities
      /\ written.oldindex = p.oldindex /\ written.oldnum = p.oldnum
      /\ written.pending = p.pending
  BY <1>1, <1>2 DEF ParseType
<1> HIDE DEF written
<1>4. CASE state.number = NoEntity
  <2> DEFINE current == onEntityRemoved(written.currentEntities, removed)
  <2>1. removed \in 0 .. NoEntity
    BY EntityRecord
  <2>2. written.currentEntities \in CurrentEntities
    BY <1>3 DEF ParseType
  <2>3. current \in CurrentEntities
    BY <2>1, <2>2, RemovedType
  <2>4. r = [written EXCEPT !.currentEntities = current]
    BY <1>4 DEF parseDeltaEntity, written
  <2> HIDE DEF current, r
  <2>5. r \in ParseType
    BY <1>3, <2>3, <2>4 DEF ParseType
  <2>6. /\ r.parseEntities = ring /\ r.parseEntitiesNum = p.parseEntitiesNum
        /\ r.numEntities = p.numEntities
        /\ r.oldindex = p.oldindex /\ r.oldnum = p.oldnum /\ r.pending = p.pending
    BY <1>3, <2>4 DEF ParseType
  <2> QED
    BY <1>4, <2>5, <2>6 DEF ring, Writes, Stays, r
<1>5. CASE state.number # NoEntity
  <2> DEFINE current == IF unchanged THEN written.currentEntities
                        ELSE onEntityUpdated(written.currentEntities, state)
  <2>1. written.currentEntities \in CurrentEntities
    BY <1>3 DEF ParseType
  <2>2. current \in CurrentEntities
    BY <2>1, UpdatedType
  <2>3. r = [written EXCEPT !.parseEntitiesNum = written.parseEntitiesNum + 1,
                            !.numEntities = written.numEntities + 1,
                            !.currentEntities = current]
    BY <1>5 DEF parseDeltaEntity, written
  <2> HIDE DEF current, r
  <2>4. written.parseEntitiesNum + 1 \in Nat /\ written.numEntities + 1 \in Nat
    BY <1>3 DEF ParseType
  <2>5. r \in ParseType
    BY <1>3, <2>2, <2>3, <2>4 DEF ParseType
  <2>6. /\ r.parseEntities = ring /\ r.parseEntitiesNum = p.parseEntitiesNum + 1
        /\ r.numEntities = p.numEntities + 1
        /\ r.oldindex = p.oldindex /\ r.oldnum = p.oldnum /\ r.pending = p.pending
    BY <1>3, <2>3 DEF ParseType
  <2> QED
    BY <1>5, <2>5, <2>6 DEF ring, Writes, Stays, r
<1> QED
  BY <1>4, <1>5

LEMMA DeltaEntityStays ==
  ASSUME NEW p \in ParseType, NEW from, NEW state, NEW at, state.number # NoEntity
  PROVE  parseDeltaEntity(p, from, at, state, TRUE).currentEntities = p.currentEntities
<1> DEFINE r == parseDeltaEntity(p, from, at, state, TRUE)
           ring == [p.parseEntities EXCEPT ![ParseSlot(p.parseEntitiesNum)] = state]
           written == [p EXCEPT !.parseEntities[ParseSlot(p.parseEntitiesNum)] = state]
<1>1. written = [p EXCEPT !.parseEntities = ring]
  BY DEF ParseType
<1> HIDE DEF ring
<1>2. /\ written.currentEntities = p.currentEntities
      /\ DOMAIN written = DOMAIN p /\ "currentEntities" \in DOMAIN p
  BY <1>1 DEF ParseType
<1>3. r = [written EXCEPT !.parseEntitiesNum = written.parseEntitiesNum + 1,
                          !.numEntities = written.numEntities + 1,
                          !.currentEntities = written.currentEntities]
  BY DEF parseDeltaEntity
<1> HIDE DEF written, r
<1>4. r.currentEntities = p.currentEntities
  BY <1>2, <1>3
<1> QED
  BY <1>4 DEF r

LEMMA DeltaEntityShows ==
  ASSUME NEW p \in ParseType, NEW from, NEW state, NEW at,
         NEW r, r = parseDeltaEntity(p, from, at, state, FALSE)
  PROVE  Shows(p, r, from, at, state)
<1> DEFINE slot == ParseSlot(p.parseEntitiesNum)
           ring == [p.parseEntities EXCEPT ![slot] = state]
           written == [p EXCEPT !.parseEntities[slot] = state]
           removed == IF at = slot THEN state.number ELSE from.number
<1>1. written = [p EXCEPT !.parseEntities = ring]
  BY DEF ParseType
<1> HIDE DEF ring
<1>2. /\ written.currentEntities = p.currentEntities
      /\ DOMAIN written = DOMAIN p /\ "currentEntities" \in DOMAIN p
  BY <1>1 DEF ParseType
<1> HIDE DEF written
<1>3. CASE state.number = NoEntity
  <2>1. r = [written EXCEPT !.currentEntities = onEntityRemoved(written.currentEntities, removed)]
    BY <1>3 DEF parseDeltaEntity, written
  <2> HIDE DEF removed
  <2>2. r.currentEntities = onEntityRemoved(p.currentEntities, removed)
    BY <1>2, <2>1
  <2> QED
    BY <1>3, <2>2 DEF Shows, removed
<1>4. CASE state.number # NoEntity
  <2> DEFINE current == onEntityUpdated(written.currentEntities, state)
  <2>1. r = [written EXCEPT !.parseEntitiesNum = written.parseEntitiesNum + 1,
                            !.numEntities = written.numEntities + 1,
                            !.currentEntities = current]
    BY <1>4 DEF parseDeltaEntity, written
  <2> HIDE DEF current
  <2>2. r.currentEntities = current
    BY <1>2, <2>1
  <2> QED
    BY <1>2, <1>4, <2>2 DEF Shows, current
<1> QED
  BY <1>3, <1>4

LEMMA OldNumberType ==
  ASSUME NEW p \in ParseType, NEW old, old.parseEntitiesNum \in Nat, NEW i \in Nat
  PROVE  OldNumber(p, old, i) \in 0 .. INVALID_NUM
<1> DEFINE slot == ParseSlot(old.parseEntitiesNum + i)
<1>1. slot \in 0 .. MAX_PARSE_ENTITIES - 1
  <2>1. old.parseEntitiesNum + i \in Nat
    OBVIOUS
  <2> QED
    BY <2>1, Constants
<1>2. p.parseEntities[slot] \in Entity
  BY <1>1 DEF ParseType, Ring
<1>3. p.parseEntities[slot].number \in 0 .. NoEntity
  BY <1>2, EntityRecord
<1>4. p.parseEntities[slot].number \in 0 .. INVALID_NUM /\ INVALID_NUM \in 0 .. INVALID_NUM
  BY <1>3, InvalidIsLarger
<1> QED
  BY <1>4 DEF OldNumber

\* The number that the message goes on with.
IsNext(pending, newnum) ==
  \/ pending = {} /\ newnum = INVALID_NUM
  \/ newnum \in pending /\ \A m \in pending : newnum <= m

\* The old frame goes on to its next entity.
Steps(p, r, old) ==
  r.oldindex = p.oldindex + 1 /\ r.oldnum = OldNumber(r, old, p.oldindex + 1)

OldEntity(p, old) == p.parseEntities[ParseSlot(old.parseEntitiesNum + p.oldindex)]

LEMMA HasNext ==
  ASSUME NEW pending \in SUBSET Numbers
  PROVE  /\ \E newnum : IsNext(pending, newnum)
         /\ \A m, n : IsNext(pending, m) /\ IsNext(pending, n) => m = n
<1>1. pending \in SUBSET Nat /\ INVALID_NUM \notin pending
  BY Constants
<1>2. \E newnum : IsNext(pending, newnum)
  BY <1>1, HasFirst DEF IsNext
<1>3. ASSUME NEW m, NEW n, IsNext(pending, m), IsNext(pending, n) PROVE m = n
  <2>1. CASE pending = {}
    BY <1>3, <2>1 DEF IsNext
  <2>2. CASE pending # {}
    <3>1. m \in pending /\ n \in pending /\ m <= n /\ n <= m
      BY <1>3, <2>2 DEF IsNext
    <3> QED
      BY <1>1, <3>1
  <2> QED
    BY <2>1, <2>2
<1> QED
  BY <1>2, <1>3

LEMMA AdvancedParts ==
  ASSUME NEW p \in ParseType, NEW old, old.parseEntitiesNum \in Nat
  PROVE  /\ Advanced(p, old) \in ParseType
         /\ Steps(p, Advanced(p, old), old)
         /\ Advanced(p, old).pending = p.pending
         /\ Advanced(p, old).parseEntities = p.parseEntities
         /\ Advanced(p, old).parseEntitiesNum = p.parseEntitiesNum
         /\ Advanced(p, old).numEntities = p.numEntities
         /\ Advanced(p, old).currentEntities = p.currentEntities
<1> DEFINE r == Advanced(p, old)
           num == OldNumber(p, old, p.oldindex + 1)
<1>1. p.oldindex + 1 \in Nat
  BY DEF ParseType
<1>2. num \in 0 .. INVALID_NUM
  BY <1>1, OldNumberType
<1>3. r = [p EXCEPT !.oldindex = p.oldindex + 1, !.oldnum = num]
  BY DEF Advanced
<1> HIDE DEF num, r
<1>4. r \in ParseType
  BY <1>1, <1>2, <1>3 DEF ParseType
<1>5. /\ r.pending = p.pending /\ r.parseEntities = p.parseEntities
      /\ r.parseEntitiesNum = p.parseEntitiesNum /\ r.numEntities = p.numEntities
      /\ r.oldindex = p.oldindex + 1 /\ r.oldnum = num
      /\ r.currentEntities = p.currentEntities
  BY <1>3 DEF ParseType
<1>6. num = OldNumber(r, old, p.oldindex + 1)
  BY <1>5 DEF OldNumber, num
<1> QED
  BY <1>4, <1>5, <1>6 DEF Steps, r

\* The next number of the message is read.
Read(p, n) == [p EXCEPT !.pending = @ \ {n}]

LEMMA ReadParts ==
  ASSUME NEW p \in ParseType, NEW n
  PROVE  /\ Read(p, n) \in ParseType /\ Read(p, n).pending = p.pending \ {n}
         /\ Read(p, n).oldindex = p.oldindex /\ Read(p, n).oldnum = p.oldnum
         /\ Read(p, n).parseEntities = p.parseEntities
         /\ Read(p, n).parseEntitiesNum = p.parseEntitiesNum
         /\ Read(p, n).numEntities = p.numEntities
         /\ Read(p, n).currentEntities = p.currentEntities
<1>1. Read(p, n) = [p EXCEPT !.pending = p.pending \ {n}] /\ p.pending \ {n} \in SUBSET Numbers
  BY DEF ParseType, Read
<1> QED
  BY <1>1 DEF ParseType

\* What a turn does, by which of the two numbers is the lower one.
IsTurn(p, r, newnum, old, deltas, bases) ==
  /\ r \in ParseType
  /\ p.oldnum = INVALID_NUM /\ newnum = INVALID_NUM => r = p
  /\ p.oldnum < newnum =>
       /\ Writes(p, r, OldEntity(p, old)) /\ Steps(p, r, old) /\ r.pending = p.pending
       /\ OldEntity(p, old).number # NoEntity => r.currentEntities = p.currentEntities
  /\ p.oldnum = newnum /\ newnum # INVALID_NUM =>
       /\ Writes(p, r, readDeltaEntity(OldEntity(p, old), deltas[newnum], newnum))
       /\ Shows(p, r, OldEntity(p, old), ParseSlot(old.parseEntitiesNum + p.oldindex),
                readDeltaEntity(OldEntity(p, old), deltas[newnum], newnum))
       /\ Steps(p, r, old) /\ r.pending = p.pending \ {newnum}
  /\ newnum < p.oldnum =>
       /\ Writes(p, r, readDeltaEntity(bases[newnum], deltas[newnum], newnum))
       /\ Shows(p, r, bases[newnum], -1, readDeltaEntity(bases[newnum], deltas[newnum], newnum))
       /\ r.oldindex = p.oldindex /\ r.oldnum = p.oldnum
       /\ r.pending = p.pending \ {newnum}

LEMMA TurnParts ==
  ASSUME NEW p \in ParseType, NEW old, old.parseEntitiesNum \in Nat,
         NEW deltas, ReadsEntities(deltas), p.pending \subseteq DOMAIN deltas,
         NEW bases \in [0 .. NoEntity -> Entity],
         NEW newnum, IsNext(p.pending, newnum)
  PROVE  IsTurn(p, ParseTurn(p, old, deltas, bases), newnum, old, deltas, bases)
<1> DEFINE r == ParseTurn(p, old, deltas, bases)
           at == ParseSlot(old.parseEntitiesNum + p.oldindex)
           from == OldEntity(p, old)
           read == Read(p, newnum)
           none == -1
<1>0. /\ p.pending \in SUBSET Numbers /\ p.oldnum \in 0 .. INVALID_NUM /\ p.oldindex \in Nat
      /\ p.parseEntities \in Ring
  BY DEF ParseType
<1>1. from \in Entity
  <2>1. old.parseEntitiesNum + p.oldindex \in Nat
    BY <1>0
  <2>2. at \in 0 .. MAX_PARSE_ENTITIES - 1
    BY <2>1, Constants
  <2> QED
    BY <1>0, <2>2 DEF Ring, OldEntity
<1>2. newnum = IF p.pending = {} THEN INVALID_NUM
               ELSE CHOOSE n \in p.pending : \A m \in p.pending : n <= m
  <2>1. CASE p.pending = {}
    BY <2>1 DEF IsNext
  <2>2. CASE p.pending # {}
    <3> DEFINE c == CHOOSE n \in p.pending : \A m \in p.pending : n <= m
    <3>1. newnum \in p.pending /\ \A m \in p.pending : newnum <= m
      BY <2>2 DEF IsNext
    <3>2. c \in p.pending /\ \A m \in p.pending : c <= m
      BY <3>1
    <3> HIDE DEF c
    <3>3. IsNext(p.pending, c)
      BY <3>2 DEF IsNext
    <3>4. newnum = c
      BY <1>0, <3>3, HasNext
    <3> QED
      BY <2>2, <3>4 DEF c
  <2> QED
    BY <2>1, <2>2
<1>3. newnum \in 0 .. INVALID_NUM
      /\ (newnum # INVALID_NUM => newnum \in p.pending /\ newnum \in 0 .. NoEntity)
  <2>1. \A n \in Numbers : n \in 0 .. NoEntity
    BY Constants
  <2> QED
    BY <1>0, <2>1, InvalidIsLarger DEF IsNext
<1>4. r = IF p.oldnum = INVALID_NUM /\ newnum = INVALID_NUM THEN p
          ELSE IF p.oldnum < newnum
          THEN Advanced(parseDeltaEntity(p, from, at, from, TRUE), old)
          ELSE IF p.oldnum = newnum
          THEN Advanced(parseDeltaEntity(read, from, at,
                          readDeltaEntity(from, deltas[newnum], newnum), FALSE), old)
          ELSE parseDeltaEntity(read, bases[newnum], none,
                 readDeltaEntity(bases[newnum], deltas[newnum], newnum), FALSE)
  BY <1>2 DEF ParseTurn, OldEntity, Read
<1>5. /\ read \in ParseType /\ read.pending = p.pending \ {newnum}
      /\ read.oldindex = p.oldindex /\ read.oldnum = p.oldnum
      /\ read.parseEntities = p.parseEntities
      /\ read.parseEntitiesNum = p.parseEntitiesNum /\ read.numEntities = p.numEntities
      /\ read.currentEntities = p.currentEntities
  BY ReadParts
<1>6. p.oldnum \in Nat /\ newnum \in Nat /\ INVALID_NUM \in Nat
      /\ p.oldnum <= INVALID_NUM /\ newnum <= INVALID_NUM
  BY <1>0, <1>3, Constants
<1> HIDE DEF from, at, read, none, r
<1> SUFFICES IsTurn(p, r, newnum, old, deltas, bases)
  BY DEF r
<1> USE DEF IsTurn
<1>7. CASE p.oldnum = INVALID_NUM /\ newnum = INVALID_NUM
  BY <1>4, <1>6, <1>7
<1>8. CASE p.oldnum < newnum
  <2> DEFINE d == parseDeltaEntity(p, from, at, from, TRUE)
  <2>0. ~(p.oldnum = INVALID_NUM /\ newnum = INVALID_NUM)
    BY <1>6, <1>8
  <2>1. r = Advanced(d, old)
    BY <1>4, <1>8, <2>0
  <2>2. d \in ParseType /\ Writes(p, d, from) /\ Stays(p, d)
    BY <1>1, DeltaEntityParts
  <2>2a. from.number # NoEntity => d.currentEntities = p.currentEntities
    <3> SUFFICES ASSUME from.number # NoEntity PROVE d.currentEntities = p.currentEntities
      OBVIOUS
    <3> QED
      BY DeltaEntityStays, Zenon
  <2> HIDE DEF d
  <2>3. /\ r \in ParseType /\ Steps(d, r, old)
        /\ r.parseEntities = d.parseEntities /\ r.pending = d.pending
        /\ r.parseEntitiesNum = d.parseEntitiesNum /\ r.numEntities = d.numEntities
        /\ r.currentEntities = d.currentEntities
    BY <2>1, <2>2, AdvancedParts
  <2>4. Writes(p, r, from) /\ Steps(p, r, old) /\ r.pending = p.pending
    BY <2>2, <2>3 DEF Writes, Steps, Stays
  <2> QED
    BY <1>6, <1>8, <2>2a, <2>3, <2>4 DEF from
<1>9. CASE p.oldnum = newnum /\ newnum # INVALID_NUM
  <2> DEFINE state == readDeltaEntity(from, deltas[newnum], newnum)
             d == parseDeltaEntity(read, from, at, state, FALSE)
  <2>0. state \in Entity
    BY <1>1, <1>3, <1>9 DEF ReadsEntities
  <2>1. r = Advanced(d, old)
    <3>1. ~(p.oldnum < newnum) /\ ~(p.oldnum = INVALID_NUM /\ newnum = INVALID_NUM)
      BY <1>6, <1>9
    <3> QED
      BY <1>4, <1>9, <3>1
  <2> HIDE DEF state
  <2>2. d \in ParseType /\ Writes(read, d, state) /\ Stays(read, d)
    BY <1>1, <1>5, <2>0, DeltaEntityParts
  <2>2a. Shows(read, d, from, at, state)
    BY <1>5, DeltaEntityShows
  <2> HIDE DEF d
  <2>3. /\ r \in ParseType /\ Steps(d, r, old)
        /\ r.parseEntities = d.parseEntities /\ r.pending = d.pending
        /\ r.parseEntitiesNum = d.parseEntitiesNum /\ r.numEntities = d.numEntities
        /\ r.currentEntities = d.currentEntities
    BY <2>1, <2>2, AdvancedParts
  <2>4. Writes(p, r, state) /\ Steps(p, r, old) /\ r.pending = p.pending \ {newnum}
    BY <1>5, <2>2, <2>3 DEF Writes, Steps, Stays
  <2>5. Shows(p, r, from, at, state)
    BY <1>5, <2>2a, <2>3 DEF Shows
  <2> QED
    BY <1>6, <1>9, <2>3, <2>4, <2>5 DEF from, at, state
<1>10. CASE newnum < p.oldnum
  <2> DEFINE base == bases[newnum]
             state == readDeltaEntity(base, deltas[newnum], newnum)
  <2>0. newnum # INVALID_NUM
    BY <1>6, <1>10
  <2>1. base \in Entity /\ state \in Entity
    BY <1>3, <2>0 DEF ReadsEntities
  <2> DEFINE d == parseDeltaEntity(read, base, none, state, FALSE)
  <2>2. r = d
    <3>1. ~(p.oldnum < newnum) /\ p.oldnum # newnum
          /\ ~(p.oldnum = INVALID_NUM /\ newnum = INVALID_NUM)
      BY <1>6, <1>10
    <3> QED
      BY <1>4, <3>1
  <2> HIDE DEF state, base
  <2>2a. d \in ParseType /\ Writes(read, d, state) /\ Stays(read, d)
    BY <1>5, <2>1, DeltaEntityParts
  <2>2b. Shows(read, d, base, none, state)
    BY <1>5, DeltaEntityShows
  <2> HIDE DEF d
  <2>3. r \in ParseType /\ Writes(read, r, state) /\ Stays(read, r)
    BY <2>2, <2>2a
  <2>4. /\ Writes(p, r, state) /\ r.pending = p.pending \ {newnum}
        /\ r.oldindex = p.oldindex /\ r.oldnum = p.oldnum
    BY <1>5, <2>3 DEF Writes, Stays
  <2>5. Shows(p, r, base, none, state)
    BY <1>5, <2>2, <2>2b DEF Shows
  <2> QED
    BY <1>6, <1>10, <2>3, <2>4, <2>5 DEF state, base, none
<1> QED
  BY <1>6, <1>7, <1>8, <1>9, <1>10

-----------------------------------------------------------------------------
(* The turns of parsePacketEntities one after the other.                   *)

ParseStart(g, old, deltas) ==
  [parseEntities    |-> g.parseEntities,
   parseEntitiesNum |-> g.parseEntitiesNum,
   currentEntities  |-> g.currentEntities,
   numEntities      |-> 0,
   oldindex         |-> 0,
   oldnum           |-> OldNumber(g, old, 0),
   pending          |-> DOMAIN deltas]

\* f has the state of the parse after each of n turns.
IsParse(f, n, start, old, deltas, bases) ==
  f = [i \in 0 .. n |->
         IF i = 0 THEN start ELSE ParseTurn(f[i - 1], old, deltas, bases)]

LEMMA ParseExists ==
  ASSUME NEW start, NEW old, NEW deltas, NEW bases, NEW turns \in Nat
  PROVE  \E f : IsParse(f, turns, start, old, deltas, bases)
<1> DEFINE S == {n \in Nat : \E f : IsParse(f, n, start, old, deltas, bases)}
<1>1. 0 \in S
  <2> DEFINE f == [i \in 0 .. 0 |-> start]
  <2>1. IsParse(f, 0, start, old, deltas, bases)
    BY DEF IsParse
  <2> QED
    BY <2>1
<1>2. ASSUME NEW n \in S PROVE n + 1 \in S
  <2>1. PICK f : IsParse(f, n, start, old, deltas, bases)
    OBVIOUS
  <2> DEFINE Turn(x) == ParseTurn(x, old, deltas, bases)
             h == [i \in 0 .. n + 1 |-> IF i = n + 1 THEN Turn(f[n]) ELSE f[i]]
  <2>2. f = [i \in 0 .. n |-> IF i = 0 THEN start ELSE Turn(f[i - 1])]
    BY <2>1 DEF IsParse
  <2> HIDE DEF Turn
  <2>3. ASSUME NEW i \in 0 .. n + 1
        PROVE  h[i] = IF i = 0 THEN start ELSE Turn(h[i - 1])
    <3>1. CASE i = n + 1
      <4>1. i - 1 = n /\ n \in 0 .. n + 1 /\ n # n + 1 /\ i # 0
        BY <3>1
      <4> QED
        BY <3>1, <4>1
    <3>2. CASE i = 0
      BY <2>2, <3>2
    <3>3. CASE i # 0 /\ i # n + 1
      <4>1. i \in 0 .. n /\ i - 1 \in 0 .. n + 1 /\ i - 1 # n + 1
        BY <3>3
      <4>2. h[i] = f[i] /\ h[i - 1] = f[i - 1]
        BY <3>3, <4>1
      <4>3. f[i] = Turn(f[i - 1])
        BY <2>2, <3>3, <4>1
      <4> QED
        BY <3>3, <4>2, <4>3
    <3> QED
      BY <3>1, <3>2, <3>3
  <2>4. h = [i \in 0 .. n + 1 |-> h[i]]
    OBVIOUS
  <2> HIDE DEF h
  <2>5. h = [i \in 0 .. n + 1 |-> IF i = 0 THEN start ELSE Turn(h[i - 1])]
    BY <2>3, <2>4
  <2>6. IsParse(h, n + 1, start, old, deltas, bases)
    BY <2>5 DEF IsParse, Turn
  <2> QED
    BY <2>6
<1>3. S = Nat
  <2>1. S \in SUBSET Nat
    OBVIOUS
  <2> HIDE DEF S
  <2> QED
    BY <1>1, <1>2, <2>1, SetInduction
<1> QED
  BY <1>3

LEMMA ParseRuns ==
  ASSUME NEW g, NEW old, NEW deltas, Cardinality(DOMAIN deltas) + old.numEntities \in Nat
  PROVE  \E f :
           /\ f[0] = ParseStart(g, old, deltas)
           /\ \A i \in 1 .. Cardinality(DOMAIN deltas) + old.numEntities :
                f[i] = ParseTurn(f[i - 1], old, deltas, g.entityBaselines)
           /\ parsePacketEntities(g, old, deltas)
                = f[Cardinality(DOMAIN deltas) + old.numEntities]
<1> DEFINE turns == Cardinality(DOMAIN deltas) + old.numEntities
           start == ParseStart(g, old, deltas)
           parse == CHOOSE f : IsParse(f, turns, start, old, deltas, g.entityBaselines)
<1>1. IsParse(parse, turns, start, old, deltas, g.entityBaselines)
  BY ParseExists
<1>2. parsePacketEntities(g, old, deltas) = parse[turns]
  BY DEF parsePacketEntities, ParseStart, IsParse
<1> HIDE DEF parse, start, turns
<1>3. parse[0] = start
  BY <1>1 DEF IsParse, turns
<1>4. \A i \in 1 .. turns : parse[i] = ParseTurn(parse[i - 1], old, deltas, g.entityBaselines)
  BY <1>1 DEF IsParse, turns
<1> QED
  BY <1>2, <1>3, <1>4 DEF start, turns

\* What every turn keeps, whatever the old frame holds: the ring changes only
\* where entities are written, and there is one slot more of these at most than
\* entities are kept.
Keeps(g, deltas, p) ==
  /\ p \in ParseType /\ p.pending \subseteq DOMAIN deltas
  /\ p.parseEntitiesNum = g.parseEntitiesNum + p.numEntities
  /\ \A slot \in 0 .. MAX_PARSE_ENTITIES - 1 :
       (\A w \in 0 .. p.numEntities : ParseSlot(g.parseEntitiesNum + w) # slot)
         => p.parseEntities[slot] = g.parseEntities[slot]

LEMMA WriteKeeps ==
  ASSUME NEW g, g.parseEntitiesNum \in Nat, NEW deltas, NEW p, Keeps(g, deltas, p),
         NEW r \in ParseType, NEW state, Writes(p, r, state),
         r.pending \subseteq p.pending
  PROVE  Keeps(g, deltas, r)
<1>1. /\ p.parseEntities \in Ring /\ r.parseEntities \in Ring
      /\ p.numEntities \in Nat /\ r.numEntities \in Nat
  BY DEF Keeps, ParseType
<1>2. p.parseEntitiesNum = g.parseEntitiesNum + p.numEntities
  BY DEF Keeps
<1>3. /\ r.parseEntitiesNum = g.parseEntitiesNum + r.numEntities
      /\ p.numEntities <= r.numEntities
  BY <1>1, <1>2 DEF Writes
<1>4. ASSUME NEW slot \in 0 .. MAX_PARSE_ENTITIES - 1,
             \A w \in 0 .. r.numEntities : ParseSlot(g.parseEntitiesNum + w) # slot
      PROVE  r.parseEntities[slot] = g.parseEntities[slot]
  <2>1. \A w \in 0 .. p.numEntities : w \in 0 .. r.numEntities
    BY <1>1, <1>3
  <2>2. p.parseEntities[slot] = g.parseEntities[slot]
    BY <1>4, <2>1 DEF Keeps
  <2>3. ParseSlot(p.parseEntitiesNum) # slot
    <3>1. p.numEntities \in 0 .. r.numEntities
      BY <1>1, <1>3
    <3> QED
      BY <1>2, <1>4, <3>1
  <2>4. r.parseEntities[slot] = p.parseEntities[slot]
    BY <1>1, <2>3 DEF Writes, Ring
  <2> QED
    BY <2>2, <2>4
<1> QED
  BY <1>3, <1>4 DEF Keeps

LEMMA TurnKeeps ==
  ASSUME NEW g \in ClientGameState, NEW old, old.parseEntitiesNum \in Nat,
         NEW deltas, ReadsEntities(deltas), NEW p, Keeps(g, deltas, p)
  PROVE  Keeps(g, deltas, ParseTurn(p, old, deltas, g.entityBaselines))
<1> DEFINE r == ParseTurn(p, old, deltas, g.entityBaselines)
           bases == g.entityBaselines
<1>1. bases \in [0 .. NoEntity -> Entity] /\ g.parseEntitiesNum \in Nat
  BY DEF ClientGameState
<1>2. p \in ParseType /\ p.pending \subseteq DOMAIN deltas /\ p.pending \in SUBSET Numbers
      /\ p.oldnum \in 0 .. INVALID_NUM
  BY DEF Keeps, ParseType
<1>3. PICK newnum : IsNext(p.pending, newnum)
  BY <1>2, HasNext
<1>4. newnum \in 0 .. INVALID_NUM
  <2>1. \A n \in Numbers : n \in 0 .. NoEntity
    BY Constants
  <2> QED
    BY <1>2, <1>3, <2>1, InvalidIsLarger DEF IsNext
<1>5. p.oldnum \in Nat /\ newnum \in Nat
  BY <1>2, <1>4, Constants
<1>6. IsTurn(p, r, newnum, old, deltas, bases)
  BY <1>1, <1>2, <1>3, TurnParts
<1> HIDE DEF bases, r
<1>7. r \in ParseType
      /\ (r = p \/ (r.pending \subseteq p.pending /\ \E state : Writes(p, r, state)))
  BY <1>5, <1>6 DEF IsTurn
<1> QED
  BY <1>1, <1>7, WriteKeeps DEF r

LEMMA ParseKeeps ==
  ASSUME NEW g \in ClientGameState,
         NEW old, old.parseEntitiesNum \in Nat, old.numEntities \in Nat,
         NEW deltas, ReadsEntities(deltas)
  PROVE  Keeps(g, deltas, parsePacketEntities(g, old, deltas))
<1> DEFINE turns == Cardinality(DOMAIN deltas) + old.numEntities
<1>1. turns \in Nat
  <2>1. DOMAIN deltas \subseteq 0 .. NoEntity - 1
    BY Constants DEF ReadsEntities
  <2>2. IsFiniteSet(DOMAIN deltas)
    <3>1. 0 \in Int /\ NoEntity - 1 \in Int
      BY Constants
    <3>2. IsFiniteSet(0 .. NoEntity - 1)
      BY <3>1, FS_Interval
    <3> QED
      BY <2>1, <3>2, FS_Subset
  <2> QED
    BY <2>2, FS_CardinalityType
<1>2. PICK f : /\ f[0] = ParseStart(g, old, deltas)
               /\ \A i \in 1 .. turns :
                    f[i] = ParseTurn(f[i - 1], old, deltas, g.entityBaselines)
               /\ parsePacketEntities(g, old, deltas) = f[turns]
  BY <1>1, ParseRuns
<1> HIDE DEF turns
<1>3. Keeps(g, deltas, f[0])
  <2>1. OldNumber(g, old, 0) \in 0 .. INVALID_NUM
    <3>1. ParseSlot(old.parseEntitiesNum + 0) \in 0 .. MAX_PARSE_ENTITIES - 1
      <4>1. old.parseEntitiesNum + 0 \in Nat
        OBVIOUS
      <4> QED
        BY <4>1, Constants
    <3>2. g.parseEntities[ParseSlot(old.parseEntitiesNum + 0)] \in Entity
      BY <3>1 DEF ClientGameState
    <3> QED
      BY <3>2, EntityRecord, InvalidIsLarger DEF OldNumber
  <2>2. f[0] \in ParseType
    BY <1>2, <2>1 DEF ParseStart, ParseType, ClientGameState, Ring, CurrentEntities, ReadsEntities
  <2> QED
    BY <1>2, <2>2 DEF ParseStart, Keeps, ClientGameState
<1> DEFINE S == {i \in Nat : i <= turns => Keeps(g, deltas, f[i])}
<1>4. 0 \in S
  BY <1>3
<1>5. ASSUME NEW i \in S PROVE i + 1 \in S
  <2>1. SUFFICES ASSUME i + 1 <= turns PROVE Keeps(g, deltas, f[i + 1])
    OBVIOUS
  <2>2. i <= turns /\ i + 1 \in 1 .. turns /\ (i + 1) - 1 = i
    BY <1>1, <2>1
  <2>3. f[i + 1] = ParseTurn(f[i], old, deltas, g.entityBaselines)
    BY <1>2, <2>2
  <2> QED
    BY <2>2, <2>3, TurnKeeps
<1>6. S = Nat
  <2>1. S \in SUBSET Nat
    OBVIOUS
  <2> HIDE DEF S
  <2> QED
    BY <1>4, <1>5, <2>1, SetInduction
<1> QED
  BY <1>1, <1>2, <1>6

-----------------------------------------------------------------------------
(* The rank of an entity among others: where it is in a frame, for a frame *)
(* lists its entities by their numbers.                                    *)

Rank(S, n) == Cardinality({m \in S : m < n})

LEMMA NumbersFinite ==
  ASSUME NEW S \in SUBSET Numbers
  PROVE  IsFiniteSet(S) /\ Cardinality(S) \in Nat /\ S \in SUBSET Nat
<1>1. 0 \in Int /\ NoEntity - 1 \in Int /\ S \subseteq 0 .. NoEntity - 1
  BY Constants
<1>2. IsFiniteSet(0 .. NoEntity - 1)
  BY <1>1, FS_Interval
<1>3. IsFiniteSet(S)
  BY <1>1, <1>2, FS_Subset
<1> QED
  BY <1>1, <1>3, FS_CardinalityType

LEMMA RankType ==
  ASSUME NEW S \in SUBSET Numbers, NEW n
  PROVE  Rank(S, n) \in Nat /\ Rank(S, n) <= Cardinality(S)
<1>1. {m \in S : m < n} \in SUBSET Numbers /\ {m \in S : m < n} \subseteq S
  OBVIOUS
<1> QED
  BY <1>1, NumbersFinite, FS_Subset DEF Rank

LEMMA RankZero ==
  ASSUME NEW S \in SUBSET Numbers
  PROVE  Rank(S, 0) = 0
<1>1. {m \in S : m < 0} = {}
  BY NumbersFinite
<1> QED
  BY <1>1, FS_EmptySet DEF Rank

LEMMA RankNext ==
  ASSUME NEW S \in SUBSET Numbers, NEW n \in Nat
  PROVE  Rank(S, n + 1) = IF n \in S THEN Rank(S, n) + 1 ELSE Rank(S, n)
<1> DEFINE T == {m \in S : m < n}
<1>1. \A m \in S : m \in Nat
  BY NumbersFinite
<1>2. CASE n \in S
  <2>1. {m \in S : m < n + 1} = T \cup {n} /\ n \notin T
    <3>1. \A m \in S : m < n + 1 <=> (m < n \/ m = n)
      BY <1>1
    <3>2. ~(n < n)
      OBVIOUS
    <3> QED
      BY <1>2, <3>1, <3>2
  <2>2. IsFiniteSet(T)
    BY NumbersFinite
  <2> HIDE DEF T
  <2>3. Cardinality(T \cup {n}) = Cardinality(T) + 1
    BY <2>1, <2>2, FS_AddElement
  <2> QED
    BY <1>2, <2>1, <2>3 DEF Rank, T
<1>3. CASE n \notin S
  <2>1. {m \in S : m < n + 1} = T
    BY <1>1, <1>3
  <2> QED
    BY <1>3, <2>1 DEF Rank
<1> QED
  BY <1>2, <1>3

LEMMA RankMonotone ==
  ASSUME NEW S \in SUBSET Numbers, NEW m \in Nat, NEW n \in Nat, m <= n
  PROVE  Rank(S, m) <= Rank(S, n)
<1> DEFINE T == {k \in S : k < m}
           U == {k \in S : k < n}
<1>1. \A k \in S : k \in Nat
  BY NumbersFinite
<1>2. T \subseteq U /\ U \in SUBSET Numbers
  BY <1>1
<1> HIDE DEF T, U
<1>3. IsFiniteSet(U)
  BY <1>2, NumbersFinite
<1>4. Cardinality(T) <= Cardinality(U)
  BY <1>2, <1>3, FS_Subset
<1> QED
  BY <1>4 DEF Rank, T, U

LEMMA RankStrict ==
  ASSUME NEW S \in SUBSET Numbers, NEW m \in S, NEW n \in Nat, m < n
  PROVE  m \in Nat /\ Rank(S, m) + 1 <= Rank(S, n)
<1>1. m \in Nat /\ m + 1 \in Nat /\ m + 1 <= n
  BY NumbersFinite
<1> QED
  BY <1>1, RankNext, RankMonotone

\* Where there are no members the rank stays the same.
LEMMA RankSame ==
  ASSUME NEW S \in SUBSET Numbers, NEW m \in Nat, NEW n \in Nat, m <= n,
         \A k \in S : ~(m <= k /\ k < n)
  PROVE  Rank(S, m) = Rank(S, n)
<1>1. \A k \in S : k \in Nat
  BY NumbersFinite
<1>2. {k \in S : k < m} = {k \in S : k < n}
  BY <1>1
<1> QED
  BY <1>2 DEF Rank

LEMMA RankAll ==
  ASSUME NEW S \in SUBSET Numbers, NEW n, \A k \in S : k < n
  PROVE  Rank(S, n) = Cardinality(S)
<1>1. {k \in S : k < n} = S
  OBVIOUS
<1> QED
  BY <1>1 DEF Rank

LEMMA RankFull ==
  ASSUME NEW S \in SUBSET Numbers, NEW n, Rank(S, n) >= Cardinality(S)
  PROVE  \A k \in S : k < n
<1> DEFINE T == {k \in S : k < n}
<1>1. T \subseteq S /\ IsFiniteSet(S) /\ Cardinality(S) \in Nat
  BY NumbersFinite
<1>2. Cardinality(T) >= Cardinality(S)
  BY DEF Rank
<1> HIDE DEF T
<1>3. Cardinality(T) <= Cardinality(S) /\ (Cardinality(T) = Cardinality(S) => T = S)
      /\ IsFiniteSet(T)
  BY <1>1, FS_Subset
<1>4. Cardinality(T) \in Nat
  BY <1>3, FS_CardinalityType
<1>5. T = S
  BY <1>1, <1>2, <1>3, <1>4
<1> QED
  BY <1>5 DEF T

\* Every number below the size of a set is the rank of a member.
LEMMA RankOnto ==
  ASSUME NEW S \in SUBSET Numbers, NEW i \in Nat, i < Cardinality(S)
  PROVE  \E n \in S : Rank(S, n) = i
<1> DEFINE T == {n \in Nat : Rank(S, n) <= i}
<1>1. 0 \in T
  BY RankZero
<1>2. \A n \in T : n <= NoEntity
  <2> SUFFICES ASSUME NEW n \in T, ~(n <= NoEntity) PROVE FALSE
    OBVIOUS
  <2>1. \A k \in S : k < n
    BY Constants
  <2> QED
    BY <2>1, RankAll, NumbersFinite
<1>3. PICK n \in T : \A m \in T : m <= n
  <2>1. T \in SUBSET Nat /\ T # {} /\ NoEntity \in Nat
    BY <1>1, Constants
  <2> HIDE DEF T
  <2> QED
    BY <1>2, <2>1, HasLast
<1>4. n \in Nat /\ Rank(S, n) <= i /\ n + 1 \in Nat
  OBVIOUS
<1>5. n + 1 \notin T
  BY <1>3, <1>4
<1>6. ~(Rank(S, n + 1) <= i)
  BY <1>4, <1>5
<1>7. Rank(S, n) \in Nat
  BY RankType
<1> QED
  BY <1>4, <1>6, <1>7, RankNext

\* Of two sets one outranks the other by no more than it has newcomers.
LEMMA RankBound ==
  ASSUME NEW S \in SUBSET Numbers, NEW T \in SUBSET Numbers, NEW n \in Nat
  PROVE  Rank(T, n) <= Rank(S, n) + Cardinality(T \ S)
<1> DEFINE A == {m \in S : m < n}
           B == T \ S
           C == {m \in T : m < n}
<1>1. A \in SUBSET Numbers /\ B \in SUBSET Numbers /\ C \in SUBSET Numbers
      /\ C \subseteq A \cup B
  OBVIOUS
<1> HIDE DEF A, B, C
<1>2. /\ IsFiniteSet(A) /\ IsFiniteSet(B) /\ IsFiniteSet(A \cup B)
      /\ Cardinality(A) \in Nat /\ Cardinality(B) \in Nat /\ Cardinality(C) \in Nat
      /\ Cardinality(A \cup B) \in Nat
  BY <1>1, NumbersFinite
<1>3. Cardinality(C) <= Cardinality(A \cup B)
  BY <1>1, <1>2, FS_Subset
<1>4. Cardinality(A \cup B) = Cardinality(A) + Cardinality(B) - Cardinality(A \cap B)
  BY <1>2, FS_Union
<1>5. Cardinality(A \cap B) \in Nat
  <2>1. A \cap B \in SUBSET Numbers
    BY <1>1
  <2> QED
    BY <2>1, NumbersFinite
<1>6. Cardinality(C) <= Cardinality(A) + Cardinality(B)
  BY <1>2, <1>3, <1>4, <1>5
<1> QED
  BY <1>6 DEF Rank, A, B, C

-----------------------------------------------------------------------------
(* The merge of a frame with a message is exact.                           *)

\* The ring has at num and behind it the given entities, by their numbers.
Listed(ring, num, entities) ==
  \A n \in DOMAIN entities :
    ring[ParseSlot(num + Rank(DOMAIN entities, n))] = entities[n]

\* The message is about the frame the ring still holds, and there is room
\* behind the frame for what is new; the observer has the server's baselines.
Mergeable(g, old, from, to) ==
  /\ g \in ClientGameState /\ EntityMap(from) /\ EntityMap(to)
  /\ old.parseEntitiesNum \in Nat /\ old.numEntities = Cardinality(DOMAIN from)
  /\ Listed(g.parseEntities, old.parseEntitiesNum, from)
  /\ baselines \in MapBaselines
  /\ \A n \in Numbers : g.entityBaselines[n] = BaselineOf(n)
  /\ \A n \in DOMAIN to \ DOMAIN from : Telling(BaselineOf(n), to[n], n)
  /\ DOMAIN from # {} =>
       /\ old.parseEntitiesNum + Cardinality(DOMAIN from) <= g.parseEntitiesNum
       /\ g.parseEntitiesNum + Cardinality(DOMAIN to \ DOMAIN from)
            <= old.parseEntitiesNum + MAX_PARSE_ENTITIES

\* The room behind the frame is not quite used up.
Roomy(g, old, from, to) ==
  g.parseEntitiesNum + Cardinality(DOMAIN to \ DOMAIN from)
    < old.parseEntitiesNum + MAX_PARSE_ENTITIES

\* The merge is done up to the number next: what comes before it is written, as
\* far as the ring reaches, and the rest of the old frame is still there.
Merged(g, old, from, to, next, p) ==
  /\ p \in ParseType /\ next \in Nat
  /\ p.pending = {n \in DOMAIN EntityDeltas(from, to) : next <= n}
  /\ p.oldindex = Rank(DOMAIN from, next)
  /\ IsNext({n \in DOMAIN from : next <= n}, p.oldnum)
  /\ p.numEntities = Rank(DOMAIN to, next)
  /\ p.parseEntitiesNum = g.parseEntitiesNum + p.numEntities
  /\ \A n \in DOMAIN to :
       n < next /\ Rank(DOMAIN to, next) < Rank(DOMAIN to, n) + MAX_PARSE_ENTITIES =>
         p.parseEntities[ParseSlot(g.parseEntitiesNum + Rank(DOMAIN to, n))] = to[n]
  /\ \A n \in DOMAIN from : next <= n =>
       p.parseEntities[ParseSlot(old.parseEntitiesNum + Rank(DOMAIN from, n))] = from[n]

Finished(p) == p.oldnum = INVALID_NUM /\ p.pending = {}

\* The old frame goes on to its lowest number that is not merged yet.
LEMMA OldIsNext ==
  ASSUME NEW p, NEW old, NEW from, EntityMap(from), NEW next \in Nat,
         old.numEntities = Cardinality(DOMAIN from),
         \A n \in DOMAIN from : next <= n =>
           p.parseEntities[ParseSlot(old.parseEntitiesNum + Rank(DOMAIN from, n))] = from[n]
  PROVE  IsNext({n \in DOMAIN from : next <= n},
                OldNumber(p, old, Rank(DOMAIN from, next)))
<1> DEFINE D == DOMAIN from
           rest == {n \in D : next <= n}
           index == Rank(D, next)
<1>1. D \in SUBSET Numbers /\ rest \in SUBSET Numbers /\ \A n \in D : n \in Nat
  BY NumbersFinite DEF EntityMap
<1>2. index \in Nat /\ Cardinality(D) \in Nat
  BY <1>1, RankType, NumbersFinite
<1>3. CASE rest = {}
  <2>1. \A n \in D : n < next
    BY <1>1, <1>3
  <2>2. index = Cardinality(D)
    BY <1>1, <2>1, RankAll
  <2>3. OldNumber(p, old, index) = INVALID_NUM
    BY <1>2, <2>2 DEF OldNumber
  <2> QED
    BY <1>3, <2>3 DEF IsNext
<1>4. CASE rest # {}
  <2>1. rest \in SUBSET Nat
    BY <1>1
  <2>2. PICK k \in rest : \A n \in rest : k <= n
    BY <1>4, <2>1, HasFirst
  <2>3. k \in D /\ k \in Nat /\ next <= k
    BY <1>1, <2>2
  <2>4. \A n \in D : ~(next <= n /\ n < k)
    BY <1>1, <2>2, <2>3
  <2>5. index = Rank(D, k)
    BY <1>1, <2>3, <2>4, RankSame
  <2>6. index < old.numEntities
    <3>1. Rank(D, k) + 1 <= Rank(D, k + 1) /\ Rank(D, k + 1) <= Cardinality(D)
          /\ Rank(D, k + 1) \in Nat
      BY <1>1, <2>3, RankStrict, RankType
    <3> QED
      BY <1>2, <2>5, <3>1
  <2>7. OldNumber(p, old, index) = k
    <3>1. p.parseEntities[ParseSlot(old.parseEntitiesNum + index)].number = k
      BY <2>3, <2>5 DEF EntityMap
    <3>2. ~(index >= old.numEntities)
      BY <1>2, <2>6
    <3> QED
      BY <3>1, <3>2 DEF OldNumber
  <2> QED
    BY <2>2, <2>7 DEF IsNext
<1> QED
  BY <1>3, <1>4

\* The number that a turn is about: the first that is not merged yet.
TurnNumber(from, to, next, k) ==
  /\ k \in DOMAIN from \cup DOMAIN EntityDeltas(from, to) /\ k \in Nat /\ next <= k
  /\ \A m \in DOMAIN from \cup DOMAIN EntityDeltas(from, to) : ~(next <= m /\ m < k)

\* What becomes of the current entities when a turn is about the number k.
Told(p, r, old, from, to, k) ==
  /\ k \in DOMAIN to =>
       r.currentEntities = IF k \in DOMAIN EntityDeltas(from, to)
                           THEN onEntityUpdated(p.currentEntities, to[k])
                           ELSE p.currentEntities
  /\ /\ k \notin DOMAIN to
     /\ ParseSlot(old.parseEntitiesNum + p.oldindex) # ParseSlot(p.parseEntitiesNum)
     => r.currentEntities = onEntityRemoved(p.currentEntities, k)

LEMMA TurnWrites ==
  ASSUME NEW g, NEW old, NEW from, NEW to, Mergeable(g, old, from, to),
         NEW next, NEW p, Merged(g, old, from, to, next, p), ~Finished(p),
         NEW r, r = ParseTurn(p, old, EntityDeltas(from, to), g.entityBaselines)
  PROVE  /\ r \in ParseType
         /\ \E k, state :
              /\ TurnNumber(from, to, next, k)
              /\ Writes(p, r, state)
              /\ k \in DOMAIN to => state = to[k]
              /\ k \notin DOMAIN to => state.number = NoEntity
              /\ k \in DOMAIN from => Steps(p, r, old)
              /\ k \notin DOMAIN from => r.oldindex = p.oldindex /\ r.oldnum = p.oldnum
              /\ r.pending = p.pending \ {k}
              /\ Told(p, r, old, from, to, k)
<1> DEFINE deltas == EntityDeltas(from, to)
           D == DOMAIN from
           E == DOMAIN deltas
           bases == g.entityBaselines
           rest == {n \in D : next <= n}
<1>1. /\ EntityMap(from) /\ EntityMap(to) /\ baselines \in MapBaselines
      /\ old.parseEntitiesNum \in Nat /\ g \in ClientGameState
  BY DEF Mergeable
<1>2. ReadsEntities(deltas) /\ bases \in [0 .. NoEntity -> Entity]
  BY <1>1, DeltasRead DEF ClientGameState
<1>3. D \in SUBSET Numbers /\ E \in SUBSET Numbers /\ E \in SUBSET Nat /\ D \in SUBSET Nat
      /\ next \in Nat /\ p \in ParseType
  BY <1>1, <1>2, NumbersFinite DEF EntityMap, ReadsEntities, Merged
<1>4. E = {n \in D \cup DOMAIN to : n \in D \cap DOMAIN to => from[n] # to[n]}
  BY DEF EntityDeltas
<1>5. p.pending = {n \in E : next <= n} /\ IsNext(rest, p.oldnum)
  BY DEF Merged
<1> HIDE DEF E
<1>6. p.pending \subseteq E
  BY <1>5
<1>7. PICK newnum : IsNext(p.pending, newnum)
  <2>1. p.pending \in SUBSET Numbers
    BY <1>3, <1>6
  <2> QED
    BY <2>1, HasNext
<1>8. IsTurn(p, r, newnum, old, deltas, bases)
  BY <1>1, <1>2, <1>3, <1>6, <1>7, TurnParts DEF E
<1> HIDE DEF deltas, bases
<1>9. INVALID_NUM \in Nat
      /\ \A n \in D \cup E : n \in Nat /\ n < INVALID_NUM /\ n # NoEntity /\ n \in 0 .. NoEntity
  <2>1. D \cup E \subseteq Numbers
    BY <1>3
  <2> QED
    BY <2>1, NumberRange
<1>10. \/ p.oldnum = INVALID_NUM /\ rest = {}
       \/ p.oldnum \in D /\ next <= p.oldnum /\ \A m \in D : next <= m => p.oldnum <= m
  BY <1>5 DEF IsNext
<1>11. \/ newnum = INVALID_NUM /\ p.pending = {}
       \/ newnum \in E /\ next <= newnum /\ \A m \in E : next <= m => newnum <= m
  BY <1>5, <1>7 DEF IsNext
<1>12. ~(p.oldnum = INVALID_NUM /\ newnum = INVALID_NUM)
  BY <1>7, <1>9, <1>6 DEF Finished, IsNext
<1>13. p.oldnum \in Nat /\ newnum \in Nat /\ INVALID_NUM \in Nat
       /\ p.oldnum <= INVALID_NUM /\ newnum <= INVALID_NUM
  BY <1>9, <1>10, <1>11
<1>14. p.oldnum # INVALID_NUM => OldEntity(p, old) = from[p.oldnum]
  <2>1. SUFFICES ASSUME p.oldnum # INVALID_NUM PROVE OldEntity(p, old) = from[p.oldnum]
    OBVIOUS
  <2>2. p.oldnum \in D /\ next <= p.oldnum /\ \A m \in D : next <= m => p.oldnum <= m
    BY <1>10, <2>1
  <2>3. p.parseEntities[ParseSlot(old.parseEntitiesNum + Rank(D, p.oldnum))] = from[p.oldnum]
    BY <2>2 DEF Merged
  <2>4. Rank(D, next) = Rank(D, p.oldnum)
    <3>1. \A m \in D : ~(next <= m /\ m < p.oldnum)
      BY <1>3, <1>13, <2>2
    <3> QED
      BY <1>3, <1>13, <2>2, <3>1, RankSame
  <2>5. p.oldindex = Rank(D, next)
    BY DEF Merged
  <2> QED
    BY <2>3, <2>4, <2>5 DEF OldEntity
<1> DEFINE Done(k, state) ==
             /\ TurnNumber(from, to, next, k)
             /\ Writes(p, r, state)
             /\ k \in DOMAIN to => state = to[k]
             /\ k \notin DOMAIN to => state.number = NoEntity
             /\ k \in DOMAIN from => Steps(p, r, old)
             /\ k \notin DOMAIN from => r.oldindex = p.oldindex /\ r.oldnum = p.oldnum
             /\ r.pending = p.pending \ {k}
             /\ Told(p, r, old, from, to, k)
<1>15. CASE p.oldnum < newnum
  <2> DEFINE k == p.oldnum
  <2>1. k \in D /\ next <= k /\ k # INVALID_NUM
    BY <1>10, <1>13, <1>15
  <2>2. k \notin E /\ \A m \in D \cup E : ~(next <= m /\ m < k)
    <3>1. next \in Nat /\ k \in Nat
      BY <1>3, <1>13
    <3>2. \A m \in D : ~(next <= m /\ m < k)
      BY <1>9, <1>10, <2>1, <3>1
    <3>3. \A m \in E : next <= m => k < m
      BY <1>5, <1>9, <1>11, <1>13, <1>15
    <3> QED
      BY <1>9, <2>1, <3>1, <3>2, <3>3
  <2>3. k \in DOMAIN to /\ from[k] = to[k]
    BY <1>4, <2>1, <2>2
  <2>4. Writes(p, r, from[k]) /\ Steps(p, r, old) /\ r.pending = p.pending
    BY <1>8, <1>14, <1>15, <2>1 DEF IsTurn
  <2>5. TurnNumber(from, to, next, k)
    BY <1>13, <2>1, <2>2 DEF TurnNumber, E, deltas
  <2>6. r.pending = p.pending \ {k}
    BY <1>6, <2>2, <2>4
  <2>6a. Told(p, r, old, from, to, k)
    <3>1. from[k].number = k /\ k # NoEntity
      BY <1>1, <1>9, <2>1 DEF EntityMap
    <3>2. OldEntity(p, old).number # NoEntity => r.currentEntities = p.currentEntities
      BY <1>8, <1>15 DEF IsTurn
    <3>3. r.currentEntities = p.currentEntities
      BY <1>14, <2>1, <3>1, <3>2
    <3> QED
      BY <2>2, <2>3, <3>3 DEF Told, E, deltas
  <2>7. Done(k, from[k])
    BY <2>1, <2>3, <2>4, <2>5, <2>6, <2>6a
  <2> QED
    BY <1>8, <2>7 DEF IsTurn
<1>16. CASE p.oldnum = newnum
  <2> DEFINE k == newnum
             state == readDeltaEntity(from[k], deltas[k], k)
  <2>1. k # INVALID_NUM
    BY <1>12, <1>16
  <2>2. k \in D /\ k \in E /\ next <= k
    BY <1>10, <1>11, <1>16, <2>1
  <2>3. \A m \in D \cup E : ~(next <= m /\ m < k)
    BY <1>9, <1>10, <1>11, <1>13, <1>16, <2>1
  <2>4. Writes(p, r, state) /\ Steps(p, r, old) /\ r.pending = p.pending \ {k}
    BY <1>8, <1>14, <1>16, <2>1 DEF IsTurn
  <2>5. TurnNumber(from, to, next, k)
    BY <1>13, <2>2, <2>3 DEF TurnNumber, E, deltas
  <2>6. k \in DOMAIN to => state = to[k]
    <3>1. SUFFICES ASSUME k \in DOMAIN to PROVE state = to[k]
      OBVIOUS
    <3>2. from[k] \in Entity /\ to[k] \in Entity /\ from[k].number = k /\ k \in 0 .. NoEntity
      BY <1>1, <1>9, <2>2, <3>1 DEF EntityMap
    <3>3. deltas[k].remove = FALSE
          /\ deltas[k].fields = Changes([from[k] EXCEPT !.number = k], to[k])
      BY <2>2, <3>1, DeltasSay DEF E, deltas
    <3>4. Telling(from[k], to[k], k)
      BY <3>2 DEF Telling
    <3> QED
      BY <3>2, <3>3, <3>4, ReadDeltaExact
  <2>7. k \notin DOMAIN to => state.number = NoEntity
    <3>1. SUFFICES ASSUME k \notin DOMAIN to PROVE state.number = NoEntity
      OBVIOUS
    <3>2. deltas[k].remove = TRUE
      BY <2>2, <3>1, DeltasSay DEF E, deltas
    <3> QED
      BY <3>2 DEF readDeltaEntity, Blank
  <2> HIDE DEF state
  <2>7a. Told(p, r, old, from, to, k)
    <3>1. Shows(p, r, from[k], ParseSlot(old.parseEntitiesNum + p.oldindex), state)
      BY <1>8, <1>14, <1>16, <2>1 DEF IsTurn, state
    <3>2. from[k].number = k /\ (k \in DOMAIN to => to[k].number = k) /\ k # NoEntity
      BY <1>1, <1>9, <2>2 DEF EntityMap
    <3>3. k \in DOMAIN to => r.currentEntities = onEntityUpdated(p.currentEntities, to[k])
      BY <2>6, <3>1, <3>2 DEF Shows
    <3>4. /\ k \notin DOMAIN to
          /\ ParseSlot(old.parseEntitiesNum + p.oldindex) # ParseSlot(p.parseEntitiesNum)
          => r.currentEntities = onEntityRemoved(p.currentEntities, k)
      BY <2>7, <3>1, <3>2 DEF Shows
    <3> QED
      BY <2>2, <3>3, <3>4 DEF Told, E, deltas
  <2>8. Done(k, state)
    BY <2>2, <2>4, <2>5, <2>6, <2>7, <2>7a
  <2> QED
    BY <1>8, <2>8 DEF IsTurn
<1>17. CASE newnum < p.oldnum
  <2> DEFINE k == newnum
             state == readDeltaEntity(bases[k], deltas[k], k)
  <2>1. k # INVALID_NUM
    BY <1>13, <1>17
  <2>2. k \in E /\ next <= k /\ k \notin D
    BY <1>10, <1>11, <1>13, <1>17, <2>1
  <2>3. \A m \in D \cup E : ~(next <= m /\ m < k)
    BY <1>3, <1>9, <1>10, <1>11, <1>13, <1>17, <2>1
  <2>4. /\ Writes(p, r, state) /\ r.pending = p.pending \ {k}
        /\ r.oldindex = p.oldindex /\ r.oldnum = p.oldnum
    BY <1>8, <1>17 DEF IsTurn
  <2>5. TurnNumber(from, to, next, k)
    BY <1>13, <2>2, <2>3 DEF TurnNumber, E, deltas
  <2>6. k \in DOMAIN to
    BY <1>4, <2>2
  <2>7. state = to[k]
    <3>1. bases[k] = BaselineOf(k) /\ k \in Numbers
      BY <1>3, <2>2 DEF Mergeable, bases
    <3>2. Telling(BaselineOf(k), to[k], k)
      BY <2>2, <2>6 DEF Mergeable
    <3>3. deltas[k].remove = FALSE
          /\ deltas[k].fields = Changes([BaselineOf(k) EXCEPT !.number = k], to[k])
      BY <2>2, <2>6, DeltasSay DEF E, deltas
    <3>4. BaselineOf(k) \in Entity /\ to[k] \in Entity /\ k \in 0 .. NoEntity
      BY <1>1, <1>9, <2>2, <2>6, <3>1, BaselineType DEF EntityMap
    <3>5. readDeltaEntity(BaselineOf(k), deltas[k], k) = to[k]
      BY <3>2, <3>3, <3>4, ReadDeltaExact
    <3> QED
      BY <3>1, <3>5
  <2> HIDE DEF state
  <2>7a. Told(p, r, old, from, to, k)
    <3>1. Shows(p, r, bases[k], -1, state)
      BY <1>8, <1>17 DEF IsTurn, state
    <3>2. to[k].number = k /\ k # NoEntity
      BY <1>1, <1>9, <2>2, <2>6 DEF EntityMap
    <3>3. r.currentEntities = onEntityUpdated(p.currentEntities, to[k])
      BY <2>7, <3>1, <3>2 DEF Shows
    <3> QED
      BY <2>2, <2>6, <3>3 DEF Told, E, deltas
  <2>8. Done(k, state)
    BY <2>2, <2>4, <2>5, <2>6, <2>7, <2>7a
  <2> QED
    BY <1>8, <2>8 DEF IsTurn
<1> QED
  BY <1>13, <1>15, <1>16, <1>17

\* As far as the merge is done, the application was told of what differs.
ToldBefore(g, from, to, next, p) ==
  \A n \in Numbers :
    IF n < next /\ n \in DOMAIN EntityDeltas(from, to)
    THEN IF n \in DOMAIN to
         THEN p.currentEntities[n] = [valid |-> TRUE, state |-> to[n]]
         ELSE p.currentEntities[n].valid = FALSE
    ELSE p.currentEntities[n] = g.currentEntities[n]

\* An entity that is told of is the only one that changes.
LEMMA OneIsUpdated ==
  ASSUME NEW c \in CurrentEntities, NEW e \in Entity, NEW n \in 0 .. NoEntity
  PROVE  onEntityUpdated(c, e)[n]
           = IF n = e.number THEN [valid |-> TRUE, state |-> e] ELSE c[n]
BY EntityRecord DEF onEntityUpdated, CurrentEntities

LEMMA OneIsRemoved ==
  ASSUME NEW c \in CurrentEntities, NEW k \in 0 .. NoEntity, NEW n \in 0 .. NoEntity
  PROVE  /\ n # k => onEntityRemoved(c, k)[n] = c[n]
         /\ onEntityRemoved(c, k)[k].valid = FALSE
<1>1. DOMAIN c = 0 .. NoEntity /\ c[k] \in [valid : BOOLEAN, state : Entity]
  BY DEF CurrentEntities
<1>2. CASE c[k].valid
  <2> DEFINE gone == [c[k] EXCEPT !.valid = FALSE]
  <2>1. gone.valid = FALSE
    BY <1>1
  <2>2. onEntityRemoved(c, k) = [c EXCEPT ![k] = gone]
    BY <1>2 DEF onEntityRemoved
  <2> HIDE DEF gone
  <2> QED
    BY <1>1, <2>1, <2>2
<1>3. CASE ~c[k].valid
  <2>1. onEntityRemoved(c, k) = c
    BY <1>3 DEF onEntityRemoved
  <2>2. c[k].valid = FALSE
    BY <1>1, <1>3
  <2> QED
    BY <2>1, <2>2
<1> QED
  BY <1>2, <1>3

LEMMA TurnMerges ==
  ASSUME NEW g, NEW old, NEW from, NEW to, Mergeable(g, old, from, to),
         NEW next, NEW p, Merged(g, old, from, to, next, p), ~Finished(p),
         NEW r, r = ParseTurn(p, old, EntityDeltas(from, to), g.entityBaselines)
  PROVE  \E k : /\ TurnNumber(from, to, next, k) /\ Merged(g, old, from, to, k + 1, r)
                /\ Roomy(g, old, from, to) /\ ToldBefore(g, from, to, next, p) =>
                     ToldBefore(g, from, to, k + 1, r)
<1> DEFINE D == DOMAIN from
           T == DOMAIN to
           E == DOMAIN EntityDeltas(from, to)
           start == g.parseEntitiesNum
<1>1. PICK k, state :
        /\ TurnNumber(from, to, next, k)
        /\ Writes(p, r, state)
        /\ k \in T => state = to[k]
        /\ k \notin T => state.number = NoEntity
        /\ k \in D => Steps(p, r, old)
        /\ k \notin D => r.oldindex = p.oldindex /\ r.oldnum = p.oldnum
        /\ r.pending = p.pending \ {k}
        /\ Told(p, r, old, from, to, k)
  BY TurnWrites
<1>2. r \in ParseType
  BY TurnWrites
<1>3. /\ EntityMap(from) /\ EntityMap(to) /\ baselines \in MapBaselines
      /\ old.parseEntitiesNum \in Nat /\ old.numEntities = Cardinality(D)
      /\ start \in Nat
  BY DEF Mergeable, ClientGameState
<1>4. p \in ParseType /\ next \in Nat /\ p.numEntities = Rank(T, next)
      /\ p.parseEntitiesNum = start + Rank(T, next) /\ p.oldindex = Rank(D, next)
      /\ p.pending = {n \in E : next <= n} /\ IsNext({n \in D : next <= n}, p.oldnum)
  BY DEF Merged
<1>5. D \in SUBSET Numbers /\ T \in SUBSET Numbers /\ E \subseteq D \cup T
      /\ T \subseteq D \cup E
  BY <1>3 DEF EntityMap, EntityDeltas
<1>6. \A n \in D \cup T : n \in Nat /\ n # NoEntity
  BY <1>5, NumberRange
<1>7. k \in Nat /\ next <= k /\ k + 1 \in Nat /\ k \in D \cup E
      /\ \A m \in D \cup E : ~(next <= m /\ m < k)
  BY <1>1 DEF TurnNumber
<1> HIDE DEF E, D, T
<1>8. /\ Rank(D, next) = Rank(D, k) /\ Rank(T, next) = Rank(T, k)
      /\ Rank(D, k) \in Nat /\ Rank(T, k) \in Nat
  <2>1. (\A m \in D : ~(next <= m /\ m < k)) /\ \A m \in T : ~(next <= m /\ m < k)
    BY <1>5, <1>7
  <2>2. Rank(D, next) = Rank(D, k)
    BY <1>4, <1>5, <1>7, <2>1, RankSame
  <2>3. Rank(T, next) = Rank(T, k)
    BY <1>4, <1>5, <1>7, <2>1, RankSame
  <2> QED
    BY <1>5, <2>2, <2>3, RankType
<1>9. /\ Rank(D, k + 1) = (IF k \in D THEN Rank(D, k) + 1 ELSE Rank(D, k))
      /\ Rank(T, k + 1) = (IF k \in T THEN Rank(T, k) + 1 ELSE Rank(T, k))
  BY <1>5, <1>7, RankNext
<1>10. r.pending = {n \in E : k + 1 <= n}
  <2>1. ASSUME NEW n \in E PROVE (next <= n /\ n # k) <=> k + 1 <= n
    <3>1. n \in Nat /\ ~(next <= n /\ n < k)
      BY <1>5, <1>6, <1>7
    <3> QED
      BY <1>4, <1>7, <3>1
  <2> QED
    BY <1>1, <1>4, <2>1
<1>11. r.numEntities = Rank(T, k + 1) /\ r.parseEntitiesNum = start + Rank(T, k + 1)
  <2>1. CASE k \in T
    <3>1. state.number # NoEntity
      BY <1>1, <1>3, <1>6, <2>1 DEF EntityMap, T
    <3> QED
      BY <1>1, <1>3, <1>4, <1>8, <1>9, <2>1, <3>1 DEF Writes
  <2>2. CASE k \notin T
    BY <1>1, <1>4, <1>8, <1>9, <2>2 DEF Writes
  <2> QED
    BY <2>1, <2>2
<1>12. r.oldindex = Rank(D, k + 1)
  BY <1>1, <1>4, <1>8, <1>9 DEF Steps
<1> DEFINE slot == ParseSlot(start + Rank(T, k))
<1>13. r.parseEntities = [p.parseEntities EXCEPT ![slot] = state]
       /\ p.parseEntities \in Ring
  BY <1>1, <1>4, <1>8 DEF Writes, ParseType
<1>14. MAX_PARSE_ENTITIES \in Nat \ {0}
       /\ \A i \in Nat : ParseSlot(i) \in 0 .. MAX_PARSE_ENTITIES - 1
  BY SnapshotsAssumption, Constants
\* What is close to the slot written, but not the same, is as it was.
<1>15. ASSUME NEW a \in Nat, \/ a < start + Rank(T, k) /\ start + Rank(T, k) < a + MAX_PARSE_ENTITIES
       PROVE  r.parseEntities[ParseSlot(a)] = p.parseEntities[ParseSlot(a)]
  <2>1. start + Rank(T, k) \in Nat
    BY <1>3, <1>8
  <2>2. ParseSlot(a) # slot
    BY <1>14, <1>15, <2>1, ModNear DEF ParseSlot
  <2>3. ParseSlot(a) \in 0 .. MAX_PARSE_ENTITIES - 1
    BY <1>14
  <2> HIDE DEF slot
  <2> QED
    BY <1>13, <2>2, <2>3 DEF Ring
<1>16. ASSUME NEW n \in T, n < k + 1,
              Rank(T, k + 1) < Rank(T, n) + MAX_PARSE_ENTITIES
       PROVE  r.parseEntities[ParseSlot(start + Rank(T, n))] = to[n]
  <2>1. n \in Nat /\ ~(next <= n /\ n < k) /\ Rank(T, n) \in Nat
    BY <1>5, <1>6, <1>7, RankType
  <2>2. CASE n = k
    <3>1. start + Rank(T, k) \in Nat
      BY <1>3, <1>8
    <3>2. slot \in 0 .. MAX_PARSE_ENTITIES - 1
      BY <1>14, <3>1
    <3> HIDE DEF slot
    <3>3. r.parseEntities[slot] = to[k]
      BY <1>1, <1>13, <1>16, <2>2, <3>2 DEF Ring
    <3> QED
      BY <2>2, <3>3 DEF slot
  <2>3. CASE n # k
    <3>1. n < next
      BY <1>4, <1>7, <1>16, <2>1, <2>3
    <3>2. Rank(T, next) < Rank(T, n) + MAX_PARSE_ENTITIES
      BY <1>8, <1>9, <1>14, <1>16, <2>1
    <3>3. p.parseEntities[ParseSlot(start + Rank(T, n))] = to[n]
      BY <3>1, <3>2 DEF Merged, T
    <3>4. Rank(T, n) + 1 <= Rank(T, next)
      BY <1>4, <1>5, <3>1, RankStrict
    <3>5. start + Rank(T, n) \in Nat /\ start + Rank(T, n) < start + Rank(T, k)
          /\ start + Rank(T, k) < (start + Rank(T, n)) + MAX_PARSE_ENTITIES
      BY <1>3, <1>8, <1>14, <2>1, <3>2, <3>4
    <3> QED
      BY <1>15, <3>3, <3>5
  <2> QED
    BY <2>2, <2>3
<1>17. ASSUME NEW n \in D, k + 1 <= n
       PROVE  r.parseEntities[ParseSlot(old.parseEntitiesNum + Rank(D, n))] = from[n]
  <2>1. n \in Nat /\ Rank(D, n) \in Nat /\ next <= n /\ k < n
    BY <1>4, <1>5, <1>6, <1>7, <1>17, RankType
  <2>2. p.parseEntities[ParseSlot(old.parseEntitiesNum + Rank(D, n))] = from[n]
    BY <2>1 DEF Merged, D
  <2>3. /\ old.parseEntitiesNum + Cardinality(D) <= start
        /\ start + Cardinality(T \ D) <= old.parseEntitiesNum + MAX_PARSE_ENTITIES
    BY DEF Mergeable, D, T
  <2>4. Cardinality(D) \in Nat /\ Rank(D, n) + 1 <= Cardinality(D)
    <3>1. Rank(D, n) + 1 <= Rank(D, n + 1) /\ Rank(D, n + 1) \in Nat
      BY <1>5, <2>1, RankStrict, RankType
    <3> QED
      BY <1>5, <2>1, <3>1, RankType, NumbersFinite
  <2>4a. Cardinality(T \ D) \in Nat
    <3>1. T \ D \in SUBSET Numbers
      BY <1>5
    <3> QED
      BY <3>1, NumbersFinite
  <2>5. Rank(T, k) + 1 <= Rank(D, n) + Cardinality(T \ D)
    <3>1. Rank(D, k + 1) <= Rank(D, n) /\ Rank(D, k + 1) \in Nat
      BY <1>5, <1>7, <1>17, <2>1, RankMonotone, RankType
    <3>2. CASE k \in D
      <4>1. Rank(T, k) <= Rank(D, k) + Cardinality(T \ D)
        BY <1>5, <1>7, RankBound
      <4> QED
        BY <1>8, <1>9, <2>1, <2>4a, <3>1, <3>2, <4>1
    <3>3. CASE k \notin D
      <4>1. k \in T
        BY <1>5, <1>7, <3>3
      <4>2. Rank(T, k + 1) <= Rank(D, k + 1) + Cardinality(T \ D)
        BY <1>5, <1>7, RankBound
      <4> QED
        BY <1>8, <1>9, <2>1, <2>4a, <3>1, <3>3, <4>1, <4>2
    <3> QED
      BY <3>2, <3>3
  <2> DEFINE a == old.parseEntitiesNum + Rank(D, n)
  <2>6. a \in Nat /\ a < start + Rank(T, k) /\ start + Rank(T, k) < a + MAX_PARSE_ENTITIES
    BY <1>3, <1>8, <1>14, <2>1, <2>3, <2>4, <2>4a, <2>5
  <2> HIDE DEF a
  <2>7. r.parseEntities[ParseSlot(a)] = p.parseEntities[ParseSlot(a)]
    BY <1>15, <2>6
  <2> QED
    BY <2>2, <2>7 DEF a
<1>18. IsNext({n \in D : k + 1 <= n}, r.oldnum)
  <2>1. CASE k \in D
    <3>1. r.oldnum = OldNumber(r, old, Rank(D, k + 1))
      BY <1>1, <1>12, <2>1 DEF Steps
    <3>2. IsNext({n \in D : k + 1 <= n}, OldNumber(r, old, Rank(D, k + 1)))
      BY <1>3, <1>7, <1>17, OldIsNext DEF D
    <3> QED
      BY <3>1, <3>2
  <2>2. CASE k \notin D
    <3>1. ASSUME NEW n \in D PROVE next <= n <=> k + 1 <= n
      <4>1. n \in Nat /\ ~(next <= n /\ n < k) /\ n # k
        BY <1>6, <1>7, <2>2
      <4> QED
        BY <1>4, <1>7, <4>1
    <3>2. {n \in D : next <= n} = {n \in D : k + 1 <= n}
      BY <3>1
    <3> QED
      BY <1>1, <1>4, <2>2, <3>2
  <2> QED
    BY <2>1, <2>2
<1>19. Merged(g, old, from, to, k + 1, r)
  BY <1>2, <1>7, <1>10, <1>11, <1>12, <1>16, <1>17, <1>18 DEF Merged, D, E, T
\* The slot of an entity that is gone is not the one that is written for it.
<1>20. ASSUME Roomy(g, old, from, to), k \notin T
       PROVE  ParseSlot(old.parseEntitiesNum + p.oldindex) # ParseSlot(p.parseEntitiesNum)
  <2>1. k \in D
    BY <1>7, <1>20 DEF EntityDeltas, E, D, T
  <2>2. /\ old.parseEntitiesNum + Cardinality(D) <= start
        /\ start + Cardinality(T \ D) < old.parseEntitiesNum + MAX_PARSE_ENTITIES
    BY <1>20, <2>1 DEF Mergeable, Roomy, D, T
  <2>3. Cardinality(T \ D) \in Nat /\ Cardinality(D) \in Nat
    <3>1. T \ D \in SUBSET Numbers
      BY <1>5
    <3> QED
      BY <1>5, <3>1, NumbersFinite
  <2>4. Rank(T, k) <= Rank(D, k) + Cardinality(T \ D)
    BY <1>5, <1>7, RankBound
  <2>5. Rank(D, k) + 1 <= Cardinality(D)
    <3>1. Rank(D, k + 1) <= Cardinality(D) /\ Rank(D, k + 1) \in Nat
      BY <1>5, RankType
    <3> QED
      BY <1>8, <1>9, <2>1, <2>3, <3>1
  <2> DEFINE a == old.parseEntitiesNum + Rank(D, k)
             b == start + Rank(T, k)
  <2>6. a \in Nat /\ b \in Nat /\ a < b /\ b < a + MAX_PARSE_ENTITIES
    BY <1>3, <1>8, <1>14, <2>2, <2>3, <2>4, <2>5
  <2>7. a = old.parseEntitiesNum + p.oldindex /\ b = p.parseEntitiesNum
    BY <1>4, <1>8
  <2> HIDE DEF a, b
  <2>8. a % MAX_PARSE_ENTITIES # b % MAX_PARSE_ENTITIES
    BY <1>14, <2>6, ModNear
  <2> QED
    BY <2>7, <2>8 DEF ParseSlot
<1>21. ASSUME Roomy(g, old, from, to), ToldBefore(g, from, to, next, p)
       PROVE  ToldBefore(g, from, to, k + 1, r)
  <2>1. p.currentEntities \in CurrentEntities /\ k \in Numbers /\ k \in 0 .. NoEntity
    BY <1>4, <1>5, <1>7, NumberRange DEF ParseType
  <2>2. ASSUME NEW n \in Numbers, n # k
        PROVE  /\ r.currentEntities[n] = p.currentEntities[n]
               /\ (n < next /\ n \in E) <=> (n < k + 1 /\ n \in E)
    <3>1. n \in 0 .. NoEntity /\ n \in Nat
      BY NumberRange
    <3>2. (n < next /\ n \in E) <=> (n < k + 1 /\ n \in E)
      BY <1>4, <1>7, <2>2, <3>1
    <3>3. CASE k \in T
      <4>1. to[k] \in Entity /\ to[k].number = k
        BY <1>3, <3>3 DEF EntityMap, T
      <4>2. \/ r.currentEntities = p.currentEntities
            \/ r.currentEntities = onEntityUpdated(p.currentEntities, to[k])
        BY <1>1, <3>3 DEF Told, T
      <4>3. onEntityUpdated(p.currentEntities, to[k])[n] = p.currentEntities[n]
        BY <2>1, <2>2, <3>1, <4>1, OneIsUpdated
      <4> QED
        BY <3>2, <4>2, <4>3, Zenon
    <3>4. CASE k \notin T
      <4>1. r.currentEntities = onEntityRemoved(p.currentEntities, k)
        BY <1>1, <1>20, <1>21, <3>4 DEF Told, T
      <4> QED
        BY <2>1, <2>2, <3>1, <3>2, <4>1, OneIsRemoved
    <3> QED
      BY <3>3, <3>4
  <2>3. IF k \in E
        THEN IF k \in T THEN r.currentEntities[k] = [valid |-> TRUE, state |-> to[k]]
                        ELSE r.currentEntities[k].valid = FALSE
        ELSE r.currentEntities[k] = g.currentEntities[k]
    <3>1. CASE k \in T /\ k \in E
      <4>1. to[k] \in Entity /\ to[k].number = k
        BY <1>3, <3>1 DEF EntityMap, T
      <4>2. r.currentEntities = onEntityUpdated(p.currentEntities, to[k])
        BY <1>1, <3>1 DEF Told, T, E
      <4> QED
        BY <2>1, <3>1, <4>1, <4>2, OneIsUpdated
    <3>2. CASE k \in T /\ k \notin E
      <4>1. r.currentEntities = p.currentEntities
        BY <1>1, <3>2 DEF Told, T, E
      <4>2. p.currentEntities[k] = g.currentEntities[k]
        BY <1>21, <2>1, <3>2 DEF ToldBefore, E
      <4> QED
        BY <3>2, <4>1, <4>2
    <3>3. CASE k \notin T
      <4>1. k \in E
        BY <1>7, <3>3 DEF EntityDeltas, E, D, T
      <4>2. r.currentEntities = onEntityRemoved(p.currentEntities, k)
        BY <1>1, <1>20, <1>21, <3>3 DEF Told, T
      <4>3. onEntityRemoved(p.currentEntities, k)[k].valid = FALSE
        BY <2>1, OneIsRemoved
      <4> QED
        BY <3>3, <4>1, <4>2, <4>3
    <3> QED
      BY <3>1, <3>2, <3>3
  <2>4. ASSUME NEW n \in Numbers
        PROVE  IF n < k + 1 /\ n \in E
               THEN IF n \in T
                    THEN r.currentEntities[n] = [valid |-> TRUE, state |-> to[n]]
                    ELSE r.currentEntities[n].valid = FALSE
               ELSE r.currentEntities[n] = g.currentEntities[n]
    <3>1. CASE n = k
      <4>1. k < k + 1
        BY <1>7
      <4> QED
        BY <2>3, <3>1, <4>1
    <3>2. CASE n # k
      <4>1. IF n < next /\ n \in E
            THEN IF n \in T
                 THEN p.currentEntities[n] = [valid |-> TRUE, state |-> to[n]]
                 ELSE p.currentEntities[n].valid = FALSE
            ELSE p.currentEntities[n] = g.currentEntities[n]
        BY <1>21 DEF ToldBefore, E, T
      <4> QED
        BY <2>2, <3>2, <4>1
    <3> QED
      BY <3>1, <3>2
  <2> QED
    BY <2>4 DEF ToldBefore, E, T
<1> QED
  BY <1>1, <1>19, <1>21

LEMMA FinishedStays ==
  ASSUME NEW g, NEW old, NEW from, NEW to, Mergeable(g, old, from, to),
         NEW next, NEW p, Merged(g, old, from, to, next, p), Finished(p)
  PROVE  ParseTurn(p, old, EntityDeltas(from, to), g.entityBaselines) = p
<1>1. /\ EntityMap(from) /\ EntityMap(to) /\ baselines \in MapBaselines
      /\ old.parseEntitiesNum \in Nat /\ g.entityBaselines \in [0 .. NoEntity -> Entity]
  BY DEF Mergeable, ClientGameState
<1>2. ReadsEntities(EntityDeltas(from, to))
  BY <1>1, DeltasRead
<1>3. p \in ParseType /\ p.pending = {} /\ p.oldnum = INVALID_NUM
  BY DEF Merged, Finished
<1>4. IsNext(p.pending, INVALID_NUM) /\ p.pending \subseteq DOMAIN EntityDeltas(from, to)
  BY <1>3 DEF IsNext
<1>5. IsTurn(p, ParseTurn(p, old, EntityDeltas(from, to), g.entityBaselines), INVALID_NUM,
             old, EntityDeltas(from, to), g.entityBaselines)
  BY <1>1, <1>2, <1>3, <1>4, TurnParts
<1> QED
  BY <1>3, <1>5 DEF IsTurn

LEMMA NobodyIsTold ==
  ASSUME NEW g, NEW old, NEW from, NEW to
  PROVE  ToldBefore(g, from, to, 0, ParseStart(g, old, EntityDeltas(from, to)))
<1>1. \A n \in Numbers : ~(n < 0)
  BY NumberRange
<1>2. ParseStart(g, old, EntityDeltas(from, to)).currentEntities = g.currentEntities
  BY DEF ParseStart
<1> QED
  BY <1>1, <1>2 DEF ToldBefore

LEMMA MergeStarts ==
  ASSUME NEW g, NEW old, NEW from, NEW to, Mergeable(g, old, from, to)
  PROVE  Merged(g, old, from, to, 0, ParseStart(g, old, EntityDeltas(from, to)))
<1> DEFINE D == DOMAIN from
           T == DOMAIN to
           E == DOMAIN EntityDeltas(from, to)
           p == ParseStart(g, old, EntityDeltas(from, to))
<1>1. /\ EntityMap(from) /\ EntityMap(to) /\ baselines \in MapBaselines
      /\ old.parseEntitiesNum \in Nat /\ old.numEntities = Cardinality(D)
      /\ g \in ClientGameState /\ Listed(g.parseEntities, old.parseEntitiesNum, from)
  BY DEF Mergeable
<1>2. D \in SUBSET Numbers /\ T \in SUBSET Numbers /\ E \in SUBSET Numbers
  BY <1>1 DEF EntityMap, EntityDeltas
<1>3. (\A n \in D : 0 <= n) /\ (\A n \in T : ~(n < 0)) /\ \A n \in E : 0 <= n
  BY <1>2, NumberRange
<1>4. Rank(D, 0) = 0 /\ Rank(T, 0) = 0
  BY <1>2, RankZero
<1>5. IsNext({n \in D : 0 <= n}, OldNumber(g, old, 0))
  <2>1. \A n \in D : g.parseEntities[ParseSlot(old.parseEntitiesNum + Rank(D, n))] = from[n]
    BY <1>1 DEF Listed
  <2> QED
    BY <1>1, <1>4, <2>1, OldIsNext
<1>6. OldNumber(g, old, 0) \in 0 .. INVALID_NUM
  <2>1. D \subseteq 0 .. INVALID_NUM
    BY <1>2, NumberRange, InvalidIsLarger
  <2> QED
    BY <1>5, <2>1, InvalidIsLarger DEF IsNext
<1>7. /\ p.parseEntities = g.parseEntities /\ p.parseEntitiesNum = g.parseEntitiesNum
      /\ p.currentEntities = g.currentEntities /\ p.numEntities = 0 /\ p.oldindex = 0
      /\ p.oldnum = OldNumber(g, old, 0) /\ p.pending = E
  BY DEF ParseStart
<1>8. p \in ParseType
  BY <1>1, <1>2, <1>6 DEF ParseStart, ParseType, ClientGameState, Ring, CurrentEntities
<1> HIDE DEF p, D, T, E
<1>9. p.pending = {n \in E : 0 <= n}
  BY <1>3, <1>7
<1>10. p.parseEntitiesNum = g.parseEntitiesNum + p.numEntities
  BY <1>1, <1>7 DEF ClientGameState
<1>11. \A n \in D : p.parseEntities[ParseSlot(old.parseEntitiesNum + Rank(D, n))] = from[n]
  BY <1>1, <1>7 DEF Listed, D
<1> QED
  BY <1>3, <1>4, <1>5, <1>7, <1>8, <1>9, <1>10, <1>11 DEF Merged, D, T, E, p

\* Once it has turned often enough the parse is finished, and then all of the
\* new world is listed.
LEMMA MergeExact ==
  ASSUME NEW g, NEW old, NEW from, NEW to, Mergeable(g, old, from, to),
         NEW q, q = parsePacketEntities(g, old, EntityDeltas(from, to))
  PROVE  /\ q.numEntities = Cardinality(DOMAIN to)
         /\ Cardinality(DOMAIN to) < MAX_PARSE_ENTITIES =>
              Listed(q.parseEntities, g.parseEntitiesNum, to)
         /\ Roomy(g, old, from, to) => ToldBefore(g, from, to, NoEntity, q)
<1> DEFINE D == DOMAIN from
           T == DOMAIN to
           deltas == EntityDeltas(from, to)
           E == DOMAIN deltas
           U == D \cup E
           turns == Cardinality(E) + old.numEntities
<1>1. EntityMap(from) /\ EntityMap(to) /\ old.numEntities = Cardinality(D)
  BY DEF Mergeable
<1>2. D \in SUBSET Numbers /\ T \in SUBSET Numbers /\ E \in SUBSET Numbers
      /\ T \subseteq D \cup E /\ U \in SUBSET Numbers
  BY <1>1 DEF EntityMap, EntityDeltas
<1>3. /\ Cardinality(D) \in Nat /\ Cardinality(E) \in Nat /\ Cardinality(U) \in Nat
      /\ IsFiniteSet(D) /\ IsFiniteSet(E)
  BY <1>2, NumbersFinite
<1>4. turns \in Nat /\ Cardinality(U) <= turns
  <2>1. Cardinality(U) = Cardinality(D) + Cardinality(E) - Cardinality(D \cap E)
    BY <1>3, FS_Union
  <2>2. D \cap E \in SUBSET Numbers
    BY <1>2
  <2>3. Cardinality(D \cap E) \in Nat
    BY <2>2, NumbersFinite
  <2> QED
    BY <1>1, <1>3, <2>1, <2>3
<1>5. PICK f : /\ f[0] = ParseStart(g, old, deltas)
               /\ \A i \in 1 .. turns : f[i] = ParseTurn(f[i - 1], old, deltas, g.entityBaselines)
               /\ q = f[turns]
  BY <1>4, ParseRuns
<1> HIDE DEF turns, U
<1> DEFINE Good(i) ==
             \E next \in Nat : /\ Merged(g, old, from, to, next, f[i])
                               /\ Finished(f[i]) \/ i <= Rank(U, next)
                               /\ Roomy(g, old, from, to) => ToldBefore(g, from, to, next, f[i])
           S == {i \in Nat : i <= turns => Good(i)}
<1>6. 0 \in S
  <2>1. Merged(g, old, from, to, 0, f[0])
    BY <1>5, MergeStarts
  <2>2. 0 <= Rank(U, 0)
    BY <1>2, RankZero
  <2>3. ToldBefore(g, from, to, 0, f[0])
    BY <1>5, NobodyIsTold
  <2> QED
    BY <2>1, <2>2, <2>3
<1>7. ASSUME NEW i \in S PROVE i + 1 \in S
  <2> HIDE DEF Good
  <2>1. SUFFICES ASSUME i + 1 <= turns PROVE Good(i + 1)
    OBVIOUS
  <2>2. i <= turns /\ i + 1 \in 1 .. turns /\ (i + 1) - 1 = i
    BY <1>4, <2>1
  <2>3. f[i + 1] = ParseTurn(f[i], old, deltas, g.entityBaselines)
    BY <1>5, <2>2
  <2>4. Good(i)
    BY <2>2
  <2>5. PICK next \in Nat : /\ Merged(g, old, from, to, next, f[i])
                            /\ Finished(f[i]) \/ i <= Rank(U, next)
                            /\ Roomy(g, old, from, to) => ToldBefore(g, from, to, next, f[i])
    BY <2>4 DEF Good
  <2>6. CASE Finished(f[i])
    <3>1. f[i + 1] = f[i]
      BY <2>3, <2>5, <2>6, FinishedStays
    <3> QED
      BY <2>5, <2>6, <3>1 DEF Good
  <2>7. CASE ~Finished(f[i])
    <3>1. PICK k :
            /\ TurnNumber(from, to, next, k) /\ Merged(g, old, from, to, k + 1, f[i + 1])
            /\ Roomy(g, old, from, to) /\ ToldBefore(g, from, to, next, f[i]) =>
                 ToldBefore(g, from, to, k + 1, f[i + 1])
      BY <2>3, <2>5, <2>7, TurnMerges
    <3>2. k \in U /\ k \in Nat /\ next <= k /\ k + 1 \in Nat
      BY <3>1 DEF TurnNumber, U
    <3>3. Rank(U, next) <= Rank(U, k) /\ Rank(U, k + 1) = Rank(U, k) + 1
          /\ Rank(U, next) \in Nat /\ Rank(U, k) \in Nat
      BY <1>2, <3>2, RankMonotone, RankNext, RankType
    <3>4. i + 1 <= Rank(U, k + 1)
      BY <2>5, <2>7, <3>3
    <3> QED
      BY <2>5, <3>1, <3>2, <3>4 DEF Good
  <2> QED
    BY <2>6, <2>7
<1>8. S = Nat
  <2>1. S \in SUBSET Nat
    OBVIOUS
  <2> HIDE DEF S
  <2> QED
    BY <1>6, <1>7, <2>1, SetInduction
<1>9. PICK next \in Nat : /\ Merged(g, old, from, to, next, q)
                          /\ Finished(q) \/ turns <= Rank(U, next)
                          /\ Roomy(g, old, from, to) => ToldBefore(g, from, to, next, q)
  BY <1>4, <1>5, <1>8
<1>10. (\A n \in U : n < next) /\ \A n \in T : n < next
  <2>1. \A n \in U : n < next
    <3>1. CASE Finished(q)
      <4>1. IsNext({n \in D : next <= n}, q.oldnum) /\ q.oldnum = INVALID_NUM
            /\ q.pending = {} /\ q.pending = {n \in E : next <= n}
        BY <1>9, <3>1 DEF Merged, Finished
      <4>2. \A n \in U : n \in Nat /\ n # INVALID_NUM
        BY <1>2, NumberRange
      <4>3. {n \in D : next <= n} = {}
        BY <4>1, <4>2 DEF IsNext, U
      <4>4. \A n \in U : ~(next <= n)
        BY <4>1, <4>3 DEF U
      <4> QED
        BY <4>2, <4>4
    <3>2. CASE turns <= Rank(U, next)
      <4>1. Rank(U, next) >= Cardinality(U)
        BY <1>2, <1>3, <1>4, <3>2, RankType
      <4> QED
        BY <1>2, <4>1, RankFull
    <3> QED
      BY <1>9, <3>1, <3>2
  <2> QED
    BY <1>2, <2>1 DEF U
<1>11. Rank(T, next) = Cardinality(T)
  BY <1>2, <1>10, RankAll
<1>12. q.numEntities = Cardinality(T)
  BY <1>9, <1>11 DEF Merged
<1>13. ASSUME Cardinality(T) < MAX_PARSE_ENTITIES, NEW n \in T
       PROVE  q.parseEntities[ParseSlot(g.parseEntitiesNum + Rank(T, n))] = to[n]
  <2>1. n < next /\ Rank(T, n) \in Nat /\ Cardinality(T) \in Nat /\ MAX_PARSE_ENTITIES \in Nat
    BY <1>2, <1>10, RankType, NumbersFinite, Constants
  <2>2. Rank(T, next) < Rank(T, n) + MAX_PARSE_ENTITIES
    BY <1>11, <1>13, <2>1
  <2> QED
    BY <1>9, <2>1, <2>2 DEF Merged
<1>14. ASSUME Roomy(g, old, from, to) PROVE ToldBefore(g, from, to, NoEntity, q)
  <2>1. ToldBefore(g, from, to, next, q)
    BY <1>9, <1>14
  <2>2. \A n \in Numbers : n \in E => n < next /\ n < NoEntity
    BY <1>10, NumberRange DEF U
  <2> QED
    BY <2>1, <2>2 DEF ToldBefore
<1> QED
  BY <1>12, <1>13, <1>14 DEF Listed

-----------------------------------------------------------------------------
(* What a snapshot does to the game state.                                 *)

PlayerState == [number : Numbers]

LEMMA PlayerStateDelta ==
  ASSUME NEW a \in PlayerState, NEW b \in PlayerState, NEW c \in PlayerState
  PROVE  /\ ApplyFields(a, Changes(b, c)) \in PlayerState
         /\ ApplyFields(a, Changes(a, c)) = c
<1> DEFINE Applied(e) == ApplyFields(a, Changes(e, c))
<1>1. \A e \in PlayerState : DOMAIN e = {"number"} /\ e["number"] \in Numbers
  BY DEF PlayerState
<1>2. ASSUME NEW e \in PlayerState
      PROVE  /\ Applied(e) = [f \in {"number"} |-> Applied(e)[f]]
             /\ Applied(e)["number"] \in {a["number"], c["number"]}
             /\ e = a => Applied(e)["number"] = c["number"]
  BY <1>1 DEF ApplyFields, Changes
<1> HIDE DEF Applied
<1>3. ASSUME NEW e \in PlayerState
      PROVE  Applied(e) = [number |-> Applied(e)["number"]]
  BY <1>2
<1>4. Applied(b) \in PlayerState
  BY <1>1, <1>2, <1>3 DEF PlayerState
<1>5. Applied(a) = c
  BY <1>1, <1>2, <1>3 DEF PlayerState
<1> QED
  BY <1>4, <1>5 DEF Applied

LEMMA NoFrameIsFrame ==
  NoFrame \in Frame
<1>1. 0 \in Numbers /\ 0 \in 0 .. MaxMessages
  BY SnapshotsAssumption DEF Numbers, NoEntity
<1> QED
  BY <1>1 DEF NoFrame, Frame

LEMMA Slots ==
  /\ PACKET_BACKUP \in Nat \ {0}
  /\ \A n \in Nat : SnapshotSlot(n) \in 0 .. PACKET_BACKUP - 1
<1>1. PACKET_BACKUP \in Nat \ {0}
  BY SnapshotsAssumption
<1> QED
  BY <1>1 DEF SnapshotSlot

\* The frame that a message is the difference from.
OldFrame(g, base) == IF base <= 0 THEN NoFrame ELSE g.snapshots[SnapshotSlot(base)]

\* Is the snapshot of the message used?
Usable(g, m) == m.base <= 0 \/ CanDeltaFrom(g, OldFrame(g, m.base), m.base)

Parsed(g, m) == parsePacketEntities(g, OldFrame(g, m.base), m.entities)

NewFrame(g, m) ==
  [valid |-> TRUE, messageNum |-> m.number,
   ps |-> ApplyFields(OldFrame(g, m.base).ps, m.ps),
   parseEntitiesNum |-> g.parseEntitiesNum, numEntities |-> Parsed(g, m).numEntities]

Invalid(frame) == [frame EXCEPT !.valid = FALSE]

LEMMA InvalidParts ==
  ASSUME NEW frame \in Frame
  PROVE  Invalid(frame) \in Frame /\ Invalid(frame).valid = FALSE
BY DEF Frame, Invalid

\* The snapshots between the last one and this one.
Skipped(g, n) ==
  LET next  == g.curSnap.messageNum + 1
      first == IF n - next >= PACKET_BACKUP THEN n - (PACKET_BACKUP - 1) ELSE next
  IN first .. n - 1

LEMMA InvalidateParts ==
  ASSUME NEW g \in ClientGameState, NEW n, NEW i \in 0 .. PACKET_BACKUP - 1
  PROVE  /\ InvalidateSkipped(g, n) \in [0 .. PACKET_BACKUP - 1 -> Frame]
         /\ \/ InvalidateSkipped(g, n)[i] = g.snapshots[i]
            \/ InvalidateSkipped(g, n)[i] = Invalid(g.snapshots[i])
         /\ (\A k \in Skipped(g, n) : SnapshotSlot(k) # i) =>
              InvalidateSkipped(g, n)[i] = g.snapshots[i]
<1> DEFINE slots == {SnapshotSlot(k) : k \in Skipped(g, n)}
<1>1. g.snapshots \in [0 .. PACKET_BACKUP - 1 -> Frame]
  BY DEF ClientGameState
<1>2. InvalidateSkipped(g, n)
        = [j \in 0 .. PACKET_BACKUP - 1 |->
             IF j \in slots THEN Invalid(g.snapshots[j]) ELSE g.snapshots[j]]
  BY <1>1 DEF InvalidateSkipped, Skipped, Invalid
<1>3. \A j \in 0 .. PACKET_BACKUP - 1 :
        g.snapshots[j] \in Frame /\ Invalid(g.snapshots[j]) \in Frame
  BY <1>1, InvalidParts
<1> QED
  BY <1>2, <1>3

\* The player watched is shown like an entity.
CurrentAfter(g, m) ==
  onEntityUpdated(Parsed(g, m).currentEntities,
                  PlayerEntity(ApplyFields(OldFrame(g, m.base).ps, m.ps).number))

LEMMA SnapshotParts ==
  ASSUME NEW g \in ClientGameState, NEW m, m.number \in 0 .. MaxMessages, m.base \in Nat,
         ReadsEntities(m.entities), ApplyFields(OldFrame(g, m.base).ps, m.ps) \in PlayerState,
         NEW r, r = parseSnapshot(g, m)
  PROVE  /\ r \in ClientGameState
         /\ Keeps(g, m.entities, Parsed(g, m)) /\ NewFrame(g, m) \in Frame
         /\ r.entityBaselines = g.entityBaselines
         /\ r.parseEntities = Parsed(g, m).parseEntities
         /\ r.parseEntitiesNum = Parsed(g, m).parseEntitiesNum
         /\ r.currentEntities = CurrentAfter(g, m)
         /\ IF Usable(g, m)
            THEN /\ r.curSnap = NewFrame(g, m)
                 /\ r.snapshots = [InvalidateSkipped(g, m.number) EXCEPT
                                     ![SnapshotSlot(m.number)] = NewFrame(g, m)]
            ELSE r.curSnap = g.curSnap /\ r.snapshots = g.snapshots
<1> DEFINE old    == OldFrame(g, m.base)
           valid  == Usable(g, m)
           ps     == ApplyFields(old.ps, m.ps)
           q      == Parsed(g, m)
           frame  == [valid |-> valid, messageNum |-> m.number, ps |-> ps,
                      parseEntitiesNum |-> g.parseEntitiesNum,
                      numEntities |-> q.numEntities]
           current == onEntityUpdated(q.currentEntities, PlayerEntity(ps.number))
           after  == [g EXCEPT !.parseEntities = q.parseEntities,
                               !.parseEntitiesNum = q.parseEntitiesNum,
                               !.currentEntities = current]
           slots == [InvalidateSkipped(g, m.number) EXCEPT ![SnapshotSlot(m.number)] = frame]
<1>1. old \in Frame
  <2>1. m.base \in Nat /\ SnapshotSlot(m.base) \in 0 .. PACKET_BACKUP - 1
    BY Slots
  <2>2. g.snapshots[SnapshotSlot(m.base)] \in Frame
    BY <2>1 DEF ClientGameState
  <2> QED
    BY <2>2, NoFrameIsFrame DEF OldFrame
<1>2. old.parseEntitiesNum \in Nat /\ old.numEntities \in Nat
  BY <1>1 DEF Frame
<1>3. Keeps(g, m.entities, q)
  BY <1>2, ParseKeeps DEF Parsed
<1>4. /\ q.parseEntities \in Ring /\ q.parseEntitiesNum \in Nat
      /\ q.currentEntities \in CurrentEntities /\ q.numEntities \in Nat
  BY <1>3 DEF Keeps, ParseType
<1>5. current \in CurrentEntities
  <2>1. ps.number \in 0 .. NoEntity
    BY NumberRange DEF PlayerState
  <2>2. PlayerEntity(ps.number) \in Entity
    BY <2>1 DEF PlayerEntity, Entity
  <2> QED
    BY <1>4, <2>2, UpdatedType
<1>6. r = IF ~valid THEN after ELSE [after EXCEPT !.curSnap = frame, !.snapshots = slots]
  BY DEF parseSnapshot, OldFrame, Usable, Parsed
<1>7. valid => frame = NewFrame(g, m)
  BY DEF NewFrame, Usable, CanDeltaFrom
<1>8. NewFrame(g, m) \in Frame
  <2>1. g.parseEntitiesNum \in Nat
    BY DEF ClientGameState
  <2> QED
    BY <1>4, <2>1 DEF NewFrame, Frame, PlayerState
<1> HIDE DEF q, current, ps, old
<1>9. /\ after \in ClientGameState /\ after.entityBaselines = g.entityBaselines
      /\ after.parseEntities = q.parseEntities /\ after.parseEntitiesNum = q.parseEntitiesNum
      /\ after.curSnap = g.curSnap /\ after.snapshots = g.snapshots
      /\ after.currentEntities = current
  BY <1>4, <1>5 DEF ClientGameState, Ring, CurrentEntities
<1>9a. after.currentEntities = CurrentAfter(g, m)
  BY <1>9 DEF CurrentAfter, current, q, ps, old
<1> HIDE DEF after, frame, slots
<1>10. CASE ~valid
  BY <1>3, <1>6, <1>8, <1>9, <1>9a, <1>10 DEF q
<1>11. CASE valid
  <2>1. SnapshotSlot(m.number) \in 0 .. PACKET_BACKUP - 1
    BY Slots
  <2>2. InvalidateSkipped(g, m.number) \in [0 .. PACKET_BACKUP - 1 -> Frame]
    BY <2>1, InvalidateParts
  <2>3. slots \in [0 .. PACKET_BACKUP - 1 -> Frame]
        /\ slots = [InvalidateSkipped(g, m.number) EXCEPT
                      ![SnapshotSlot(m.number)] = NewFrame(g, m)]
    BY <1>7, <1>8, <1>11, <2>1, <2>2 DEF slots
  <2>4. r = [after EXCEPT !.curSnap = NewFrame(g, m), !.snapshots = slots]
    BY <1>6, <1>7, <1>11
  <2>5. /\ r \in ClientGameState /\ r.entityBaselines = after.entityBaselines
        /\ r.parseEntities = after.parseEntities
        /\ r.parseEntitiesNum = after.parseEntitiesNum
        /\ r.curSnap = NewFrame(g, m) /\ r.snapshots = slots
        /\ r.currentEntities = after.currentEntities
    BY <1>8, <1>9, <2>3, <2>4 DEF ClientGameState
  <2> QED
    BY <1>3, <1>8, <1>9, <1>9a, <1>11, <2>3, <2>5 DEF q
<1> QED
  BY <1>10, <1>11

-----------------------------------------------------------------------------
(* Types, and the bases that are kept.                                     *)

LEMMA NextWorldsType ==
  ASSUME world \in World, NEW w \in NextWorlds
  PROVE  w \in World
<1>1. /\ world.ps \in [number : Numbers] /\ EntityMap(world.entities)
      /\ world.ps.number \in Numbers /\ world.ps.number \notin DOMAIN world.entities
      /\ \A n \in DOMAIN world.entities : world.entities[n] \in EntitiesNumbered(n)
      /\ world = [ps |-> world.ps, entities |-> world.entities]
  BY WorldParts DEF World
<1> DEFINE e == world.entities
\* A record with a player and entities that go together is a world.
<1>2. ASSUME NEW player \in Numbers, NEW es, DOMAIN es \subseteq Numbers \ {player},
             es = [n \in DOMAIN es |-> es[n]],
             \A n \in DOMAIN es : es[n] \in EntitiesNumbered(n)
      PROVE  [ps |-> [number |-> player], entities |-> es] \in World
  <2>1. es \in [DOMAIN es -> Entity] /\ DOMAIN es \in SUBSET Numbers
    BY <1>2 DEF EntitiesNumbered
  <2>2. es \in UNION {[S -> Entity] : S \in SUBSET Numbers}
    BY <2>1
  <2> QED
    BY <1>2, <2>2 DEF World
<1>3. world.ps = [number |-> world.ps.number]
  BY <1>1
<1>4. CASE w = world
  BY <1>4
<1>5. ASSUME NEW n \in DOMAIN e, w = [world EXCEPT !.entities = Without(@, n)] PROVE w \in World
  <2>1. w = [ps |-> [number |-> world.ps.number], entities |-> Without(e, n)]
    BY <1>1, <1>3, <1>5
  <2>2. /\ DOMAIN Without(e, n) = DOMAIN e \ {n}
        /\ \A k \in DOMAIN Without(e, n) : Without(e, n)[k] = e[k]
        /\ Without(e, n) = [k \in DOMAIN Without(e, n) |-> Without(e, n)[k]]
    BY DEF Without
  <2> QED
    BY <1>1, <1>2, <2>1, <2>2 DEF EntityMap
<1>6. ASSUME NEW n \in Numbers \ {world.ps.number}, NEW x \in EntitiesNumbered(n),
             w = [world EXCEPT !.entities = With(@, x)]
      PROVE  w \in World
  <2>1. w = [ps |-> [number |-> world.ps.number], entities |-> With(e, x)]
    BY <1>1, <1>3, <1>6
  <2>2. x.number = n
    BY <1>6 DEF EntitiesNumbered
  <2>3. /\ DOMAIN With(e, x) = DOMAIN e \cup {n}
        /\ \A k \in DOMAIN With(e, x) : With(e, x)[k] = IF k = n THEN x ELSE e[k]
        /\ With(e, x) = [k \in DOMAIN With(e, x) |-> With(e, x)[k]]
    BY <2>2 DEF With
  <2> QED
    BY <1>1, <1>2, <1>6, <2>1, <2>3 DEF EntityMap
<1>7. ASSUME NEW n \in Numbers, w = [ps |-> [number |-> n], entities |-> Without(e, n)]
      PROVE  w \in World
  <2>1. /\ DOMAIN Without(e, n) = DOMAIN e \ {n}
        /\ \A k \in DOMAIN Without(e, n) : Without(e, n)[k] = e[k]
        /\ Without(e, n) = [k \in DOMAIN Without(e, n) |-> Without(e, n)[k]]
    BY DEF Without
  <2> QED
    BY <1>1, <1>2, <1>7, <2>1 DEF EntityMap
<1> QED
  BY <1>4, <1>5, <1>6, <1>7 DEF NextWorlds

\* The server's message about a world, as the observer reads it.
LEMMA MessageParts ==
  ASSUME TypeOK, NEW base \in Bases, NEW w \in World, Len(sent) < MaxMessages,
         NEW m, m = Message(base, w)
  PROVE  /\ m.number = Len(sent) + 1 /\ m.number \in 1 .. MaxMessages
         /\ m.base = base /\ base \in 0 .. Len(sent)
         /\ LET from == IF base = 0 THEN NoWorld ELSE sent[base]
            IN /\ from \in World
               /\ m.ps = Changes(from.ps, w.ps)
               /\ m.entities = EntityDeltas(from.entities, w.entities)
         /\ ReadsEntities(m.entities)
         /\ ApplyFields(OldFrame(gameState, base).ps, m.ps) \in PlayerState
         /\ gameState \in ClientGameState
<1> DEFINE from == IF base = 0 THEN NoWorld ELSE sent[base]
<1>1. /\ sent \in Seq(World) /\ Len(sent) \in Nat /\ mapStart \in 1 .. Len(sent)
      /\ baselines \in MapBaselines /\ gameState \in ClientGameState
  BY DEF TypeOK
<1>2. base \in 0 .. Len(sent)
  BY <1>1 DEF Bases
<1>3. from \in World
  BY <1>1, <1>2, NoWorldIsWorld
<1>4. /\ m.number = Len(sent) + 1 /\ m.base = base
      /\ m.ps = Changes(from.ps, w.ps)
      /\ m.entities = EntityDeltas(from.entities, w.entities)
  BY DEF Message
<1> HIDE DEF from
<1>5. m.number \in 1 .. MaxMessages
  BY <1>1, <1>4, SnapshotsAssumption
<1>6. EntityMap(from.entities) /\ EntityMap(w.entities)
      /\ from.ps \in PlayerState /\ w.ps \in PlayerState
  BY <1>3, WorldParts DEF PlayerState
<1>7. ReadsEntities(m.entities)
  BY <1>1, <1>4, <1>6, DeltasRead
<1>8. OldFrame(gameState, base).ps \in PlayerState
  <2>1. base \in Nat /\ SnapshotSlot(base) \in 0 .. PACKET_BACKUP - 1
    BY <1>2, Slots
  <2>2. gameState.snapshots[SnapshotSlot(base)] \in Frame
    BY <1>1, <2>1 DEF ClientGameState
  <2>3. OldFrame(gameState, base) \in Frame
    BY <2>2, NoFrameIsFrame DEF OldFrame
  <2> QED
    BY <2>3 DEF Frame, PlayerState
<1>9. ApplyFields(OldFrame(gameState, base).ps, m.ps) \in PlayerState
  BY <1>4, <1>6, <1>8, PlayerStateDelta
<1> QED
  BY <1>1, <1>2, <1>3, <1>4, <1>5, <1>7, <1>9 DEF from

LEMMA BaselinesParts ==
  ASSUME NEW g \in ClientGameState, NEW b \in MapBaselines, NEW r, r = parseBaselines(g, b)
  PROVE  /\ r \in ClientGameState
         /\ r.parseEntities = g.parseEntities /\ r.parseEntitiesNum = g.parseEntitiesNum
         /\ r.curSnap = g.curSnap /\ r.snapshots = g.snapshots
         /\ r.currentEntities = g.currentEntities
         /\ \A n \in Numbers :
              r.entityBaselines[n] = IF n \in DOMAIN b THEN b[n] ELSE g.entityBaselines[n]
<1> DEFINE Read1(n) == readDeltaEntity(Blank(0),
                         [remove |-> FALSE, fields |-> Changes(Blank(n), b[n])], n)
           bases == [n \in 0 .. NoEntity |->
                       IF n \in DOMAIN b THEN Read1(n) ELSE g.entityBaselines[n]]
<1>1. g.entityBaselines \in [0 .. NoEntity -> Entity]
  BY DEF ClientGameState
<1>2. r = [g EXCEPT !.entityBaselines = bases]
  BY <1>1 DEF parseBaselines
<1>3. PICK S \in SUBSET (Numbers \ {0}) : b = [n \in S |-> PlayerEntity(n)]
  BY DEF MapBaselines
<1>4. ASSUME NEW n \in DOMAIN b PROVE Read1(n) = b[n] /\ b[n] \in Entity
  <2>1. n \in 0 .. NoEntity /\ 0 \in 0 .. NoEntity /\ b[n] = PlayerEntity(n)
    BY <1>3, NumberRange
  <2>2. b[n] \in Entity /\ b[n].x = 1
    BY <2>1 DEF PlayerEntity, Entity
  <2>3. Blank(0) \in Entity /\ [Blank(0) EXCEPT !.number = n] = Blank(n) /\ Blank(n).x = 0
    BY <2>1, BlankIsEntity DEF Blank
  <2>4. Telling(Blank(0), b[n], n)
    BY <2>2, <2>3 DEF Telling
  <2> DEFINE delta == [remove |-> FALSE, fields |-> Changes(Blank(n), b[n])]
  <2>5. delta.remove = FALSE
        /\ delta.fields = Changes([Blank(0) EXCEPT !.number = n], b[n])
    BY <2>3
  <2> HIDE DEF delta
  <2>6. readDeltaEntity(Blank(0), delta, n) = b[n]
    BY <2>1, <2>2, <2>3, <2>4, <2>5, ReadDeltaExact
  <2> QED
    BY <2>2, <2>6 DEF delta
<1> HIDE DEF Read1
<1>5. bases \in [0 .. NoEntity -> Entity]
  BY <1>1, <1>4
<1>6. \A n \in Numbers : bases[n] = IF n \in DOMAIN b THEN b[n] ELSE g.entityBaselines[n]
  BY <1>4, NumberRange
<1> HIDE DEF bases
<1> QED
  BY <1>2, <1>5, <1>6 DEF ClientGameState

LEMMA ResetType ==
  /\ GameStateReset \in ClientGameState /\ GameStateReset.curSnap = NoFrame
  /\ GameStateReset.snapshots = [i \in 0 .. PACKET_BACKUP - 1 |-> NoFrame]
  /\ GameStateReset.parseEntitiesNum = 0
  /\ \A n \in Numbers : GameStateReset.entityBaselines[n] = Blank(0)
  /\ \A n \in Numbers : GameStateReset.currentEntities[n].valid = FALSE
<1>1. Blank(0) \in Entity /\ NoFrame \in Frame
  BY NumberRange, BlankIsEntity, NoFrameIsFrame, Constants
<1>2. \A n \in Numbers : n \in 0 .. NoEntity
  BY NumberRange
<1> QED
  BY <1>1, <1>2 DEF GameStateReset, ClientGameState

LEMMA InitType ==
  ASSUME Init
  PROVE  TypeOK
<1>1. gameState \in ClientGameState
  BY BaselinesParts, ResetType DEF Init
<1>2. NoWorld \in World
  BY NoWorldIsWorld
<1>3. sent \in Seq(World) /\ Len(sent) = 1 /\ world = sent[Len(sent)]
  BY <1>2 DEF Init
<1>4. 1 \in 1 .. MaxMaps
  BY SnapshotsAssumption
<1> QED
  BY <1>1, <1>3, <1>4 DEF Init, TypeOK

LEMMA SendType ==
  ASSUME TypeOK, Send
  PROVE  /\ world' \in World /\ sent' = Append(sent, world') /\ sent \in Seq(World)
         /\ sent' \in Seq(World) /\ Len(sent') = Len(sent) + 1 /\ Len(sent) \in Nat
         /\ world' = sent'[Len(sent')]
         /\ \A n \in 1 .. Len(sent) : sent'[n] = sent[n]
         /\ Len(sent) < MaxMessages /\ UNCHANGED <<baselines, mapStart, maps>>
         /\ mapStart' \in 1 .. Len(sent')
<1>1. sent \in Seq(World) /\ Len(sent) \in Nat /\ mapStart \in 1 .. Len(sent)
      /\ world = sent[Len(sent)]
  BY DEF TypeOK
<1>2. world \in World
  <2>1. Len(sent) \in 1 .. Len(sent)
    BY <1>1
  <2> QED
    BY <1>1, <2>1
<1>3. world' \in World /\ sent' = Append(sent, world') /\ Len(sent) < MaxMessages
      /\ UNCHANGED <<baselines, mapStart, maps>>
  BY <1>2, NextWorldsType DEF Send
<1> QED
  BY <1>1, <1>3

LEMMA LostType ==
  ASSUME TypeOK, SnapshotLost
  PROVE  TypeOK'
<1>1. Send /\ UNCHANGED <<gameState, taken, chained>>
  BY DEF SnapshotLost
<1>2. taken' \subseteq 2 .. Len(sent')
  BY <1>1, SendType DEF TypeOK
<1> QED
  BY <1>1, <1>2, SendType DEF TypeOK

\* What a message of the server about a difference from the base does.
Takes(base, m) ==
  /\ m = Message(base, world')
  /\ gameState' = parseSnapshot(gameState, m)
  /\ taken' = IF gameState'.curSnap.messageNum = m.number
              THEN taken \cup {m.number} ELSE taken
  /\ chained' = (chained /\ m.number \in taken' /\ base = gameState.curSnap.messageNum)

LEMMA Received ==
  ASSUME SnapshotReceived
  PROVE  Send /\ \E base \in Bases : \E m : Takes(base, m)
BY DEF SnapshotReceived, Takes

LEMMA ReceivedType ==
  ASSUME TypeOK, SnapshotReceived
  PROVE  TypeOK'
<1>base. PICK base \in Bases : \E m : Takes(base, m)
  BY Received
<1>1. PICK m :
        /\ m = Message(base, world')
        /\ gameState' = parseSnapshot(gameState, m)
        /\ taken' = IF gameState'.curSnap.messageNum = m.number
                    THEN taken \cup {m.number} ELSE taken
        /\ chained' = (chained /\ m.number \in taken' /\ base = gameState.curSnap.messageNum)
  BY <1>base DEF Takes
<1>2. Send
  BY Received
<1>3. /\ m.number = Len(sent) + 1 /\ m.number \in 1 .. MaxMessages
      /\ m.base = base /\ base \in 0 .. Len(sent)
      /\ ReadsEntities(m.entities) /\ gameState \in ClientGameState
      /\ ApplyFields(OldFrame(gameState, base).ps, m.ps) \in PlayerState
  BY <1>1, <1>2, SendType, MessageParts
<1>4. gameState' \in ClientGameState
  <2>1. m.number \in 0 .. MaxMessages /\ m.base \in Nat
    BY <1>3
  <2> QED
    BY <1>1, <1>3, <2>1, SnapshotParts
<1>5. taken' \subseteq 2 .. Len(sent')
  <2>1. taken \subseteq 2 .. Len(sent) /\ mapStart \in 1 .. Len(sent)
    BY DEF TypeOK
  <2>2. Len(sent') = Len(sent) + 1 /\ Len(sent) \in Nat
    BY <1>2, SendType
  <2>3. taken' \subseteq taken \cup {Len(sent) + 1}
    BY <1>1, <1>3
  <2>4. taken \cup {Len(sent) + 1} \subseteq 2 .. Len(sent) + 1
    <3>1. Len(sent) >= 1 /\ Len(sent) + 1 \in 2 .. Len(sent) + 1
      BY <2>1, <2>2
    <3>2. 2 .. Len(sent) \subseteq 2 .. Len(sent) + 1
      BY <2>2
    <3> QED
      BY <2>1, <3>1, <3>2
  <2> QED
    BY <2>2, <2>3, <2>4
<1> QED
  BY <1>1, <1>2, <1>4, <1>5, SendType DEF TypeOK

LEMMA GamestateType ==
  ASSUME TypeOK, GamestateReceived
  PROVE  /\ TypeOK'
         /\ sent' = Append(sent, NoWorld) /\ Len(sent') = Len(sent) + 1
         /\ \A n \in 1 .. Len(sent) : sent'[n] = sent[n]
<1>1. /\ sent \in Seq(World) /\ Len(sent) \in Nat /\ maps \in 1 .. MaxMaps
      /\ gameState \in ClientGameState /\ taken \subseteq 2 .. Len(sent)
  BY DEF TypeOK
<1>2. NoWorld \in World
  BY NoWorldIsWorld
<1>3. sent' = Append(sent, NoWorld) /\ world' = NoWorld /\ mapStart' = Len(sent')
      /\ maps' = maps + 1 /\ maps < MaxMaps /\ baselines' \in MapBaselines
      /\ gameState' = parseBaselines(gameState, baselines') /\ chained' = FALSE
      /\ taken' = taken
  BY DEF GamestateReceived
<1>4. /\ sent' \in Seq(World) /\ Len(sent') = Len(sent) + 1 /\ world' = sent'[Len(sent')]
      /\ \A n \in 1 .. Len(sent) : sent'[n] = sent[n]
  BY <1>1, <1>2, <1>3
<1>5. gameState' \in ClientGameState
  BY <1>1, <1>3, BaselinesParts
<1>6. mapStart' \in 1 .. Len(sent') /\ maps' \in 1 .. MaxMaps /\ taken' \subseteq 2 .. Len(sent')
  BY <1>1, <1>3, <1>4, SnapshotsAssumption
<1> QED
  BY <1>3, <1>4, <1>5, <1>6 DEF TypeOK

LEMMA StepType ==
  ASSUME TypeOK, [Next]_vars
  PROVE  TypeOK'
<1>1. CASE SnapshotLost
  BY <1>1, LostType
<1>2. CASE SnapshotReceived
  BY <1>2, ReceivedType
<1>3. CASE GamestateReceived
  BY <1>3, GamestateType
<1>4. CASE UNCHANGED vars
  BY <1>4 DEF TypeOK, vars, serverVars
<1> QED
  BY <1>1, <1>2, <1>3, <1>4 DEF Next

\* Whatever of the world is lost and whatever base the server takes, what the
\* observer keeps has its type; in particular no slot of the ring of entities
\* gets a number beyond the one that means "no entity"
\* (ServerPacketParser.cpp:506-537).
THEOREM TypeCorrect ==
  Spec => []TypeOK
<1>1. Init => TypeOK
  BY InitType
<1>2. TypeOK /\ [Next]_vars => TypeOK'
  BY StepType
<1> QED
  BY <1>1, <1>2, PTL DEF Spec

-----------------------------------------------------------------------------
(* What was taken as valid stays in its slot for PACKET_BACKUP messages.   *)

\* The last snapshot taken is the current one, and it is of a message sent.
TakenInOrder ==
  /\ gameState.curSnap.messageNum <= Len(sent)
  /\ \A n \in taken : n <= gameState.curSnap.messageNum

KeptInv == TypeOK /\ TakenInOrder /\ BasesAreKept

\* Neither the new snapshot nor what is skipped shares a slot with a snapshot
\* that the server may still take as the base.
LEMMA OtherSlots ==
  ASSUME NEW g \in ClientGameState, NEW n \in Nat, NEW number \in Nat,
         n <= g.curSnap.messageNum, g.curSnap.messageNum < number,
         n > number - PACKET_BACKUP
  PROVE  /\ SnapshotSlot(number) # SnapshotSlot(n)
         /\ \A k \in Skipped(g, number) : SnapshotSlot(k) # SnapshotSlot(n)
<1>1. PACKET_BACKUP \in Nat \ {0}
  BY Slots
<1>2. g.curSnap.messageNum \in Nat
  BY DEF ClientGameState, Frame
<1>3. n < number /\ number < n + PACKET_BACKUP
  BY <1>1, <1>2
<1>4. SnapshotSlot(number) # SnapshotSlot(n)
  BY <1>1, <1>3, ModNear DEF SnapshotSlot
<1>5. ASSUME NEW k \in Skipped(g, number) PROVE SnapshotSlot(k) # SnapshotSlot(n)
  <2>1. k \in Nat /\ n < k /\ k < number
    BY <1>1, <1>2, <1>5 DEF Skipped
  <2>2. k < n + PACKET_BACKUP
    BY <1>1, <1>3, <2>1
  <2> QED
    BY <1>1, <2>1, <2>2, ModNear DEF SnapshotSlot
<1> QED
  BY <1>4, <1>5

LEMMA ReceivedKeeps ==
  ASSUME KeptInv, SnapshotReceived
  PROVE  TakenInOrder' /\ BasesAreKept'
<1>base. PICK base \in Bases : \E m : Takes(base, m)
  BY Received
<1>1. PICK m :
        /\ m = Message(base, world')
        /\ gameState' = parseSnapshot(gameState, m)
        /\ taken' = IF gameState'.curSnap.messageNum = m.number
                    THEN taken \cup {m.number} ELSE taken
        /\ chained' = (chained /\ m.number \in taken' /\ base = gameState.curSnap.messageNum)
  BY <1>base DEF Takes
<1> DEFINE L == Len(sent)
<1>2. Send /\ TypeOK
  BY Received DEF KeptInv
<1>3. L \in Nat /\ Len(sent') = L + 1
  BY <1>2, SendType
<1>4. /\ m.number = L + 1 /\ m.number \in 1 .. MaxMessages
      /\ m.base = base /\ base \in 0 .. L
      /\ ReadsEntities(m.entities) /\ gameState \in ClientGameState
      /\ ApplyFields(OldFrame(gameState, base).ps, m.ps) \in PlayerState
  BY <1>1, <1>2, SendType, MessageParts
<1>5. /\ IF Usable(gameState, m)
         THEN /\ gameState'.curSnap = NewFrame(gameState, m)
              /\ gameState'.snapshots = [InvalidateSkipped(gameState, m.number) EXCEPT
                                  ![SnapshotSlot(m.number)] = NewFrame(gameState, m)]
         ELSE gameState'.curSnap = gameState.curSnap /\ gameState'.snapshots = gameState.snapshots
  <2>1. m.number \in 0 .. MaxMessages /\ m.base \in Nat
    BY <1>4
  <2> QED
    BY <1>1, <1>4, <2>1, SnapshotParts
<1>6. /\ gameState.curSnap.messageNum <= L /\ gameState.curSnap.messageNum \in Nat
      /\ \A n \in taken : n \in Nat /\ n <= gameState.curSnap.messageNum
      /\ \A n \in taken : n > L - PACKET_BACKUP =>
           /\ gameState.snapshots[SnapshotSlot(n)].valid
           /\ gameState.snapshots[SnapshotSlot(n)].messageNum = n
  <2>1. gameState.curSnap.messageNum \in Nat
    BY <1>4 DEF ClientGameState, Frame
  <2>2. \A n \in taken : n \in Nat
    BY DEF KeptInv, TypeOK
  <2> QED
    BY <2>1, <2>2 DEF KeptInv, TakenInOrder, BasesAreKept
<1>7. PACKET_BACKUP \in Nat \ {0}
  BY Slots
<1> HIDE DEF L
<1>8. CASE Usable(gameState, m)
  <2>1. /\ gameState'.curSnap.messageNum = L + 1
        /\ taken' = taken \cup {L + 1}
    BY <1>1, <1>4, <1>5, <1>8 DEF NewFrame
  <2>2. TakenInOrder'
    BY <1>3, <1>6, <2>1 DEF TakenInOrder
  <2>3. ASSUME NEW n \in taken', n > L + 1 - PACKET_BACKUP
        PROVE  /\ gameState'.snapshots[SnapshotSlot(n)].valid
               /\ gameState'.snapshots[SnapshotSlot(n)].messageNum = n
    <3> DEFINE skipped == InvalidateSkipped(gameState, m.number)
               frame   == NewFrame(gameState, m)
    <3>1. /\ gameState'.snapshots = [skipped EXCEPT ![SnapshotSlot(L + 1)] = frame]
          /\ frame.valid = TRUE /\ frame.messageNum = L + 1
          /\ skipped \in [0 .. PACKET_BACKUP - 1 -> Frame]
      <4>1. 0 \in 0 .. PACKET_BACKUP - 1
        BY <1>7
      <4> QED
        BY <1>4, <1>5, <1>8, <4>1, InvalidateParts DEF NewFrame
    <3> HIDE DEF frame
    <3>2. SnapshotSlot(n) \in 0 .. PACKET_BACKUP - 1 /\ n \in Nat
      BY <1>3, <1>6, <2>1, Slots
    <3>3. CASE n = L + 1
      BY <3>1, <3>2, <3>3
    <3>4. CASE n \in taken
      <4>1. /\ n \in Nat /\ n <= gameState.curSnap.messageNum
            /\ gameState.curSnap.messageNum < L + 1 /\ n > L - PACKET_BACKUP
        BY <1>3, <1>6, <1>7, <2>3, <3>4
      <4>2. /\ SnapshotSlot(L + 1) # SnapshotSlot(n)
            /\ \A k \in Skipped(gameState, L + 1) : SnapshotSlot(k) # SnapshotSlot(n)
        <5>1. /\ m.number = L + 1 /\ m.number \in Nat /\ n \in Nat
              /\ n <= gameState.curSnap.messageNum /\ gameState.curSnap.messageNum < m.number
              /\ n > m.number - PACKET_BACKUP
          BY <1>3, <1>4, <1>7, <2>3, <4>1
        <5>2. /\ SnapshotSlot(m.number) # SnapshotSlot(n)
              /\ \A k \in Skipped(gameState, m.number) : SnapshotSlot(k) # SnapshotSlot(n)
          BY <1>4, <5>1, OtherSlots
        <5> QED
          BY <5>1, <5>2
      <4>3. skipped[SnapshotSlot(n)] = gameState.snapshots[SnapshotSlot(n)]
        BY <1>4, <3>2, <4>2, InvalidateParts
      <4> HIDE DEF skipped
      <4>4. gameState'.snapshots[SnapshotSlot(n)] = skipped[SnapshotSlot(n)]
        BY <3>1, <3>2, <4>2
      <4> QED
        BY <1>6, <3>4, <4>1, <4>3, <4>4
    <3> QED
      BY <2>1, <3>3, <3>4
  <2>4. BasesAreKept'
    <3> SUFFICES ASSUME NEW n \in taken', n > Len(sent') - PACKET_BACKUP
                 PROVE  /\ gameState'.snapshots[SnapshotSlot(n)].valid
                        /\ gameState'.snapshots[SnapshotSlot(n)].messageNum = n
      BY DEF BasesAreKept
    <3>1. n > L + 1 - PACKET_BACKUP
      BY <1>3, <1>6, <1>7, <2>1
    <3> QED
      BY <2>3, <3>1
  <2> QED
    BY <2>2, <2>4
<1>9. CASE ~Usable(gameState, m)
  <2>1. gameState'.curSnap.messageNum # L + 1
    BY <1>3, <1>5, <1>6, <1>9
  <2>2. /\ taken' = taken /\ gameState'.curSnap = gameState.curSnap
        /\ gameState'.snapshots = gameState.snapshots
    BY <1>1, <1>4, <1>5, <1>9, <2>1
  <2>3. TakenInOrder'
    BY <1>3, <1>6, <2>2 DEF TakenInOrder
  <2>4. \A n \in taken : n > L + 1 - PACKET_BACKUP => n > L - PACKET_BACKUP
    BY <1>3, <1>6, <1>7
  <2>5. BasesAreKept'
    <3> SUFFICES ASSUME NEW n \in taken', n > Len(sent') - PACKET_BACKUP
                 PROVE  /\ gameState'.snapshots[SnapshotSlot(n)].valid
                        /\ gameState'.snapshots[SnapshotSlot(n)].messageNum = n
      BY DEF BasesAreKept
    <3>1. n > L + 1 - PACKET_BACKUP /\ n \in taken
      BY <1>3, <1>6, <1>7, <2>2
    <3>2. n > L - PACKET_BACKUP
      BY <2>4, <3>1
    <3> QED
      BY <1>6, <2>2, <3>1, <3>2
  <2> QED
    BY <2>3, <2>5
<1> QED
  BY <1>8, <1>9

\* The other steps touch no snapshot, and only make bases older.
LEMMA OlderKeeps ==
  ASSUME KeptInv, Len(sent') = Len(sent) + 1, UNCHANGED taken,
         gameState'.curSnap = gameState.curSnap, gameState'.snapshots = gameState.snapshots
  PROVE  TakenInOrder' /\ BasesAreKept'
<1>1. /\ gameState.curSnap.messageNum \in Nat /\ Len(sent) \in Nat
      /\ taken \subseteq Nat /\ PACKET_BACKUP \in Nat
  <2>1. gameState \in ClientGameState /\ taken \subseteq 2 .. Len(sent) /\ Len(sent) \in Nat
    BY DEF KeptInv, TypeOK
  <2>2. gameState.curSnap.messageNum \in Nat
    BY <2>1 DEF ClientGameState, Frame
  <2> QED
    BY <2>1, <2>2, Slots
<1>2. \A n \in taken' : n > Len(sent') - PACKET_BACKUP => n \in taken /\ n > Len(sent) - PACKET_BACKUP
  BY <1>1
<1>3. TakenInOrder'
  BY <1>1 DEF KeptInv, TakenInOrder
<1>4. BasesAreKept'
  BY <1>2 DEF KeptInv, BasesAreKept
<1> QED
  BY <1>3, <1>4

\* A snapshot that the observer took as valid can be the base of the server's
\* next message for as long as it is one of the last PACKET_BACKUP messages,
\* however many messages are lost in between and whatever snapshots are dropped
\* (ServerPacketParser.cpp:323-330).
THEOREM TakenSnapshotsAreKept ==
  Spec => []BasesAreKept
<1>1. Init => KeptInv
  <2> SUFFICES ASSUME Init PROVE KeptInv
    OBVIOUS
  <2>1. TypeOK /\ taken = {} /\ Len(sent) = 1
    BY InitType DEF Init
  <2>2. gameState.curSnap = NoFrame
    BY ResetType, BaselinesParts DEF Init
  <2> QED
    BY <2>1, <2>2 DEF KeptInv, TakenInOrder, BasesAreKept, NoFrame
<1>2. KeptInv /\ [Next]_vars => KeptInv'
  <2> SUFFICES ASSUME KeptInv, [Next]_vars PROVE KeptInv'
    OBVIOUS
  <2>1. TypeOK /\ TypeOK'
    BY StepType DEF KeptInv
  <2>2. CASE SnapshotLost
    <3>1. Len(sent') = Len(sent) + 1 /\ UNCHANGED <<gameState, taken>>
      BY <2>1, <2>2, SendType DEF SnapshotLost
    <3> QED
      BY <2>1, <3>1, OlderKeeps DEF KeptInv
  <2>3. CASE SnapshotReceived
    BY <2>1, <2>3, ReceivedKeeps DEF KeptInv
  <2>4. CASE GamestateReceived
    <3>1. Len(sent') = Len(sent) + 1 /\ UNCHANGED taken
      BY <2>1, <2>4, GamestateType DEF GamestateReceived
    <3>2. gameState'.curSnap = gameState.curSnap /\ gameState'.snapshots = gameState.snapshots
      BY <2>1, <2>4, BaselinesParts DEF GamestateReceived, TypeOK
    <3> QED
      BY <2>1, <3>1, <3>2, OlderKeeps DEF KeptInv
  <2>5. CASE UNCHANGED vars
    BY <2>1, <2>5 DEF KeptInv, TakenInOrder, BasesAreKept, vars, serverVars
  <2> QED
    BY <2>2, <2>3, <2>4, <2>5 DEF Next
<1>3. KeptInv => BasesAreKept
  BY DEF KeptInv
<1> QED
  BY <1>1, <1>2, <1>3, PTL DEF Spec

-----------------------------------------------------------------------------
(* A valid snapshot says what the server said.                             *)

\* No message tells of more than MARGIN entities that its base did not have.
NewcomersFit ==
  \A n \in mapStart + 1 .. Len(sent) - 1 :
    Cardinality(DOMAIN world.entities \ DOMAIN sent[n].entities) <= MARGIN

\* The ring holds the entities of the frame in order, from its first slot on.
Holds(frame) ==
  /\ frame.ps = sent[frame.messageNum].ps
  /\ frame.numEntities = Cardinality(DOMAIN sent[frame.messageNum].entities)
  /\ Listed(gameState.parseEntities, frame.parseEntitiesNum,
            sent[frame.messageNum].entities)

FrameOK(frame) ==
  /\ frame.messageNum \in 1 .. Len(sent)
  /\ frame.parseEntitiesNum + frame.numEntities <= gameState.parseEntitiesNum
  /\ WithinMargin(frame) => Holds(frame)

Frames == Images(gameState.snapshots) \cup {gameState.curSnap}

BaselinesKnown == \A n \in Numbers : gameState.entityBaselines[n] = BaselineOf(n)

ExactInv == TypeOK /\ BaselinesKnown /\ \A frame \in Frames : frame.valid => FrameOK(frame)

LEMMA FramesType ==
  ASSUME gameState \in ClientGameState
  PROVE  Frames \subseteq Frame
BY DEF ClientGameState, Frames, Images

LEMMA WorldOfMessage ==
  ASSUME TypeOK, NEW n \in 1 .. Len(sent)
  PROVE  sent[n] \in World
BY DEF TypeOK

\* What is listed in the ring are the entities of the message, no more no less.
LEMMA HoldsIsExact ==
  ASSUME TypeOK, NEW frame \in Frame, frame.messageNum \in 1 .. Len(sent), Holds(frame)
  PROVE  IsExact(frame)
<1> DEFINE e == sent[frame.messageNum].entities
           D == DOMAIN e
<1>1. D \in SUBSET Numbers
  BY WorldOfMessage, WorldParts DEF EntityMap
<1>2. /\ frame.ps = sent[frame.messageNum].ps /\ frame.numEntities = Cardinality(D)
      /\ \A n \in D :
           gameState.parseEntities[ParseSlot(frame.parseEntitiesNum + Rank(D, n))] = e[n]
  BY DEF Holds, Listed
<1>3. IsExact(frame) <=> FrameEntities(frame) = Images(e)
  BY <1>2 DEF IsExact
<1> HIDE DEF e
<1>4. Cardinality(D) \in Nat /\ D \subseteq Nat
  BY <1>1, NumbersFinite
<1>5. ASSUME NEW i \in 0 .. frame.numEntities - 1
      PROVE  gameState.parseEntities[ParseSlot(frame.parseEntitiesNum + i)] \in Images(e)
  <2>1. i \in Nat /\ i < Cardinality(D)
    BY <1>2, <1>4
  <2>2. PICK n \in D : Rank(D, n) = i
    BY <1>1, <2>1, RankOnto
  <2> QED
    BY <1>2, <2>2 DEF Images
<1>6. ASSUME NEW n \in D
      PROVE  Rank(D, n) \in 0 .. frame.numEntities - 1
  <2>1. Rank(D, n) \in Nat
    BY <1>1, RankType
  <2>2. ~ \A k \in D : k < n
    BY <1>4
  <2>3. ~(Rank(D, n) >= Cardinality(D))
    BY <1>1, <2>2, RankFull
  <2> QED
    BY <1>2, <1>4, <2>1, <2>3
<1>7. FrameEntities(frame) \subseteq Images(e)
  BY <1>5 DEF FrameEntities
<1>8. Images(e) \subseteq FrameEntities(frame)
  BY <1>2, <1>6 DEF FrameEntities, Images
<1> QED
  BY <1>3, <1>7, <1>8

\* A message before the next is sent tells what it told.
LEMMA StillOK ==
  ASSUME TypeOK, NEW frame \in Frame, FrameOK(frame),
         \A n \in 1 .. Len(sent) : sent'[n] = sent[n], Len(sent') = Len(sent) + 1,
         gameState'.parseEntitiesNum \in Nat,
         gameState.parseEntitiesNum <= gameState'.parseEntitiesNum,
         \A i \in Nat :
           /\ i < gameState.parseEntitiesNum
           /\ gameState'.parseEntitiesNum <= i + MAX_PARSE_ENTITIES - MARGIN
           => gameState'.parseEntities[ParseSlot(i)] = gameState.parseEntities[ParseSlot(i)]
  PROVE  FrameOK(frame)'
<1>1. /\ frame.messageNum \in 1 .. Len(sent) /\ Len(sent) \in Nat
      /\ frame.parseEntitiesNum \in Nat /\ frame.numEntities \in Nat
      /\ gameState.parseEntitiesNum \in Nat
      /\ MAX_PARSE_ENTITIES \in Nat /\ MARGIN \in Nat
  BY SnapshotsAssumption DEF FrameOK, TypeOK, Frame, ClientGameState
<1>2. sent'[frame.messageNum] = sent[frame.messageNum]
  BY <1>1
<1>3. frame.parseEntitiesNum + frame.numEntities <= gameState.parseEntitiesNum
  BY DEF FrameOK
<1>4. ASSUME WithinMargin(frame)'
      PROVE  Holds(frame)'
  <2> DEFINE e == sent[frame.messageNum].entities
             D == DOMAIN e
  <2>1. gameState'.parseEntitiesNum <= frame.parseEntitiesNum + MAX_PARSE_ENTITIES - MARGIN
    BY <1>1, <1>4 DEF WithinMargin
  <2>2. WithinMargin(frame)
    BY <1>1, <2>1 DEF WithinMargin
  <2>3. Holds(frame)
    BY <2>2 DEF FrameOK
  <2>4. D \in SUBSET Numbers
    BY <1>1, WorldOfMessage, WorldParts DEF EntityMap
  <2>5. /\ frame.ps = sent[frame.messageNum].ps /\ frame.numEntities = Cardinality(D)
        /\ \A n \in D :
             gameState.parseEntities[ParseSlot(frame.parseEntitiesNum + Rank(D, n))] = e[n]
    BY <2>3 DEF Holds, Listed
  <2> HIDE DEF e
  <2>6. Cardinality(D) \in Nat /\ D \subseteq Nat
    BY <2>4, NumbersFinite
  <2>7. ASSUME NEW n \in D
        PROVE  gameState'.parseEntities[ParseSlot(frame.parseEntitiesNum + Rank(D, n))] = e[n]
    <3>1. Rank(D, n) \in Nat
      BY <2>4, RankType
    <3>2. ~(Rank(D, n) >= Cardinality(D))
      BY <2>4, <2>6, RankFull
    <3> DEFINE i == frame.parseEntitiesNum + Rank(D, n)
    <3>3. /\ i \in Nat /\ i < gameState.parseEntitiesNum
          /\ gameState'.parseEntitiesNum <= i + MAX_PARSE_ENTITIES - MARGIN
      <4>1. /\ Rank(D, n) < frame.numEntities
            /\ frame.numEntities = Cardinality(D)
        BY <2>5, <2>6, <3>1, <3>2
      <4>2. i \in Nat /\ frame.parseEntitiesNum <= i /\ i < gameState.parseEntitiesNum
        BY <1>1, <1>3, <3>1, <4>1
      <4> HIDE DEF i
      <4>3. gameState'.parseEntitiesNum <= i + MAX_PARSE_ENTITIES - MARGIN
        BY <1>1, <2>1, <4>2
      <4> QED
        BY <4>2, <4>3
    <3> HIDE DEF i
    <3>4. gameState'.parseEntities[ParseSlot(i)] = gameState.parseEntities[ParseSlot(i)]
      BY <3>3
    <3> QED
      BY <2>5, <3>4 DEF i
  <2>8. sent'[frame.messageNum].entities = e
    BY <1>2 DEF e
  <2>9. Listed(gameState'.parseEntities, frame.parseEntitiesNum, e)
    BY <2>7 DEF Listed
  <2> QED
    BY <1>2, <2>5, <2>8, <2>9 DEF Holds
<1>5. /\ frame.messageNum \in 1 .. Len(sent')
      /\ frame.parseEntitiesNum + frame.numEntities <= gameState'.parseEntitiesNum
  BY <1>1, <1>3
<1> QED
  BY <1>4, <1>5 DEF FrameOK

\* What a parse writes is behind what is counted, and less than a ring ahead of
\* every slot that still is within the margin.
LEMMA KeepsOld ==
  ASSUME NEW g \in ClientGameState, NEW deltas, NEW p, Keeps(g, deltas, p)
  PROVE  /\ p.parseEntitiesNum \in Nat /\ g.parseEntitiesNum <= p.parseEntitiesNum
         /\ p.parseEntitiesNum = g.parseEntitiesNum + p.numEntities
         /\ \A i \in Nat :
              /\ i < g.parseEntitiesNum
              /\ p.parseEntitiesNum <= i + MAX_PARSE_ENTITIES - MARGIN
              => p.parseEntities[ParseSlot(i)] = g.parseEntities[ParseSlot(i)]
<1>1. /\ p \in ParseType /\ p.parseEntitiesNum = g.parseEntitiesNum + p.numEntities
      /\ \A slot \in 0 .. MAX_PARSE_ENTITIES - 1 :
           (\A w \in 0 .. p.numEntities : ParseSlot(g.parseEntitiesNum + w) # slot)
             => p.parseEntities[slot] = g.parseEntities[slot]
  BY DEF Keeps
<1>2. p.numEntities \in Nat /\ g.parseEntitiesNum \in Nat /\ p.parseEntitiesNum \in Nat
  BY <1>1 DEF ParseType, ClientGameState
<1>3. MAX_PARSE_ENTITIES \in Nat \ {0} /\ MARGIN \in Nat \ {0}
  BY SnapshotsAssumption
<1>4. ASSUME NEW i \in Nat, i < g.parseEntitiesNum,
             p.parseEntitiesNum <= i + MAX_PARSE_ENTITIES - MARGIN
      PROVE  p.parseEntities[ParseSlot(i)] = g.parseEntities[ParseSlot(i)]
  <2>1. ParseSlot(i) \in 0 .. MAX_PARSE_ENTITIES - 1
    BY <1>3, Constants
  <2>2. ASSUME NEW w \in 0 .. p.numEntities
        PROVE  ParseSlot(g.parseEntitiesNum + w) # ParseSlot(i)
    <3>1. /\ g.parseEntitiesNum + w \in Nat /\ i < g.parseEntitiesNum + w
          /\ g.parseEntitiesNum + w < i + MAX_PARSE_ENTITIES
      BY <1>1, <1>2, <1>3, <1>4
    <3> QED
      BY <1>3, <3>1, ModNear DEF ParseSlot
  <2> QED
    BY <1>1, <2>1, <2>2
<1> QED
  BY <1>1, <1>2, <1>4

LEMMA PlayerEntityTells ==
  ASSUME baselines \in MapBaselines, ~BlankEntities,
         NEW to \in World, NEW n \in DOMAIN to.entities
  PROVE  Telling(BaselineOf(n), to.entities[n], n)
<1>1. to.entities[n].x = 1 /\ n \in Numbers
  BY WorldParts DEF EntityMap
<1>2. CASE n \in DOMAIN baselines
  <2>1. BaselineOf(n) = PlayerEntity(n)
    BY <1>1, <1>2, BaselineType
  <2> QED
    BY <2>1 DEF Telling, PlayerEntity
<1>3. CASE n \notin DOMAIN baselines
  <2>1. BaselineOf(n) = Blank(0)
    BY <1>1, <1>3, BaselineType
  <2>2. [BaselineOf(n) EXCEPT !.number = n].x = 0
    BY <2>1 DEF Blank
  <2>3. [BaselineOf(n) EXCEPT !.number = n] # to.entities[n]
    <3>1. [BaselineOf(n) EXCEPT !.number = n].x # to.entities[n].x
      BY <1>1, <2>2
    <3> QED
      BY <3>1, Zenon
  <2> QED
    BY <2>3 DEF Telling
<1> QED
  BY <1>2, <1>3

\* The base of a snapshot that is used is still in the ring.
LEMMA UsableMerges ==
  ASSUME ExactInv, ~BlankEntities, NEW base \in Bases, NEW to \in World,
         NEW m, m.base = base, Usable(gameState, m), Send, world' = to, NewcomersFit',
         NEW from, from = IF base = 0 THEN NoWorld ELSE sent[base]
  PROVE  /\ Mergeable(gameState, OldFrame(gameState, base), from.entities, to.entities)
         /\ OldFrame(gameState, base).ps = from.ps
<1> DEFINE old == OldFrame(gameState, base)
<1>1. /\ TypeOK /\ gameState \in ClientGameState /\ baselines \in MapBaselines
      /\ \A n \in Numbers : gameState.entityBaselines[n] = BaselineOf(n)
  BY DEF ExactInv, TypeOK, BaselinesKnown
<1>2. Len(sent) \in Nat /\ mapStart \in 1 .. Len(sent)
  BY <1>1 DEF TypeOK
<1>3. base = 0 \/ base \in mapStart + 1 .. Len(sent)
  BY DEF Bases
<1>4. \A n \in DOMAIN to.entities \ DOMAIN from.entities :
        Telling(BaselineOf(n), to.entities[n], n)
  BY <1>1, PlayerEntityTells
<1>5. EntityMap(to.entities)
  BY WorldParts
<1>6. CASE base = 0
  <2>1. old = NoFrame /\ from = NoWorld
    BY <1>6 DEF OldFrame
  <2>2. EntityMap(from.entities) /\ DOMAIN from.entities = {}
    BY <2>1, NoWorldIsWorld
  <2>3. Cardinality(DOMAIN from.entities) = 0
    BY <2>2, FS_EmptySet
  <2>4. old.parseEntitiesNum \in Nat /\ old.numEntities = Cardinality(DOMAIN from.entities)
    BY <2>1, <2>3 DEF NoFrame
  <2>5. Listed(gameState.parseEntities, old.parseEntitiesNum, from.entities)
    BY <2>2 DEF Listed
  <2>6. old.ps = from.ps
    BY <2>1 DEF NoFrame, NoWorld
  <2> HIDE DEF old
  <2>7. Mergeable(gameState, old, from.entities, to.entities)
    BY <1>1, <1>4, <1>5, <2>2, <2>4, <2>5 DEF Mergeable
  <2> QED
    BY <2>6, <2>7 DEF old
<1>7. CASE base \in mapStart + 1 .. Len(sent)
  <2>1. base \in Nat /\ base > 0 /\ base \in 1 .. Len(sent)
    BY <1>2, <1>7
  <2>2. old = gameState.snapshots[SnapshotSlot(base)] /\ from = sent[base]
    BY <2>1 DEF OldFrame
  <2>3. /\ old.valid /\ old.messageNum = base
        /\ gameState.parseEntitiesNum - old.parseEntitiesNum <= MAX_PARSE_ENTITIES - MARGIN
    BY <2>1 DEF Usable, CanDeltaFrom
  <2>4. old \in Frames /\ old \in Frame
    <3>1. SnapshotSlot(base) \in DOMAIN gameState.snapshots
      BY <1>1, <2>1, Slots DEF ClientGameState
    <3> QED
      BY <1>1, <2>2, <3>1, FramesType DEF Frames, Images
  <2> HIDE DEF old
  <2>5. FrameOK(old) /\ WithinMargin(old)
    BY <2>3, <2>4 DEF ExactInv, WithinMargin
  <2>6. /\ old.ps = from.ps /\ old.numEntities = Cardinality(DOMAIN from.entities)
        /\ Listed(gameState.parseEntities, old.parseEntitiesNum, from.entities)
        /\ old.parseEntitiesNum + old.numEntities <= gameState.parseEntitiesNum
    BY <2>2, <2>3, <2>5 DEF FrameOK, Holds
  <2>7. EntityMap(from.entities)
    BY <1>1, <2>1, <2>2, WorldOfMessage, WorldParts
  <2>8. Cardinality(DOMAIN to.entities \ DOMAIN from.entities) <= MARGIN
    <3>1. Len(sent') = Len(sent) + 1 /\ sent'[base] = sent[base] /\ mapStart' = mapStart
      BY <1>1, <2>1, SendType
    <3>2. base \in mapStart' + 1 .. Len(sent') - 1
      BY <1>2, <1>7, <3>1
    <3> QED
      BY <2>2, <3>1, <3>2 DEF NewcomersFit
  <2>9. gameState.parseEntitiesNum <= old.parseEntitiesNum + MAX_PARSE_ENTITIES - MARGIN
    <3>1. /\ gameState.parseEntitiesNum \in Nat /\ old.parseEntitiesNum \in Nat
          /\ MAX_PARSE_ENTITIES \in Nat /\ MARGIN \in Nat
      BY <1>1, <2>4, SnapshotsAssumption DEF ClientGameState, Frame
    <3> QED
      BY <2>3, <3>1
  <2>10. old.parseEntitiesNum \in Nat
    BY <2>4 DEF Frame
  <2>10a. gameState.parseEntitiesNum + Cardinality(DOMAIN to.entities \ DOMAIN from.entities)
           <= old.parseEntitiesNum + MAX_PARSE_ENTITIES
    <3>1. Cardinality(DOMAIN to.entities \ DOMAIN from.entities) \in Nat
      <4>1. DOMAIN to.entities \ DOMAIN from.entities \in SUBSET Numbers
        BY <1>5 DEF EntityMap
      <4> QED
        BY <4>1, NumbersFinite
    <3>2. gameState.parseEntitiesNum \in Nat
      BY <1>1 DEF ClientGameState
    <3> QED
      BY <2>8, <2>9, <2>10, <3>1, <3>2, SnapshotsAssumption
  <2>11. Mergeable(gameState, old, from.entities, to.entities)
    BY <1>1, <1>4, <1>5, <2>6, <2>7, <2>10, <2>10a DEF Mergeable
  <2> QED
    BY <2>6, <2>11 DEF old
<1> QED
  BY <1>3, <1>6, <1>7

\* A snapshot that arrives keeps the invariant, whether or not it is used.
LEMMA ReceivedExact ==
  ASSUME ExactInv, ~BlankEntities, SnapshotReceived, NewcomersFit'
  PROVE  BaselinesKnown' /\ \A frame \in Frames' : frame.valid => FrameOK(frame)'
<1>base. PICK base \in Bases : \E m : Takes(base, m)
  BY Received
<1>1. PICK m :
        /\ m = Message(base, world')
        /\ gameState' = parseSnapshot(gameState, m)
        /\ taken' = IF gameState'.curSnap.messageNum = m.number
                    THEN taken \cup {m.number} ELSE taken
        /\ chained' = (chained /\ m.number \in taken' /\ base = gameState.curSnap.messageNum)
  BY <1>base DEF Takes
<1> DEFINE from == IF base = 0 THEN NoWorld ELSE sent[base]
           old  == OldFrame(gameState, base)
           q    == Parsed(gameState, m)
<1>0. PICK f : f = NewFrame(gameState, m)
  OBVIOUS
<1>2. Send /\ TypeOK /\ gameState \in ClientGameState
  BY Received DEF ExactInv, TypeOK
<1>3. /\ Len(sent) \in Nat /\ Len(sent') = Len(sent) + 1 /\ world' \in World
      /\ world' = sent'[Len(sent) + 1] /\ baselines' = baselines
      /\ \A n \in 1 .. Len(sent) : sent'[n] = sent[n]
  BY <1>2, SendType
<1>4. /\ m.number = Len(sent) + 1 /\ m.number \in 1 .. MaxMessages
      /\ m.base = base /\ base \in 0 .. Len(sent) /\ ReadsEntities(m.entities)
      /\ ApplyFields(old.ps, m.ps) \in PlayerState
      /\ from \in World /\ m.ps = Changes(from.ps, world'.ps)
      /\ m.entities = EntityDeltas(from.entities, world'.entities)
  BY <1>1, <1>2, SendType, MessageParts
<1> HIDE DEF from
<1>5. /\ gameState' \in ClientGameState
      /\ Keeps(gameState, m.entities, q) /\ f \in Frame
      /\ gameState'.entityBaselines = gameState.entityBaselines
      /\ gameState'.parseEntities = q.parseEntities
      /\ gameState'.parseEntitiesNum = q.parseEntitiesNum
      /\ IF Usable(gameState, m)
         THEN /\ gameState'.curSnap = f
              /\ gameState'.snapshots = [InvalidateSkipped(gameState, m.number) EXCEPT
                                           ![SnapshotSlot(m.number)] = f]
         ELSE gameState'.curSnap = gameState.curSnap /\ gameState'.snapshots = gameState.snapshots
  <2>1. m.number \in 0 .. MaxMessages /\ m.base \in Nat
    BY <1>4
  <2> QED
    BY <1>0, <1>1, <1>2, <1>4, <2>1, SnapshotParts
<1>6. BaselinesKnown'
  BY <1>3, <1>5 DEF ExactInv, BaselinesKnown, BaselineOf
<1>7. ASSUME NEW frame \in Frames, frame.valid
      PROVE  FrameOK(frame)'
  <2>1. frame \in Frame /\ FrameOK(frame)
    BY <1>2, <1>7, FramesType DEF ExactInv
  <2>2. /\ gameState'.parseEntitiesNum \in Nat
        /\ gameState.parseEntitiesNum <= gameState'.parseEntitiesNum
        /\ \A i \in Nat :
             /\ i < gameState.parseEntitiesNum
             /\ gameState'.parseEntitiesNum <= i + MAX_PARSE_ENTITIES - MARGIN
             => gameState'.parseEntities[ParseSlot(i)] = gameState.parseEntities[ParseSlot(i)]
    BY <1>2, <1>5, KeepsOld
  <2> QED
    BY <1>2, <1>3, <2>1, <2>2, StillOK
<1>8. CASE ~Usable(gameState, m)
  <2>1. Frames' = Frames
    BY <1>5, <1>8 DEF Frames
  <2> QED
    BY <1>6, <1>7, <2>1
<1>9. CASE Usable(gameState, m)
  <2>1. Mergeable(gameState, old, from.entities, world'.entities) /\ old.ps = from.ps
    BY <1>2, <1>3, <1>4, <1>9, UsableMerges DEF from
  <2>2. /\ q.numEntities = Cardinality(DOMAIN world'.entities)
        /\ Cardinality(DOMAIN world'.entities) < MAX_PARSE_ENTITIES =>
             Listed(q.parseEntities, gameState.parseEntitiesNum, world'.entities)
    BY <1>4, <2>1, MergeExact DEF Parsed
  <2>3. f.ps = world'.ps
    <3>1. from.ps \in PlayerState /\ world'.ps \in PlayerState
      BY <1>3, <1>4, WorldParts DEF PlayerState
    <3>2. ApplyFields(from.ps, Changes(from.ps, world'.ps)) = world'.ps
      BY <3>1, PlayerStateDelta
    <3> QED
      BY <1>0, <1>4, <2>1, <3>2 DEF NewFrame
  <2>4. /\ f.messageNum = Len(sent) + 1 /\ f.valid = TRUE
        /\ f.parseEntitiesNum = gameState.parseEntitiesNum
        /\ f.numEntities = q.numEntities
    BY <1>0, <1>4 DEF NewFrame
  <2> HIDE DEF q, old
  <2>5. FrameOK(f)'
    <3>1. /\ q.parseEntitiesNum = gameState.parseEntitiesNum + q.numEntities
          /\ gameState.parseEntitiesNum \in Nat /\ q.parseEntitiesNum \in Nat
          /\ q.numEntities \in Nat
      BY <1>2, <1>5, KeepsOld DEF Keeps, ParseType, ClientGameState
    <3>2. f.messageNum \in 1 .. Len(sent')
      BY <1>3, <2>4
    <3>3. f.parseEntitiesNum + f.numEntities <= gameState'.parseEntitiesNum
      BY <1>5, <2>4, <3>1
    <3>4. ASSUME WithinMargin(f)'
          PROVE  Holds(f)'
      <4>1. q.numEntities < MAX_PARSE_ENTITIES
        <5>1. q.parseEntitiesNum - gameState.parseEntitiesNum <= MAX_PARSE_ENTITIES - MARGIN
          BY <1>5, <2>4, <3>4 DEF WithinMargin
        <5> QED
          BY <3>1, <5>1, SnapshotsAssumption
      <4>2. Listed(q.parseEntities, gameState.parseEntitiesNum, world'.entities)
        BY <2>2, <4>1
      <4>3. sent'[f.messageNum] = world'
        BY <1>3, <2>4
      <4> QED
        BY <1>5, <2>2, <2>3, <2>4, <4>2, <4>3 DEF Holds
    <3> QED
      BY <3>2, <3>3, <3>4 DEF FrameOK
  <2>6. ASSUME NEW frame \in Frames', frame.valid
        PROVE  frame = f \/ frame \in Frames
    <3> DEFINE skipped == InvalidateSkipped(gameState, m.number)
    <3>1. gameState'.curSnap = f /\ gameState'.snapshots = [skipped EXCEPT ![SnapshotSlot(m.number)] = f]
      BY <1>5, <1>9
    <3>2. ASSUME NEW i \in 0 .. PACKET_BACKUP - 1
          PROVE  /\ DOMAIN skipped = 0 .. PACKET_BACKUP - 1
                 /\ skipped[i].valid => skipped[i] \in Frames
      <4>1. /\ skipped \in [0 .. PACKET_BACKUP - 1 -> Frame]
            /\ \/ skipped[i] = gameState.snapshots[i]
               \/ skipped[i] = Invalid(gameState.snapshots[i])
        BY <1>2, InvalidateParts
      <4>2. /\ gameState.snapshots \in [0 .. PACKET_BACKUP - 1 -> Frame]
            /\ gameState.snapshots[i] \in Frames /\ gameState.snapshots[i] \in Frame
        BY <1>2 DEF ClientGameState, Frames, Images
      <4>3. Invalid(gameState.snapshots[i]).valid = FALSE
        BY <4>2, InvalidParts
      <4> HIDE DEF skipped
      <4> QED
        BY <4>1, <4>2, <4>3
    <3>3. DOMAIN skipped = 0 .. PACKET_BACKUP - 1
      <4>1. 0 \in 0 .. PACKET_BACKUP - 1
        BY Slots
      <4> QED
        BY <3>2, <4>1
    <3> HIDE DEF skipped
    <3>4. CASE frame = gameState'.curSnap
      BY <3>1, <3>4
    <3>5. CASE frame \in Images(gameState'.snapshots)
      <4>1. PICK i \in 0 .. PACKET_BACKUP - 1 : frame = gameState'.snapshots[i]
        BY <3>1, <3>3, <3>5 DEF Images
      <4>2. frame = f \/ frame = skipped[i]
        BY <3>1, <3>3, <4>1
      <4> QED
        BY <2>6, <3>2, <4>2
    <3> QED
      BY <2>6, <3>4, <3>5 DEF Frames
  <2> QED
    BY <1>6, <1>7, <2>5, <2>6
<1> QED
  BY <1>8, <1>9

\* Nothing is parsed, and what the last map's baselines said still holds.
LEMMA OlderExact ==
  ASSUME ExactInv, Len(sent') = Len(sent) + 1,
         \A n \in 1 .. Len(sent) : sent'[n] = sent[n],
         gameState'.parseEntities = gameState.parseEntities,
         gameState'.parseEntitiesNum = gameState.parseEntitiesNum,
         gameState'.curSnap = gameState.curSnap, gameState'.snapshots = gameState.snapshots
  PROVE  \A frame \in Frames' : frame.valid => FrameOK(frame)'
<1>1. TypeOK /\ gameState \in ClientGameState
  BY DEF ExactInv, TypeOK
<1>2. Frames' = Frames
  BY DEF Frames
<1>3. gameState.parseEntitiesNum \in Nat
  BY <1>1 DEF ClientGameState
<1>4. ASSUME NEW frame \in Frames, frame.valid PROVE FrameOK(frame)'
  <2>1. frame \in Frame /\ FrameOK(frame)
    BY <1>1, <1>4, FramesType DEF ExactInv
  <2> QED
    BY <1>1, <1>3, <2>1, StillOK
<1> QED
  BY <1>2, <1>4

LEMMA BaselinesStayKnown ==
  ASSUME ExactInv, BaselinesStay, GamestateReceived
  PROVE  BaselinesKnown'
<1>1. /\ gameState \in ClientGameState
      /\ \A n \in Numbers : gameState.entityBaselines[n] = BaselineOf(n)
      /\ baselines' \in MapBaselines /\ DOMAIN baselines \subseteq DOMAIN baselines'
      /\ gameState' = parseBaselines(gameState, baselines')
  BY DEF ExactInv, TypeOK, BaselinesKnown, GamestateReceived
<1>2. \A n \in Numbers :
        gameState'.entityBaselines[n]
          = IF n \in DOMAIN baselines' THEN baselines'[n] ELSE gameState.entityBaselines[n]
  BY <1>1, BaselinesParts
<1> QED
  BY <1>1, <1>2 DEF BaselinesKnown, BaselineOf

LEMMA InitExact ==
  ASSUME Init
  PROVE  ExactInv
<1>1. TypeOK /\ baselines \in MapBaselines /\ gameState = parseBaselines(GameStateReset, baselines)
  BY InitType DEF Init
<1>2. /\ gameState.curSnap = NoFrame
      /\ gameState.snapshots = [i \in 0 .. PACKET_BACKUP - 1 |-> NoFrame]
      /\ \A n \in Numbers : gameState.entityBaselines[n]
           = IF n \in DOMAIN baselines THEN baselines[n] ELSE Blank(0)
  BY <1>1, ResetType, BaselinesParts
<1>3. \A frame \in Frames : frame = NoFrame
  BY <1>2 DEF Frames, Images
<1>4. ~NoFrame.valid
  BY DEF NoFrame
<1>5. BaselinesKnown
  BY <1>2 DEF BaselinesKnown, BaselineOf
<1> QED
  BY <1>1, <1>3, <1>4, <1>5 DEF ExactInv

\* When the next map has all the baselines of the last, no entity is all zero
\* and no message tells of more newcomers than the margin has room for, then
\* whatever is lost and whatever base the server takes, a snapshot marked valid
\* says what the server said in that message, entity by entity, for as long as
\* the ring of parsed entities has room for it (ServerPacketParser.cpp:264-284).
THEOREM ValidSnapshotsAreExact ==
  ASSUME BaselinesStay, ~BlankEntities
  PROVE  Spec /\ []NewcomersFit => []SnapshotsAreExact
<1>1. Init => ExactInv
  BY InitExact
<1>2. ExactInv /\ NewcomersFit' /\ [Next]_vars => ExactInv'
  <2> SUFFICES ASSUME ExactInv, NewcomersFit', [Next]_vars PROVE ExactInv'
    OBVIOUS
  <2>1. TypeOK /\ TypeOK'
    BY StepType DEF ExactInv
  <2>2. CASE SnapshotLost
    <3>1. /\ Len(sent') = Len(sent) + 1 /\ UNCHANGED <<gameState, baselines>>
          /\ \A n \in 1 .. Len(sent) : sent'[n] = sent[n]
      BY <2>1, <2>2, SendType DEF SnapshotLost
    <3>2. BaselinesKnown'
      BY <3>1 DEF ExactInv, BaselinesKnown, BaselineOf
    <3>3. \A frame \in Frames' : frame.valid => FrameOK(frame)'
      BY <3>1, OlderExact
    <3> QED
      BY <2>1, <3>2, <3>3 DEF ExactInv
  <2>3. CASE SnapshotReceived
    BY <2>1, <2>3, ReceivedExact DEF ExactInv
  <2>4. CASE GamestateReceived
    <3>1. Len(sent') = Len(sent) + 1 /\ \A n \in 1 .. Len(sent) : sent'[n] = sent[n]
      BY <2>1, <2>4, GamestateType
    <3>2. /\ gameState'.parseEntities = gameState.parseEntities
          /\ gameState'.parseEntitiesNum = gameState.parseEntitiesNum
          /\ gameState'.curSnap = gameState.curSnap
          /\ gameState'.snapshots = gameState.snapshots
      BY <2>1, <2>4, BaselinesParts DEF GamestateReceived, TypeOK
    <3>3. \A frame \in Frames' : frame.valid => FrameOK(frame)'
      BY <3>1, <3>2, OlderExact
    <3> QED
      BY <2>1, <2>4, <3>3, BaselinesStayKnown DEF ExactInv
  <2>5. CASE UNCHANGED vars
    BY <2>1, <2>5
    DEF ExactInv, BaselinesKnown, BaselineOf, Frames, FrameOK, WithinMargin, Holds,
        vars, serverVars
  <2> QED
    BY <2>2, <2>3, <2>4, <2>5 DEF Next
<1>3. ExactInv => SnapshotsAreExact
  <2> SUFFICES ASSUME ExactInv, NEW frame \in Frames, frame.valid, WithinMargin(frame)
               PROVE  IsExact(frame)
    BY DEF SnapshotsAreExact, Frames
  <2>1. TypeOK /\ frame \in Frame
    BY FramesType DEF ExactInv, TypeOK
  <2>2. frame.messageNum \in 1 .. Len(sent) /\ Holds(frame)
    BY DEF ExactInv, FrameOK
  <2> QED
    BY <2>1, <2>2, HoldsIsExact
<1> QED
  BY <1>1, <1>2, <1>3, PTL DEF Spec

-----------------------------------------------------------------------------
(* The current entities are those of the last snapshot.                    *)

LastFrame == OldFrame(gameState, gameState.curSnap.messageNum)
LastWorld == IF gameState.curSnap.messageNum = 0 THEN NoWorld
             ELSE sent[gameState.curSnap.messageNum]

\* These entities are current, and besides them only the others.
Following(current, entities, others) ==
  /\ \A n \in DOMAIN entities : current[n] = [valid |-> TRUE, state |-> entities[n]]
  /\ \A n \in Numbers : current[n].valid => n \in DOMAIN entities \cup others

\* The last frame is what was parsed last, and it is kept in its slot.
ChainOK ==
  /\ BaselinesKnown
  /\ gameState.curSnap.messageNum \in 0 .. Len(sent)
  /\ gameState.curSnap.valid => gameState.curSnap.messageNum # 0
  /\ LastFrame.ps = LastWorld.ps
  /\ LastFrame.numEntities = Cardinality(DOMAIN LastWorld.entities)
  /\ Listed(gameState.parseEntities, LastFrame.parseEntitiesNum, LastWorld.entities)
  /\ LastFrame.parseEntitiesNum + LastFrame.numEntities = gameState.parseEntitiesNum
  /\ Following(gameState.currentEntities, LastWorld.entities, Watched)

ChainInv == TypeOK /\ (chained => ChainOK)

\* Two worlds together have no more entities than the ring has slots.
LEMMA RingIsLargeEnough ==
  ASSUME MAX_GENTITIES <= MAX_PARSE_ENTITIES,
         NEW D \in SUBSET Numbers, NEW T \in SUBSET Numbers
  PROVE  /\ Cardinality(D) \in Nat /\ Cardinality(T \ D) \in Nat
         /\ Cardinality(D) + Cardinality(T \ D) < MAX_PARSE_ENTITIES
         /\ Cardinality(T) < MAX_PARSE_ENTITIES
<1>1. T \ D \in SUBSET Numbers /\ D \cup (T \ D) \in SUBSET Numbers /\ Numbers \in SUBSET Numbers
  OBVIOUS
<1>2. /\ IsFiniteSet(D) /\ IsFiniteSet(T \ D) /\ IsFiniteSet(Numbers)
      /\ Cardinality(D) \in Nat /\ Cardinality(T \ D) \in Nat /\ Cardinality(T) \in Nat
      /\ Cardinality(D \cup (T \ D)) \in Nat /\ Cardinality(Numbers) \in Nat
  BY <1>1, NumbersFinite
<1>3. Cardinality(Numbers) = MAX_GENTITIES - 1 /\ MAX_GENTITIES \in Nat /\ MAX_PARSE_ENTITIES \in Nat
  <2>1. MAX_GENTITIES \in Nat \ {0, 1} /\ MAX_PARSE_ENTITIES \in Nat
    BY SnapshotsAssumption
  <2>2. Numbers = 0 .. MAX_GENTITIES - 2 /\ MAX_GENTITIES - 2 \in Int
    BY <2>1 DEF Numbers, NoEntity
  <2>3. Cardinality(0 .. MAX_GENTITIES - 2)
          = IF 0 > MAX_GENTITIES - 2 THEN 0 ELSE (MAX_GENTITIES - 2) - 0 + 1
    BY <2>2, FS_Interval
  <2> QED
    BY <2>1, <2>2, <2>3
<1>4. Cardinality(D \cup (T \ D)) <= Cardinality(Numbers) /\ Cardinality(T) <= Cardinality(Numbers)
  BY <1>1, <1>2, FS_Subset
<1>5. Cardinality(D \cup (T \ D)) = Cardinality(D) + Cardinality(T \ D) - Cardinality(D \cap (T \ D))
  BY <1>2, FS_Union
<1>6. Cardinality(D \cap (T \ D)) = 0
  <2>1. D \cap (T \ D) = {}
    OBVIOUS
  <2> QED
    BY <2>1, FS_EmptySet
<1> QED
  BY <1>2, <1>3, <1>4, <1>5, <1>6

LEMMA LastParts ==
  ASSUME TypeOK, gameState.curSnap.messageNum \in 0 .. Len(sent)
  PROVE  LastWorld \in World /\ LastFrame \in Frame
<1>1. LastWorld \in World
  BY WorldOfMessage, NoWorldIsWorld DEF LastWorld, TypeOK
<1>2. LastFrame \in Frame
  <2>1. gameState.curSnap.messageNum \in Nat /\ gameState \in ClientGameState
    BY DEF TypeOK
  <2> QED
    BY <2>1, Slots, NoFrameIsFrame DEF LastFrame, OldFrame, ClientGameState
<1> QED
  BY <1>1, <1>2

\* A message about the last frame can be merged with it.
LEMMA LastMerges ==
  ASSUME TypeOK, ChainOK, ~BlankEntities, MAX_GENTITIES <= MAX_PARSE_ENTITIES,
         NEW to \in World
  PROVE  /\ Mergeable(gameState, LastFrame, LastWorld.entities, to.entities)
         /\ Roomy(gameState, LastFrame, LastWorld.entities, to.entities)
         /\ Cardinality(DOMAIN to.entities) < MAX_PARSE_ENTITIES
<1> DEFINE D == DOMAIN LastWorld.entities
           T == DOMAIN to.entities
<1>1. LastWorld \in World /\ LastFrame \in Frame /\ gameState \in ClientGameState
      /\ baselines \in MapBaselines
  BY LastParts DEF ChainOK, TypeOK
<1>2. EntityMap(LastWorld.entities) /\ EntityMap(to.entities)
  BY <1>1, WorldParts
<1>3. /\ LastFrame.parseEntitiesNum \in Nat /\ LastFrame.numEntities = Cardinality(D)
      /\ LastFrame.parseEntitiesNum + LastFrame.numEntities = gameState.parseEntitiesNum
      /\ Listed(gameState.parseEntities, LastFrame.parseEntitiesNum, LastWorld.entities)
      /\ \A n \in Numbers : gameState.entityBaselines[n] = BaselineOf(n)
  BY <1>1 DEF ChainOK, BaselinesKnown, Frame
<1>4. D \in SUBSET Numbers /\ T \in SUBSET Numbers
  BY <1>2 DEF EntityMap
<1>5. /\ Cardinality(D) \in Nat /\ Cardinality(T \ D) \in Nat
      /\ Cardinality(D) + Cardinality(T \ D) < MAX_PARSE_ENTITIES
      /\ Cardinality(T) < MAX_PARSE_ENTITIES
  BY <1>4, RingIsLargeEnough
<1>6. /\ LastFrame.parseEntitiesNum + Cardinality(D) <= gameState.parseEntitiesNum
      /\ gameState.parseEntitiesNum + Cardinality(T \ D)
           < LastFrame.parseEntitiesNum + MAX_PARSE_ENTITIES
      /\ gameState.parseEntitiesNum + Cardinality(T \ D)
           <= LastFrame.parseEntitiesNum + MAX_PARSE_ENTITIES
  BY <1>3, <1>5, SnapshotsAssumption
<1>7. \A n \in T \ D : Telling(BaselineOf(n), to.entities[n], n)
  BY <1>1, PlayerEntityTells
<1>8. Mergeable(gameState, LastFrame, LastWorld.entities, to.entities)
  BY <1>1, <1>2, <1>3, <1>6, <1>7 DEF Mergeable
<1> QED
  BY <1>5, <1>6, <1>8 DEF Roomy

\* What the application was told of the last world is made what there is to tell
\* of the new one; the player watched comes besides.
LEMMA ToldFollows ==
  ASSUME NEW g, NEW from, NEW to, EntityMap(from), EntityMap(to),
         NEW q, q.currentEntities \in CurrentEntities, ToldBefore(g, from, to, NoEntity, q),
         NEW W, NEW player \in Numbers, player \notin DOMAIN to,
         Following(g.currentEntities, from, W),
         NEW c, c = onEntityUpdated(q.currentEntities, PlayerEntity(player))
  PROVE  Following(c, to, W \cup {player})
<1> DEFINE E == DOMAIN EntityDeltas(from, to)
<1>1. PlayerEntity(player) \in Entity /\ PlayerEntity(player).number = player
  BY NumberRange DEF PlayerEntity, Entity
<1>2. ASSUME NEW n \in Numbers, n # player PROVE c[n] = q.currentEntities[n]
  <2>1. n \in 0 .. NoEntity
    BY NumberRange
  <2> QED
    BY <1>1, <1>2, <2>1, OneIsUpdated
<1>3. ASSUME NEW n \in Numbers
      PROVE  IF n \in E
             THEN IF n \in DOMAIN to
                  THEN q.currentEntities[n] = [valid |-> TRUE, state |-> to[n]]
                  ELSE q.currentEntities[n].valid = FALSE
             ELSE q.currentEntities[n] = g.currentEntities[n]
  <2>1. n < NoEntity
    BY NumberRange
  <2> QED
    BY <2>1 DEF ToldBefore
<1>4. E = {n \in DOMAIN from \cup DOMAIN to :
             n \in DOMAIN from \cap DOMAIN to => from[n] # to[n]}
  BY DeltasAbout
<1>4a. /\ \A n \in DOMAIN from : g.currentEntities[n] = [valid |-> TRUE, state |-> from[n]]
       /\ \A n \in Numbers : g.currentEntities[n].valid => n \in DOMAIN from \cup W
  BY DEF Following
<1> HIDE DEF E
<1>5. ASSUME NEW n \in DOMAIN to
      PROVE  c[n] = [valid |-> TRUE, state |-> to[n]]
  <2>1. n \in Numbers /\ n # player
    BY DEF EntityMap
  <2>2. n \notin E => n \in DOMAIN from /\ from[n] = to[n]
    BY <1>4
  <2> QED
    BY <1>2, <1>3, <1>4a, <2>1, <2>2
<1>6. ASSUME NEW n \in Numbers, c[n].valid, n # player
      PROVE  n \in DOMAIN to \cup W
  <2>1. c[n] = q.currentEntities[n]
    BY <1>2, <1>6
  <2>2. CASE n \in E
    <3>1. n \notin DOMAIN to => c[n].valid = FALSE
      BY <1>3, <2>1, <2>2
    <3> QED
      BY <1>6, <3>1
  <2>3. CASE n \notin E
    <3>1. c[n] = g.currentEntities[n]
      BY <1>3, <2>1, <2>3
    <3>2. n \in DOMAIN from \cup W
      BY <1>4a, <1>6, <3>1
    <3> QED
      BY <1>4, <2>3, <3>2
  <2> QED
    BY <2>2, <2>3
<1> QED
  BY <1>5, <1>6 DEF Following

\* A snapshot about the last one that is taken.
LEMMA ReceivedChain ==
  ASSUME ChainInv, ~BlankEntities, MAX_GENTITIES <= MAX_PARSE_ENTITIES,
         SnapshotReceived, chained'
  PROVE  ChainOK'
<1>base. PICK base \in Bases : \E m : Takes(base, m)
  BY Received
<1>1. PICK m :
        /\ m = Message(base, world')
        /\ gameState' = parseSnapshot(gameState, m)
        /\ taken' = IF gameState'.curSnap.messageNum = m.number
                    THEN taken \cup {m.number} ELSE taken
        /\ chained' = (chained /\ m.number \in taken' /\ base = gameState.curSnap.messageNum)
  BY <1>base DEF Takes
<1>0. PICK f : f = NewFrame(gameState, m)
  OBVIOUS
<1>q. PICK q : q = Parsed(gameState, m)
  OBVIOUS
<1>2. chained /\ m.number \in taken' /\ base = gameState.curSnap.messageNum
  BY <1>1
<1>3. ChainOK /\ Send /\ TypeOK /\ gameState \in ClientGameState
  BY <1>2, Received DEF ChainInv, TypeOK
<1>4. /\ Len(sent) \in Nat /\ Len(sent') = Len(sent) + 1 /\ world' \in World
      /\ world' = sent'[Len(sent) + 1] /\ baselines' = baselines
      /\ \A n \in 1 .. Len(sent) : sent'[n] = sent[n]
  BY <1>3, SendType
<1>5. PICK from, old : from = LastWorld /\ old = LastFrame
  OBVIOUS
<1>6. /\ m.number = Len(sent) + 1 /\ m.number \in 1 .. MaxMessages
      /\ m.base = base /\ base \in 0 .. Len(sent) /\ ReadsEntities(m.entities)
      /\ ApplyFields(OldFrame(gameState, base).ps, m.ps) \in PlayerState
      /\ m.ps = Changes(from.ps, world'.ps)
      /\ m.entities = EntityDeltas(from.entities, world'.entities)
      /\ old = OldFrame(gameState, base)
  <2>1. /\ from = (IF base = 0 THEN NoWorld ELSE sent[base])
        /\ old = OldFrame(gameState, base)
    BY <1>2, <1>5 DEF LastWorld, LastFrame
  <2>2. Len(sent) < MaxMessages
    BY <1>3 DEF Send
  <2> QED
    BY <1>1, <1>3, <1>4, <2>1, <2>2, MessageParts
<1>7. /\ gameState' \in ClientGameState
      /\ Keeps(gameState, m.entities, q) /\ f \in Frame
      /\ gameState'.entityBaselines = gameState.entityBaselines
      /\ gameState'.parseEntities = q.parseEntities
      /\ gameState'.parseEntitiesNum = q.parseEntitiesNum
      /\ gameState'.currentEntities = CurrentAfter(gameState, m)
      /\ IF Usable(gameState, m)
         THEN /\ gameState'.curSnap = f
              /\ gameState'.snapshots = [InvalidateSkipped(gameState, m.number) EXCEPT
                                           ![SnapshotSlot(m.number)] = f]
         ELSE gameState'.curSnap = gameState.curSnap /\ gameState'.snapshots = gameState.snapshots
  <2>1. m.number \in 0 .. MaxMessages /\ m.base \in Nat
    BY <1>6
  <2> QED
    BY <1>0, <1>q, <1>1, <1>3, <1>6, <2>1, SnapshotParts
<1>8. Usable(gameState, m) /\ m.number \notin taken
  <2>1. m.number \notin taken
    BY <1>3, <1>4, <1>6 DEF TypeOK
  <2>2. ASSUME ~Usable(gameState, m) PROVE FALSE
    <3>1. gameState'.curSnap.messageNum = base /\ base # m.number
      BY <1>2, <1>4, <1>6, <1>7, <2>2
    <3> QED
      BY <1>1, <1>2, <1>6, <2>1, <3>1
  <2> QED
    BY <2>1, <2>2
<1>9. /\ f.messageNum = Len(sent) + 1 /\ f.valid = TRUE
      /\ f.parseEntitiesNum = gameState.parseEntitiesNum /\ f.numEntities = q.numEntities
      /\ f.ps = ApplyFields(old.ps, m.ps)
  BY <1>0, <1>q, <1>6 DEF NewFrame
<1>10. from \in World /\ old.ps = from.ps
  BY <1>3, <1>5, LastParts DEF ChainOK
<1>11. f.ps = world'.ps
  <2>1. from.ps \in PlayerState /\ world'.ps \in PlayerState
    BY <1>4, <1>10, WorldParts DEF PlayerState
  <2> QED
    BY <1>6, <1>9, <1>10, <2>1, PlayerStateDelta
<1>12. /\ Mergeable(gameState, old, from.entities, world'.entities)
       /\ Roomy(gameState, old, from.entities, world'.entities)
       /\ Cardinality(DOMAIN world'.entities) < MAX_PARSE_ENTITIES
  BY <1>3, <1>4, <1>5, LastMerges
<1>13. /\ q.numEntities = Cardinality(DOMAIN world'.entities)
       /\ Listed(q.parseEntities, gameState.parseEntitiesNum, world'.entities)
       /\ ToldBefore(gameState, from.entities, world'.entities, NoEntity, q)
  <2>1. q = parsePacketEntities(gameState, old, EntityDeltas(from.entities, world'.entities))
    BY <1>q, <1>6 DEF Parsed
  <2> QED
    BY <1>12, <2>1, MergeExact
<1>14. gameState'.curSnap = f /\ gameState'.curSnap.messageNum = Len(sent) + 1
  BY <1>7, <1>8, <1>9
<1>15. LastFrame' = f
  <2>1. gameState'.snapshots[SnapshotSlot(m.number)] = f
    <3>1. SnapshotSlot(m.number) \in 0 .. PACKET_BACKUP - 1
      BY <1>4, <1>6, Slots
    <3>2. InvalidateSkipped(gameState, m.number) \in [0 .. PACKET_BACKUP - 1 -> Frame]
      BY <1>3, <3>1, InvalidateParts
    <3> QED
      BY <1>7, <1>8, <3>1, <3>2
  <2>2. ~(gameState'.curSnap.messageNum <= 0)
    BY <1>4, <1>14
  <2> QED
    BY <1>6, <1>14, <2>1, <2>2 DEF LastFrame, OldFrame
<1>16. LastWorld' = world'
  <2>1. ~(gameState'.curSnap.messageNum = 0)
    BY <1>4, <1>14
  <2> QED
    BY <1>4, <1>14, <2>1 DEF LastWorld
<1>17. Watched \cup {world'.ps.number} \subseteq Watched'
  <2>0. taken \subseteq 2 .. Len(sent)
    BY <1>3 DEF TypeOK
  <2>1. taken \subseteq 1 .. Len(sent) /\ taken \subseteq taken' /\ Len(sent) + 1 \in taken'
    <3>1. taken \subseteq taken' /\ Len(sent) + 1 \in taken'
      BY <1>1, <1>2, <1>6
    <3>2. 2 .. Len(sent) \subseteq 1 .. Len(sent)
      BY <1>4
    <3> QED
      BY <2>0, <3>1, <3>2
  <2>2. \A n \in taken : sent'[n].ps.number \in Watched' /\ sent'[n] = sent[n]
    BY <1>4, <2>1 DEF Watched
  <2>3. world'.ps.number \in Watched'
    BY <1>4, <2>1 DEF Watched
  <2> QED
    BY <2>2, <2>3 DEF Watched
<1>18. Following(gameState'.currentEntities, world'.entities, Watched \cup {world'.ps.number})
  <2>1. /\ world'.ps.number \in Numbers /\ world'.ps.number \notin DOMAIN world'.entities
        /\ EntityMap(world'.entities) /\ EntityMap(from.entities)
    BY <1>4, <1>10, WorldParts
  <2>2. q.currentEntities \in CurrentEntities
    BY <1>7 DEF Keeps, ParseType
  <2>3. gameState'.currentEntities
          = onEntityUpdated(q.currentEntities, PlayerEntity(world'.ps.number))
    BY <1>q, <1>6, <1>7, <1>9, <1>11 DEF CurrentAfter
  <2>4. Following(gameState.currentEntities, from.entities, Watched)
    BY <1>3, <1>5 DEF ChainOK
  <2> QED
    BY <1>13, <2>1, <2>2, <2>3, <2>4, ToldFollows
<1>19. gameState.parseEntitiesNum + q.numEntities = gameState'.parseEntitiesNum
  BY <1>3, <1>7, KeepsOld
<1>20. BaselinesKnown'
  BY <1>3, <1>4, <1>7 DEF ChainOK, BaselinesKnown, BaselineOf
<1>21. gameState'.curSnap.messageNum \in 0 .. Len(sent') /\ gameState'.curSnap.messageNum # 0
  BY <1>4, <1>14
<1>22. LastFrame'.ps = LastWorld'.ps
  BY <1>11, <1>15, <1>16
<1>23. LastFrame'.numEntities = Cardinality(DOMAIN LastWorld'.entities)
  BY <1>9, <1>13, <1>15, <1>16
<1>24. Listed(gameState'.parseEntities, LastFrame'.parseEntitiesNum, LastWorld'.entities)
  BY <1>7, <1>9, <1>13, <1>15, <1>16
<1>25. LastFrame'.parseEntitiesNum + LastFrame'.numEntities = gameState'.parseEntitiesNum
  BY <1>9, <1>15, <1>19
<1>26. Following(gameState'.currentEntities, LastWorld'.entities, Watched')
  BY <1>16, <1>17, <1>18 DEF Following
<1> QED
  BY <1>20, <1>21, <1>22, <1>23, <1>24, <1>25, <1>26 DEF ChainOK

\* A snapshot that is lost changes nothing of what the observer has.
LEMMA LostChain ==
  ASSUME ChainInv, SnapshotLost, chained
  PROVE  ChainOK'
<1>1. ChainOK /\ TypeOK /\ Send /\ UNCHANGED <<gameState, taken, chained>>
  BY DEF ChainInv, SnapshotLost
<1>2. /\ Len(sent) \in Nat /\ Len(sent') = Len(sent) + 1 /\ baselines' = baselines
      /\ \A n \in 1 .. Len(sent) : sent'[n] = sent[n]
  BY <1>1, SendType
<1>3. gameState.curSnap.messageNum \in 0 .. Len(sent)
  BY <1>1 DEF ChainOK
<1>4. LastFrame' = LastFrame /\ LastWorld' = LastWorld
  BY <1>1, <1>2, <1>3 DEF LastFrame, LastWorld
<1>5. Watched' = Watched
  BY <1>1, <1>2 DEF Watched, TypeOK
<1>6. Following(gameState'.currentEntities, LastWorld'.entities, Watched')
  BY <1>1, <1>4, <1>5 DEF ChainOK
<1>7. BaselinesKnown'
  BY <1>1, <1>2 DEF ChainOK, BaselinesKnown, BaselineOf
<1>8. gameState'.curSnap.messageNum \in 0 .. Len(sent')
  BY <1>1, <1>2, <1>3
<1> QED
  BY <1>1, <1>4, <1>6, <1>7, <1>8 DEF ChainOK

LEMMA InitChain ==
  ASSUME Init
  PROVE  ChainInv
<1>1. TypeOK /\ baselines \in MapBaselines /\ gameState = parseBaselines(GameStateReset, baselines)
  BY InitType DEF Init
<1>2. /\ gameState.curSnap = NoFrame /\ gameState.parseEntitiesNum = 0
      /\ gameState.currentEntities = GameStateReset.currentEntities
      /\ \A n \in Numbers : gameState.entityBaselines[n]
           = IF n \in DOMAIN baselines THEN baselines[n] ELSE Blank(0)
  BY <1>1, ResetType, BaselinesParts
<1>3. BaselinesKnown
  BY <1>2 DEF BaselinesKnown, BaselineOf
<1>4. gameState.curSnap.messageNum = 0 /\ gameState.curSnap.valid = FALSE
  BY <1>2 DEF NoFrame
<1>5. LastFrame = NoFrame /\ LastWorld = NoWorld
  BY <1>4 DEF LastFrame, LastWorld, OldFrame
<1>6. DOMAIN NoWorld.entities = {} /\ Cardinality({}) = 0 /\ NoWorld.ps = NoFrame.ps
  BY NoWorldIsWorld, FS_EmptySet DEF NoWorld, NoFrame
<1>7. NoFrame.parseEntitiesNum = 0 /\ NoFrame.numEntities = 0
  BY DEF NoFrame
<1>8. Following(gameState.currentEntities, NoWorld.entities, Watched)
  <2>1. \A n \in Numbers : gameState.currentEntities[n].valid = FALSE
    BY <1>2, ResetType
  <2> QED
    BY <1>6, <2>1 DEF Following
<1>9. Listed(gameState.parseEntities, NoFrame.parseEntitiesNum, NoWorld.entities)
  BY <1>6 DEF Listed
<1>10. 0 \in 0 .. Len(sent)
  BY DEF Init
<1> QED
  BY <1>1, <1>2, <1>3, <1>4, <1>5, <1>6, <1>7, <1>8, <1>9, <1>10 DEF ChainInv, ChainOK

\* When no entity is all zero and the ring has at least as many slots as there
\* are entity numbers, then while each snapshot is the difference from the one
\* received before, the current entities are those of the snapshot with their
\* states, and besides them only players watched now or earlier
\* (ServerPacketParser.cpp:308-311, 517-537).
THEOREM CurrentEntitiesAreTold ==
  ASSUME ~BlankEntities, MAX_GENTITIES <= MAX_PARSE_ENTITIES
  PROVE  Spec => []CurrentEntitiesFollow
<1>1. Init => ChainInv
  BY InitChain
<1>2. ChainInv /\ [Next]_vars => ChainInv'
  <2> SUFFICES ASSUME ChainInv, [Next]_vars, chained' PROVE ChainOK'
    BY StepType DEF ChainInv
  <2>1. CASE SnapshotLost
    BY <2>1, LostChain DEF SnapshotLost
  <2>2. CASE SnapshotReceived
    BY <2>2, ReceivedChain
  <2>3. CASE GamestateReceived
    BY <2>3 DEF GamestateReceived
  <2>4. CASE UNCHANGED vars
    BY <2>4
    DEF ChainInv, ChainOK, LastFrame, LastWorld, Following, Watched, BaselinesKnown,
        BaselineOf, vars, serverVars
  <2> QED
    BY <2>1, <2>2, <2>3, <2>4 DEF Next
<1>3. ChainInv => CurrentEntitiesFollow
  <2> SUFFICES ASSUME ChainInv, chained, gameState.curSnap.valid
               PROVE  CurrentEntitiesFollow
    BY DEF CurrentEntitiesFollow
  <2>1. /\ Following(gameState.currentEntities, LastWorld.entities, Watched)
        /\ gameState.curSnap.messageNum # 0
    BY DEF ChainInv, ChainOK
  <2> QED
    BY <2>1 DEF CurrentEntitiesFollow, Following, LastWorld
<1> QED
  BY <1>1, <1>2, <1>3, PTL DEF Spec
=============================================================================
