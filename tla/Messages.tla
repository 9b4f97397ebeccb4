-------------------------------- MODULE Messages --------------------------------
(***************************************************************************)
(* A message: items written one after the other, then read in the same     *)
(* order by someone who knows what kind each of them is and what it is a   *)
(* difference from.  Any item may come first; a number after it tells      *)
(* whether the reader is still where the writer was.  In a small buffer a  *)
(* number in front leaves room for a part of an item only.                 *)
(***************************************************************************)
EXTENDS StateDeltas, PacketEncoder

CONSTANTS MaxItems,    \* bound: items of a message
          LargeBuffer, \* bytes, more than any message needs
          SmallBuffer  \* bytes, too few for a number and a long item

VARIABLES msg,      \* the CompressedMessage
          written,  \* items that are wholly in the message
          cut,      \* items of which a part found no room
          end,      \* the bit behind the items that are wholly in the message
          reading,  \* whether the writer is done
          read      \* what was read

messageVars == <<msg, written, cut, end, reading, read>>

-----------------------------------------------------------------------------
(* What is written.                                                        *)

Top(width)  == ValueOf([i \in 1 .. width |-> 1])
Half(width) == ValueOf([i \in 1 .. width |-> IF i = width THEN 1 ELSE 0])
Samples(width) == {0, 1, Half(width), Top(width)}

BitItems == UNION {[op : {"bits"}, width : {w}, val : Samples(w)] : w \in 1 .. 31}

LongItems == [op : {"long"}, val : Samples(32)]
ShortItems == [op : {"short"}, val : {0, 32767, -32768, -1}]
OutOfBandItems == [op : {"oob"}, width : {32}, val : Samples(32)]

Letter == 97
StringItems ==
  [op : {"string"}, val : UNION {[1 .. n -> {Letter, Newline, Percent, 255}] :
                                   n \in 0 .. MAX_BIG_STRING - 1},
   line : BOOLEAN, translate : BOOLEAN]

DataItems == [op : {"data"}, val : {<<0, 255>>}]

FloatItems ==
  [op : {"float"}, val : {ZERO, MINUS_0, NaN}]
  \cup [op : {"float delta", "keyed float delta"}, key : {-1, 77},
        old : {ZERO, MINUS_1, NaN}, val : {ZERO, MINUS_0, MINUS_1, NaN}]

\* The header of a packet, and the command it acknowledges.  A byte of the header has
\* at most 9 bits, so that with two bytes that are not 0 it keeps to its place.
KeyStrings == {<< >>, <<Percent>>, <<255, 1, Percent>>}
HeaderItems ==
  [op : {"server packet"}, ack : {0, 255, 65535}, keyString : KeyStrings]
  \cup [op : {"client packet"}, qport : {65535}, serverId : {-1, 1000}, messageAck : {7},
        ack : {0, 65535}, keyString : KeyStrings]

\* A move by its time and the one field that is not as in the move before.
Move(time, v, i, new) ==
  [serverTime |-> time, fields |-> [[j \in 1 .. 11 |-> v] EXCEPT ![i] = new]]
FieldValues(i) == IF i \in Moves THEN {0, 127, -128} ELSE Samples(UsercmdBits[i])
MoveItems ==
  UNION {[op : {"move"}, time : {0, 255, 256}, old : {0, 1}, field : {i},
          new : FieldValues(i)]
         \cup [op : {"keyed move"}, time : {0, 1, 255, 256}, old : {0, 1}, field : {i},
               new : FieldValues(i), key : {0, 65539, -1}] : i \in 1 .. 11}

\* A number of negative width has a sign.
FieldSamples(width) ==
  IF width = 0 THEN DOMAIN Truncated \cup {OneHalf}
  ELSE IF width > 0 THEN Samples(width)
  ELSE {0, 1, -1, -Half(-width), Half(-width) - 1}

\* Entities and players whose fields are all the same number before; one field
\* or two of them are new.  An entity's last field does not change.
Change(table, i) == [{i} -> FieldSamples(table[i])]
ChangeOfTwo(table, i) == {[j \in {1, i} |-> 0]}
Changes(table) ==
  UNION {Change(table, i) \cup ChangeOfTwo(table, i) : i \in 1 .. Len(table)}

EntityTable == SubSeq(entityStateFields, 1, EntityFieldCount - 1)
EntityItems ==
  [op : {"entity"}, number : {MAX_GENTITIES - 2}, old : {0, 1},
   changes : Changes(EntityTable) \cup {<< >>}]
RemovalItems == [op : {"removal"}, number : {0, MAX_GENTITIES - 1}]

NoArrays == [a \in {} |-> 0]
ElementValues(a, i) ==
  CASE a = "powerups" -> {1, -1}
    [] a = "stats" /\ i = STAT_WEAPONS + 1 -> {2 ^ MAX_WEAPONS - 1}
    [] OTHER -> {1, -32768}
ArrayChanges ==
  UNION {UNION {[as -> {<<i, v>> : v \in {1} \cup
                         (IF Cardinality(as) = 1
                          THEN UNION {ElementValues(a, i) : a \in as} ELSE {})}] :
                 i \in {1, STAT_WEAPONS + 1, 16}} :
         as \in SUBSET {Arrays[j] : j \in 1 .. 4} \ {{}}}
PlayerItems ==
  UNION {[op : {"player"}, pilot : {p.pilot}, vehicle : {p.vehicle},
          changes : Changes(PlayerFields(p.pilot, p.vehicle)), arrays : {NoArrays}] :
         p \in {[pilot |-> FALSE, vehicle |-> FALSE], [pilot |-> TRUE, vehicle |-> FALSE],
                [pilot |-> FALSE, vehicle |-> TRUE]}}
  \cup [op : {"player"}, pilot : BOOLEAN, vehicle : {FALSE}, changes : {<< >>},
        arrays : ArrayChanges]

Probe == [op |-> "long", val |-> 2139062143]
\* What is out of band comes first, if at all.
Items == BitItems \cup LongItems \cup ShortItems \cup StringItems \cup DataItems
         \cup FloatItems \cup MoveItems \cup EntityItems \cup RemovalItems \cup PlayerItems
FirstItems == Items \cup OutOfBandItems \cup HeaderItems

-----------------------------------------------------------------------------
(* The two states an item is the difference of.                            *)

OldMove(item) == [serverTime |-> 7, fields |-> [i \in 1 .. 11 |-> item.old]]
NewMove(item) == Move(7 + item.time, item.old, item.field, item.new)

All(count, v) == [i \in 1 .. count |-> v]
Changed(fields, changes) ==
  [i \in DOMAIN fields |-> IF i \in DOMAIN changes THEN changes[i] ELSE fields[i]]

OldEntity(item) == [number |-> item.number, fields |-> All(EntityFieldCount, item.old)]
NewEntity(item) == [OldEntity(item) EXCEPT !.fields = Changed(@, item.changes)]

OldPlayer(item) ==
  [fields |-> All(Len(PlayerFields(item.pilot, item.vehicle)), 1),
   arrays |-> [a \in Range(Arrays) |-> All(16, 0)]]
NewPlayer(item) ==
  [fields |-> Changed(OldPlayer(item).fields, item.changes),
   arrays |-> [a \in Range(Arrays) |->
                 IF a \in DOMAIN item.arrays
                 THEN [All(16, 0) EXCEPT ![item.arrays[a][1]] = item.arrays[a][2]]
                 ELSE All(16, 0)]]

-----------------------------------------------------------------------------
(* The library's function for each kind of item.                           *)

WriteItem(m, item) ==
  CASE item.op = "bits"       -> writeBits(m, item.val, item.width)
    [] item.op = "long"       -> writeLong(m, item.val)
    [] item.op = "short"      -> writeShort(m, item.val)
    [] item.op = "oob"        -> writeOOB(m, item.val, item.width)
    [] item.op = "string"     -> writeString(m, item.val)
    [] item.op = "data"       -> writeData(m, item.val)
    [] item.op = "float"      -> writeFloat(m, item.val)
    [] item.op = "float delta" -> writeDeltaFloat(m, item.old, item.val)
    [] item.op = "keyed float delta" -> writeDeltaKeyFloat(m, item.key, item.old, item.val)
    [] item.op = "server packet" -> writeLong(m, item.ack)
    [] item.op = "client packet" ->
         writeLong(writeLong(writeLong(writeOOB(m, item.qport, 8 * QPORT_LEN), item.serverId),
                             item.messageAck), item.ack)
    [] item.op = "move"       -> writeDeltaUsercmd(m, OldMove(item), NewMove(item))
    [] item.op = "keyed move" ->
         writeDeltaUsercmdKey(m, item.key, OldMove(item), NewMove(item))
    [] item.op = "entity"     -> writeDeltaEntity(m, OldEntity(item), NewEntity(item), TRUE)
    [] item.op = "removal"    -> RemoveEntity(m, item.number)
    [] item.op = "player"     ->
         writeDeltaPlayerstate(m, OldPlayer(item), NewPlayer(item), item.pilot, item.vehicle)

\* A long is looked at before it is read; the number of an entity is read by
\* whoever reads the entity.
ReadItem(m, item) ==
  CASE item.op = "bits"       -> readBits(m, item.width)

    [] item.op = "long"       ->
         After(peekLong(m), LAMBDA peeked, start :
           After(readLong(start), LAMBDA v, at : Result(<<peeked, v>>, at)))
    [] item.op = "short"      -> readShort(m)
    [] item.op = "oob"        -> readOOB(m, item.width)
    [] item.op = "string"     -> IF item.line THEN readStringLine(m, item.translate)
                                 ELSE readString(m, FALSE, item.translate)
    [] item.op = "data"       -> readData(m, Len(item.val))
    [] item.op = "float"      -> readFloat(m)
    [] item.op = "float delta" -> readDeltaFloat(m, item.old)
    [] item.op = "keyed float delta" -> readDeltaKeyFloat(m, item.key, item.old)
    [] item.op = "move"       -> readDeltaUsercmd(m, OldMove(item))
    [] item.op = "keyed move" -> readDeltaUsercmdKey(m, item.key, OldMove(item))
    [] item.op \in {"entity", "removal"} ->
         LET from == IF item.op = "entity" THEN OldEntity(item) ELSE BlankEntity
         IN  After(readBits(m, GENTITYNUM_BITS), LAMBDA number, at :
               readDeltaEntity(at, from, BlankEntity, number))
    [] item.op = "player"     -> readDeltaPlayerstate(m, OldPlayer(item), item.vehicle)

resetReadState(m) == [m EXCEPT !.bit = 0, !.readcount = 0]

MessageInit ==
  /\ msg \in {NewMessage(LargeBuffer), NewMessage(SmallBuffer)}
  /\ written = << >> /\ cut = << >> /\ end = 0 /\ reading = FALSE /\ read = << >>

\* An item that no longer fits, wholly or in part, is not read later.  The check for
\* room is "close enough": what is put behind the end of the buffer is not modelled.
Write(item) ==
  /\ ~reading
  /\ Len(written) + Len(cut) < MaxItems
  /\ msg' = WriteItem(msg, item)
  /\ msg'.cursize <= msg.maxSize
  /\ IF msg'.overflowed
     THEN cut' = Append(cut, item) /\ UNCHANGED <<written, end>>
     ELSE written' = Append(written, item) /\ end' = msg'.bit /\ UNCHANGED cut
  /\ UNCHANGED <<reading, read>>

WriteFirst  == msg.maxSize = LargeBuffer /\ written = << >> /\ \E item \in FirstItems : Write(item)
WriteNumber == (msg.maxSize = LargeBuffer => written # << >>) /\ Write(Probe)
WriteBehind ==
  /\ msg.maxSize = SmallBuffer /\ written = <<Probe>> /\ cut = << >>
  /\ \E item \in Items : Write(item)

\* Each end of the channel finds the acknowledged command in its own store.
Encoded(m, item) ==
  LET command == item.ack :> item.keyString
  IN  IF item.op = "server packet" THEN ServerPacketEncoder(m, 1000, 77, command)
      ELSE ClientPacketEncoder(m, 77, command)

\* A packet is scrambled on one end and unscrambled on the other, header first.
StartReading ==
  /\ ~reading /\ written # << >>
  /\ reading' = TRUE
  /\ IF written[1] \in HeaderItems
     THEN LET scrambled == Encoded(resetReadState(msg), written[1])
              packet    == Encoded(resetReadState(scrambled.msg), written[1])
          IN  msg' = packet.msg /\ read' = <<packet.val>>
     ELSE msg' = resetReadState(msg) /\ UNCHANGED read
  /\ UNCHANGED <<written, cut, end>>

Read ==
  /\ reading
  /\ Len(read) < Len(written)
  /\ LET r == ReadItem(msg, written[Len(read) + 1])
     IN  msg' = r.msg /\ read' = Append(read, r.val)
  /\ UNCHANGED <<written, cut, end, reading>>

MessageNext == WriteFirst \/ WriteNumber \/ WriteBehind \/ StartReading \/ Read

MessageSpec == MessageInit /\ [][MessageNext]_messageVars

-----------------------------------------------------------------------------
(* Properties.                                                             *)

UpToNewline(s, line) ==
  IF line /\ Newline \in Range(s)
  THEN SubSeq(s, 1, (CHOOSE i \in DOMAIN s : s[i] = Newline /\
                                            \A j \in 1 .. i - 1 : s[j] # Newline) - 1)
  ELSE s

\* The fields of negative width that have changed, but for an entity's to zero:
\* writeBitsVariable writes nothing of their value, whose bits the reader takes from
\* what comes next.
LostFields(item) ==
  CASE item.op = "entity" ->
         {i \in DOMAIN item.changes : EntityTable[i] < 0 /\ item.changes[i] \notin {0, item.old}}
    [] item.op = "player" ->
         {i \in DOMAIN item.changes :
            PlayerFields(item.pilot, item.vehicle)[i] < 0 /\ item.changes[i] # 1}
    [] OTHER -> {}

\* A line that is not all of its string leaves the reader in the string, and a lost
\* field leaves it anywhere.
InPlace(i) ==
  \A j \in 1 .. i - 1 :
    /\ ~(written[j].op = "string" /\ written[j].line /\ Newline \in Range(written[j].val))
    /\ LostFields(written[j]) = {}

ReadsAs(kinds, IsRead(_, _)) ==
  \A i \in DOMAIN read :
    InPlace(i) /\ written[i].op \in kinds => IsRead(read[i], written[i])

\* An unsigned number of up to 31 bits, a long or a short, raw or out of band, is read
\* as it was written, and a float but for the sign of a zero; looking at a long does
\* not move the reader; a string is read up to its end or, if asked for, its first
\* line, with the percent signs replaced if asked for; and the header of a packet and
\* the number behind it come through scrambling and unscrambling (CompressedMessage.h
\* lines 102-340, 380-435, CompressedMessage.cpp lines 13-63, PacketEncoder.h lines
\* 13-99).
NumbersReadBack ==
  /\ ReadsAs({"bits", "short", "oob", "data", "float"}, LAMBDA v, item : v = item.val)
  /\ ReadsAs({"float delta", "keyed float delta"},
             LAMBDA v, item : v = item.val \/ SameFloat(v, item.val))
  /\ ReadsAs({"server packet"}, LAMBDA v, item : v = item.ack)
  /\ ReadsAs({"client packet"},
             LAMBDA v, item : v = <<item.qport, item.serverId, item.messageAck, item.ack>>)
  /\ ReadsAs({"long"}, LAMBDA v, item : v = <<item.val, item.val>>)
  /\ ReadsAs({"string"}, LAMBDA v, item :
       v = [i \in DOMAIN UpToNewline(item.val, item.line) |->
              IF item.translate /\ item.val[i] = Percent THEN Dot ELSE item.val[i]])

\* A move is read as it was written, scrambled or not; of a scrambled angle or
\* button only the 16 bits that are sent can be relied on, as the mask of the key
\* has 17 (CompressedMessage.h lines 344-378, 438-566).
SameMove(a, b) ==
  /\ a.serverTime = b.serverTime
  /\ \A i \in 1 .. 11 : (a.fields[i] - b.fields[i]) % 2 ^ UsercmdBits[i] = 0
MovesReadBack ==
  /\ ReadsAs({"move"}, LAMBDA move, item : move = NewMove(item))
  /\ ReadsAs({"keyed move"}, LAMBDA move, item : SameMove(move, NewMove(item)))

\* Fields are as they should be, but for the sign of a zero, up to the first lost one.
SameFields(table, a, b, lost) ==
  \A i \in DOMAIN b :
    (\A j \in lost : i < j) => a[i] = b[i] \/ (table[i] = 0 /\ SameFloat(a[i], b[i]))

\* An entity is read as it was written against the same base, whichever of its fields
\* is changed to whichever of the values that are treated differently, and a removal
\* as the removal of what it names (CompressedMessage.cpp lines 67-239, the table at
\* JKADefsNet.h line 22).  NOT so if the field of negative width, modelindex (line 88),
\* changes to something other than zero: nothing is written for it
\* (CompressedMessage.h lines 94-98) and 16 bits are read, so that only the fields in
\* front of it can be relied on.
EntitiesReadBack ==
  /\ ReadsAs({"entity"}, LAMBDA entity, item :
       /\ entity.number = item.number
       /\ SameFields(entityStateFields, entity.fields, NewEntity(item).fields,
                     LostFields(item)))
  /\ ReadsAs({"removal"}, LAMBDA entity, item :
       entity = [BlankEntity EXCEPT !.number = MAX_GENTITIES - 1])

\* The same of players, on foot, in a vehicle and for the vehicle, with their arrays
\* (CompressedMessage.cpp lines 241-520, the tables at JKADefsNet.h lines 213, 366 and
\* 514).  NOT so if a field of negative width changes to whatever (weaponTime,
\* viewheight, basespeed, pm_time and eventParms[0]): the fields behind it and the
\* arrays are lost too.
PlayersReadBack ==
  ReadsAs({"player"}, LAMBDA player, item :
    /\ SameFields(PlayerFields(item.pilot, item.vehicle), player.fields,
                  NewPlayer(item).fields, LostFields(item))
    /\ LostFields(item) = {} => player.arrays = NewPlayer(item).arrays)

\* What the items give in a buffer that has room for them.
Unbounded(items) ==
  Iterated(LAMBDA m, i : WriteItem(m, items[i]), NewMessage(LargeBuffer), Len(items)).data

\* After as many reads as there are whole items the reader stands where the writer did
\* after them, so that what comes next is read from its first bit, be it an item that
\* was cut off in the middle; and such an item is cut off once and for all: what is in
\* the buffer is the beginning of what was to be written, and no later part of it,
\* however small, is put behind a part that found no room (CompressedMessage.h lines
\* 78-81, 107-111, 130, 196, 225).  NOT so behind a field of negative width.
ReaderEndsWhereWriterDid ==
  /\ reading /\ Len(read) = Len(written) /\ InPlace(Len(read) + 1) => msg.bit = end
  /\ ~reading /\ cut # << >> => IsPrefix(msg.data, Unbounded(written \o cut))
=============================================================================
