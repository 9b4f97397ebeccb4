------------------------------ MODULE StateDeltas ------------------------------
(***************************************************************************)
(* How CompressedMessage sends the state of an entity or of a player as a  *)
(* difference against an earlier one: the number of fields up to the last  *)
(* one that differs, then a bit for each and its new value.  An entity is  *)
(* its number and its fields; a player its fields and four arrays.         *)
(***************************************************************************)
EXTENDS CompressedMessage

\* The floats without a fraction that are looked at: pattern and number.  Minus zero
\* has none of its own to be read from.
IntegralFloats ==
  0 :> 0 @@ 1065353216 :> 1 @@ -1082130432 :> -1 @@ 1166012416 :> 4095 @@
  1166016512 :> 4096 @@ -981467136 :> -4096 @@ -981465088 :> -4097
OneHalf == 1056964608
Truncated == MINUS_0 :> 0 @@ IntegralFloats

FloatFits(pattern) ==
  /\ pattern \in DOMAIN Truncated
  /\ Truncated[pattern] + FLOAT_INT_BIAS \in 0 .. 2 ^ FLOAT_INT_BITS - 1

FloatOf(n) ==
  LET patterns == {p \in DOMAIN IntegralFloats : IntegralFloats[p] = n}
  IN  IF patterns = {} THEN n ELSE CHOOSE p \in patterns : TRUE

writeFloatField(m, v) ==
  IF FloatFits(v)
  THEN writeBits(writeBit(m, 0), Truncated[v] + FLOAT_INT_BIAS, FLOAT_INT_BITS)
  ELSE writeBits(writeBit(m, 1), v, 32)

readFloatField(m) ==
  LET trunc(v, at) == Result(FloatOf(v - FLOAT_INT_BIAS), at)
  IN  After(readBit(m), LAMBDA full, at :
        IF full = 1 THEN readBits(at, 32) ELSE After(readBits(at, FLOAT_INT_BITS), trunc))

writeValue(m, width, v) ==
  IF width = 0 THEN writeFloatField(m, v) ELSE writeBitsVariable(m, v, width)

readValue(m, width) ==
  IF width = 0 THEN readFloatField(m) ELSE readBitsVariable(m, width)

\* The number of the last field that differs.
LastChanged(from, to, count) ==
  LET differs == {i \in 1 .. count : from[i] # to[i]}
  IN  IF differs = {} THEN 0 ELSE CHOOSE i \in differs : \A j \in differs : j <= i


-----------------------------------------------------------------------------
(* Entities.  A changed field that is zero, of either sign, takes one bit. *)

EntityFieldCount == Len(entityStateFields)

BlankEntity == [number |-> 0, fields |-> [i \in 1 .. EntityFieldCount |-> 0]]

IsZero(width, v) == v = 0 \/ (width = 0 /\ v = MINUS_0)

writeEntityField(m, width, old, new) ==
  IF old = new THEN writeBit(m, 0)
  ELSE IF IsZero(width, new) THEN writeBit(writeBit(m, 1), 0)
  ELSE writeValue(writeBit(writeBit(m, 1), 1), width, new)

\* A changed field: zero, or what follows.
readNonzero(m, width, zero) ==
  After(readBit(m), LAMBDA nonzero, at :
    IF nonzero = 0 THEN Result(zero, at) ELSE readValue(at, width))

\* Mutant: a changed field that is zero is taken for an unchanged one.
ReadZeroAsUnchanged(m, width, old) ==
  After(readBit(m), LAMBDA changed, at :
    IF changed = 0 THEN Result(old, at) ELSE readNonzero(at, width, old))

readEntityField(m, width, old) ==
  After(readBit(m), LAMBDA changed, at :
    IF changed = 0 THEN Result(old, at) ELSE readNonzero(at, width, 0))

RemoveEntity(m, number) == writeBit(writeBits(m, number, GENTITYNUM_BITS), 1)

writeDeltaEntity(m, from, to, force) ==
  LET lc     == LastChanged(from.fields, to.fields, EntityFieldCount)
      header == writeBit(writeBits(m, to.number, GENTITYNUM_BITS), 0)
      field(at, i) == writeEntityField(at, entityStateFields[i],
                                       from.fields[i], to.fields[i])
  IN  IF lc # 0
      THEN Iterated(field, writeByte(writeBit(header, 1), lc), lc)
      ELSE IF force THEN writeBit(header, 0) ELSE m

\* The first fields from the message, the others from the base; a message with the
\* last field is taken for corrupt.
readEntityFields(m, count, from, to, number) ==
  LET field(at, i) == readEntityField(at, entityStateFields[i], from.fields[i])
      others == SubSeq(from.fields, count + 1, EntityFieldCount)
  IN  IF count >= EntityFieldCount THEN Result([to EXCEPT !.number = number], m)
      ELSE After(ReadFields(field, m, count), LAMBDA fields, at :
             Result([number |-> number, fields |-> fields \o others], at))

readEntityDelta(m, from, to, number) ==
  LET fields(count, at) == readEntityFields(at, count, from, to, number)
  IN  After(readBit(m), LAMBDA delta, at :
        IF delta = 0 THEN Result(from, at) ELSE After(readByte(at), fields))

\* A removal has a number of its own.
readDeltaEntity(m, from, to, number) ==
  After(readBit(m), LAMBDA removed, at :
    IF removed = 1 THEN Result([BlankEntity EXCEPT !.number = MAX_GENTITIES - 1], at)
    ELSE readEntityDelta(at, from, to, number))

-----------------------------------------------------------------------------
(* Players: a table of their own for who is in a vehicle and for vehicles. *)

PlayerFields(isPilot, isVehiclePS) ==
  CASE isVehiclePS -> vehPlayerStateFields
    [] isPilot /\ ~isVehiclePS ->
         SubSeq(pilotPlayerStateFields, 1, Len(pilotPlayerStateFields) - 82)
    [] OTHER -> playerStateFields

writePlayerField(m, width, old, new) ==
  IF old = new THEN writeBit(m, 0) ELSE writeValue(writeBit(m, 1), width, new)

readPlayerField(m, width, old) ==
  After(readBit(m), LAMBDA changed, at :
    IF changed = 0 THEN Result(old, at) ELSE readValue(at, width))

\* The arrays in the order of transmission, each of 16 elements, and the bits
\* of element i: the weapons have a bit each.
Arrays == <<"stats", "persistant", "ammo", "powerups">>
STAT_WEAPONS == 4
MAX_WEAPONS  == 19

writeElement(m, array, i, v) ==
  CASE array = "powerups" -> writeLong(m, v)
    [] array = "stats" /\ i = STAT_WEAPONS + 1 -> writeBits(m, v, MAX_WEAPONS)
    [] OTHER -> writeShort(m, v)

\* Mutant: every element of the stats is a short.
ReadShortElement(m, array, i) ==
  IF array = "powerups" THEN readLong(m) ELSE readShort(m)

readElement(m, array, i) ==
  CASE array = "powerups" -> readLong(m)
    [] array = "stats" /\ i = STAT_WEAPONS + 1 -> readBits(m, MAX_WEAPONS)
    [] OTHER -> readShort(m)

ChangedBits(old, new) == [i \in 1 .. 16 |-> IF old[i] # new[i] THEN 1 ELSE 0]

writeArray(m, array, old, new) ==
  LET changed == ChangedBits(old, new)
      element(at, i) == IF changed[i] = 1 THEN writeElement(at, array, i, new[i]) ELSE at
  IN  IF old = new THEN writeBit(m, 0)
      ELSE Iterated(element, writeShort(writeBit(m, 1), ValueOf(changed)), 16)

readArray(m, array, old) ==
  LET element(mask, at, i) == IF BitOf(mask, i - 1) = 1 THEN readElement(at, array, i)
                              ELSE Result(old[i], at)
      elements(mask, m2) == ReadFields(LAMBDA at, i : element(mask, at, i), m2, 16)
  IN  After(readBit(m), LAMBDA present, at :
        IF present = 0 THEN Result(old, at) ELSE After(readShort(at), elements))

writeDeltaPlayerstate(m, from, to, isPilot, isVehiclePS) ==
  LET table  == PlayerFields(isPilot, isVehiclePS)
      lc     == LastChanged(from.fields, to.fields, Len(table))
      header == IF isVehiclePS THEN m ELSE BitWritten(m, isPilot)
      field(at, i) == writePlayerField(at, table[i], from.fields[i], to.fields[i])
      fields == Iterated(field, writeByte(header, lc), lc)
      array(at, i) == writeArray(at, Arrays[i], from.arrays[Arrays[i]], to.arrays[Arrays[i]])
  IN  IF from.arrays = to.arrays THEN writeBit(fields, 0)
      ELSE Iterated(array, writeBit(fields, 1), Len(Arrays))

readPlayerFields(m, table, from) ==
  LET field(at, i) == readPlayerField(at, table[i], from.fields[i])
  IN  After(readByte(m), LAMBDA lc, first :
        IF lc >= Len(pilotPlayerStateFields) THEN Result(<< >>, first)
        ELSE After(ReadFields(field, first, lc), LAMBDA fields, at :
               Result(fields \o SubSeq(from.fields, lc + 1, Len(table)), at)))

readArrays(m, from) ==
  LET array(r, i) == After(readArray(r.msg, Arrays[i], from.arrays[Arrays[i]]),
                           LAMBDA new, at : Result([r.val EXCEPT ![Arrays[i]] = new], at))
  IN  After(readBit(m), LAMBDA changed, at :
        IF changed = 0 THEN Result(from.arrays, at)
        ELSE Iterated(array, Result(from.arrays, at), Len(Arrays)))

\* A message with too many fields is taken for corrupt, and not read on.
readDeltaPlayerstate(m, from, isVehiclePS) ==
  LET arrays(fields, at) ==
        IF fields = << >> THEN Result(from, at)
        ELSE After(readArrays(at, from), LAMBDA new, end :
               Result([fields |-> fields, arrays |-> new], end))
  IN  After(IF isVehiclePS THEN Result(0, m) ELSE readBit(m), LAMBDA pilot, at :
        After(readPlayerFields(at, PlayerFields(pilot = 1, isVehiclePS), from), arrays))
=============================================================================
