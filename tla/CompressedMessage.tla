--------------------------- MODULE CompressedMessage ---------------------------
(***************************************************************************)
(* The reading and writing functions of CompressedMessage, on a record     *)
(* with the object's members.  data is the buffer, bit by bit; as bits are *)
(* only ever put at its end, those after it read as 0.  Numbers are        *)
(* int32_t, floats are their 32 bits.  A read yields the value and the     *)
(* message after it.                                                       *)
(***************************************************************************)
EXTENDS NetFields, SequencesExt

CONSTANT MAX_BIG_STRING  \* longest string that is read

NewMessage(maxSize) ==
  [data |-> << >>, bit |-> 0, cursize |-> 0, readcount |-> 0,
   maxSize |-> maxSize, overflowed |-> FALSE]

Result(val, m) == [val |-> val, msg |-> m]

\* What is done with the value of a read and the message after it.
After(r, Then(_, _)) == Then(r.val, r.msg)

\* op(...op(op(base, 1), 2)..., n): a loop over the first n numbers.  The sets
\* of one element make TLC evaluate a step before the next.
Iterated(op(_, _), base, n) ==
  LET after[i \in 0 .. n] ==
        IF i = 0 THEN base
        ELSE CHOOSE next \in {op(last, i) : last \in {after[i - 1]}} : TRUE
  IN  after[n]

-----------------------------------------------------------------------------
(* Two's complement.                                                       *)

BitOf(v, i) == IF i = 31 THEN (IF v < 0 THEN 1 ELSE 0) ELSE (v \div (2 ^ i)) % 2
Bits(v, n)  == [i \in 1 .. n |-> BitOf(v, i - 1)]

ValueOf(bits) ==
  LET weight(i) == IF i = 32 THEN -2147483647 - 1 ELSE 2 ^ (i - 1)
      sum[i \in 0 .. Len(bits)] ==
        IF i = 0 THEN 0 ELSE sum[i - 1] + bits[i] * weight(i)
  IN  sum[Len(bits)]

XorBits(a, b) == [i \in DOMAIN a |-> (a[i] + b[i]) % 2]
Xor(a, b)     == ValueOf(XorBits(Bits(a, 32), Bits(b, 32)))
Signed(v, n) ==
  LET low == v % (2 ^ n) IN IF low < 2 ^ (n - 1) THEN low ELSE low - (2 ^ n)

-----------------------------------------------------------------------------
(* Bits.                                                                   *)

\* The code of a byte in the trees that both ends train alike: any prefix code
\* will do, with the most frequent byte the shortest.
Code(byte) == IF byte = 0 THEN <<0>> ELSE <<1>> \o Bits(byte, 8)

putBits(m, bits) == [m EXCEPT !.data = @ \o bits, !.bit = @ + Len(bits)]
getBit(m, at)    == IF at < Len(m.data) THEN m.data[at + 1] ELSE 0

\* A byte from its code, and where the next one starts.
offsetReceive(m, at) ==
  IF getBit(m, at) = 0 THEN [byte |-> 0, at |-> at + 1]
  ELSE [byte |-> ValueOf([i \in 1 .. 8 |-> getBit(m, at + i)]), at |-> at + 9]

\* The low width % 8 bits as they are, then the others in bytes by their codes.
Packed(bits) ==
  LET n == Len(bits) % 8
      byte(k) == ValueOf(SubSeq(bits, n + 8 * k - 7, n + 8 * k))
  IN  SubSeq(bits, 1, n) \o FlattenSeq([k \in 1 .. Len(bits) \div 8 |-> Code(byte(k))])

\* maxSize and cursize are size_t: once cursize is greater, the difference is
\* huge and no overflow is seen.
NoRoom(m) == m.maxSize - m.cursize \in 0 .. 3

\* Mutant: the check is exact, so that something smaller may fit later.
WriteWhatFits(m, v, width) ==
  LET put == putBits(m, Packed(Bits(v, width)))
  IN  IF put.bit \div 8 + 1 > m.maxSize THEN [m EXCEPT !.overflowed = TRUE]
      ELSE [put EXCEPT !.cursize = put.bit \div 8 + 1]

writeBits(m, v, width) ==
  IF NoRoom(m) THEN [m EXCEPT !.overflowed = TRUE]
  ELSE LET put == putBits(m, Packed(Bits(v, width)))
       IN  [put EXCEPT !.cursize = put.bit \div 8 + 1]

\* With a negative width the mask is that of the width without its sign, but
\* neither loop runs.
writeBitsVariable(m, v, width) ==
  IF width > 0 \/ NoRoom(m) THEN writeBits(m, v, width)
  ELSE [m EXCEPT !.cursize = m.bit \div 8 + 1]

\* Reading goes on from a place with the bits read before it.
NextByte(m, read) ==
  LET more(b) == [at |-> b.at, bits |-> read.bits \o Bits(b.byte, 8)]
  IN  more(offsetReceive(m, read.at))

BitsRead(m, read) ==
  Result(ValueOf(read.bits), [m EXCEPT !.bit = read.at, !.readcount = read.at \div 8 + 1])

\* Mutant: the bytes come first, then the odd bits.
ReadBytesFirst(m, width) ==
  LET bytes[k \in 0 .. width \div 8] ==
        IF k = 0 THEN [at |-> m.bit, bits |-> << >>] ELSE NextByte(m, bytes[k - 1])
      n    == width % 8
      All(read) ==
        [at |-> read.at + n, bits |-> [i \in 1 .. n |-> getBit(m, read.at + i - 1)] \o read.bits]
  IN  BitsRead(m, All(bytes[width \div 8]))

readBits(m, width) ==
  LET n == width % 8
      bytes[k \in 0 .. width \div 8] ==
        IF k = 0 THEN [at |-> m.bit + n, bits |-> [i \in 1 .. n |-> getBit(m, m.bit + i - 1)]]
        ELSE NextByte(m, bytes[k - 1])
  IN  BitsRead(m, bytes[width \div 8])

\* The sign is taken from what is left of the width once the odd bits are off.
readBitsVariable(m, width) ==
  IF width >= 0 THEN readBits(m, width)
  ELSE After(readBits(m, -width), LAMBDA v, at :
         Result(Signed(v, -width - ((-width) % 8)), at))

PastEnd(m) == m.readcount > m.cursize
Whole(m, v, missing) == Result(IF PastEnd(m) THEN missing ELSE v, m)

readLong(m)  == After(readBits(m, 32), LAMBDA v, at : Whole(at, v, -1))
readShort(m) == After(readBits(m, 16), LAMBDA v, at : Whole(at, Signed(v, 16), -1))

\* Always unsigned in the end, so that the -1 of a message that is over is 255.
readByte(m) == After(readBits(m, 8), LAMBDA v, at : Whole(at, v, 255))

writeBit(m, v)   == writeBits(m, v, 1)
writeByte(m, v)  == writeBits(m, v, 8)
writeShort(m, v) == writeBits(m, v, 16)
writeLong(m, v)  == writeBits(m, v, 32)
readBit(m)       == readBits(m, 1)
BitWritten(m, b) == writeBit(m, IF b THEN 1 ELSE 0)

peekLong(m) == Result(readLong(m).val, m)

-----------------------------------------------------------------------------
(* Out of band: whole bytes.                                               *)

writeOOB(m, v, width) ==
  [putBits(m, Bits(v, width)) EXCEPT !.cursize = @ + width \div 8]

readOOB(m, width) ==
  LET v == ValueOf([i \in 1 .. width |-> getBit(m, 8 * m.readcount + i - 1)])
  IN  Result(IF width = 32 THEN v ELSE Signed(v, width),
             [m EXCEPT !.readcount = @ + width \div 8, !.bit = @ + width])

-----------------------------------------------------------------------------
(* Bytes, and strings: sequences of bytes other than 0.                    *)

\* Reading count fields one after the other with readOne(message, field).
ReadFields(readOne(_, _), m, count) ==
  LET next(r, i) == After(readOne(r.msg, i), LAMBDA v, at : Result(Append(r.val, v), at))
  IN  Iterated(next, Result(<< >>, m), count)

writeData(m, bytes) == Iterated(LAMBDA at, i : writeByte(at, bytes[i]), m, Len(bytes))
writeString(m, s)   == writeData(m, Append(s, 0))

readData(m, count)  == ReadFields(LAMBDA at, i : readByte(at), m, count)

Newline == 10
Percent == 37
Dot     == 46

readString(m, breakOnNewline, translatePercent) ==
  LET ends(c) == c = 0 \/ (breakOnNewline /\ c = Newline)
      shown(c) == IF c = Percent /\ translatePercent THEN Dot ELSE c
      RECURSIVE more(_, _)
      more(s, at) ==
        After(readByte(at), LAMBDA c, next :
          IF ends(c) THEN Result(s, next)
          ELSE IF Len(s) + 1 > MAX_BIG_STRING - 1 THEN Result(Append(s, shown(c)), next)
          ELSE more(Append(s, shown(c)), next))
  IN  more(<< >>, m)

readStringLine(m, translatePercent) == readString(m, TRUE, translatePercent)

-----------------------------------------------------------------------------
(* Differences of single numbers.                                          *)

writeDelta(m, old, new, width) ==
  IF old = new THEN writeBit(m, 0) ELSE writeBits(writeBit(m, 1), new, width)

readDelta(m, old, width) ==
  After(readBit(m), LAMBDA changed, at :
    IF changed = 1 THEN readBits(at, width) ELSE Result(old, at))

LowBits(v, n) == ValueOf(Bits(v, n))

writeDeltaKey(m, key, old, new, width) ==
  IF old = new THEN writeBit(m, 0)
  ELSE writeBits(writeBit(m, 1), LowBits(Xor(new, key), width), width)

\* kbitmask[width] has one bit more than the number.
readDeltaKey(m, key, old, width) ==
  LET unlock(new, at) == Result(Xor(new, LowBits(key, width + 1)), at)
  IN  After(readBit(m), LAMBDA changed, at :
        IF changed = 1 THEN After(readBits(at, width), unlock) ELSE Result(old, at))

\* Zeros of both signs are equal, and a NaN not even to itself.
ZERO    == 0
MINUS_0 == -2147483647 - 1
MINUS_1 == -1082130432
NaN     == 2143289344
SameFloat(a, b) == (a = b /\ a # NaN) \/ {a, b} = {ZERO, MINUS_0}

writeFloat(m, v) == writeLong(m, v)
readFloat(m)     == After(readBits(m, 32), LAMBDA v, at : Whole(at, v, MINUS_1))

writeDeltaKeyFloat(m, key, old, new) ==
  IF SameFloat(old, new) THEN writeBit(m, 0) ELSE writeLong(writeBit(m, 1), Xor(new, key))
readDeltaKeyFloat(m, key, old) ==
  LET unlock(new, at) == Result(Xor(new, key), at)
  IN  After(readBit(m), LAMBDA changed, at :
        IF changed = 1 THEN After(readLong(at), unlock) ELSE Result(old, at))

\* Without a key, as with 0.
writeDeltaFloat(m, old, new) == writeDeltaKeyFloat(m, 0, old, new)
readDeltaFloat(m, old)       == readDeltaKeyFloat(m, 0, old)

-----------------------------------------------------------------------------
(* User moves: a time, and the fields in the order of transmission: three  *)
(* angles, three signed moves, the buttons and four bytes.                 *)

UsercmdBits == <<16, 16, 16, 8, 8, 8, 16, 8, 8, 8, 8>>
Moves == 4 .. 6

\* The member a field is assigned to.
Assigned(i, v) == IF i \in Moves THEN Signed(v, 8)
                  ELSE IF UsercmdBits[i] = 8 THEN v % 256 ELSE v

writeTime(m, from, to) ==
  IF to.serverTime - from.serverTime < 256
  THEN writeByte(writeBit(m, 1), to.serverTime - from.serverTime)
  ELSE writeLong(writeBit(m, 0), to.serverTime)

readTime(m, from) ==
  LET add(step, at) == Result(from.serverTime + step, at)
  IN  After(readBit(m), LAMBDA near, at :
        IF near = 1 THEN After(readByte(at), add) ELSE readLong(at))

writeDeltaUsercmd(m, from, to) ==
  Iterated(LAMBDA at, i : writeDelta(at, from.fields[i], to.fields[i], UsercmdBits[i]),
           writeTime(m, from, to), 11)

\* The fields, each with readOne(message, field), and the time before them.
ReadMove(readOne(_, _), m, time) ==
  LET field(at, i) == After(readOne(at, i), LAMBDA v, next : Result(Assigned(i, v), next))
  IN  After(ReadFields(field, m, 11), LAMBDA fields, at :
        Result([serverTime |-> time, fields |-> fields], at))

readDeltaUsercmd(m, from) ==
  LET field(at, i) == readDelta(at, from.fields[i], UsercmdBits[i])
  IN  After(readTime(m, from), LAMBDA time, at : ReadMove(field, at, time))

writeDeltaUsercmdKey(m, key, from, to) ==
  LET timed == writeTime(m, from, to)
      k     == Xor(key, to.serverTime)
  IN  IF from.fields = to.fields THEN writeBit(timed, 0)
      ELSE Iterated(LAMBDA at, i : writeDeltaKey(at, k, from.fields[i], to.fields[i],
                                                 UsercmdBits[i]),
                    writeBit(timed, 1), 11)

ReadKeyedMove(m, key, from, time) ==
  LET field(at, i) == readDeltaKey(at, key, from.fields[i], UsercmdBits[i])
  IN  After(readBit(m), LAMBDA changed, at :
        IF changed = 1 THEN ReadMove(field, at, time)
        ELSE Result([serverTime |-> time, fields |-> from.fields], at))

\* Mutant: the time is left out of the key.
ReadWithoutTime(m, key, from) ==
  After(readTime(m, from), LAMBDA time, at : ReadKeyedMove(at, key, from, time))

readDeltaUsercmdKey(m, key, from) ==
  After(readTime(m, from), LAMBDA time, at : ReadKeyedMove(at, Xor(key, time), from, time))
=============================================================================
