----------------------------- MODULE PacketEncoder -----------------------------
(***************************************************************************)
(* What Netchan does to the data of a packet, in both directions: it reads *)
(* the header, and scrambles what lies behind it with the text of the      *)
(* command the header acknowledges.  Doing it again unscrambles, as long   *)
(* as the header is not scrambled with the rest.                           *)
(***************************************************************************)
EXTENDS CompressedMessage

CL_DECODE_START == 4    \* bytes of a server's header
SV_DECODE_START == 12   \* bytes of a client's header, without the qport
QPORT_LEN       == 2

\* The byte that is mixed in at i: of the text, over and over, with a dot for a percent
\* sign; 0 if there is no text.
KeyChar(keyString, i) ==
  IF keyString = << >> THEN 0
  ELSE LET char == keyString[(i % Len(keyString)) + 1]
       IN  IF char = Percent THEN Dot ELSE char

\* The key goes on from byte to byte.
BasicEncoder(m, start, keyString, key) ==
  LET count == Max({0, (Len(m.data) + 7) \div 8 - start})
      keys[i \in -1 .. count - 1] ==
        IF i = -1 THEN Bits(key, 8)
        ELSE XorBits(keys[i - 1], Bits(KeyChar(keyString, i) * (IF i % 2 = 1 THEN 2 ELSE 1), 8))
      mixed(b) == LET at == b - 8 * start - 1 IN keys[at \div 8][(at % 8) + 1]
  IN  [m EXCEPT !.data = [b \in DOMAIN @ |->
         IF b <= 8 * start THEN @[b] ELSE (@[b] + mixed(b)) % 2]]

\* The packet: its header, and the message from there on.
ServerPacketEncoder(m, sequence, challenge, reliableCommand) ==
  After(readLong(m), LAMBDA relAck, at :
    Result(relAck, BasicEncoder(at, CL_DECODE_START, reliableCommand[relAck],
                                Xor(challenge, sequence))))

\* The qport, then serverId, messageAcknowledge and relAck.
ClientPacketEncoder(m, challenge, serverCommand) ==
  LET key(longs) == Xor(challenge, Xor(longs[1], longs[2]))
      encode(qport, longs, at) ==
        Result(<<qport % 65536>> \o longs,
               BasicEncoder(at, QPORT_LEN + SV_DECODE_START, serverCommand[longs[3]], key(longs)))
  IN  After(readOOB(m, 8 * QPORT_LEN), LAMBDA qport, behind :
        After(ReadFields(LAMBDA at, i : readLong(at), behind, 3), LAMBDA longs, at :
          encode(qport, longs, at)))
================================================================================
