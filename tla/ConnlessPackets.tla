----------------------------- MODULE ConnlessPackets -----------------------------
(***************************************************************************)
(* Connectionless packets: one is made, sent as text and parsed.  A text   *)
(* is a sequence of characters; the prefix of four bytes and a name are    *)
(* one character each.  Positions count from 1; a position past the end    *)
(* stands for npos.                                                        *)
(***************************************************************************)
EXTENDS Command

CONSTANTS Characters,            \* those of the data of a packet
          Keys, Values,          \* of infos
          Addresses,             \* of servers
          Names, Scores, Pings,  \* of players
          Junk,                  \* the lines of a status that are no players
          MaxData,    \* bound: characters of the data of a packet
          MaxLines,   \* bound: lines after the infostring of a status
          MaxServers  \* bound: servers in a list

VARIABLES sent,       \* what was put in the packet
          raw,        \* the packet; << >> before it is made
          parsed      \* what is known of it, and how far its parser is

packetVars == <<sent, raw, parsed>>

Newline   == "\n"
Backslash == "\\"
PREFIX    == "FFFFFFFF"

CONNLESS_PACKETS ==
  [getinfo |-> <<Space>>, getstatus |-> <<Space>>, getchallenge |-> << >>,
   connect |-> <<Space>>, getservers |-> <<Space>>, infoResponse |-> <<Newline>>,
   statusResponse |-> <<Newline>>, challengeResponse |-> <<Space>>,
   connectResponse |-> << >>, getserversResponse |-> <<Backslash>>, rcon |-> <<Space>>,
   print |-> <<Newline>>, disconnect |-> << >>]
CONNLESS_SEPARATORS == {Space, Newline, Backslash}
WithoutData == {"getchallenge", "connectResponse"}

find(str, char, start) ==
  Min({i \in start .. Len(str) : str[i] = char} \cup {Max({start, Len(str) + 1})})
rfind(str, char) == Max({0} \cup {i \in DOMAIN str : str[i] = char})
Before(str, i) == SubSeq(str, 1, i - 1)
Behind(str, i) == SubSeq(str, i + 1, Len(str))

-----------------------------------------------------------------------------
(* JKAInfo: a function from keys to values.                                *)

toInfostring(info) ==
  FlattenSeq([i \in 1 .. Cardinality(DOMAIN info) |->
                LET key == SetToSeq(DOMAIN info)[i]
                IN  <<Backslash>> \o key \o <<Backslash>> \o info[key]])

\* The C locale's lower case.
LowerOf ==
  [A |-> "a", B |-> "b", C |-> "c", D |-> "d", E |-> "e", F |-> "f", G |-> "g", H |-> "h",
   I |-> "i", J |-> "j", K |-> "k", L |-> "l", M |-> "m", N |-> "n", O |-> "o", P |-> "p",
   Q |-> "q", R |-> "r", S |-> "s", T |-> "t", U |-> "u", V |-> "v", W |-> "w", X |-> "x",
   Y |-> "y", Z |-> "z"]
tolower(char) == IF char \in DOMAIN LowerOf THEN LowerOf[char] ELSE char
Lowered(key)  == [i \in DOMAIN key |-> tolower(key[i])]

\* An info with a value for one more key, unless it has one.
WithField(info, key, value) ==
  [k \in DOMAIN info \cup {key} |-> IF k \in DOMAIN info THEN info[k] ELSE value]

\* A key without a character behind its backslash has no value and is left out; the
\* others are put in lower case, and of the values of a key the last one counts.
fromInfostring(str) ==
  LET first  == IF str[1] = Backslash THEN 2 ELSE 1
      from[i \in first .. Len(str) + 1] ==
        LET keyEnd   == find(str, Backslash, i)
            valueEnd == find(str, Backslash, keyEnd + 1)
        IN  IF keyEnd >= Len(str) THEN << >>
            ELSE WithField(IF valueEnd > Len(str) THEN << >> ELSE from[valueEnd + 1],
                           Lowered(SubSeq(str, i, keyEnd - 1)),
                           SubSeq(str, keyEnd + 1, valueEnd - 1))
  IN  IF Len(str) < 2 THEN << >> ELSE from[first]

getField(info, name) == IF name \in DOMAIN info THEN info[name] ELSE << >>

-----------------------------------------------------------------------------
(* GetserversResponse: the servers of a list, each six bytes.              *)

AddressSize == 6

ServersFit(data, i) == i + AddressSize <= Len(data)

EOT == <<"E", "O", "T">>

parseServers(data) ==
  LET from[i \in 1 .. Len(data) + 2] ==
        LET start == find(data, Backslash, i) + 1
            next  == start + AddressSize
            ends  == next + 3 <= Len(data) /\ SubSeq(data, next + 1, next + 3) = EOT
        IN  IF i >= Len(data) \/ ~ServersFit(data, start) \/ data[next] # Backslash THEN << >>
            ELSE <<SubSeq(data, start, next - 1)>> \o (IF ends THEN << >> ELSE from[next])
  IN  from[1]

-----------------------------------------------------------------------------
(* Packets and text.                                                       *)

getRawPacket(type, data) ==
  <<PREFIX, type>> \o (IF data = << >> \/ type \in WithoutData THEN << >>
                       ELSE CONNLESS_PACKETS[type] \o data)

NoPacket == [type |-> "none"]   \* nullptr
NotYet   == [type |-> "not yet"]

\* The name ends at the first separator, whichever; the type decides whether what
\* follows is data.
DataWithSeparator(packet, type, at) ==  \* mutant
  IF CONNLESS_PACKETS[type] # << >> /\ at <= Len(packet) THEN Behind(packet, at - 1) ELSE << >>
DataBehind(packet, type, at) ==
  IF CONNLESS_PACKETS[type] # << >> /\ at <= Len(packet) THEN Behind(packet, at) ELSE << >>

\* For each type its parse function; the one of a status goes on in a loop.
parse(type, data) ==
  CASE type \in WithoutData -> [type |-> type, data |-> << >>]
    [] type = "infoResponse" ->
         [type |-> type, data |-> data, info |-> fromInfostring(data)]
    [] type = "getserversResponse" ->
         [type |-> type, data |-> data, servers |-> parseServers(data)]
    [] type = "statusResponse" ->
         IF rfind(data, Backslash) = 0 THEN NoPacket
         ELSE LET sepIdx == find(data, Newline, rfind(data, Backslash))
              IN  [type |-> type, data |-> data, sepIdx |-> sepIdx,
                   infoStream |-> Before(data, sepIdx), players |-> << >>,
                   validPlayerParsed |-> FALSE, done |-> FALSE]
    [] OTHER -> [type |-> type, data |-> data]

parsePacket(rawPacket) ==
  LET packet == Tail(rawPacket)
      at     == Min({i \in DOMAIN packet : packet[i] \in CONNLESS_SEPARATORS}
                    \cup {Len(packet) + 1})
      name   == Before(packet, at)
  IN  IF Len(rawPacket) <= 1 \/ Head(rawPacket) # PREFIX \/ Len(name) # 1
         \/ name[1] \notin DOMAIN CONNLESS_PACKETS
      THEN NoPacket
      ELSE parse(name[1], DataBehind(packet, name[1], at))

-----------------------------------------------------------------------------
(* The loop over the lines of a status.                                    *)

parsePlayerString(str, firstQuote, secondQuote) ==
  LET space1 == find(str, Space, 1)
      space2 == find(str, Space, space1 + 1)
      score  == Before(str, space1)
      ping   == SubSeq(str, space1 + 1, space2 - 1)
      name   == SubSeq(str, firstQuote + 1, secondQuote - 1)
  IN  IF space1 > Len(str) THEN [name |-> name, score |-> << >>, ping |-> << >>, valid |-> FALSE]
      ELSE IF space2 > Len(str)
           THEN [name |-> name, score |-> score, ping |-> << >>, valid |-> FALSE]
      ELSE [name |-> name, score |-> score, ping |-> ping,
            valid |-> parseAsInt(score) /\ parseAsInt(ping)]

\* Where the newline is that ends a player, by the second quote of the name.
PastNewline(quote2) == quote2 + 2  \* mutant: one too far
PastPlayer(quote2) == quote2 + 1

IsParsing == parsed.type = "statusResponse" /\ ~parsed.done

\* One turn: the line at the front of the data is a player, with what follows the
\* player's name if that has a newline, or malformed.
ParseLine ==
  LET data   == Behind(parsed.data, parsed.sepIdx)
      sepIdx == find(data, Newline, 1)
      quote1 == find(data, Quote, 1)
      quote2 == find(data, Quote, quote1 + 1)
      player == parsePlayerString(Before(data, quote2 + 1), quote1, quote2)
      next   == [parsed EXCEPT !.data = data, !.sepIdx = sepIdx]
      AsInfo(text) == IF next.validPlayerParsed THEN next
                      ELSE [next EXCEPT !.infoStream = @ \o text]
      line   == <<Newline>> \o Before(data, sepIdx)
  IN  /\ IsParsing /\ parsed.sepIdx <= Len(parsed.data)
      /\ \/ /\ quote1 <= Len(data) /\ (quote1 >= sepIdx \/ quote1 = 1)
            /\ parsed' = AsInfo(line)
         \/ /\ quote1 > Len(data)
            /\ parsed' = [AsInfo(line) EXCEPT !.done = TRUE]
         \/ /\ quote1 \in 2 .. Min({sepIdx, Len(data) + 1}) - 1 /\ quote2 > Len(data)
            /\ parsed' = [AsInfo(Tail(line)) EXCEPT !.done = TRUE]
         \/ /\ quote1 \in 2 .. Min({sepIdx, Len(data) + 1}) - 1 /\ quote2 <= Len(data)
            /\ parsed' =
                 IF player.valid
                 THEN [next EXCEPT !.players = Append(@, player), !.validPlayerParsed = TRUE,
                                   !.sepIdx = PastPlayer(quote2)]
                 ELSE IF next.validPlayerParsed
                      THEN [next EXCEPT !.players = Append(@, player)]
                 ELSE AsInfo(line)
  /\ UNCHANGED <<sent, raw>>

EndStatus ==
  /\ IsParsing /\ parsed.sepIdx > Len(parsed.data)
  /\ parsed' = [parsed EXCEPT !.done = TRUE]
  /\ UNCHANGED <<sent, raw>>

-----------------------------------------------------------------------------
(* What is sent.                                                           *)

\* A line that is no player: it has no quote, or one in front, or two at its end with
\* a name between them, behind numbers that are none.
IsMalformed(text) ==
  LET quote1 == find(text, Quote, 1)
      quote2 == find(text, Quote, quote1 + 1)
  IN  \/ quote1 > Len(text) \/ quote1 = 1
      \/ quote2 = Len(text) /\ ~parsePlayerString(text, quote1, quote2).valid

Without(chars) == {text \in Seq(STRING) : ~HasAny(text, chars)}

\* Texts have nothing that would end them.
ASSUME PacketsAssumption ==
  /\ Characters \subseteq STRING
  /\ IsFiniteSet(Keys) /\ Keys \cup Values \subseteq Without({Backslash})
  /\ Addresses \subseteq [1 .. AddressSize -> STRING]
  /\ \A address \in Addresses : SubSeq(address, 1, 3) # EOT
  /\ Names \subseteq Without({Quote, Backslash})
  /\ Scores \cup Pings \subseteq
       {number \in Without({Space, Newline, Quote, Backslash}) : parseAsInt(number)}
  /\ Junk \subseteq {text \in Without({Newline, Backslash}) : IsMalformed(text)}
  /\ {MaxData, MaxLines, MaxServers} \subseteq Nat

Texts(chars, n) == UNION {[1 .. k -> chars] : k \in 0 .. n}
PlainPackets ==
  [type : DOMAIN CONNLESS_PACKETS \ ({"disconnect", "statusResponse"} \cup WithoutData),
   data : Texts(Characters, MaxData)]
  \cup [type : {"disconnect"} \cup WithoutData, data : {<< >>}]

Infos == UNION {[keys -> Values] : keys \in SUBSET Keys}
InfoPackets == {[type |-> "infoResponse", info |-> i, data |-> toInfostring(i)] : i \in Infos}

ServerPacket(s, end) ==
  [type |-> "getserversResponse", servers |-> s,
   data |-> FlattenSeq([i \in DOMAIN s |-> <<Backslash>> \o s[i]]) \o (<<Backslash>> \o end)]
ServerPackets ==
  {ServerPacket(s, end) : s \in Texts(Addresses, MaxServers), end \in {<< >>, EOT}}

\* A line of a status, and the player it tells of, if it does.
PlayerLine(name, score, ping) ==
  [text    |-> score \o <<Space>> \o ping \o <<Space, Quote>> \o name \o <<Quote>>,
   players |-> <<[name |-> name, score |-> score, ping |-> ping, valid |-> TRUE]>>]
Lines == {PlayerLine(name, score, ping) : name \in Names, score \in Scores, ping \in Pings}
         \cup [text : Junk, players : {<< >>}]
WithoutQuotes == {v \in Values : ~HasAny(v, {Quote})}
StatusPacket(ls, v, end) ==
  [type |-> "statusResponse", lines |-> ls, value |-> v,
   data |-> <<Backslash, "a", Backslash>> \o v \o
            FlattenSeq([i \in DOMAIN ls |-> <<Newline>> \o ls[i].text]) \o end]
StatusPackets ==
  {StatusPacket(ls, v, end) :
     ls \in Texts(Lines, MaxLines), v \in WithoutQuotes, end \in {<< >>, <<Newline>>}}

PacketsInit ==
  /\ sent \in PlainPackets \cup InfoPackets \cup ServerPackets \cup StatusPackets
  /\ raw = << >> /\ parsed = NotYet

Make ==
  /\ raw = << >>
  /\ raw' = getRawPacket(sent.type, sent.data)
  /\ UNCHANGED <<sent, parsed>>

Receive ==
  /\ raw # << >> /\ parsed = NotYet
  /\ parsed' = parsePacket(raw)
  /\ UNCHANGED <<sent, raw>>

PacketsNext == Make \/ Receive \/ ParseLine \/ EndStatus

PacketsSpec == PacketsInit /\ [][PacketsNext]_packetVars

-----------------------------------------------------------------------------
(* Properties.                                                             *)

IsParsed == parsed \notin {NotYet, NoPacket} /\ ~IsParsing
Has(field) == field \in DOMAIN sent /\ IsParsed

\* The values of an info that a reader may find under a name: those of the keys that
\* are the name in lower case, and nothing if there are none.
ValuesTold(info, name) ==
  LET values == {info[key] : key \in {k \in DOMAIN info : Lowered(k) = name}}
  IN  IF values = {} THEN {<< >>} ELSE values

\* A packet is parsed to its type and data, whatever separators the data has
\* (ConnlessPacketFactory.cpp lines 9-50, ConnlessPacket.h lines 68-78); each field of
\* an info is read back under its key in lower case and no other name, even though a
\* last value that is empty is not in what was parsed, and of keys that differ in case
\* only, one field is found, the value of one of them (JKAInfo.cpp lines 14-72); and
\* each server of a list, whatever bytes its address has, with or without the mark of
\* the end (Getservers.h lines 62-108).  A status keeps as its data what its parser has
\* not consumed; a disconnect with data is not recognised.
PacketsReadBack ==
  /\ parsed # NotYet =>
       parsed.type = sent.type /\ (sent.type # "statusResponse" => parsed.data = sent.data)
  /\ Has("info") =>
       \A name \in Keys \cup {Lowered(key) : key \in Keys} :
         getField(parsed.info, name) \in ValuesTold(sent.info, name)
  /\ Has("servers") => parsed.servers = sent.servers

OnlyValid(players) ==
  FlattenSeq([i \in DOMAIN players |-> IF players[i].valid THEN <<players[i]>> ELSE << >>])

\* The players of a status are its well-formed lines, in order, newlines in their
\* names included, wherever malformed lines are; and the infostring is what precedes
\* them, with its newlines (Getstatus.h lines 101-228).
StatusReadsBack ==
  Has("lines") =>
    LET lines     == sent.lines
        told      == {i \in DOMAIN lines : lines[i].players # << >>}
        extension == FlattenSeq([i \in 1 .. Min(told) - 1 |-> <<Newline>> \o lines[i].text])
    IN  /\ OnlyValid(parsed.players) = FlattenSeq([i \in DOMAIN lines |-> lines[i].players])
        /\ told # {} =>
             parsed.infoStream = <<Backslash, "a", Backslash>> \o sent.value \o extension
=============================================================================
