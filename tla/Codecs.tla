--------------------------------- MODULE Codecs ---------------------------------
(***************************************************************************)
(* The codecs of the library side by side: the adaptive Huffman code of    *)
(* Huffman (the connect packet), the messages of CompressedMessage (all    *)
(* sequenced packets), the command lines of CommandParser, and the         *)
(* connectionless packets.  They share nothing but the question whether    *)
(* what is written can be read, so that a behaviour is one of any.         *)
(***************************************************************************)
EXTENDS CommandParser, ConnlessPackets

CONSTANTS SymbolBits, Symbols, ByteValues, MaxLength,              \* of Huffman
          MAX_BIG_STRING, MaxItems, LargeBuffer, SmallBuffer       \* of Messages

ASSUME CodecsAssumption ==
  /\ SymbolBits \in Nat /\ Symbols \subseteq 0 .. 2^SymbolBits - 1
  /\ ByteValues \in Nat \ {0} /\ MaxLength \in Nat
  /\ MAX_BIG_STRING \in Nat \ {0} /\ MaxItems \in Nat
  /\ LargeBuffer \in Nat /\ SmallBuffer \in 0 .. LargeBuffer - 1

VARIABLES codec,
          compressor, decompressor, input, bits, size, bloc, output,
          msg, written, cut, end, reading, read

huffmanVars == <<compressor, decompressor, input, bits, size, bloc, output>>
messageVars == <<msg, written, cut, end, reading, read>>


Adaptive == INSTANCE Huffman
Message  == INSTANCE Messages
-----------------------------------------------------------------------------
(* The texts that codecs.cfg chooses: characters of each sort the parsers  *)
(* tell apart.                                                             *)

SomeLetters    == {"a", Space, Quote, "/", "*"}
SomeCharacters == {"a", Space, Newline, Backslash}
SomeKeys       == {<< >>, <<"a">>, <<"A">>, <<"b">>}
SomeValues     == {<< >>, <<"1">>, <<"a", Newline, "a">>}
SomeAddresses  == {<<"a", "a", "a", "a", "a", "a">>, [i \in 1 .. 6 |-> Backslash],
                   <<Backslash, "E", "O", "T", "a", Backslash>>}
SomeNames      == Texts({"a", Space, Newline}, 2)
SomeScores     == {<<"-", "1">>}
SomePings      == {<<"1">>}
SomeJunk       == {<< >>, <<"a">>, <<"1", Space>>, <<Quote>>, <<"1", Space, Quote, Quote>>}

-----------------------------------------------------------------------------

\* What a behaviour is not about stays in one state.
Init ==
  /\ codec \in {"adaptive", "message", "command", "packet"}
  /\ Adaptive!Init
  /\ IF codec = "message" THEN Message!MessageInit
     ELSE Message!MessageInit /\ msg.maxSize = LargeBuffer
  /\ IF codec = "command" THEN ParserInit
     ELSE /\ line = << >> /\ command = << >> /\ idx = 1 /\ isInQuote = FALSE
          /\ token = << >> /\ nameParsed = FALSE /\ res = [name |-> << >>, args |-> << >>]
  /\ IF codec = "packet" THEN PacketsInit
     ELSE /\ sent = [type |-> "disconnect", data |-> << >>]
          /\ raw = << >> /\ parsed = NotYet

Next ==
  /\ UNCHANGED codec
  /\ \/ /\ codec = "adaptive" /\ Adaptive!Next
        /\ UNCHANGED <<messageVars, parserVars, packetVars>>
     \/ /\ codec = "message" /\ Message!MessageNext
        /\ UNCHANGED <<huffmanVars, parserVars, packetVars>>
     \/ /\ codec = "command" /\ ParserNext
        /\ UNCHANGED <<huffmanVars, messageVars, packetVars>>
     \/ /\ codec = "packet" /\ PacketsNext
        /\ UNCHANGED <<huffmanVars, messageVars, parserVars>>

Spec == Init /\ [][Next]_<<codec, huffmanVars, messageVars, parserVars, packetVars>>

-----------------------------------------------------------------------------
(* Properties: those of Huffman and Messages, where they are explained,    *)
(* besides those of CommandParser and ConnlessPackets.                     *)

\* The adaptive trees are well formed (Huffman.h lines 145-170).
TypeOK == Adaptive!TypeOK

\* What the adaptive code compressed is what it decompresses (Huffman.cpp lines
\* 221-345).
RoundTrip == Adaptive!RoundTrip

\* The list of the tree has the sibling property (Huffman.cpp lines 38-144).
SiblingsInOrder == Adaptive!SiblingsInOrder

\* Every block of the tree has a cell, and no cell is lost (Huffman.cpp lines
\* 25-36, 100-134).
BlocksAreLed == Adaptive!BlocksAreLed

\* The adaptive code is optimal for what it has counted (Huffman.cpp lines 107-214).
CodesAreShortest == Adaptive!CodesAreShortest

\* Numbers and strings are read as they were written (CompressedMessage.h lines
\* 75-340, CompressedMessage.cpp lines 13-63).
NumbersReadBack == Message!NumbersReadBack

\* So are moves, scrambled or not (CompressedMessage.h lines 344-566).
MovesReadBack == Message!MovesReadBack

\* So are entities, as differences, but for what follows a changed field of negative
\* width (CompressedMessage.cpp lines 67-239).
EntitiesReadBack == Message!EntitiesReadBack

\* So are players, as differences, with the same exception (CompressedMessage.cpp
\* lines 241-520).
PlayersReadBack == Message!PlayersReadBack

\* The reader of a message ends where its writer did, and one that is cut off is the
\* beginning of what was to be written (CompressedMessage.h lines 107-130, 196, 225).
ReaderEndsWhereWriterDid == Message!ReaderEndsWhereWriterDid
=============================================================================
