SPECIFICATION Spec
CONSTANTS
  SymbolBits = 2
  Symbols = {0, 1, 2, 3}
  ByteValues = 256
  MaxLength = 7
  MAX_BIG_STRING = 3
  MaxItems = 2
  LargeBuffer = 1000
  SmallBuffer = 12
  Letters <- SomeLetters
  MaxLine = 6
  MaxWord = 2
  MaxArgs = 3
  Characters <- SomeCharacters
  Keys <- SomeKeys
  Values <- SomeValues
  Addresses <- SomeAddresses
  Names <- SomeNames
  Scores <- SomeScores
  Pings <- SomePings
  Junk <- SomeJunk
  MaxData = 3
  MaxLines = 3
  MaxServers = 2
INVARIANTS
  TypeOK
  RoundTrip
  SiblingsInOrder
  BlocksAreLed
  CodesAreShortest
  NumbersReadBack
  MovesReadBack
  EntitiesReadBack
  PlayersReadBack
  ReaderEndsWhereWriterDid
  TokensAreTheWords
  ArgumentsSurvive
  PacketsReadBack
  StatusReadsBack
CHECK_DEADLOCK FALSE
