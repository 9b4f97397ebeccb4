SPECIFICATION Spec
CONSTANTS
  FRAGMENT_SIZE = 2
  SEQUENCE_LEN = 4
  SHORT_MAX = 7
  MAX_MSGLEN = 5
  MaxSequence = 3
  MaxOutgoing = 2
  MaxSession = 1
  StalePackets = FALSE
INVARIANTS
  TypeOK
  CollectedPrefix
  HeaderIsPresent
  EncodedInOrder
  BytesInPlace
PROPERTIES
  DeliversDatagrams
