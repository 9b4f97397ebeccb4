SPECIFICATION StreamSpec
CONSTANTS
  FRAGMENT_SIZE = 2
  SEQUENCE_LEN = 4
  SHORT_MAX = 7
  MAX_MSGLEN = 7
  MaxSequence = 3
  MaxOutgoing = 0
  MaxSession = 0
  StalePackets = FALSE
INVARIANTS
  DrainedMeansDelivered
PROPERTIES
  EveryMessageDelivered
CHECK_DEADLOCK FALSE
