SPECIFICATION Spec
CONSTANTS
  MAX_RELIABLE_COMMANDS = 3
  Window = 2
  MaxCommands = 4
  MaxServerPackets = 3
  MaxClientPackets = 2
INVARIANTS
  TypeOK
  ServerPacketsDecode
  ClientPacketsDecode
  CommandsInOrder
  ObserverIsAhead
PROPERTIES
  NeverBack
CHECK_DEADLOCK FALSE
