SPECIFICATION Spec
CONSTANTS
  Indices = {1}
  LateHandshake = FALSE
  MaxAttempts = 2
  MaxCommands = 4
  MaxPackets = 2
INVARIANTS
  TypeOK
  ClientIsKnown
  ConfigstringsFollow
PROPERTIES
  SessionsStartClean
CHECK_DEADLOCK FALSE
