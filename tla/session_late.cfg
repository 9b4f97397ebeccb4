SPECIFICATION Spec
CONSTANTS
  Indices = {1}
  LateHandshake = TRUE
  MaxAttempts = 2
  MaxCommands = 1
  MaxPackets = 2
PROPERTIES
  SessionsStartClean
CHECK_DEADLOCK FALSE
