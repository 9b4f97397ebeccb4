SPECIFICATION EventsSpec
CONSTANTS
  MAX_PS_EVENTS = 2
  Nonces = 4
  EventTypes = {1, 2}
  MaxEvents = 3
  MaxSnapshots = 4
  MaxExternal = 1
  AnyFull = FALSE
  Returns = FALSE
INVARIANTS
  NoEventFiresTwice
CHECK_DEADLOCK FALSE
