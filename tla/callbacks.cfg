SPECIFICATION Spec
CONSTANTS
  Signatures <- SomeSignatures
  Plain <- PlainSignatures
  Texts <- SomeTexts
  Arguments <- SomeArguments
  MaxOverloads = 3
  MAX_PS_EVENTS = 2
  Nonces = 4
  EventTypes = {1, 2}
  MaxEvents = 3
  MaxSnapshots = 4
  MaxExternal = 1
  AnyFull = FALSE
  Returns = FALSE
  MAX_PACKET_USERCMDS = 2
  MaxTime = 4
  MaxMoves = 5
  MaxPackets = 2
  MaxRepeated = 3
INVARIANTS
  BestOverloadIsCalled
  EveryArgumentIsPassed
  EventsFireOnce
  MovesAreExecutedOnce
CHECK_DEADLOCK FALSE
