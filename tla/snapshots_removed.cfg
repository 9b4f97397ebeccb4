SPECIFICATION Spec
CONSTANTS
  MAX_GENTITIES = 4
  MAX_PARSE_ENTITIES = 5
  MARGIN = 2
  PACKET_BACKUP = 2
  OnPath = TRUE
  BaselinesStay = TRUE
  BlankEntities = FALSE
  MaxMessages = 5
  MaxMaps = 2
INVARIANTS
  PresentEntitiesAreValid
CHECK_DEADLOCK FALSE
