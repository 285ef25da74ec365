SPECIFICATION ChordSpec
CONSTANTS
  Rings <- AllRings
  MaxLaps = 2
INVARIANTS
  RingTypeOK
  EndsAtOwner
PROPERTIES
  HopsHalveTheWay
CHECK_DEADLOCK FALSE
