SPECIFICATION Spec
CONSTANTS
  Strangers = {s1, s2}
  Arguments = {0, 5001, 65536}
  Counts = {2, 3}
  MaxClients = 2
  NoOne = NoOne
INVARIANTS
  TypeOK
  OwnRequestAccepted
PROPERTIES
  EveryRequestAnswered
  ClientProgramEnds
CHECK_DEADLOCK FALSE
