CONSTANTS
  N = 3
  Rounds = 8
  MaxHold = 3
SPECIFICATION Spec
CHECK_DEADLOCK FALSE
INVARIANTS
  TypeOK
  Coherent
  BoundedWait
PROPERTIES
  ImplementsMutex
