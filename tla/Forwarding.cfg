SPECIFICATION Spec
INVARIANTS
  BrokenPointerNoticed
CHECK_DEADLOCK FALSE
