CONSTANTS
  N = 3
  Rounds = 6
SPECIFICATION Spec
CHECK_DEADLOCK FALSE
INVARIANTS
  TypeOK
  CausalityExact
  PromisedRelations
