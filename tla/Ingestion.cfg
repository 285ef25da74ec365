SPECIFICATION Spec
CONSTANTS
  Active <- Pairs
  Count = 2
  Rounds = 1
  PARTITIONS = 2
  Repeated = {"webhook_client", "demo_schemaless"}
  MaxRuns = 2
  MaxRestarts = 1
INVARIANTS
  TypeOK
  NumbersExact
  IngestedOnce
  Verdicts
PROPERTIES
  ProgramsEnd
CHECK_DEADLOCK FALSE
