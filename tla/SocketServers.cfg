SPECIFICATION Spec
CONSTANTS
  Clients = {c1, c2}
  Kinds = {"oneshot", "session", "threaded"}
  Langs = {"py", "c"}
  MaxConns = 2
  MaxMsgs = 3
INVARIANTS
  TypeOK
  RightAnswer
  OnlyInterruptsCut
  HandlersFinish
PROPERTIES
  StarvedOnlyBySilence
  ConnectionsReleased
CHECK_DEADLOCK FALSE
