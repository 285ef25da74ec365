CONSTANTS
  Node = {A, B}
  Peers <- PairPeers
  Cycles = 2
  K = 2
  DriftMax = 1
  DriftSteps <- SlowCrystal
  HalfSpread = 3
  InitSkews <- EndsOfSpread
  MaxSkew = 2
  RecvTimeout = 2
  Modes = {"running"}
  MaxNow = 1
SPECIFICATION Spec
SYMMETRY Swap
CHECK_DEADLOCK FALSE
INVARIANTS
  TypeOK
  Envelope
PROPERTIES
  BoundedCorrection
