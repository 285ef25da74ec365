CONSTANTS
  Node = {"A", "B"}
  Peers <- PairPeers
  Cycles = 2
  K = 2
  DriftMax = 0
  DriftSteps <- NoSkew
  HalfSpread = 0
  InitSkews <- NoSkew
  MaxSkew = 1
  RecvTimeout = 1
  Modes = {"cli", "running"}
  MaxNow = 0
SPECIFICATION FairSpec
CHECK_DEADLOCK FALSE
INVARIANTS
  ServersOutliveCycles
PROPERTIES
  Termination
