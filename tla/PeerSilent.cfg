CONSTANTS
  Node = {"A", "B", "C"}
  Peers <- TrioPeers
  Cycles = 1
  K = 2
  DriftMax = 0
  DriftSteps <- NoSkew
  HalfSpread = 0
  InitSkews <- NoSkew
  MaxSkew = 4
  RecvTimeout = 2
  Modes = {"running"}
  MaxNow = 0
SPECIFICATION Spec
CHECK_DEADLOCK FALSE
INVARIANTS
  SilentPeerIgnored
