SPECIFICATION Spec
CONSTANTS
  p1 = p1
  p2 = p2
  s1 = s1
  a1 = a1
  a2 = a2
  LocalPort = LocalPort
  Publishers = {p1, p2}
  Subscribers = {s1}
  Offers <- TwoOffers
  Prefixes <- NewsBeginsNewsflash
  Addresses = {a1, a2}
  Loopback <- SamePort
  Near <- OnFirstHost
  None = None
  MaxStarts = 2
  HWM = 1
INVARIANTS
  TypeOK
  SoleProviderListed
  MissingOnlyMidway
PROPERTIES
  Heard
CHECK_DEADLOCK FALSE
