SPECIFICATION Spec
CONSTANTS
  Entities = {"server01", "server02"}
  ROOT = "ROOT"
  None = "None"
  Domains <- WorkshopDomains
  tree <- WorkshopTree
INVARIANTS
  TypeOK
  PointersExact
  LookupComplete
PROPERTIES
  NoDetour
  ImplementsLocator
  LookupEnds
