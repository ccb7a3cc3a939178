CONSTANTS
  Acquirers = {a1}
  Endpoints = {e1}
  MaxGenerations = 2
  RevisionModulus = 2
SPECIFICATION FairSpec
CHECK_DEADLOCK FALSE
INVARIANTS
  SlotSound
  NothingRetained
PROPERTIES
  NoOverlap
  EndsInTime
