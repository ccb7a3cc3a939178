CONSTANTS
  N = 2
  Concurrency = 1
  Connections = {c1}
  MaxConnections = 1
  MaxRequests = 1
  FatalAfter = 2
SPECIFICATION Spec
CHECK_DEADLOCK FALSE
INVARIANTS
  ReadyMeansRegistered
  DrainsInOrder
  ResultTruthful
