CONSTANTS
  N = 1
  Concurrency = 1
  Connections = {c1}
  MaxConnections = 1
  MaxRequests = 1
  FatalAfter = 2
SPECIFICATION FairSpec
CHECK_DEADLOCK FALSE
PROPERTIES
  ServerEnds
