CONSTANTS
  Invocations = {i1, i2}
  Replayable = {i1}
  Endpoints = {e1}
  Limit = 2
  PerEndpoint = 1
  MaxEntries = 1
  MaxAttempts = 3
  Capacity = 1
  MaxRefills = 1
  WireFailures = {"Timeout", "RemoteFailure"}
  LocalErrors = {"Transport", "LocalRejection"}
SPECIFICATION FairSpec
CHECK_DEADLOCK FALSE
INVARIANTS
  VerdictsTrue
  RetriesPaid
  ShutdownClean
PROPERTIES
  EverythingEnds
