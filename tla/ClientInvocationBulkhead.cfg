CONSTANTS
  Invocations = {i1, i2}
  Replayable = {i1}
  Endpoints = {e1, e2}
  Limit = 2
  PerEndpoint = 1
  MaxEntries = 1
  MaxAttempts = 2
  Capacity = 1
  MaxRefills = 1
  WireFailures = {"Timeout", "RemoteFailure"}
  LocalErrors = {"LocalRejection"}
SPECIFICATION Spec
CHECK_DEADLOCK FALSE
INVARIANTS
  EndpointBounded
