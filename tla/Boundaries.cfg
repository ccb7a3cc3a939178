SPECIFICATION Spec
CHECK_DEADLOCK FALSE
INVARIANTS
  CompiledStarts
  RoutesRight
  DeliveredAsCalled
  OutcomeArrives
  WaitsAsTold
  NotAnothersAnswer
  AcceptsUriReferences
  WhatIsBuiltIsSound
  CurrentWhenQuiet
  FoundAsRegistered
  ClientsAsTold
  Registry
  WindowExact
PROPERTIES
  ForgottenForCause
