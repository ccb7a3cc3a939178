CONSTANTS
  Waiters = {w1, w2}
  Closers = {c1}
  Dropper = dropper
SPECIFICATION FairSpec
CHECK_DEADLOCK FALSE
INVARIANTS
  HandleTruthful
PROPERTIES
  ImplementsContract
  OperationsEnd
