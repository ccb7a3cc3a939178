CONSTANTS
  Callers = {c1, c2, c3}
  Limit = 2
  QueueLimit = 1
SPECIFICATION FairSpec
PROPERTIES
  ImplementsContract
  NobodyStuck
