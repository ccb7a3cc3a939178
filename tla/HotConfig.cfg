CONSTANTS
  Users = {u1, u2}
  Viewers = {u1}
  MaxVersions = 2
SPECIFICATION FairSpec
CHECK_DEADLOCK FALSE
INVARIANTS
  LastGood
PROPERTIES
  ImplementsContract
  SettlesDown
