CONSTANTS
  Statuses = {302, 404, 405, 408, 418, 425, 500, 503, 505}
  Delays = {0, 1, 2, 3}
  Sizes = {1, 2, 3}
  ServerLimit = 2
  ClientLimit = 4
  FreeBytes = {0, 2, 4}
  Chunk = 2
  EmergencyLimit = 3
  MaxSeconds = 3
  MaxHops = 2
SPECIFICATION Spec
CHECK_DEADLOCK FALSE
INVARIANTS
  RetryAfterIsMinimum
