CONSTANTS
  Requests = {r1, r2}
  Concurrency = {1, 2}
  QueueCapacity = 1
  MaxRequestBody = 3
  MaxResponseBody = 2
  RequestLimit = 5
  ResponseLimit = 3
  ChunkReservation = 2
  Lengths = {2, 4}
  Frames = {1, 2}
  Bodies = {2, 3}
SPECIFICATION FairSpec
CHECK_DEADLOCK FALSE
INVARIANTS
  MemoryAccounted
  RetryIsSafe
PROPERTIES
  Answered
