CONSTANTS
  Callers = {c1, c2, c3}
  Buckets = 1
  BucketWidth = 2
  CountMax = 2
  MinimumSamples = 2
  RatioNum = 1
  RatioDen = 2
  OpenDuration = 2
  MaxOpenDuration = 3
  HalfOpenConcurrency = 2
  CloseSuccesses = 2
  MaxClock = 2
SPECIFICATION FairSpec
PROPERTIES
  PhasesSound
  ImplementsContract
  SaturationEnds
