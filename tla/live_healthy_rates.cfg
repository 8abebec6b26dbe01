SPECIFICATION LiveSpec
CONSTANTS
  CameraIds <- TwoCameras
  MaxSkew = 33
  MaxAge = 1000
  DegradedAfter = 100
  ProbeFactor = 10
  BufferSize = 8
  MinPeriod = 68
  MaxPeriod = 75
  MaxTs = 500
CHECK_DEADLOCK FALSE
INVARIANT NeverSolo
