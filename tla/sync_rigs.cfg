SPECIFICATION RigSpec
CONSTANTS
  CameraIds <- TwoCameras
  MaxSkew = 3
  MaxAge = 90
  DegradedAfter = 9
  ProbeFactor = 10
  BufferSize = 8
  MinPeriod = 1
  MaxPeriod = 6
  MaxTs = 24
  SkewMs = 33
  AgeMs = 1000
  DegradedMs = 100
  LastMs = 1700
  Periods = {33, 40, 49, 66, 67, 75, 90, 99}
  Start = 200
  Target = 2
  Window = 0
  MaxSessions = 2
  MaxTime = 2
CHECK_DEADLOCK FALSE
INVARIANTS SyncInv LiveNeverSolo AllAligned CaptureInv
PROPERTIES CaptureMonotone FreshPairs
