SPECIFICATION PointsModeSpec
CHECK_DEADLOCK FALSE
CONSTANTS
  CameraIds <- TwoCameras
  MaxSkew = 1
  MaxAge = 10
  DegradedAfter = 2
  ProbeFactor = 1
  BufferSize = 2
  Threads <- Listener
  Serves <- ListenerServes
  BusSize = 2
  MaxTs = 4
  Sizes = {1, 2}
  MaxGroups = 2
  MaxSets = 3
  MaxWire = 1
  MaxLives = 2
  Seen = {"cam_a"}
  Levels = {0, 1, 2}
  Delta = 1
  Refresh = 3
  PoseEvery = 2
INVARIANTS BusInv PointsInv LoopInv
PROPERTIES ImplementsLatestWins ImplementsStream
