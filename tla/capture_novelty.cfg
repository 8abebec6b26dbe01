SPECIFICATION CaptureSpec
CHECK_DEADLOCK FALSE
CONSTANTS
  Cameras = {"cam_a", "cam_b"}
  Target = 2
  Window = 1
  MaxSessions = 1
  MaxTime = 2
INVARIANT PlacementsDistinct
