SPECIFICATION FrameBusSpec
CHECK_DEADLOCK FALSE
CONSTANTS
  Producers = {p1, p2}
  Recheck = 2
  MaxInodes = 6
  GiveUp = 2
  MaxFrames = 7
  MaxRestarts = 0
  Attempts = 4
  Interval = 1
  Period = 1
  MaxSamples = 4
  MaxTs = 3
INVARIANTS CameraInv FrameInv
PROPERTIES CallAnswers HubFollowsBus
