SPECIFICATION VideoSpec
CHECK_DEADLOCK FALSE
CONSTANTS
  Viewers = {v1, v2}
  Configs = {"rtsp", "file"}
  Replays = {"file"}
  MaxStreams = 3
  MaxTimers = 2
  Clients = {c1, c2}
  MaxBacklog = 2
  MaxUnits = 3
INVARIANTS VideoInv
PROPERTIES VideoReleases
