SPECIFICATION ZonesSpec
CHECK_DEADLOCK FALSE
CONSTANTS
  Zones = {"zone_1"}
  Tracks = {1, 2}
  Decisions = {"no_palette", "palette_empty"}
  NoData = "no_data"
  Unset = "none"
  Empty = "empty"
  Refresh = 2
  MaxTs = 5
  MinHits = 3
  MaxLost = 2
  EnterAfter = 2
  ExitAfter = 2
  MaxTracks = 2
  Window = 5
  FlipNum = 7
  FlipDen = 10
  Cells = {"left", "right"}
  UnknownAfter = 2
  Heartbeat = 3
  MaxTime = 7
  PalletZones = {"zone_1"}
  PalletCameras <- TwoCameras
  PalletWindow = 3
  PalletExit = 3
  LongWindow = 15
  Loads = {"carton"}
  Palette = "palette"
  Unknown = "unknown"
  Nothing = "nothing"
INVARIANTS WireInv RetainedIsTruth TracksInv RackInv EvidenceDecides
PROPERTIES PassingsJustified NothingFlaps
