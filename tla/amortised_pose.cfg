SPECIFICATION PoseSpec
CHECK_DEADLOCK FALSE
CONSTANTS
 MinHits = 3
 MaxLost = 30
 EnterAfter = 3
 ExitAfter = 15
 MaxTracks = 5
 PoseEvery = 2
 MaxFrames = 10
INVARIANT CoastsBetweenPoses
