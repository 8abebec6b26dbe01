---------------------------- MODULE AmortisedPose ----------------------------
(***************************************************************************)
(* Frames mode with detection.pose_every_n above 1: one person who stands  *)
(* in view, and a pose model that sees it in every PoseEvery-th frame and  *)
(* does not run in between.                                                *)
(***************************************************************************)
EXTENDS Tracks

CONSTANTS
  PoseEvery,      \* pose_every_n
  MaxFrames       \* model bound on the frames

VARIABLE frame    \* _frame_count

\* The person-pose detector runs in this frame.
PoseRuns == frame % PoseEvery = 0

PoseStep ==
  /\ frame < MaxFrames
  /\ frame' = frame + 1
  /\ IF PoseRuns /\ Active = {}
     THEN \E i \in Unused :
            /\ {i} \in NextIds
            /\ Step([j \in Ids |-> IF j = i THEN "in" ELSE Missed], {i})
     ELSE Step([j \in Ids |-> IF PoseRuns /\ j \in Active THEN "in" ELSE Missed], {})

PoseSpec == TracksInit /\ frame = 0 /\ [][PoseStep]_<<tracksVars, frame>>

\* "person tracks coast on their Kalman prediction between pose frames
\* (ByteTrack tolerates max_lost_frames misses)": a person the pose model has
\* found MinHits times in a row has a confirmed track.
CoastsBetweenPoses ==
  frame > MinHits * PoseEvery => \E i \in Ids : state[i] \in {"tracked", "lost"}
=============================================================================
