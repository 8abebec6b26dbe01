----------------------------- MODULE MCFrameSync -----------------------------
(***************************************************************************)
(* What puts the frames of cameras together.  The synchronizer, on four    *)
(* rigs, one of which a behaviour starts with:                             *)
(*   "any"         two cameras, frames at any time and in any order;       *)
(*   "three"       three cameras, likewise;                                *)
(*   "live"        two cameras that are alive, in units of 11 ms, so that  *)
(*                 33 ms are 3 units and 100 ms are 9: a frame of each at  *)
(*                 least every 66 ms;                                      *)
(*   "recovering"  two degraded cameras at one rate, in ms, with the       *)
(*                 constants of config/backbone.yaml.                      *)
(* The cfg has the constants of the last two, in their units.  Besides,    *)
(* the capture of the pairs of shots the calibration is solved from        *)
(* ("capture").                                                            *)
(***************************************************************************)
EXTENDS LivePair

TwoCameras == <<"cam_a", "cam_b">>
ThreeCameras == <<"cam_a", "cam_b", "cam_c">>

CONSTANTS
  SkewMs, AgeMs, DegradedMs, LastMs, Periods, Start,  \* of the rig "recovering"
  Target, Window, MaxSessions, MaxTime                \* of the capture

VARIABLES
  rig, period,
  phase, now, board, made, current, route, stopped, place, view, count, ready, kept,
  saving, pairs, late, disk, mishap

Shots == INSTANCE Capture
shotsVars ==
  <<phase, now, board, made, current, route, stopped, place, view, count, ready, kept,
    saving, pairs, late, disk, mishap>>

Any == INSTANCE FrameSync WITH
  MaxSkew <- 1, MaxAge <- 4, DegradedAfter <- 3, ProbeFactor <- 2, BufferSize <- 2, MaxTs <- 8

Three == INSTANCE FrameSync WITH
  CameraIds <- ThreeCameras, MaxSkew <- 1, MaxAge <- 3, DegradedAfter <- 2,
  ProbeFactor <- 1, BufferSize <- 4, MaxTs <- 6

Recovering == INSTANCE Recovery WITH
  MaxSkew <- SkewMs, MaxAge <- AgeMs, DegradedAfter <- DegradedMs, MaxTs <- LastMs

SyncInit ==
  \/ rig = "any" /\ period = 0 /\ Any!Init
  \/ rig = "three" /\ period = 0 /\ Three!Init
  \/ rig \in {"live", "capture"} /\ period = 0 /\ Init
  \/ rig = "recovering" /\ Recovering!RecoveryInit

SyncNext ==
  \/ rig = "any" /\ Any!Next /\ UNCHANGED period
  \/ rig = "three" /\ Three!Next /\ UNCHANGED period
  \/ rig = "live" /\ LiveNext /\ UNCHANGED period
  \/ rig = "recovering" /\ Recovering!RecoveryNext

RigInit == SyncInit /\ Shots!CaptureInit /\ (rig # "capture" => phase = "floor")

RigNext ==
  /\ UNCHANGED rig
  /\ \/ SyncNext /\ UNCHANGED shotsVars
     \/ rig = "capture" /\ Shots!CaptureNext /\ UNCHANGED <<vars, period>>

RigSpec == RigInit /\ [][RigNext]_<<vars, rig, period, shotsVars>>

ASSUME CaptureConstants == Shots!CaptureAssumption

ASSUME RecoveryConstants ==
  Recovering!SyncAssumption /\ Recovering!RecoveryAssumption /\ Recovering!PhaseAssumption

-----------------------------------------------------------------------------
\* TypeOK of the two rigs with frames at any time.
SyncTypeOK == (rig = "any" => Any!TypeOK) /\ (rig = "three" => Three!TypeOK)

\* DegradedBacklogBounded, up to the third camera of a configuration: the early
\* return of the solo loop delays a degraded camera by no more than one frame
\* per camera before it.
BacklogBounded ==
  /\ rig # "three" => DegradedBacklogBounded
  /\ rig = "three" => Three!DegradedBacklogBounded

\* BacklogIsNew: no frame is kept that an emission could serve twice or late.
BuffersNew ==
  /\ rig # "three" => BacklogIsNew
  /\ rig = "three" => Three!BacklogIsNew

\* The buffers hold what they should, and no more than they may.
SyncInv == SyncTypeOK /\ BuffersNew /\ BacklogBounded

\* FreshStep, what the eviction is for: after an outage of one camera no frame
\* from before it is returned.
FreshPairs == [][rig = "any" => Any!FreshStep]_<<vars, rig>>

\* NeverSolo of LivePair: pairing is not lost by cameras that are alive.  Within
\* twice the tolerance they never make the solo path fire.
LiveNeverSolo == rig = "live" => NeverSolo

\* Recovered of Recovery: nor is it given up for good by cameras that were not.
\* One probe interval and three periods after both are back, every pair is aligned.
AllAligned == rig = "recovering" => Recovering!Recovered

\* CaptureInv of Capture: shots of equal number show one moment, and are counted.
CaptureInv == Shots!CaptureInv
=============================================================================
