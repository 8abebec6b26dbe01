------------------------------ MODULE MCPointsMode ------------------------------
(***************************************************************************)
(* Points mode from the camera to the pipeline, of which a behaviour       *)
(* exercises one part: the producer's perception loop ("loop"), the wire   *)
(* its sets travel on ("wire"), or the listener, the synchronizer and the  *)
(* frame bus behind it ("bus").  The others stay where they start.         *)
(***************************************************************************)
EXTENDS Ingestion

CONSTANTS Sizes, MaxGroups, MaxSets, MaxWire, MaxLives,
          Seen, Levels, Delta, Refresh, PoseEvery

TwoCameras == <<"cam_a", "cam_b">>
Listener == {"points-ingest"}
ListenerServes == [t \in Listener |-> {"cam_a", "cam_b"}]

VARIABLES
  part,
  seq, life, sent, wire, groups, lastSeq, gaps, arrived, handed,
  frame, tick, objSig, objAge, poseSig, poseAge, wireObj, wirePerson, emitted,
  objFailed, poseFailed

Points == INSTANCE PointsWire WITH MaxTs <- MaxSets
Loop == INSTANCE PerceptionLoop WITH Cameras <- Seen, sent <- emitted

ASSUME LoopConstants == Loop!LoopAssumption
ASSUME PointsConstants == Points!PointsAssumption

wireVars == <<seq, life, sent, wire, groups, lastSeq, gaps, arrived, handed>>
perceptionVars ==
  <<frame, tick, objSig, objAge, poseSig, poseAge, wireObj, wirePerson, emitted,
    objFailed, poseFailed>>

PointsModeInit ==
  /\ part \in {"loop", "wire", "bus"}
  /\ IngestionInit /\ Points!PointsInit /\ Loop!LoopInit

PointsModeNext ==
  /\ UNCHANGED part
  /\ \/ part = "loop" /\ Loop!LoopNext /\ UNCHANGED <<allVars, wireVars>>
     \/ part = "wire" /\ Points!PointsNext /\ UNCHANGED <<allVars, perceptionVars>>
     \/ part = "bus" /\ IngestionNext /\ UNCHANGED <<wireVars, perceptionVars>>

PointsModeSpec ==
  /\ PointsModeInit /\ [][PointsModeNext]_<<part, allVars, wireVars, perceptionVars>>
  /\ Fairness

-----------------------------------------------------------------------------
\* What the producer sends is current, and fades after a failure.
LoopInv == Loop!LoopInv

\* A set is handed over when all of it came, and what was lost is counted.
PointsInv == Points!PointsInv

\* The wire keeps the promise of SetStream, which is what FrameSync takes for
\* granted of its input.
ImplementsStream == Points!ImplementsStream
=============================================================================
