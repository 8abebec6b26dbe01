------------------------------- MODULE MCFrameBus -------------------------------
(***************************************************************************)
(* The way of a camera's frames, of which a behaviour exercises one part:  *)
(* the source that reads the camera ("camera"), the bytes of the frame bus *)
(* file, which a writer and a reader share ("bytes"), or the file itself,  *)
(* as the producers replace it and the hub looks for it ("file").  The     *)
(* other parts stay where they start.                                      *)
(***************************************************************************)
EXTENDS HubPump

CONSTANTS MaxFrames, MaxRestarts, Attempts, Interval, Period, MaxSamples, MaxTs

VARIABLES
  part, latest, slots, writer, frame, flipped, reader, floor, result, restarts,
  owner, ready, failed, ended, runner, loop, playing, steady, ts,
  seen, nextKeep, kept, streamer, queue, consumer, got, missed

Shm == INSTANCE FrameShm
shmVars == <<latest, slots, writer, frame, flipped, reader, floor, result, restarts>>

Camera == INSTANCE CameraSource
cameraVars ==
  <<owner, ready, failed, ended, runner, loop, playing, steady, ts, seen,
    nextKeep, kept, streamer, queue, consumer, got, missed>>

ASSUME FrameBusConstants == Camera!SourceAssumption /\ Shm!ShmAssumption

FrameBusInit ==
  /\ part \in {"camera", "bytes", "file"}
  /\ Camera!SourceInit /\ Shm!ShmInit /\ HubInit
  /\ part # "camera" => ~steady

FrameBusNext ==
  /\ UNCHANGED part
  /\ \/ part = "camera" /\ Camera!SourceNext /\ UNCHANGED <<shmVars, hubVars>>
     \/ part = "bytes" /\ Shm!ShmNext /\ UNCHANGED <<cameraVars, hubVars>>
     \/ part = "file" /\ HubNext /\ UNCHANGED <<cameraVars, shmVars>>

FrameBusFair ==
  /\ WF_cameraVars(part = "camera" /\ Camera!Runner)
  /\ WF_cameraVars(part = "camera" /\ Camera!Put)
  /\ WF_cameraVars(part = "camera" /\ Camera!Consume)
  /\ WF_hubVars(part = "file" /\ Look) /\ WF_hubVars(part = "file" /\ Poll)
  /\ WF_hubVars(part = "file" /\ Recall)
  /\ \A p \in Producers : WF_hubVars(part = "file" /\ Stream(p))

FrameBusSpec ==
  FrameBusInit /\ [][FrameBusNext]_<<part, cameraVars, hubVars, shmVars>> /\ FrameBusFair

-----------------------------------------------------------------------------
\* SourceInv of CameraSource: the consumer of a camera finds its newest sample,
\* the rate cap bounds the samples kept and costs a camera that keeps its rate
\* none, and stop() takes the pipeline down.
CameraInv == Camera!SourceInv

\* Whatever the interleaving of writer and reader, a consumer gets no torn
\* frame, and the hub streams only from a file it has mapped.
FrameInv == Shm!FrameInv /\ HubTypeOK

\* A call answers with a frame no older than the call, or was lapped.
CallAnswers == Shm!CallAnswers

\* FollowsBus of HubPump, BusReturns of FrameBusFile and SourceEnds of
\* CameraSource: the hub is never stuck on a bus that is gone, nor away from one
\* that is live, a producer that lives comes back to a bus at the path, and a
\* camera that was stopped is let go.
HubFollowsBus == (part = "file" => FollowsBus) /\ BusReturns /\ Camera!SourceEnds
=============================================================================
