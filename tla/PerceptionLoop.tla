----------------------------- MODULE PerceptionLoop -----------------------------
(***************************************************************************)
(* The perception loop of the producer: IsistreamCore.tick takes the       *)
(* newest frame of every camera, asks the MotionGate which of them need    *)
(* the object detector and, every PoseEvery-th tick, the pose model, and   *)
(* sends one detection set per fresh frame, of what was inferred now or is *)
(* kept from before.  A tick is one action: it reads what the provider has *)
(* and nothing else is shared.  A frame is an appearance, a level of the   *)
(* scene; the gate tells two appearances apart only if they differ by more *)
(* than Delta.  Either model may raise.  Objects and persons stand for the *)
(* appearance they were inferred on.  Time passes in units of a tick.      *)
(***************************************************************************)
EXTENDS Integers

CONSTANTS
  Cameras,
  Levels,         \* the appearances of a scene
  Delta,          \* what _changed does not notice
  Refresh,        \* refresh_s, in ticks
  PoseEvery       \* pose_every_n

\* What the constants must satisfy.
LoopAssumption ==
  Levels \subseteq Nat /\ Delta \in Nat /\ Refresh \in Nat \ {0} /\ PoseEvery \in Nat \ {0}

None == -1

VARIABLES
  frame,              \* [camera -> the frame this tick took, None if there was no new one]
  tick,               \* _tick_count modulo PoseEvery
  objSig, objAge,     \* the gate: [camera -> appearance and age of the last object inference asked for]
  poseSig, poseAge,   \* ... of the last pose inference asked for
  wireObj, wirePerson,    \* [camera -> appearance the cached detections are from, or None]
  sent,               \* cameras whose set this tick sent, with the cached detections
  objFailed, poseFailed   \* cameras whose last inference asked for raised, history

gateVars == <<objSig, objAge, poseSig, poseAge>>
loopVars == <<frame, tick, gateVars, wireObj, wirePerson, sent, objFailed, poseFailed>>

\* _changed, on a reference that may be missing.
Changed(sig, level) == sig = None \/ level > sig + Delta \/ sig > level + Delta

\* Mutant of Due: no forced refresh.
DueOnChange(sig, age, level) == Changed(sig, level)
\* objects_due and pose_due.
Due(sig, age, level) == age >= Refresh \/ Changed(sig, level)

\* The cameras with a frame newer than _last_ts, and those the gate lets infer.
Fresh == {c \in Cameras : frame'[c] # None}
ObjCams == {c \in Fresh : Due(objSig[c], objAge[c], frame'[c])}
PoseCams == {c \in Fresh : tick' = 0 /\ Due(poseSig[c], poseAge[c], frame'[c])}

\* Mutant of Signature: the reference follows every frame.
SignatureFollows(asked, sig, c) == IF c \in Fresh THEN frame'[c] ELSE sig[c]
\* The gate arms the new reference when it asks for an inference.
Signature(asked, sig, c) == IF c \in asked THEN frame'[c] ELSE sig[c]

Older(age) == IF age <= Refresh THEN age + 1 ELSE age
Age(asked, age, c) == Older(IF c \in asked THEN 0 ELSE age[c])

\* What is kept of a model's detections when it ran, or did not, on `asked`.
Cached(asked, wire, c) == IF c \in asked THEN frame'[c] ELSE wire[c]

-----------------------------------------------------------------------------
\* The newest frames are taken, of any appearance, and the gate is asked for
\* both models, before either runs.
Taken ==
  /\ frame' \in [Cameras -> Levels \cup {None}]
  /\ tick' = (tick + 1) % PoseEvery
  /\ objSig' = [c \in Cameras |-> Signature(ObjCams, objSig, c)]
  /\ objAge' = [c \in Cameras |-> Age(ObjCams, objAge, c)]
  /\ poseSig' = [c \in Cameras |-> Signature(PoseCams, poseSig, c)]
  /\ poseAge' = [c \in Cameras |-> Age(PoseCams, poseAge, c)]

\* Both models ran, or the pose model raised, which is swallowed: every fresh
\* frame has its set.
Emit(posed) ==
  /\ Taken
  /\ PoseCams = {} => posed
  /\ wireObj' = [c \in Cameras |-> Cached(ObjCams, wireObj, c)]
  /\ wirePerson' = [c \in Cameras |-> IF posed THEN Cached(PoseCams, wirePerson, c) ELSE wirePerson[c]]
  /\ sent' = Fresh
  /\ objFailed' = objFailed \ ObjCams
  /\ poseFailed' = IF posed THEN poseFailed \ PoseCams ELSE poseFailed \cup PoseCams

\* The object detector raises: the tick ends in _run's handler, and no camera
\* has a set, neither those that were due nor the others.
FailDetect ==
  /\ Taken /\ ObjCams # {}
  /\ sent' = {}
  /\ objFailed' = objFailed \cup ObjCams
  /\ poseFailed' = poseFailed \cup PoseCams
  /\ UNCHANGED <<wireObj, wirePerson>>

LoopInit ==
  /\ frame = [c \in Cameras |-> None]
  /\ tick = 0
  /\ objSig = [c \in Cameras |-> None] /\ objAge = [c \in Cameras |-> Refresh]
  /\ poseSig = [c \in Cameras |-> None] /\ poseAge = [c \in Cameras |-> Refresh]
  /\ wireObj = [c \in Cameras |-> None] /\ wirePerson = [c \in Cameras |-> None]
  /\ sent = {}
  /\ objFailed = {} /\ poseFailed = {}

LoopNext ==
  \/ \E posed \in BOOLEAN : Emit(posed)
  \/ FailDetect

LoopSpec == LoopInit /\ [][LoopNext]_loopVars

-----------------------------------------------------------------------------
LoopTypeOK ==
  /\ frame \in [Cameras -> Levels \cup {None}]
  /\ tick \in 0..PoseEvery - 1
  /\ objSig \in [Cameras -> Levels \cup {None}] /\ objAge \in [Cameras -> 0..Refresh + 1]
  /\ poseSig \in [Cameras -> Levels \cup {None}] /\ poseAge \in [Cameras -> 0..Refresh + 1]
  /\ wireObj \in [Cameras -> Levels \cup {None}] /\ wirePerson \in [Cameras -> Levels \cup {None}]
  /\ sent \subseteq {c \in Cameras : frame[c] # None}
  /\ objFailed \subseteq Cameras /\ poseFailed \subseteq Cameras

\* "keep emitting the truth": the objects sent with a frame were asked for no
\* longer than refresh_s ago and, unless the detector then raised, are those of
\* a scene that looks the same, however slowly it has been changing since.
ObjectsCurrent ==
  \A c \in sent :
    /\ objAge[c] <= Refresh
    /\ Changed(wireObj[c], frame[c]) => c \in objFailed

\* The same of the persons, on the ticks of the pose model.
PersonsCurrent ==
  \A c \in sent : tick = 0 /\ Changed(wirePerson[c], frame[c]) => c \in poseFailed

\* Whatever failed is tried again: a set with objects of before the failure
\* comes after it and no later than refresh_s.
FailureFades == \A c \in sent \cap objFailed : objAge[c] \in 2..Refresh

LoopInv == LoopTypeOK /\ ObjectsCurrent /\ PersonsCurrent /\ FailureFades

-----------------------------------------------------------------------------
(* Expectations the code does not meet.                                      *)

\* "emit one DetectionSetMessage per camera with a FRESH frame": a detector that
\* raises silences every camera of the tick.
EveryFreshFrameSent == \A c \in Cameras : frame[c] # None => c \in sent

\* "persons coast on the metric engine's Kalman between ticks": between the
\* ticks of the pose model the last persons are sent again, as new.
PersonsOnlyWhenSeen ==
  \A c \in sent : wirePerson[c] # None => ~Changed(wirePerson[c], frame[c])
=============================================================================
