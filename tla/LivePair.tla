------------------------------- MODULE LivePair -------------------------------
(***************************************************************************)
(* The synchronizer of FrameSync fed by cameras that are all alive: a      *)
(* camera captures its next frame between MinPeriod and MaxPeriod after    *)
(* its last one, and submits it as it captures it.  The question is the    *)
(* one the comment in _try_emit_aligned and the regression test on unequal *)
(* camera rates answer with "two live cameras must never emit a solo pair".*)
(***************************************************************************)
EXTENDS FrameSync

CONSTANTS
  MinPeriod,   \* the shortest and
  MaxPeriod    \* the longest time between two frames of a live camera

ASSUME PeriodAssumption ==
  /\ MinPeriod \in Nat \ {0}
  /\ MaxPeriod \in Nat
  /\ MinPeriod <= MaxPeriod

\* c captures at ts and no camera has been silent for more than MaxPeriod.
\* (A first frame may come any time in the first period.)
LiveSubmit(c, ts) ==
  /\ ts >= latest
  /\ lastIn[c] > 0 => ts >= lastIn[c] + MinPeriod
  /\ \A k \in Cameras : ts <= lastIn[k] + MaxPeriod
  /\ Submit(c, ts)

LiveNext ==
  \E c \in Cameras : \E ts \in (lastIn[c] + 1)..MaxTs : LiveSubmit(c, ts)

LiveSpec == Init /\ [][LiveNext]_vars

\* The solo path never fires, so no downstream stage takes a live rig for a
\* camera loss: the last pair returned holds a frame of every camera, and no
\* camera is marked degraded.
NeverSolo ==
  /\ pair.idx > 0 => DOMAIN pair.frames = Cameras
  /\ \A k \in Cameras : ~degraded[k]
=============================================================================
