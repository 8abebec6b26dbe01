------------------------------- MODULE Recovery -------------------------------
(***************************************************************************)
(* The all-degraded recovery probe of FrameSync.  Two cameras are sticky   *)
(* degraded (a startup stall of one, then of the other, as in the test     *)
(* test_both_cameras_degraded_recover_to_aligned_pairing) and from then on *)
(* both deliver at the same constant period, with a phase that stays       *)
(* within the pairing tolerance.                                           *)
(***************************************************************************)
EXTENDS FrameSync

CONSTANTS
  Periods,  \* the frame periods considered, all shorter than Start
  Start     \* when both cameras are degraded and live again

\* It takes DegradedAfter, at least, until a camera is degraded.
RecoveryAssumption ==
  /\ Len(CameraIds) = 2
  /\ Start \in Nat /\ DegradedAfter <= Start /\ Start <= MaxTs
  /\ \A p \in Periods : p \in Nat \ {0} /\ p < Start

\* At period p the pairing comes back whatever the phase: where the first camera is
\* outside the tolerance of the frame g after its own, what it holds becomes overdue when
\* the other camera's frame comes, which then waits for the first one's next frame.  (At
\* 60 ms it depends on the phase: solo emissions can go on for ever.)
Reforms(p) ==
  \A g \in 1..(p - 1) :
    g > MaxSkew /\ p - g <= MaxSkew =>
      \E n \in 0..(BufferSize - 1) : n * p < DegradedAfter /\ DegradedAfter <= n * p + g

PhaseAssumption == \A p \in Periods : Reforms(p) /\ DegradedAfter + p <= MaxAge

VARIABLE period

\* The last frames of the two cameras: never captured at the same instant, and
\* within the tolerance either directly or from one frame to the next one of
\* the other camera.
InPhase(p) ==
  {at \in [Cameras -> (Start - p + 1)..Start] :
     \E j, k \in Cameras :
       /\ at[k] = Start
       /\ at[j] < Start
       /\ Start - at[j] <= MaxSkew \/ at[j] + p - Start <= MaxSkew}

\* Each degraded camera's last frame was emitted at once; the last emission
\* was solo.
RecoveryInit ==
  /\ period \in Periods
  /\ lastIn \in InPhase(period)
  /\ lastOut = lastIn
  /\ buffers = [k \in Cameras |-> <<>>]
  /\ degraded = [k \in Cameras |-> TRUE]
  /\ latest = Start
  /\ lastProbe = 0
  /\ \E k \in Cameras :
       /\ lastIn[k] = Start
       /\ pair = [idx |-> 2, frames |-> [x \in {k} |-> Start]]

\* The camera whose next frame is due first submits it.
Tick(c) ==
  LET ts == lastIn[c] + period IN
  /\ ts <= MaxTs
  /\ \A k \in Cameras : ts <= lastIn[k] + period
  /\ Submit(c, ts)
  /\ UNCHANGED period

RecoveryNext == \E c \in Cameras : Tick(c)

RecoverySpec == RecoveryInit /\ [][RecoveryNext]_<<vars, period>>

\* "Every probe interval, one camera is un-degraded so it buffers briefly and
\* gives alignment a chance to re-form": one probe interval and three periods
\* later the pairs are aligned, and stay so.
Recovered ==
  latest > Start + ProbeFactor * DegradedAfter + 3 * period =>
    DOMAIN pair.frames = Cameras
=============================================================================
