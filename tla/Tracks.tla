-------------------------------- MODULE Tracks --------------------------------
(***************************************************************************)
(* The life of tracks through Orchestrator.step: ByteTrackMeters confirms, *)
(* loses and gives up InternalTracks; ZoneMembershipHysteresis debounces   *)
(* the zone membership of the published ones, ZoneTransitionDetector turns *)
(* its changes into enter and leave events, and the zone's object list is  *)
(* made of it; tracks not published in this frame are forgotten by both.   *)
(* Which observation belongs to which track (the assignment on Kalman      *)
(* predictions) is any assignment; one zone stands for all.                *)
(***************************************************************************)
EXTENDS Naturals

CONSTANTS
  MinHits,        \* min_hits_to_confirm
  MaxLost,        \* max_lost_frames
  EnterAfter, ExitAfter,  \* of the hysteresis
  MaxTracks       \* model bound on the tracks ever made

ASSUME TracksAssumption ==
  /\ MinHits \in Nat \ {0} /\ MaxLost \in Nat
  /\ EnterAfter \in Nat \ {0} /\ ExitAfter \in Nat \ {0}
  /\ MaxTracks \in Nat

Ids == 1..MaxTracks
States == {"none", "new", "tracked", "lost", "removed"}

\* Where an observation is: in the zone, within the exit margin, or beyond it.
Places == {"in", "near", "out"}
Missed == "missed"

VARIABLES
  state, hits, lost,      \* [id -> state, hit_streak, lost_frames]
  member,                 \* ids in the debounced membership
  inStreak, outStreak,    \* [id -> _in_streak, _out_streak]
  prev,                   \* ids the detector has in the zone
  event,                  \* [id -> last passing event sent, or "none"], history
  broken                  \* ids not published in some frame since, history

trackVars == <<state, hits, lost>>
zoneVars == <<member, inStreak, outStreak, prev>>
tracksVars == <<trackVars, zoneVars, event, broken>>

Active == {i \in Ids : state[i] \in {"new", "tracked", "lost"}}
Unused == {i \in Ids : state[i] = "none"}

-----------------------------------------------------------------------------
\* InternalTrack.create, update_with and mark_missed.
Created == IF MinHits <= 1 THEN "tracked" ELSE "new"

Updated(i) ==
  IF state[i] = "new" /\ hits[i] + 1 < MinHits THEN "new" ELSE "tracked"

\* Mutant of GivenUp: one frame too late.
GivenUpLate(i) == lost[i] > MaxLost
GivenUp(i) == lost[i] + 1 > MaxLost
MarkedMissed(i) == IF state[i] = "new" \/ GivenUp(i) THEN "removed" ELSE "lost"

\* ByteTrackMeters.update: `seen` says of every active track where it is
\* observed, if it is, and of the observations left over where the new tracks
\* are.  Ids are given out in order.
Matched(seen) == {i \in Active : seen[i] # Missed}
Follow(seen, spawned) ==
  /\ state' = [i \in Ids |-> IF i \in spawned THEN Created
                             ELSE IF i \notin Active THEN state[i]
                             ELSE IF i \in Matched(seen) THEN Updated(i) ELSE MarkedMissed(i)]
  /\ hits' = [i \in Ids |-> IF i \in spawned THEN 1
                            ELSE IF i \notin Active THEN hits[i]
                            ELSE IF i \in Matched(seen) /\ hits[i] < MinHits THEN hits[i] + 1
                            ELSE IF i \in Matched(seen) THEN hits[i] ELSE 0]
  /\ lost' = [i \in Ids |-> IF i \notin Active \/ i \in Matched(seen) THEN 0 ELSE lost[i] + 1]

\* is_publishable, after the update.
Published == {i \in Ids : state[i] = "tracked"}

-----------------------------------------------------------------------------
\* ZoneMembershipHysteresis.update for the published tracks, and forget.
InRun(seen, i) == IF seen[i] = "in" /\ i \notin member THEN inStreak[i] + 1 ELSE 0
Enters(seen, i) == InRun(seen, i) >= EnterAfter
OutRun(seen, i) == IF seen[i] = "out" /\ i \in member THEN outStreak[i] + 1 ELSE 0

Leaves(seen, i) == OutRun(seen, i) >= ExitAfter

\* Mutant of Kept: the hysteresis does not forget.
KeptAll(live) == Ids
Kept(live) == live

Debounce(seen, live) ==
  /\ member' = {i \in Kept(live) : IF i \in live
                                   THEN Enters(seen, i) \/ (i \in member /\ ~Leaves(seen, i))
                                   ELSE i \in member}
  /\ inStreak' = [i \in Ids |-> IF i \notin live \/ Enters(seen, i) THEN 0 ELSE InRun(seen, i)]
  /\ outStreak' = [i \in Ids |-> IF i \notin live \/ Leaves(seen, i) THEN 0 ELSE OutRun(seen, i)]

\* Mutant of Remembered: the detector does not forget.
RememberedAll(live) == prev \ live
Remembered(live) == {}

\* ZoneTransitionDetector.update for the published tracks, and forget.
Transitions(live) ==
  LET enters == (member' \cap live) \ prev
      leaves == (prev \cap live) \ member'
  IN  /\ prev' = (member' \cap live) \cup Remembered(live)
      /\ event' = [i \in Ids |-> IF i \in enters THEN "enter"
                                 ELSE IF i \in leaves THEN "leave" ELSE event[i]]
      /\ broken' = (broken \ (enters \cup leaves)) \cup (Ids \ live)

\* One step of the pipeline: `live` are the tracks published in this frame.
Step(seen, spawned) ==
  /\ Follow(seen, spawned)
  /\ Debounce(seen, Published')
  /\ Transitions(Published')

TracksInit ==
  /\ state = [i \in Ids |-> "none"]
  /\ hits = [i \in Ids |-> 0] /\ lost = [i \in Ids |-> 0]
  /\ member = {} /\ prev = {}
  /\ inStreak = [i \in Ids |-> 0] /\ outStreak = [i \in Ids |-> 0]
  /\ event = [i \in Ids |-> "none"] /\ broken = Ids

\* The ids that are next, so that `spawned` is a run of them.
NextIds == {new \in SUBSET Unused : \A i \in Unused, j \in new : i < j => i \in new}

\* Any observations of the active tracks and any number of new objects.
TracksNext ==
  \E seen \in [Ids -> Places \cup {Missed}], spawned \in NextIds :
    /\ \A i \in Unused \ spawned : seen[i] = Missed
    /\ \A i \in spawned : seen[i] # Missed
    /\ \A i \in Ids : state[i] = "removed" => seen[i] = Missed
    /\ Step(seen, spawned)

TracksSpec == TracksInit /\ [][TracksNext]_tracksVars

-----------------------------------------------------------------------------
\* The bookkeeping of a track agrees with its state: only what was seen in this
\* frame is published, and a lost track is kept for max_lost_frames frames.
TracksTypeOK ==
  /\ state \in [Ids -> States] /\ hits \in [Ids -> 0..MinHits] /\ lost \in [Ids -> Nat]
  /\ member \subseteq Ids /\ prev \subseteq Ids /\ broken \subseteq Ids
  /\ inStreak \in [Ids -> 0..EnterAfter] /\ outStreak \in [Ids -> 0..ExitAfter]
  /\ event \in [Ids -> {"none", "enter", "leave"}]
  /\ \A i \in Ids :
       /\ state[i] = "new" => hits[i] \in 1..MinHits /\ lost[i] = 0
       /\ state[i] = "tracked" => hits[i] > 0 /\ lost[i] = 0
       /\ state[i] = "lost" => lost[i] \in 1..MaxLost

\* The two outputs about a zone tell one story: the object list holds the
\* published tracks that were announced as entering and not as leaving, since
\* they were last out of sight.
ListAgreesWithPassings ==
  member = {i \in Published : event[i] = "enter" /\ i \notin broken}

TracksInv == TracksTypeOK /\ ListAgreesWithPassings

\* "We do not synthesise leave events": nobody leaves who has not entered in
\* the same stretch of frames, and whoever enters twice was out of sight between.
PassingsJustified ==
  [][\A i \in Ids :
       /\ event'[i] = "leave" /\ event[i] # "leave" => event[i] = "enter" /\ i \notin broken
       /\ i \in prev' \ prev => event[i] # "enter" \/ i \in broken]_tracksVars

-----------------------------------------------------------------------------
(* Expectations the code does not meet.                                      *)

\* "LEAVES only after exit_after consecutive outside frames": a track missed in
\* one frame is out of the list at once, and has to enter anew.
MembershipHeld ==
  [][\A i \in member : i \notin member' =>
       state'[i] = "removed" \/ outStreak[i] + 1 >= ExitAfter]_tracksVars

\* An event is sent "whenever a tracked object crosses a zone boundary": a track
\* that is lost inside and found outside of the zone never leaves.
EventsAlternate ==
  [][\A i \in Ids : i \in prev' \ prev => event[i] # "enter"]_tracksVars
=============================================================================
