------------------------------ MODULE PalletState ------------------------------
(***************************************************************************)
(* PalletStateManager: what the AGV is told about each zone, decided from  *)
(* per-camera detections.  A frame pair gives, for each reporting camera,  *)
(* a view of each zone; one ZoneMembershipHysteresis per class debounces   *)
(* presence, an OccupancyStabilizer keyed by zone debounces the load.      *)
(*                                                                         *)
(* Geometry is abstracted to its outcome: a view says which classes have a *)
(* detection in the zone above the presence floor, what the A/B estimators *)
(* read of the pallet there, if any, and which load lies within the metric *)
(* radius of a pallet position.  Counts are not kept; confidences are kept *)
(* as the set of classes that have one.                                    *)
(***************************************************************************)
EXTENDS OccupancyVote

CONSTANTS
  CameraIds,   \* the configured cameras, in order
  Palette,     \* the canonical pallet class
  EnterAfter,  \* frames of evidence before a class enters
  ExitAfter,   \* full frames of absence before it exits
  Nothing      \* no pallet, no load

Cameras == {CameraIds[i] : i \in DOMAIN CameraIds}
Classes == {Palette} \cup Loads

\* The views a camera can have of a zone.  With a load read of a pallet nobody
\* asks what lies near it.
Views ==
  {v \in [classes : SUBSET Classes, pallet : Verdicts \cup {Nothing}, near : Loads \cup {Nothing}] :
     /\ Palette \in v.classes => v.pallet # Nothing
     /\ v.pallet \in Loads => v.near = Nothing}

\* What the constants must satisfy, with VoteAssumption and LoadAssumption.
PalletAssumption ==
  /\ CameraIds \in Seq(Cameras)
  /\ Palette \notin Loads
  /\ Nothing \notin Verdicts
  /\ EnterAfter \in Nat \ {0} /\ ExitAfter \in Nat \ {0}

VARIABLES
  member,     \* [zone -> classes present after hysteresis]
  inStreak,   \* [zone -> [class -> frames of evidence while not a member]]
  outStreak,  \* [zone -> [class -> full frames of absence while a member]]
  heldConf,   \* [zone -> classes with a confidence held]
  decision,   \* [zone -> the ZoneDecision of the last step]
  sightings,  \* history: [zone -> [class -> frames of evidence in a row]]
  absences,   \* history: [zone -> [class -> full frames without evidence in a row]]
  loadSeen,   \* history: [zone -> content seen since the palette last exited]
  vacant,     \* history: [zone -> full frames in a row without any pallet]
  loadRecent, \* history: [zone -> content seen since vacant last reached ExitAfter]
  loadRun     \* history: [zone -> verdicts in a row with some camera reading a load]

presence == <<member, inStreak, outStreak, heldConf>>
palletHistory == <<sightings, absences, loadSeen, vacant, loadRecent, loadRun>>
palletVars == <<voteVars, historyVars, presence, decision, palletHistory>>

-----------------------------------------------------------------------------
\* A frame maps each reporting camera to its views of the zones.
Frames == UNION {[R -> [Keys -> Views]] : R \in (SUBSET Cameras) \ {{}}}

Partial(frame) == DOMAIN frame # Cameras

\* Cross-camera OR of the detections in zone z.
Evidence(frame, z) == UNION {frame[c][z].classes : c \in DOMAIN frame}

\* The first of some reporting cameras in the order the frame folds them.
First(cameras) ==
  CameraIds[CHOOSE i \in DOMAIN CameraIds :
              /\ CameraIds[i] \in cameras
              /\ \A j \in 1..(i - 1) : CameraIds[j] \notin cameras]

\* Mutant of FrameVerdict: the first camera that sees a pallet decides.
FrameVerdictFirst(frame, z) ==
  LET seen == {c \in DOMAIN frame : frame[c][z].pallet # Nothing}
  IN  IF seen = {} THEN Nothing ELSE frame[First(seen)][z].pallet

\* The occupancy verdict of a frame: a load read by any camera outranks another
\* camera's "empty"; failing that a load of any camera near a pallet of any
\* camera; Nothing when no camera sees a pallet.
FrameVerdict(frame, z) ==
  LET seen   == {c \in DOMAIN frame : frame[c][z].pallet # Nothing}
      loaded == {c \in DOMAIN frame : frame[c][z].pallet \in Loads}
      near   == {c \in DOMAIN frame : frame[c][z].near # Nothing}
  IN  IF seen = {} THEN Nothing
      ELSE IF loaded # {} THEN frame[First(loaded)][z].pallet
      ELSE IF near # {} THEN frame[First(near)][z].near
      ELSE Empty

-----------------------------------------------------------------------------
\* ZoneMembershipHysteresis.update for zone z with evidence E.
Joins(z, E) == {c \in E \ member[z] : inStreak[z][c] + 1 >= EnterAfter}

\* Mutant of Leaves: a frame without a camera counts as absence.
LeavesPartial(z, E, partial) ==
  {c \in member[z] \ E : outStreak[z][c] + 1 >= ExitAfter}

Leaves(z, E, partial) ==
  {c \in member[z] \ E : ~partial /\ outStreak[z][c] + 1 >= ExitAfter}

Member(z, E, partial) == (member[z] \cup Joins(z, E)) \ Leaves(z, E, partial)

InStreak(z, E, partial) ==
  [c \in Classes |->
     IF c \in Joins(z, E) THEN 0
     ELSE IF c \in E \ member[z] THEN inStreak[z][c] + 1
     ELSE IF c \notin E /\ ~partial THEN 0 ELSE inStreak[z][c]]

\* Mutant of OutStreak: the streak is reset, not frozen, by a partial frame.
OutStreakReset(z, E, partial) ==
  [c \in Classes |->
     IF c \in E \cup Leaves(z, E, partial) \/ partial THEN 0
     ELSE IF c \in member[z] THEN outStreak[z][c] + 1 ELSE outStreak[z][c]]

OutStreak(z, E, partial) ==
  [c \in Classes |->
     IF c \in E \cup Leaves(z, E, partial) THEN 0
     ELSE IF c \in member[z] /\ ~partial THEN outStreak[z][c] + 1 ELSE outStreak[z][c]]

\* The palette of z exits with this frame.
Exits(z, frame) == Palette \in Leaves(z, Evidence(frame, z), Partial(frame))

\* Mutant of Forgotten: the votes about a departed pallet stay.
NeverForgotten(z, frame) == [votes |-> hist[z], state |-> held[z]]

\* The vote of z after the forget of a palette that exits.
Forgotten(z, frame) ==
  IF Exits(z, frame) THEN [votes |-> <<>>, state |-> Unknown]
                     ELSE [votes |-> hist[z], state |-> held[z]]

\* One vote when the frame has a verdict, none otherwise.
Votes(z, frame) ==
  LET f == Forgotten(z, frame)
      v == FrameVerdict(frame, z)
      h == Record(f.votes, v)
  IN  IF v = Nothing THEN f ELSE [votes |-> h, state |-> VotedState(h, f.state)]

\* vote() or last(): the occupancy the decision reads.
Occupancy(z, frame) ==
  LET o == Votes(z, frame)
      f == Forgotten(z, frame)
  IN  IF o.votes = <<>> THEN Nothing
      ELSE Voted(o.votes, f.state)

NoDecision == [state |-> "no_data", content |-> Nothing, classes |-> {}]

Decide(z, frame) ==
  LET present == Member(z, Evidence(frame, z), Partial(frame))
      occ == Occupancy(z, frame)
  IN  IF Palette \notin present
      THEN [state |-> "no_palette", content |-> Nothing, classes |-> present]
      ELSE IF occ \in Loads
      THEN [state |-> "palette_loaded", content |-> occ, classes |-> present]
      ELSE [state |-> "palette_empty", content |-> Nothing, classes |-> present]

-----------------------------------------------------------------------------
AtMost(n, bound) == IF n < bound THEN n ELSE bound

\* Refreshed by the frame, kept through dropouts, dropped with the presence.
HeldConf(z, frame) ==
  (heldConf[z] \cup Evidence(frame, z))
    \cap Member(z, Evidence(frame, z), Partial(frame))

\* The history a reader of the detections would keep.
Witness(frame) ==
  /\ sightings' = [z \in Keys |-> [c \in Classes |->
       IF c \in Evidence(frame, z) THEN AtMost(sightings[z][c] + 1, EnterAfter)
       ELSE IF Partial(frame) THEN sightings[z][c] ELSE 0]]
  /\ absences' = [z \in Keys |-> [c \in Classes |->
       IF c \in Evidence(frame, z) THEN 0
       ELSE IF Partial(frame) THEN absences[z][c]
       ELSE AtMost(absences[z][c] + 1, ExitAfter)]]
  /\ loadSeen' = [z \in Keys |->
       FrameVerdict(frame, z) \in Loads \/ (loadSeen[z] /\ ~Exits(z, frame))]
  /\ vacant' = [z \in Keys |->
       IF FrameVerdict(frame, z) # Nothing THEN 0
       ELSE IF Partial(frame) THEN vacant[z] ELSE AtMost(vacant[z] + 1, ExitAfter)]
  /\ loadRecent' = [z \in Keys |->
       \/ FrameVerdict(frame, z) \in Loads
       \/ loadRecent[z] /\ vacant'[z] < ExitAfter]
  /\ loadRun' = [z \in Keys |->
       IF FrameVerdict(frame, z) = Nothing THEN loadRun[z]
       ELSE IF \E c \in DOMAIN frame : frame[c][z].pallet \in Loads
       THEN AtMost(loadRun[z] + 1, Window) ELSE 0]

\* step(): every zone is decided from one frame.
Step(frame) ==
  /\ member' = [z \in Keys |-> Member(z, Evidence(frame, z), Partial(frame))]
  /\ inStreak' = [z \in Keys |-> InStreak(z, Evidence(frame, z), Partial(frame))]
  /\ outStreak' = [z \in Keys |-> OutStreak(z, Evidence(frame, z), Partial(frame))]
  /\ heldConf' = [z \in Keys |-> HeldConf(z, frame)]
  /\ hist' = [z \in Keys |-> Votes(z, frame).votes]
  /\ held' = [z \in Keys |-> Votes(z, frame).state]
  /\ decision' = [z \in Keys |-> Decide(z, frame)]
  /\ Witness(frame)
  /\ UNCHANGED historyVars

PalletInit ==
  /\ VoteInit
  /\ member = [z \in Keys |-> {}]
  /\ inStreak = [z \in Keys |-> [c \in Classes |-> 0]]
  /\ outStreak = [z \in Keys |-> [c \in Classes |-> 0]]
  /\ heldConf = [z \in Keys |-> {}]
  /\ decision = [z \in Keys |-> NoDecision]
  /\ sightings = [z \in Keys |-> [c \in Classes |-> 0]]
  /\ absences = [z \in Keys |-> [c \in Classes |-> ExitAfter]]
  /\ loadSeen = [z \in Keys |-> FALSE]
  /\ vacant = [z \in Keys |-> ExitAfter]
  /\ loadRecent = [z \in Keys |-> FALSE]
  /\ loadRun = [z \in Keys |-> 0]

PalletNext == \E frame \in Frames : Step(frame)

PalletSpec == PalletInit /\ [][PalletNext]_palletVars

-----------------------------------------------------------------------------
PalletTypeOK ==
  /\ VoteTypeOK
  /\ member \in [Keys -> SUBSET Classes]
  /\ inStreak \in [Keys -> [Classes -> 0..(EnterAfter - 1)]]
  /\ outStreak \in [Keys -> [Classes -> 0..(ExitAfter - 1)]]
  /\ heldConf \in [Keys -> SUBSET Classes]
  /\ \A z \in Keys : decision[z].state \in
       {"no_data", "no_palette", "palette_empty", "palette_loaded"}

\* No phantom: a class that is reported present was seen within the last
\* ExitAfter full frames, however many partial frames came in between.
NoPhantom ==
  \A z \in Keys : \A c \in member[z] : absences[z][c] < ExitAfter

\* No miss: a class seen in EnterAfter frames in a row is reported.
NoMiss ==
  \A z \in Keys : \A c \in Classes :
    sightings[z][c] >= EnterAfter => c \in member[z]

\* Camera loss is not absence and a flicker is not presence: a class enters and
\* exits only on a full run of evidence or of absence.
DebouncedPresence ==
  [][\A z \in Keys :
       /\ \A c \in member'[z] \ member[z] : sightings'[z][c] >= EnterAfter
       /\ \A c \in member[z] \ member'[z] : absences'[z][c] >= ExitAfter]_palletVars

\* Every class a decision reports has a confidence to go with it, and no other.
ConfidenceComplete == \A z \in Keys : heldConf[z] = member[z]

\* What is reported present is what the evidence of the last frames says.
PresenceInv == PalletTypeOK /\ NoPhantom /\ NoMiss /\ ConfidenceComplete

\* A zone reads loaded, with the content, only when a load was seen in it after
\* its last palette exited.
LoadIsCurrent ==
  \A z \in Keys : decision[z].state = "palette_loaded" =>
    decision[z].content \in Loads /\ loadSeen[z]

\* A load any camera reads outranks "empty" from another angle: read on a
\* present palette for a quorum of frames, it is what the zone reads.
LoadOutranksEmpty ==
  \A z \in Keys :
    loadRun[z] >= Need(Window) /\ Palette \in member[z]
      => decision[z].state = "palette_loaded"

\* The forget at exit keeps a later pallet from inheriting a stale verdict: a
\* zone that reads loaded was not without any pallet for ExitAfter full frames
\* after its last load was seen.
NoInheritedLoad ==
  \A z \in Keys : decision[z].state = "palette_loaded" => loadRecent[z]
=============================================================================
