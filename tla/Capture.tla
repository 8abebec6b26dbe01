-------------------------------- MODULE Capture --------------------------------
(***************************************************************************)
(* The capture of calibration shots: the routes, which start, stop and     *)
(* restart a CaptureSession one at a time, and the worker threads of the   *)
(* sessions, one per camera, which nobody joins.  In the "intrinsic" phase *)
(* a worker saves its own shots; in the "floor" (and extrinsic) phase it   *)
(* stages them and the worker that finds all cameras staged commits the    *)
(* pair.  A shot is when it was staged and the placement of the board it   *)
(* shows; the files of a camera are its shots by the index in their name.  *)
(***************************************************************************)
EXTENDS Integers, Sequences, SequencesExt, FiniteSets

CONSTANTS
  Cameras,      \* the cameras of the project
  Target,       \* shots wanted per camera
  Window,       \* _PAIR_WINDOW_S
  MaxSessions,  \* model bound: sessions ever started
  MaxTime       \* model bound on the clock

\* What the constants must satisfy.
CaptureAssumption ==
  /\ IsFiniteSet(Cameras) /\ Cardinality(Cameras) > 1
  /\ {Target, Window, MaxSessions, MaxTime} \subseteq Nat

\* The order of the project's configuration.
CameraOrder == SetToSeq(Cameras)
Sessions == 1..MaxSessions
Workers == Sessions \X Cameras
NoShot == [at |-> 0, shows |-> 0, by |-> 0]

VARIABLES
  phase,    \* of all sessions: "intrinsic" or "floor"
  now,      \* time.time()
  board,    \* where the operator holds the board
  made,     \* sessions made so far
  current,  \* _session, 0 for None
  route,    \* what is left of the request in progress
  place,    \* [worker -> where its thread is]
  stopped,  \* sessions whose workers are told to stop
  view,     \* [worker -> the placement in the frame it works on, or 0]
  count,    \* [worker -> index of its next shot]
  ready,    \* [worker -> the shot staged for a pair, or NoShot]
  kept,     \* [worker -> placements the novelty gate knows]
  saving,   \* [session -> cameras the commit of a pair has yet to save]
  pairs,    \* [session -> pair_count]
  disk,     \* [camera -> [index -> shot]]
  mishap,   \* history: what can put the files of two cameras out of step
  late      \* history: [session -> commits begun after it was told to stop]

sessionVars == <<made, current, route, stopped>>
workerVars == <<place, view, count, ready, kept>>
pairVars == <<saving, pairs, late>>
world == <<phase, now, board>>
captureVars == <<world, sessionVars, workerVars, pairVars, disk, mishap>>

Goto(w, where) == place' = [place EXCEPT ![w] = where]
Of(s) == {s} \X Cameras
Files(c) == {i \in DOMAIN disk[c] : disk[c][i] # NoShot}

\* A worker that is past its look at the stop event of this frame.
Busy == {w \in Workers : place[w] \in {"seen", "try", "commit"}}

-----------------------------------------------------------------------------
\* Time passes and the operator may move the board.
Tick ==
  /\ now < MaxTime /\ now' = now + 1
  /\ board' \in {board, board + 1}
  /\ UNCHANGED <<phase, sessionVars, workerVars, pairVars, disk, mishap>>

\* A start, a stop, or a restart, which wipes the files first: what each of
\* them does once the session in progress is told to stop.
Request ==
  /\ route = <<>>
  /\ stopped' = stopped \cup ({current} \ {0}) /\ current' = 0
  /\ \/ current # 0 /\ UNCHANGED <<made, route>>
     \/ /\ made < MaxSessions /\ made' = made + 1
        /\ \E wipe \in {TRUE, FALSE} :
             route' = (IF wipe THEN [i \in DOMAIN CameraOrder |-> <<"wipe", CameraOrder[i]>>] ELSE <<>>)
                        \o [i \in DOMAIN CameraOrder |-> <<"count", CameraOrder[i]>>]
                        \o << <<"run", CameraOrder[1]>> >>
  /\ UNCHANGED <<world, workerVars, pairVars, disk, mishap>>

\* wipe_phase_captures, for one camera.
Wipe ==
  /\ route # <<>> /\ Head(route)[1] = "wipe" /\ route' = Tail(route)
  /\ disk' = [disk EXCEPT ![Head(route)[2]] = [i \in DOMAIN @ |-> NoShot]]
  /\ mishap' = (mishap \/ Busy # {})
  /\ UNCHANGED <<world, made, current, stopped, workerVars, pairVars>>

\* Mutant of Counted: a worker starts from zero whatever is on disk.
CountedNone(c) == 0

\* The files a new worker finds.
Counted(c) == Cardinality(Files(c))

\* _CamWorker(): the next index is the number of files.
CountFiles ==
  /\ route # <<>> /\ Head(route)[1] = "count" /\ route' = Tail(route)
  /\ count' = [count EXCEPT ![<<made, Head(route)[2]>>] = Counted(Head(route)[2])]
  /\ mishap' = (mishap \/ Busy # {})
  /\ UNCHANGED <<world, made, current, stopped, place, view, ready, kept, pairVars, disk>>

SmallestCount(s) == CHOOSE n \in {count[w] : w \in Of(s)} : \A w \in Of(s) : n <= count[w]

\* The workers run; the pairs already there are counted.
Run ==
  /\ route # <<>> /\ Head(route)[1] = "run" /\ route' = <<>>
  /\ current' = made
  /\ place' = [w \in Workers |-> IF w \in Of(made) THEN "look" ELSE place[w]]
  /\ pairs' = [pairs EXCEPT ![made] = SmallestCount(made)]
  /\ UNCHANGED <<world, made, stopped, view, count, ready, kept, saving, late, disk, mishap>>

\* The process dies and is started again: nothing is left but the files.
Kill ==
  /\ current # 0 \/ route # <<>> \/ Busy # {}
  /\ current' = 0 /\ route' = <<>>
  /\ stopped' = 1..made
  /\ place' = [w \in Workers |-> IF place[w] = "none" THEN "none" ELSE "over"]
  /\ mishap' = (mishap \/ route # <<>> \/ \E s \in Sessions : saving[s] \notin {<<>>, CameraOrder})
  /\ saving' = [s \in Sessions |-> <<>>] /\ view' = [w \in Workers |-> 0]
  /\ ready' = [w \in Workers |-> NoShot] /\ kept' = [w \in Workers |-> {}]
  /\ UNCHANGED <<world, made, count, pairs, late, disk>>

-----------------------------------------------------------------------------
\* The camera does not open, or its stream ends.
SourceEnds(w) ==
  /\ place[w] = "look" /\ Goto(w, "over")
  /\ UNCHANGED <<world, sessionVars, view, count, ready, kept, pairVars, disk, mishap>>

\* Mutant of Wanted: the target is not looked at.
WantedAlways(w) == board \notin kept[w]

\* The gate passes a placement it does not know, while shots are wanted.
Wanted(w) == board \notin kept[w] /\ count[w] < Target

\* The next frame: the worker ends, or detects the board and finds it good.
Look(w) ==
  /\ place[w] = "look"
  /\ IF w[1] \in stopped
     THEN Goto(w, "over") /\ UNCHANGED view
     ELSE Wanted(w) /\ Goto(w, "seen") /\ view' = [view EXCEPT ![w] = board]
  /\ UNCHANGED <<world, sessionVars, count, ready, kept, pairVars, disk, mishap>>

\* The frame that was judged, under the time at which the judgement is over.
Shot(w) == [at |-> now, shows |-> view[w], by |-> w[1]]

\* Mutant of Learned: the gate is told nothing.
LearnedNothing(w, shot) == kept[w]

\* What the gate knows after a save: a shot of a pair comes with a stub that
\* has no centroid.
Learned(w, shot) == IF phase = "intrinsic" THEN kept[w] \cup {shot.shows} ELSE kept[w]

\* _save: the file, unless it fails to be written, and nobody looks; the count;
\* the gate.
Saved(w, shot) ==
  /\ \/ disk' = [disk EXCEPT ![w[2]][count[w]] = shot] /\ UNCHANGED mishap
     \/ mishap' = TRUE /\ UNCHANGED disk
  /\ count' = [count EXCEPT ![w] = @ + 1]
  /\ kept' = [kept EXCEPT ![w] = Learned(w, shot)]

\* An intrinsic shot is saved at once.
Snap(w) ==
  /\ phase = "intrinsic" /\ place[w] = "seen" /\ Goto(w, "look")
  /\ Saved(w, Shot(w)) /\ view' = [view EXCEPT ![w] = 0]
  /\ UNCHANGED <<world, sessionVars, ready, pairVars>>

\* A shot for a pair is staged, also while the other worker commits.
Stage(w) ==
  /\ phase = "floor" /\ place[w] = "seen" /\ Goto(w, "try")
  /\ ready' = [ready EXCEPT ![w] = Shot(w)] /\ view' = [view EXCEPT ![w] = 0]
  /\ mishap' = (mishap \/ w[2] \in ToSet(saving[w[1]]))
  /\ UNCHANGED <<world, sessionVars, count, kept, pairVars, disk>>

\* Mutant of InWindow: any two staged shots make a pair.
InWindowAny(s) == \A w \in Of(s) : ready[w] # NoShot

\* All cameras are staged, within the window.
InWindow(s) ==
  /\ \A w \in Of(s) : ready[w] # NoShot
  /\ \A v, w \in Of(s) : ready[v].at - ready[w].at <= Window

\* try_snap_pair takes the lock and looks at what is staged.
Try(w) ==
  /\ place[w] = "try" /\ saving[w[1]] = <<>>
  /\ IF InWindow(w[1])
     THEN /\ Goto(w, "commit")
          /\ saving' = [saving EXCEPT ![w[1]] = CameraOrder]
          /\ late' = [late EXCEPT ![w[1]] = @ + (IF w[1] \in stopped THEN 1 ELSE 0)]
     ELSE Goto(w, "look") /\ UNCHANGED <<saving, late>>
  /\ UNCHANGED <<world, sessionVars, view, count, ready, kept, pairs, disk, mishap>>

\* Under the lock the commit takes and saves what each camera has staged, one
\* after the other.
Commit(w) ==
  /\ place[w] = "commit"
  /\ LET s == w[1]
         v == <<s, Head(saving[s])>>
         rest == Tail(saving[s])
     IN  /\ Saved(v, ready[v])
         /\ ready' = [ready EXCEPT ![v] = NoShot]
         /\ saving' = [saving EXCEPT ![s] = rest]
         /\ IF rest = <<>> THEN pairs' = [pairs EXCEPT ![s] = @ + 1] /\ Goto(w, "look")
                           ELSE UNCHANGED <<pairs, place>>
  /\ UNCHANGED <<world, sessionVars, view, late>>

-----------------------------------------------------------------------------
CaptureInit ==
  /\ phase \in {"intrinsic", "floor"} /\ now = 1 /\ board = 1
  /\ made = 0 /\ current = 0 /\ route = <<>> /\ stopped = {}
  /\ place = [w \in Workers |-> "none"]
  /\ view = [w \in Workers |-> 0]
  /\ count = [w \in Workers |-> 0]
  /\ ready = [w \in Workers |-> NoShot]
  /\ kept = [w \in Workers |-> {}]
  /\ saving = [s \in Sessions |-> <<>>]
  /\ pairs = [s \in Sessions |-> 0]
  /\ late = [s \in Sessions |-> 0]
  /\ disk = [c \in Cameras |-> [i \in 0..Target |-> NoShot]]
  /\ mishap = FALSE

\* In the phases that take pairs a behaviour ends with its first mishap: of what
\* is on disk then, nothing is promised.
CaptureNext ==
  /\ phase = "floor" => ~mishap
  /\ \/ Tick \/ Request \/ Wipe \/ CountFiles \/ Run \/ Kill
     \/ \E w \in Workers : SourceEnds(w) \/ Look(w) \/ Snap(w) \/ Stage(w) \/ Try(w) \/ Commit(w)

CaptureSpec == CaptureInit /\ [][CaptureNext]_captureVars

-----------------------------------------------------------------------------
CaptureTypeOK ==
  /\ current \in {0, made} /\ stopped \subseteq 1..made
  /\ \A w \in Workers : place[w] = "none" => ready[w] = NoShot /\ kept[w] = {}
  /\ \A s \in Sessions : saving[s] # <<>> <=> \E w \in Of(s) : place[w] = "commit"
  /\ \A s \in Sessions : Cardinality({w \in Of(s) : place[w] = "commit"}) <= 1

\* Never more shots than asked for, though a worker compares its count and the
\* other one commits.
NoOvershoot == \A w \in Workers : count[w] <= Target

\* Files of equal index show one moment: as long as no file failed to be
\* written, the process was not killed within a commit, no session began while a
\* worker of the last one was still busy, and no shot was staged anew while it
\* was being committed.
PairsLineUp ==
  phase = "floor" /\ ~mishap /\ route = <<>> /\ (\A s \in Sessions : saving[s] = <<>>) =>
    \A c, d \in Cameras :
      /\ Files(c) = Files(d)
      /\ \A i \in Files(c) : disk[c][i].at - disk[d][i].at <= Window

\* pair_count is the number of pairs there are.
PairsCounted ==
  \A s \in Sessions : phase = "floor" /\ ~mishap /\ s = current /\ saving[s] = <<>> =>
    \A c \in Cameras : pairs[s] = Cardinality(Files(c))

\* A session that was told to stop commits one more pair at most.
LastPair == \A s \in Sessions : late[s] <= 1

\* No two shots a session takes of a camera show the same placement.
PlacementsDistinct ==
  \A c \in Cameras : \A i, j \in Files(c) :
    i # j /\ disk[c][i].by = disk[c][j].by => disk[c][i].shows # disk[c][j].shows

\* The shots on disk are those a solve can use, whoever starts, stops and
\* restarts the capture.
CaptureInv ==
  /\ CaptureTypeOK /\ NoOvershoot /\ PairsLineUp /\ PairsCounted /\ LastPair
  /\ phase = "intrinsic" => PlacementsDistinct
=============================================================================
