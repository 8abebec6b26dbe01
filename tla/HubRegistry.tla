------------------------------ MODULE HubRegistry ------------------------------
(***************************************************************************)
(* CameraHub, the dashboard's registry of one CameraStream per camera: the *)
(* viewers that acquire and release it, a stream that is rebuilt when the  *)
(* camera's config has changed, the idle timer armed when the last viewer  *)
(* leaves, and the pump thread of each stream with its session on the      *)
(* camera.  Whoever takes a stream out of the registry stops it after the  *)
(* lock is released.  One camera stands for all: the registry is keyed.    *)
(***************************************************************************)
EXTENDS Naturals, Sequences, FiniteSets

CONSTANTS
  Viewers,
  Configs,        \* the keys (plugin and source settings) a camera may have
  Replays,        \* those of them that are files: they end
  MaxStreams,     \* model bound on the streams made
  MaxTimers       \* model bound on the idle timers armed

ASSUME HubRegistryAssumption ==
  /\ IsFiniteSet(Viewers) /\ Replays \subseteq Configs
  /\ MaxStreams \in Nat \ {0} /\ MaxTimers \in Nat

Streams == 1..MaxStreams

VARIABLES
  current,        \* _streams[camera], 0 for none
  made,           \* streams made so far: their identities
  key,            \* [stream -> its config]
  readers,        \* _readers[camera]
  slot,           \* _idle_timers[camera]: index of a timer, 0 for none
  idle,           \* the timers ever armed: [stream, state]
  watched,        \* [viewer -> the stream it acquired and has not released, or 0]
  doomed,         \* streams out of the registry whose stop() is still to come
  halted,         \* streams whose _stop is set
  pump            \* [stream -> "none", "build", "open" or "over"]

registryVars == <<current, key, made, readers, slot, idle, watched>>
pumpVars == <<halted, pump>>
hubRegistryVars == <<registryVars, doomed, pumpVars>>

-----------------------------------------------------------------------------
\* timer.cancel() stops a timer that still waits; one that is past it comes to
\* _retire whatever happens.
Cancelled(t) ==
  [i \in DOMAIN idle |-> IF i = t /\ idle[i].state = "armed"
                         THEN [idle[i] EXCEPT !.state = "over"] ELSE idle[i]]

\* ensure_pump starts the thread unless it is alive.
Ensured(s) == IF pump[s] \in {"none", "over"} THEN [pump EXCEPT ![s] = "build"] ELSE pump

\* acquire: the viewer is counted for the stream in the registry, a new one if
\* there is none or if its config is another.
Acquire(v, k) ==
  LET same == current # 0 /\ key[current] = k
      s == IF same THEN current ELSE made + 1
  IN  /\ watched[v] = 0 /\ s \in Streams
      /\ current' = s
      /\ made' = IF same THEN made ELSE s
      /\ key' = [key EXCEPT ![s] = k]
      /\ doomed' = IF current # 0 /\ ~same THEN doomed \cup {current} ELSE doomed
      /\ idle' = Cancelled(slot) /\ slot' = 0
      /\ readers' = IF same THEN readers + 1 ELSE 1
      /\ watched' = [watched EXCEPT ![v] = s]
      /\ pump' = Ensured(s)
      /\ UNCHANGED halted

\* Mutant of Current: a viewer of a replaced stream is taken off the new one.
CurrentAny(s) == current # 0
Current(s) == current = s

\* release: only a viewer of the stream in the registry counts; the last one
\* arms the idle timer unless there is one.
Release(v) ==
  /\ watched[v] # 0
  /\ watched' = [watched EXCEPT ![v] = 0]
  /\ IF Current(watched[v])
     THEN /\ readers' = IF readers = 0 THEN 0 ELSE readers - 1
          /\ IF readers' = 0 /\ slot = 0
             THEN /\ Len(idle) < MaxTimers
                  /\ idle' = Append(idle, [stream |-> watched[v], state |-> "armed"])
                  /\ slot' = Len(idle')
             ELSE UNCHANGED <<idle, slot>>
     ELSE UNCHANGED <<readers, idle, slot>>
  /\ UNCHANGED <<current, key, made, doomed, pumpVars>>

\* The grace is over: from here on cancel() comes too late.
Expire(t) ==
  /\ t \in DOMAIN idle /\ idle[t].state = "armed"
  /\ idle' = [idle EXCEPT ![t].state = "due"]
  /\ UNCHANGED <<current, key, made, readers, slot, watched, doomed, pumpVars>>

\* Mutant of Unwatched: a viewer that came back in the meantime is overlooked.
UnwatchedAny(s) == Current(s)
Unwatched(s) == Current(s) /\ readers = 0

\* _retire.  The timer in the slot may be another than the one that runs here.
Retire(t) ==
  /\ t \in DOMAIN idle /\ idle[t].state = "due"
  /\ idle' = [idle EXCEPT ![t].state = "over"]
  /\ IF Unwatched(idle[t].stream)
     THEN current' = 0 /\ readers' = 0 /\ slot' = 0 /\ doomed' = doomed \cup {current}
     ELSE UNCHANGED <<current, readers, slot, doomed>>
  /\ UNCHANGED <<key, made, watched, pumpVars>>

\* stop(), by whoever took the stream out: it wakes the readers, and if the pump
\* has got a source by now it stops that too, and SourceEnds.
Stop(s) ==
  /\ s \in doomed
  /\ doomed' = doomed \ {s} /\ halted' = halted \cup {s}
  /\ UNCHANGED <<registryVars, pump>>

-----------------------------------------------------------------------------
\* _pump: the source is built and its session opened whether or not stop() was
\* called in the meantime ...
Open(s) ==
  /\ pump[s] = "build"
  /\ pump' = [pump EXCEPT ![s] = "open"]
  /\ UNCHANGED <<registryVars, doomed, halted>>

\* ... or it cannot be built, and is tried again after the backoff.
BuildFails(s) ==
  /\ pump[s] = "build" /\ s \in halted
  /\ pump' = [pump EXCEPT ![s] = "over"]
  /\ UNCHANGED <<registryVars, doomed, halted>>

\* The source has no more frames: it was stopped, failed, or is a file that is
\* done.  The session is closed.
SourceEnds(s) ==
  /\ pump[s] = "open"
  /\ pump' = [pump EXCEPT ![s] = IF s \in halted \/ key[s] \in Replays
                                 THEN "over" ELSE "build"]
  /\ UNCHANGED <<registryVars, doomed, halted>>

\* With each frame the pump looks at _stop.
FrameComes(s) ==
  /\ pump[s] = "open" /\ s \in halted
  /\ pump' = [pump EXCEPT ![s] = "over"]
  /\ UNCHANGED <<registryVars, doomed, halted>>

-----------------------------------------------------------------------------
HubRegistryInit ==
  /\ current = 0 /\ made = 0 /\ readers = 0 /\ slot = 0 /\ idle = <<>>
  /\ key = [s \in Streams |-> CHOOSE k \in Configs : TRUE]
  /\ watched = [v \in Viewers |-> 0]
  /\ doomed = {} /\ halted = {}
  /\ pump = [s \in Streams |-> "none"]

Timers == 1..MaxTimers
Watching == \E v \in Viewers : Release(v) \/ \E k \in Configs : Acquire(v, k)
Retiring == (\E t \in Timers : Expire(t) \/ Retire(t)) \/ \E s \in Streams : Stop(s)
Pumping == \E s \in Streams : Open(s) \/ BuildFails(s) \/ SourceEnds(s) \/ FrameComes(s)

\* Timers fire, threads run, and a camera sends frames: a source that was opened
\* after stop() looked for it is closed with the first of them.
RegistryFairness ==
  /\ \A t \in Timers : WF_hubRegistryVars(Expire(t)) /\ WF_hubRegistryVars(Retire(t))
  /\ \A s \in Streams :
       /\ WF_hubRegistryVars(Stop(s))
       /\ WF_hubRegistryVars(Open(s)) /\ WF_hubRegistryVars(FrameComes(s))

HubRegistryNext == Watching \/ Retiring \/ Pumping
HubRegistrySpec == HubRegistryInit /\ [][HubRegistryNext]_hubRegistryVars /\ RegistryFairness

-----------------------------------------------------------------------------
\* The viewers counted are those of the stream in the registry.
ReadersCounted ==
  readers = Cardinality({v \in Viewers : watched[v] = current /\ current # 0})

\* A stream that can still be handed out is not stopped and not about to be:
\* no viewer acquires a stream that dies under it.
CurrentLives == current \notin doomed \cup halted

\* "so an unused camera isn't held open": a stream without viewers has an idle
\* timer on its way, and every running pump belongs to a stream that is in the
\* registry, or has been or will be stopped.
NoOrphan ==
  /\ current # 0 /\ readers = 0 =>
       slot # 0 /\ idle[slot].stream = current /\ idle[slot].state # "over"
  /\ \A s \in Streams : pump[s] \in {"build", "open"} => s \in {current} \cup doomed \cup halted

\* A viewer loses its stream only to a newer one, made for another config: not
\* to the timer of an earlier absence of it.
WatchedStays ==
  \A v \in Viewers : watched[v] # 0 => watched[v] = current \/ watched[v] < made

RegistryInv == ReadersCounted /\ CurrentLives /\ NoOrphan /\ WatchedStays

\* When no viewer is left for good, no session on the camera stays open.
IdleReleases ==
  <>[](\A v \in Viewers : watched[v] = 0) => <>[](\A s \in Streams : pump[s] # "open")

-----------------------------------------------------------------------------
(* Expectations the code does not meet.                                      *)

\* "Keep a camera session open this long after the last viewer disconnects": a
\* timer that was past its cancellation when a viewer returned cuts short the
\* grace the next release has just begun.
GraceKept ==
  [][\A t \in DOMAIN idle : idle[t].state = "due" /\ current # 0 /\ current' = 0 /\ Retire(t)
       => slot = t]_hubRegistryVars

\* "This hub keeps exactly ONE long-lived source per camera": the new stream
\* opens its own while the one it replaces is being stopped.
OneSession == Cardinality({s \in Streams : pump[s] = "open"}) <= 1
=============================================================================
