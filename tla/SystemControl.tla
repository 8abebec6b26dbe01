---------------------------- MODULE SystemControl ----------------------------
(***************************************************************************)
(* START and STOP of the whole system: the control routes, start_system()  *)
(* and stop_system() in threads of their own, the scheduled restart of the *)
(* SystemCycler, the restart after a settings save, and the                *)
(* BackboneSupervisor that spawns and stops the engine, without a lock:    *)
(* one action for each access of a thread to what it keeps.  The exit code *)
(* and _stop_requested are left out: they choose between "stopped" and     *)
(* "crashed" in what a status shows, and nothing else.                     *)
(* The producer is up or down here; its supervisor is ProducerHost.        *)
(***************************************************************************)
EXTENDS Naturals

CONSTANTS
  Starters,     \* worker threads a START may run in
  Stoppers,     \* threads a STOP may run in
  Savers,       \* threads a settings save may restart the producer in
  Readers,      \* threads that only ask for the state: heartbeat, status, video
  MaxEngines    \* model bound: a Popen beyond it fails

ASSUME ControlAssumption ==
  /\ MaxEngines \in Nat
  /\ "cycler" \notin Starters \cup Stoppers \cup Savers \cup Readers
  /\ Starters \cap (Stoppers \cup Savers \cup Readers) = {}
  /\ Stoppers \cap (Savers \cup Readers) = {}
  /\ Savers \cap Readers = {}

Engines == 1..MaxEngines
Threads == Starters \cup Stoppers \cup Savers \cup Readers \cup {"cycler"}

VARIABLES
  proc,       \* supervisor._proc: the tracked engine, 0 for None
  engine,     \* [engine -> "none", "up" or "ended"]
  producer,   \* whether the perception producer runs
  stopping,   \* app.state.stop_in_progress
  settling,   \* less than _START_DEBOUNCE_S since last_stop_done
  place,      \* [thread -> where it is]
  seen,       \* [thread -> the engine whose end its state getter has polled
              \*            and has yet to note, 0 for none]
  handle,     \* [thread -> the engine its start() spawned or its stop() ends]
  intent,     \* history: the operator's last word, a "start", a "stop", or a
              \* "quiet stop", clicked while nothing else was at work
  mishaps     \* history: what went on side by side

processes == <<engine, producer>>
flags == <<stopping, settling>>
history == <<intent, mishaps>>
controlVars == <<proc, processes, flags, place, seen, handle, history>>

Up == {e \in Engines : engine[e] = "up"}
Running == proc \in Up
Goto(t, where) == place' = [place EXCEPT ![t] = where]

\* A thread whose getter has polled an end notes it before anything else.
At(t, where) == place[t] = where /\ seen[t] = 0

\* supervisor.state: the poll of the tracked engine ...
Poll(t) == seen' = [seen EXCEPT ![t] = IF proc = 0 \/ Running THEN 0 ELSE proc]

\* ... and, if it has ended, whatever is tracked by now is forgotten.
Note(t) ==
  /\ seen[t] # 0 /\ seen' = [seen EXCEPT ![t] = 0]
  /\ proc' = 0
  /\ mishaps' = IF proc \in {0, seen[t]} THEN mishaps ELSE mishaps \cup {"stale getter"}
  /\ UNCHANGED <<processes, flags, place, handle, intent>>

Teardown == {"clear", "producer", "engine", "mark", "take", "terminate", "forget", "sweep", "finally"}
Spawning == {"spawn", "adopt"}
Idle == \A t \in Threads : At(t, "idle")

\* A mishap, when another thread is in the same section.
Overlap(t, section, mishap) ==
  mishaps' = IF \E u \in Threads \ {t} : place[u] \in section THEN mishaps \cup {mishap} ELSE mishaps

-----------------------------------------------------------------------------
\* Mutant of Refused: only the debounce is looked at.
RefusedBriefly == settling

\* START is refused while a teardown runs and shortly after it.
Refused == stopping \/ settling

StartRequest(t) ==
  /\ At(t, "idle") /\ ~Refused
  /\ intent' = "start"
  /\ Goto(t, "start")
  /\ UNCHANGED <<proc, processes, flags, seen, handle, mishaps>>

\* Nothing is at work, and no engine runs that is not tracked.
Calm == Idle /\ Up \subseteq {proc}

\* What the route sets stop_in_progress to before it starts the thread.
Announced == TRUE

StopRequest(t) ==
  /\ At(t, "idle") /\ ~stopping
  /\ intent' = IF Calm THEN "quiet stop" ELSE "stop"
  /\ stopping' = Announced
  /\ Goto(t, "clear") /\ Overlap(t, Teardown, "two stops")
  /\ UNCHANGED <<proc, processes, settling, seen, handle>>

\* A STOP while one is in progress is answered "stopping", and that is all.
StopSwallowed ==
  /\ stopping /\ intent = "start" /\ intent' = "stop"
  /\ UNCHANGED <<proc, processes, flags, place, seen, handle, mishaps>>

Settled ==
  /\ settling /\ settling' = FALSE
  /\ UNCHANGED <<proc, processes, stopping, place, seen, handle, history>>

-----------------------------------------------------------------------------
\* supervisor.start(): nothing to do with an engine that runs, or go on.
StartEngine(t) ==
  /\ At(t, "start") /\ Goto(t, IF Running THEN "ready" ELSE "reap")
  /\ Poll(t)
  /\ UNCHANGED <<proc, processes, flags, handle, history>>

\* No config file to start with.
NoConfig(t) ==
  /\ At(t, "reap") /\ Goto(t, "failed")
  /\ UNCHANGED <<proc, processes, flags, seen, handle, history>>

\* Mutant of Strays: nothing is swept.
StraysNone == {}

\* _kill_backbones spares none of this instance's engines.
Strays == Up

Kill(strays) == engine' = [e \in Engines |-> IF e \in strays THEN "ended" ELSE engine[e]]

Reap(t) ==
  /\ At(t, "reap") /\ Goto(t, "spawn") /\ Overlap(t, Spawning, "two starts")
  /\ Kill(Strays)
  /\ UNCHANGED <<proc, producer, flags, seen, handle, intent>>

\* The child is there before start() has it in hand: the next unused number ...
Popen(t) ==
  /\ At(t, "spawn") /\ Goto(t, "adopt")
  /\ \E e \in Engines :
       /\ engine[e] = "none" /\ \A n \in Engines : engine[n] = "none" => e <= n
       /\ engine' = [engine EXCEPT ![e] = "up"]
       /\ handle' = [handle EXCEPT ![t] = e]
  /\ UNCHANGED <<proc, producer, flags, seen, history>>

\* ... and is tracked from then on.
Adopt(t) ==
  /\ At(t, "adopt") /\ Goto(t, "boot")
  /\ proc' = handle[t]
  /\ handle' = [handle EXCEPT ![t] = 0]
  /\ UNCHANGED <<processes, flags, seen, history>>

SpawnFails(t) ==
  /\ At(t, "spawn") /\ Goto(t, "failed")
  /\ UNCHANGED <<proc, processes, flags, seen, handle, history>>

\* The ready marker, a boot crash, or ten seconds.
Boot(t) ==
  /\ At(t, "boot") /\ Goto(t, "ready") /\ Poll(t)
  /\ UNCHANGED <<proc, processes, flags, handle, history>>

\* With an engine that runs, the producer is started next.
Ready(t) ==
  /\ (At(t, "ready") \/ At(t, "failed")) /\ Goto(t, IF Running THEN "perceive" ELSE "idle") /\ Poll(t)
  /\ UNCHANGED <<proc, processes, flags, handle, history>>

\* It may fail to start, and starts in points mode only.
Perceive(t) ==
  /\ At(t, "perceive") /\ Goto(t, "idle")
  /\ producer' \in {TRUE, producer}
  /\ UNCHANGED <<proc, engine, flags, seen, handle, history>>

-----------------------------------------------------------------------------
\* stop_system(): the flag (again), and the live caches.
Clear(t) ==
  /\ At(t, "clear") /\ Goto(t, "producer")
  /\ stopping' = TRUE
  /\ UNCHANGED <<proc, processes, settling, seen, handle, history>>

\* Mutant of Silenced: the producer is left running.
SilencedNot == producer

Silenced == FALSE

StopProducer(t) ==
  /\ At(t, "producer") /\ Goto(t, "engine")
  /\ producer' = Silenced
  /\ UNCHANGED <<proc, engine, flags, seen, handle, history>>

\* supervisor.stop() returns at once, without a sweep, unless the tracked engine
\* runs ...
StopEngine(t) ==
  /\ At(t, "engine") /\ Goto(t, IF Running THEN "mark" ELSE "finally") /\ Poll(t)
  /\ UNCHANGED <<proc, processes, flags, handle, history>>

\* ... and is still tracked at the next look.
Mark(t) ==
  /\ At(t, "mark")
  /\ Goto(t, IF proc = 0 THEN "finally" ELSE "take")
  /\ UNCHANGED <<proc, processes, flags, seen, handle, history>>

\* Whatever is tracked by now is what it ends; None makes it raise.
Take(t) ==
  /\ At(t, "take") /\ Goto(t, IF proc = 0 THEN "finally" ELSE "terminate")
  /\ handle' = [handle EXCEPT ![t] = proc]
  /\ UNCHANGED <<proc, processes, flags, seen, history>>

Terminate(t) ==
  /\ At(t, "terminate") /\ Goto(t, "forget")
  /\ Kill({handle[t]})
  /\ UNCHANGED <<proc, producer, flags, seen, handle, history>>

\* Whatever engine is tracked by now is forgotten.
Forget(t) ==
  /\ At(t, "forget") /\ Goto(t, "sweep")
  /\ proc' = 0
  /\ handle' = [handle EXCEPT ![t] = 0]
  /\ UNCHANGED <<processes, flags, seen, history>>

Sweep(t) ==
  /\ At(t, "sweep") /\ Goto(t, "finally")
  /\ Kill(Strays)
  /\ UNCHANGED <<proc, producer, flags, seen, handle, history>>

Finally(t) ==
  /\ At(t, "finally") /\ Goto(t, "anchor")
  /\ stopping' = FALSE
  /\ UNCHANGED <<proc, processes, settling, seen, handle, history>>

\* last_stop_done: the debounce begins.
Anchor(t) ==
  /\ At(t, "anchor") /\ Goto(t, "log")
  /\ settling' = TRUE
  /\ UNCHANGED <<proc, processes, stopping, seen, handle, history>>

\* Mutant of Restarted: the cycler stops the system and leaves it.
RestartedNot(t) == "idle"

\* The cycler's stop is followed by its start.
Restarted(t) == IF t = "cycler" THEN "start" ELSE "idle"

\* The log line of a STOP that is done reads the state once more.
Log(t) ==
  /\ At(t, "log") /\ Goto(t, Restarted(t)) /\ Poll(t)
  /\ UNCHANGED <<proc, processes, flags, handle, history>>

-----------------------------------------------------------------------------
\* The restart is due: not while a STOP is in progress ...
Due ==
  /\ At("cycler", "idle") /\ ~stopping
  /\ Goto("cycler", "due")
  /\ UNCHANGED <<proc, processes, flags, seen, handle, history>>

\* Mutant of Revivable: the cycler is a watchdog.
RevivableAlways == TRUE

\* A system that does not run is not the cycler's to revive.
Revivable == Running

\* ... and only if the system runs.
Cycle ==
  /\ At("cycler", "due") /\ Poll("cycler")
  /\ IF Revivable THEN Goto("cycler", "clear") /\ Overlap("cycler", Teardown, "two stops")
                  ELSE Goto("cycler", "idle") /\ UNCHANGED mishaps
  /\ UNCHANGED <<proc, processes, flags, handle, intent>>

\* A settings save restarts a running producer in the background.
Save(t) ==
  /\ At(t, "idle") /\ producer
  /\ Goto(t, "save")
  /\ intent' = IF intent = "start" THEN "start" ELSE "stop"
  /\ UNCHANGED <<proc, processes, flags, seen, handle, mishaps>>

Saving(t) ==
  /\ \/ At(t, "save") /\ producer' = FALSE /\ Goto(t, "start again")
     \/ At(t, "start again") /\ producer' \in {TRUE, producer} /\ Goto(t, "idle")
  /\ UNCHANGED <<proc, engine, flags, seen, handle, history>>

Die(e) ==
  /\ engine[e] = "up"
  /\ engine' = [engine EXCEPT ![e] = "ended"]
  /\ UNCHANGED <<proc, producer, flags, place, seen, handle, history>>

\* The heartbeat, the status requests and the video threads read the state all
\* the time; a read that finds no end changes nothing.
Read(t) ==
  /\ At(t, "idle") /\ Poll(t) /\ seen' # seen
  /\ UNCHANGED <<proc, processes, flags, place, handle, history>>

-----------------------------------------------------------------------------
ControlInit ==
  /\ proc = 0
  /\ engine = [e \in Engines |-> "none"] /\ producer = FALSE
  /\ stopping = FALSE /\ settling = FALSE
  /\ place = [t \in Threads |-> "idle"]
  /\ seen = [t \in Threads |-> 0]
  /\ handle = [t \in Threads |-> 0]
  /\ intent = "quiet stop" /\ mishaps = {}

Starting(t) == \/ StartEngine(t) \/ NoConfig(t) \/ Reap(t) \/ Popen(t) \/ Adopt(t)
               \/ SpawnFails(t) \/ Boot(t) \/ Ready(t) \/ Perceive(t)
Stopping(t) == \/ Clear(t) \/ StopProducer(t) \/ StopEngine(t) \/ Mark(t) \/ Take(t) \/ Terminate(t)
               \/ Forget(t) \/ Sweep(t) \/ Finally(t) \/ Anchor(t) \/ Log(t)
Step(t) == Note(t) \/ Starting(t) \/ Stopping(t) \/ Saving(t)

Clicks == \/ \E t \in Starters : StartRequest(t)
          \/ \E t \in Stoppers : StopRequest(t)
          \/ \E t \in Savers : Save(t)
          \/ StopSwallowed
World == \/ Due \/ Cycle \/ Settled
         \/ \E e \in Engines : Die(e)
         \/ \E t \in Readers : Read(t)

ControlNext == Clicks \/ World \/ \E t \in Threads : Step(t)

\* The cycler's thread is not held up for ever: it waits for no other.
ControlFairness == WF_controlVars(Step("cycler"))

ControlSpec == ControlInit /\ [][ControlNext]_controlVars /\ ControlFairness

-----------------------------------------------------------------------------
\* What a getter is about to note did end, and a stop() that terminates has an
\* engine in hand.
ControlTypeOK ==
  /\ proc \in {0} \cup Engines /\ producer \in BOOLEAN
  /\ mishaps \subseteq {"two starts", "stale getter", "two stops"}
  /\ \A t \in Threads : /\ seen[t] # 0 => engine[seen[t]] = "ended"
                        /\ place[t] \in {"adopt", "terminate", "forget"} => handle[t] \in Engines

\* The supervisor manages one child process: unless two threads are in start()
\* between the reap and the Popen, there is never a second engine, whatever
\* stops, crashes and getters do meanwhile.
OneEngine == "two starts" \notin mishaps => \A d, e \in Up : d = e

\* When everything is at rest no engine runs that the supervisor does not track,
\* so that STOP would miss it, unless two starts overlapped or a getter forgot
\* another engine than the one it polled.
NoneLost == mishaps \cap {"two starts", "stale getter"} = {} /\ Idle => Up \subseteq {proc}

\* A STOP clicked while nothing else was at work takes both processes down for
\* good: until a START or a save, neither the cycler, nor the getters, nor
\* another STOP bring one back.
DownAfterStop ==
  intent = "quiet stop" /\ (\A t \in Stoppers : place[t] \notin Teardown) => Up = {} /\ ~producer

\* There is one engine, the supervisor knows it, and a STOP ends it, but for the
\* overlaps each of these names.
ControlInv == ControlTypeOK /\ OneEngine /\ NoneLost /\ DownAfterStop

\* After such a STOP the cycler starts no engine: the restart it had in mind is
\* off, whenever its clock, its look at the flag and at the engine come.
CyclerObeys == [][place["cycler"] = "spawn" /\ place'["cycler"] = "adopt" => intent # "quiet stop"]_controlVars

\* STARTs are refused while a teardown, once it has set the flag, runs, unless
\* a second one has lowered the flag before.
RefusedWhileStopping ==
  [][(\E t \in Starters : place[t] = "idle" /\ place'[t] = "start") /\ "two stops" \notin mishaps
       => \A t \in Threads : place[t] \notin Teardown \ {"clear"}]_controlVars

\* No start, scheduled or asked for, goes against a STOP.
StartsObey == CyclerObeys /\ RefusedWhileStopping

\* A scheduled restart is never only a stop: when the cycler has ended the engine
\* it spawns another, unless one runs by then, or starting it fails.
CycleReturns ==
  place["cycler"] = "sweep" ~> place["cycler"] \in {"adopt", "failed"} \/ Running

\* A deliberate STOP stays stopped: when a STOP was the operator's last word, and
\* nobody else is at work, the cycler starts no engine.
StopStays ==
  [][place["cycler"] = "spawn" /\ place'["cycler"] = "adopt"
       /\ (\A t \in Threads \ {"cycler"} : place[t] = "idle") => intent = "start"]_controlVars

\* NoneLost without its excuses: what the supervisor does not track, STOP misses.
NeverLost == Idle => Up \subseteq {proc}

\* DownAfterStop for every STOP.
StopSticks == Idle /\ intent # "start" => Up = {} /\ ~producer

\* OneEngine without its excuse.
EverOneEngine == \A d, e \in Up : d = e

\* "It never fires while a STOP is in progress or within the START debounce": the
\* flag is read some statements before, and last_stop_done not at all.
FiresAtRest ==
  [][place["cycler"] = "due" /\ place'["cycler"] = "clear" => ~stopping /\ ~settling]_controlVars
=============================================================================
