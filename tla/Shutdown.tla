-------------------------------- MODULE Shutdown --------------------------------
(***************************************************************************)
(* Orchestrator.run waiting for its stop event, _shutdown, and the threads *)
(* that publish: the pipeline, the heartbeat and, in points mode, the      *)
(* listener of the wire (rack states); in frames mode there are camera     *)
(* sources to stop instead.  Publisher hands every message to its sinks    *)
(* one after the other until it is closed.  A join gives up when the       *)
(* thread does not end in time.  Time is counted in half seconds.          *)
(***************************************************************************)
EXTENDS Naturals, Sequences

CONSTANTS
  Sinks,          \* the number of sinks
  MaxMessages     \* model bound on the messages of one step

ASSUME ShutdownAssumption == Sinks \in Nat \ {0} /\ MaxMessages \in Nat \ {0}

\* The threads in the order _shutdown waits for them, and the timeouts of the joins.
Order == <<"listener", "pipeline", "heartbeat">>
Threads == {"listener", "pipeline", "heartbeat"}
Limit == [listener |-> 4, pipeline |-> 4, heartbeat |-> 2]
SourceLimit == 3      \* the join in the stop() of a camera source
MaxSpent == 10        \* all the joins of points mode, in frames mode there is less

VARIABLES
  mode,           \* _ingest_mode, "frames" or "points"
  stopEvent,      \* _stop_event
  main,           \* where run() is
  stage,          \* in "stopping": the place in Order
  told,           \* threads whose own stop flag is set
  pc,             \* [thread -> "idle", "busy" in a step, "fanout" or "ended"]
  left,           \* [thread -> messages its step still has to publish]
  at,             \* [thread -> the sink its message is handed to next]
  closed,         \* Publisher._closed
  shut,           \* how many sinks have been closed
  gaveUp,         \* threads whose join timed out
  late, lost,     \* [thread -> calls of a closed sink], threads that lost a message: history
  spent           \* time run() has spent in _shutdown

threadVars == <<pc, left, at>>
mainVars == <<main, stage, told, closed, shut, gaveUp, spent>>
shutdownVars == <<mode, stopEvent, mainVars, threadVars, late, lost>>

Stopped(t) == IF t = "pipeline" THEN stopEvent ELSE t \in told

-----------------------------------------------------------------------------
\* A thread at the head of its loop: it ends, or has a step to do.
Work(t) ==
  /\ pc[t] = "idle"
  /\ IF Stopped(t)
     THEN pc' = [pc EXCEPT ![t] = "ended"] /\ UNCHANGED left
     ELSE /\ pc' = [pc EXCEPT ![t] = "busy"]
          /\ \E n \in 0..MaxMessages : left' = [left EXCEPT ![t] = n]
  /\ UNCHANGED <<mode, stopEvent, mainVars, at, late, lost>>

\* A Publisher.publish_*: the message goes to the sinks, or nowhere.
\* Mutant of Refuses: the flag is not consulted.
RefusesNever == FALSE
Refuses == closed
Publish(t) ==
  /\ pc[t] = "busy" /\ left[t] > 0
  /\ left' = [left EXCEPT ![t] = @ - 1]
  /\ IF Refuses
     THEN lost' = lost \cup {t} /\ UNCHANGED <<pc, at>>
     ELSE /\ pc' = [pc EXCEPT ![t] = "fanout"]
          /\ at' = [at EXCEPT ![t] = 1]
          /\ UNCHANGED lost
  /\ UNCHANGED <<mode, stopEvent, mainVars, late>>

\* One sink has the message; what it raises is caught.
CallSink(t) ==
  /\ pc[t] = "fanout"
  /\ late' = [late EXCEPT ![t] = IF at[t] <= shut /\ @ <= Sinks THEN @ + 1 ELSE @]
  /\ at' = [at EXCEPT ![t] = @ + 1]
  /\ pc' = [pc EXCEPT ![t] = IF at[t] = Sinks THEN "busy" ELSE "fanout"]
  /\ UNCHANGED <<mode, stopEvent, mainVars, left, lost>>

StepDone(t) ==
  /\ pc[t] = "busy" /\ left[t] = 0
  /\ pc' = [pc EXCEPT ![t] = "idle"]
  /\ UNCHANGED <<mode, stopEvent, mainVars, left, at, late, lost>>

\* "pipeline step crashed; stopping"
StepCrash ==
  /\ pc["pipeline"] = "busy"
  /\ pc' = [pc EXCEPT !["pipeline"] = "ended"]
  /\ left' = [left EXCEPT !["pipeline"] = 0]
  /\ stopEvent' = TRUE
  /\ UNCHANGED <<mode, mainVars, at, late, lost>>

-----------------------------------------------------------------------------
\* request_shutdown, from the signal handler.
Signal ==
  /\ ~stopEvent
  /\ stopEvent' = TRUE
  /\ UNCHANGED <<mode, mainVars, threadVars, late, lost>>

\* run() wakes up and stops the sources, all at once.
StopSources ==
  /\ main = "serving" /\ stopEvent
  /\ main' = "stopping"
  /\ spent' \in IF mode = "frames" THEN {0, SourceLimit} ELSE {0}
  /\ UNCHANGED <<mode, stopEvent, stage, told, closed, shut, gaveUp, threadVars, late, lost>>

Waited == Order[stage]

Tell ==
  /\ main = "stopping"
  /\ told' = told \cup {Waited}
  /\ main' = "joining"
  /\ UNCHANGED <<mode, stopEvent, stage, closed, shut, gaveUp, spent, threadVars, late, lost>>

NextStage ==
  IF stage = Len(Order) THEN main' = "closing" /\ UNCHANGED stage
                        ELSE main' = "stopping" /\ stage' = stage + 1

\* Mutant of Outlasted: the join waits for as long as it takes.
OutlastedNever(t) == FALSE
Outlasted(t) == pc[t] # "ended"

\* The join ends with the thread, or gives it up.
Join ==
  /\ main = "joining"
  /\ pc[Waited] = "ended"
  /\ NextStage
  /\ UNCHANGED <<mode, stopEvent, told, closed, shut, gaveUp, spent, threadVars, late, lost>>

GiveUp ==
  /\ main = "joining"
  /\ Outlasted(Waited)
  /\ gaveUp' = gaveUp \cup {Waited}
  /\ spent' = spent + Limit[Waited]
  /\ NextStage
  /\ UNCHANGED <<mode, stopEvent, told, closed, shut, threadVars, late, lost>>

\* Publisher.close: the flag, then the sinks in their order.
ClosePublisher ==
  /\ main = "closing" /\ ~closed
  /\ closed' = TRUE
  /\ UNCHANGED <<mode, stopEvent, main, stage, told, shut, gaveUp, spent, threadVars, late, lost>>

CloseSink ==
  /\ main = "closing" /\ closed
  /\ shut' = shut + 1
  /\ main' = IF shut' = Sinks THEN "done" ELSE main
  /\ UNCHANGED <<mode, stopEvent, stage, told, closed, gaveUp, spent, threadVars, late, lost>>

-----------------------------------------------------------------------------
ShutdownInit ==
  /\ mode \in {"frames", "points"}
  /\ stopEvent = FALSE
  /\ main = "serving" /\ stage = 1 /\ told = {}
  /\ pc = [t \in Threads |-> IF t = "listener" /\ mode = "frames" THEN "ended" ELSE "idle"]
  /\ left = [t \in Threads |-> 0] /\ at = [t \in Threads |-> 1]
  /\ closed = FALSE /\ shut = 0 /\ gaveUp = {}
  /\ late = [t \in Threads |-> 0] /\ lost = {}
  /\ spent = 0

Main == StopSources \/ Tell \/ Join \/ GiveUp \/ ClosePublisher \/ CloseSink

\* run() has returned; daemon threads go on until the interpreter is gone.
Returned == main = "done" /\ UNCHANGED shutdownVars

ShutdownNext ==
  \/ \E t \in Threads : Work(t) \/ Publish(t) \/ CallSink(t) \/ StepDone(t)
  \/ StepCrash \/ Signal \/ Main \/ Returned

\* The main thread runs on: every wait of it is bounded.
ShutdownFairness == WF_shutdownVars(Main)
ShutdownSpec == ShutdownInit /\ [][ShutdownNext]_shutdownVars /\ ShutdownFairness

-----------------------------------------------------------------------------
ShutdownTypeOK ==
  /\ mode \in {"frames", "points"} /\ stopEvent \in BOOLEAN /\ closed \in BOOLEAN
  /\ main \in {"serving", "stopping", "joining", "closing", "done"}
  /\ stage \in 1..3 /\ told \subseteq Threads /\ gaveUp \subseteq told /\ lost \subseteq Threads
  /\ pc \in [Threads -> {"idle", "busy", "fanout", "ended"}]
  /\ left \in [Threads -> 0..MaxMessages] /\ at \in [Threads -> 1..Sinks + 1]
  /\ shut \in 0..Sinks /\ late \in [Threads -> 0..Sinks + 1] /\ spent \in 0..MaxSpent

\* The publisher is closed under a step that is still running only when its
\* join timed out: a thread that ended in time has lost nothing and has called
\* no closed sink.  One given up calls a closed sink at most for the message it
\* was handing out: no further message of its step reaches any.
ClosedUnderNobody ==
  /\ lost \subseteq gaveUp
  /\ \A t \in Threads : late[t] <= Sinks /\ (late[t] > 0 => t \in gaveUp)
  /\ main = "done" => \A t \in Threads : pc[t] = "ended" \/ t \in gaveUp

ShutdownInv == ShutdownTypeOK /\ ClosedUnderNobody

\* Whatever the threads do, an orchestrator told to stop closes its sinks: the
\* broker has a clean disconnect.
ShutsDown == stopEvent ~> main = "done"

-----------------------------------------------------------------------------
(* An expectation the code does not meet.                                    *)

\* "the supervisor's SIGTERM grace (~3.5 s) must comfortably contain the whole
\* teardown": the joins come one after the other, and two that take their time
\* exceed it.
WithinGrace == main = "done" => spent <= 7
=============================================================================
