----------------------------- MODULE CameraSource -----------------------------
(***************************************************************************)
(* GstAppsinkFrameSource: the camera of a process.  Its owner starts and   *)
(* stops it; the thread of _run() builds the pipeline, plays it and runs   *)
(* the main loop; GStreamer's streaming thread puts the samples that the   *)
(* rate cap keeps into a queue of one, dropping the old one; the consumer  *)
(* takes them from frames().  GStreamer is external: it delivers samples   *)
(* while the pipeline plays and messages while the main loop runs.         *)
(***************************************************************************)
EXTENDS Integers, Sequences, SequencesExt

CONSTANTS
  Interval,   \* _min_interval
  Period,     \* of a camera that keeps its rate
  MaxSamples, \* model bound: samples that arrive
  MaxTs       \* model bound on the clock

\* What the constants must satisfy: the camera is no faster than the cap.
SourceAssumption == {Interval, Period, MaxSamples, MaxTs} \subseteq Nat /\ Interval <= Period

VARIABLES
  owner,    \* where start() or stop() of the owner is
  ready,    \* _started_event
  failed,   \* _error_message is set
  ended,    \* _stop_event
  runner,   \* where _run() is
  loop,     \* the main loop: none, made, running, quitting
  playing,  \* the pipeline is PLAYING
  steady,   \* whether the camera keeps its rate
  ts,       \* capture time of the last sample
  seen,     \* samples that arrived
  nextKeep, \* _next_keep_ts
  kept,     \* history: capture times of the samples kept
  streamer, \* where the put of the last one kept is
  queue,    \* _queue: numbers of samples in kept, at most one
  consumer, \* where frames() is
  got,      \* the last sample it gave out, 0 for none
  missed    \* history: stop() found no main loop to quit

ownerVars == <<owner, missed>>
runnerVars == <<ready, failed, runner, loop, playing>>
streamVars == <<ts, seen, nextKeep, kept, streamer>>
sourceVars == <<ownerVars, runnerVars, ended, steady, streamVars, queue, consumer, got>>

-----------------------------------------------------------------------------
(* The owner.                                                                *)

Start ==
  /\ owner = "new" /\ owner' = "starting" /\ runner' = "build"
  /\ UNCHANGED <<missed, ready, failed, loop, playing, ended, steady, streamVars, queue, consumer, got>>

\* start() returns or raises; a pipeline that did not come up in time is stopped
\* first.
Started ==
  /\ owner = "starting"
  /\ \/ ready /\ owner' = (IF failed THEN "raised" ELSE "up")
     \/ ~ready /\ owner' = "stop"
  /\ UNCHANGED <<missed, runnerVars, ended, steady, streamVars, queue, consumer, got>>

StopAsked ==
  /\ owner \in {"up", "raised"} /\ owner' = "stop"
  /\ UNCHANGED <<missed, runnerVars, ended, steady, streamVars, queue, consumer, got>>

SetStop ==
  /\ owner = "stop" /\ owner' = "quit" /\ ended' = TRUE
  /\ UNCHANGED <<missed, runnerVars, steady, streamVars, queue, consumer, got>>

\* A main loop that does not run yet is not told to quit.
Quit ==
  /\ owner = "quit" /\ owner' = "join"
  /\ IF loop = "running" THEN loop' = "quitting" /\ UNCHANGED missed
                         ELSE missed' = (loop \in {"none", "made"}) /\ UNCHANGED loop
  /\ UNCHANGED <<ready, failed, runner, playing, ended, steady, streamVars, queue, consumer, got>>

\* The join ends with the thread, or after 1.5 s; either way stop() returns.
Join ==
  /\ owner = "join" /\ owner' = "stopped"
  /\ UNCHANGED <<missed, runnerVars, ended, steady, streamVars, queue, consumer, got>>

-----------------------------------------------------------------------------
(* The thread of _run() and the messages of the bus.                         *)

Build ==
  /\ runner = "build"
  /\ \/ runner' = "over" /\ failed' = TRUE /\ ready' = TRUE /\ UNCHANGED playing
     \/ runner' = "make" /\ playing' = TRUE /\ UNCHANGED <<failed, ready>>
  /\ UNCHANGED <<ownerVars, loop, ended, steady, streamVars, queue, consumer, got>>

MakeLoop ==
  /\ runner = "make" /\ runner' = "run" /\ loop' = "made"
  /\ UNCHANGED <<ownerVars, ready, failed, playing, ended, steady, streamVars, queue, consumer, got>>

RunLoop ==
  /\ runner = "run"
  /\ \/ loop = "made" /\ loop' = "running" /\ UNCHANGED runner
     \/ loop = "quitting" /\ runner' = "null" /\ UNCHANGED loop
  /\ UNCHANGED <<ownerVars, ready, failed, playing, ended, steady, streamVars, queue, consumer, got>>

\* What the loop ends with, once the streaming thread is out of its callback.
Null ==
  /\ runner = "null" /\ streamer = "idle"
  /\ runner' = "over" /\ playing' = FALSE /\ ended' = TRUE
  /\ UNCHANGED <<ownerVars, ready, failed, loop, steady, streamVars, queue, consumer, got>>

\* PLAYING, an error or the end of the stream.
Message ==
  /\ loop = "running"
  /\ \/ ready' = TRUE /\ UNCHANGED <<failed, loop>>
     \/ ready' = TRUE /\ failed' = TRUE /\ loop' = "quitting"
     \/ loop' = "quitting" /\ UNCHANGED <<ready, failed>>
  /\ UNCHANGED <<ownerVars, runner, playing, ended, steady, streamVars, queue, consumer, got>>

-----------------------------------------------------------------------------
(* The streaming thread and the consumer.                                    *)

\* When the next sample can arrive: a camera that keeps its rate delivers its
\* n-th one n periods after the first, or later by a period and an interval.
Arrival ==
  IF steady THEN {t \in ts..MaxTs : t - seen * Period \in 0..(Period + Interval)} ELSE ts..MaxTs

\* Mutant of Scheduled: the schedule is anchored to the sample that is kept.
ScheduledFromSample(t) == t + Interval

\* The schedule advances by one interval and lags by one at most.
Scheduled(t) == LET due == nextKeep + Interval IN IF due > t - Interval THEN due ELSE t - Interval

\* Mutant of Early: there is no cap.
EarlyNever(t) == FALSE

Early(t) == t < nextKeep

Sample ==
  /\ playing /\ streamer = "idle" /\ seen < MaxSamples /\ seen' = seen + 1
  /\ \E t \in Arrival :
       /\ ts' = t
       /\ IF Early(t) THEN UNCHANGED <<nextKeep, kept, streamer>>
          ELSE /\ nextKeep' = Scheduled(t) /\ kept' = Append(kept, t) /\ streamer' = "put"
  /\ UNCHANGED <<ownerVars, runnerVars, ended, steady, queue, consumer, got>>

\* Mutant of MakesRoom: with a full queue the new sample is dropped.
MakesRoomNever(q) == q

\* get_nowait().
MakesRoom(q) == IF q = <<>> THEN q ELSE Tail(q)

\* put_nowait(), room for it, and put_nowait() again; the consumer may take the
\* sample in between.
Put ==
  /\ streamer # "idle"
  /\ \/ streamer = "put" /\ queue # <<>> /\ streamer' = "make room" /\ UNCHANGED queue
     \/ streamer = "make room" /\ streamer' = "put again" /\ queue' = MakesRoom(queue)
     \/ streamer = "put again" /\ queue # <<>> /\ streamer' = "idle" /\ UNCHANGED queue
     \/ streamer \in {"put", "put again"} /\ queue = <<>>
        /\ streamer' = "idle" /\ queue' = <<Len(kept)>>
  /\ UNCHANGED <<ownerVars, runnerVars, ended, steady, ts, seen, nextKeep, kept, consumer, got>>

\* The owner consumes once start() has returned.
Consume ==
  /\ \/ consumer = "none" /\ owner = "up" /\ consumer' = "look" /\ UNCHANGED <<queue, got>>
     \/ consumer = "look" /\ consumer' = (IF ended THEN "over" ELSE "get") /\ UNCHANGED <<queue, got>>
     \/ consumer = "get" /\ queue # <<>> /\ consumer' = "look" /\ got' = queue[1] /\ queue' = <<>>
     \/ consumer = "get" /\ queue = <<>> /\ consumer' = "look" /\ UNCHANGED <<queue, got>>
  /\ UNCHANGED <<ownerVars, runnerVars, ended, steady, streamVars>>

-----------------------------------------------------------------------------
SourceInit ==
  /\ owner = "new" /\ missed = FALSE
  /\ ready = FALSE /\ failed = FALSE /\ runner = "none" /\ loop = "none" /\ playing = FALSE
  /\ ended = FALSE /\ steady \in BOOLEAN
  /\ ts = 0 /\ seen = 0 /\ nextKeep = 0 /\ kept = <<>> /\ streamer = "idle"
  /\ queue = <<>> /\ consumer = "none" /\ got = 0

Runner == Build \/ MakeLoop \/ RunLoop \/ Null
Owner == Start \/ Started \/ StopAsked \/ SetStop \/ Quit \/ Join
SourceNext == Owner \/ Runner \/ Message \/ Sample \/ Put \/ Consume

SourceFairness == WF_sourceVars(Runner) /\ WF_sourceVars(Put) /\ WF_sourceVars(Consume)
SourceSpec == SourceInit /\ [][SourceNext]_sourceVars /\ SourceFairness

-----------------------------------------------------------------------------
SourceTypeOK ==
  /\ queue = <<>> \/ \E n \in DOMAIN kept : queue = <<n>>
  /\ got \in 0..Len(kept) /\ seen <= MaxSamples /\ ts \in 0..MaxTs
  /\ playing => runner \in {"make", "run", "null"}

\* Between two puts the consumer has the newest sample or finds it next, and it
\* is given none twice.
NewestOffered ==
  /\ streamer = "idle" => queue = <<>> \/ queue = <<Len(kept)>>
  /\ streamer = "idle" /\ kept # <<>> => got = Len(kept) \/ queue = <<Len(kept)>>
  /\ \A n \in ToSet(queue) : got < n

\* The cap: any run of samples that were kept takes an interval for each but the
\* first three, which one interval of credit lets through at once.
Capped ==
  \A i, j \in DOMAIN kept : i < j => kept[j] - kept[i] >= (j - i - 2) * Interval

\* A camera no faster than the cap loses nothing to it, however its samples are
\* bunched by the transport.
NothingCut == steady => Len(kept) = seen

\* Once stop() has returned the pipeline is going down, unless it was stopped
\* before its main loop ran.
StopTakes == owner = "stopped" /\ playing /\ ~missed => loop = "quitting"

SourceInv == SourceTypeOK /\ NewestOffered /\ Capped /\ NothingCut /\ StopTakes

\* A source that was stopped or has ended gives its consumer no more and lets the
\* camera go, unless it was stopped before its main loop ran.
SourceEnds ==
  ended /\ owner # "quit" ~> consumer \in {"none", "over"} /\ (~playing \/ missed)
=============================================================================
