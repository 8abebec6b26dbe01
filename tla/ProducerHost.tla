---------------------------- MODULE ProducerHost ----------------------------
(***************************************************************************)
(* IsistreamHost: the supervisor of the perception producer.  START, STOP  *)
(* and the restart after a settings save run in threads of their own; each *)
(* child has a log-pump thread that sees its end, decides whether it was a *)
(* crash, and arms the respawn timer.  The pumps share the list of         *)
(* respawns without a lock: one action for each of their accesses to it.   *)
(* Bus files are FrameBusFile.                                             *)
(***************************************************************************)
EXTENDS Naturals, FiniteSets

CONSTANTS
  Clients,      \* threads that call start() or stop()
  Limit,        \* _RESPAWN_MAX_PER_WINDOW
  MaxCalls,     \* model bound: calls of the clients
  MaxChildren   \* model bound: a Popen beyond it fails

ASSUME HostAssumption ==
  /\ Limit \in Nat /\ MaxCalls \in Nat /\ MaxChildren \in Nat
  /\ Clients \cap Nat = {}

Children == 1..MaxChildren
Threads == Clients \cup Children

VARIABLES
  proc,        \* _proc: the tracked child, 0 for None
  deliberate,  \* _deliberate_stop
  points,      \* the configuration says points mode
  respawns,    \* _respawns: the children whose crash is listed
  old,         \* those whose respawn is older than the window
  seen,        \* [child -> the pruned list its log pump has computed]
  lock,        \* the thread in start()'s critical section, or 0
  child,       \* [child -> "none", "up", or how it ended]
  place,       \* [thread -> where it is]; a child's thread is its log pump,
               \* then its respawn timer
  victim,      \* [thread -> child stop() is terminating, or spares]
  counted,     \* history: the children whose crash armed the timer
  raced,       \* history: the children whose log pumps counted side by side
  calls

\* What the log pumps write.
listVars == <<respawns, old, seen, counted, raced>>
hostVars == <<proc, deliberate, points, lock, child, place, victim, calls, listVars>>

Up == {c \in Children : child[c] = "up"}
Tracked == proc \in Up
Goto(t, where) == place' = [place EXCEPT ![t] = where]

\* Where a thread ends when its call is over.
Home(t) == IF t \in Clients THEN "idle" ELSE "done"

-----------------------------------------------------------------------------
\* A START, a STOP, or a save of the settings, which restarts a producer that
\* is running.
Call(t) ==
  /\ place[t] = "idle" /\ calls < MaxCalls
  /\ calls' = calls + 1
  /\ \/ Goto(t, "start")
     \/ Goto(t, "stop")
     \/ points /\ Tracked /\ Goto(t, "restart")
  /\ UNCHANGED <<proc, deliberate, points, lock, child, victim, listVars>>

\* A save turns points mode on or off, or leaves a file no start() can read.
SaveMode ==
  /\ calls < MaxCalls
  /\ calls' = calls + 1
  /\ points' = ~points
  /\ UNCHANGED <<proc, deliberate, lock, child, place, victim, listVars>>

\* Mutant of AlreadyUp: start() spawns without a look at the tracked child.
AlreadyUpNever == FALSE

AlreadyUp == Tracked

\* Mutant of Armed: a START leaves the flag as it is.
ArmedNot == deliberate

\* What start() sets _deliberate_stop to.
Armed == FALSE

\* Mutant of Entered: start() without the lock.
EnteredFree(t) == 0

Entered(t) == t

\* start(): under the lock, unless the tracked child is alive, or the
\* configuration, read anew at every start, does not say points mode.
Start(t) ==
  /\ place[t] = "start" /\ lock = 0
  /\ IF AlreadyUp \/ ~points
     THEN Goto(t, Home(t)) /\ UNCHANGED <<lock, deliberate>>
     ELSE /\ Goto(t, "reap") /\ lock' = Entered(t)
          /\ deliberate' = Armed
  /\ UNCHANGED <<proc, points, child, victim, calls, listVars>>

\* Mutant of Reaped: strays are left alone before a spawn.
ReapedNone(spared) == {}

\* What a sweep kills: every child of this instance but the spared one.
Reaped(spared) == Up \ {spared}

\* SIGKILL is not a clean exit.
Killed(strays) == child' = [c \in Children |-> IF c \in strays THEN "killed" ELSE child[c]]

Reap(t) ==
  /\ place[t] = "reap" /\ Goto(t, "spawn")
  /\ Killed(Reaped(proc))
  /\ UNCHANGED <<proc, deliberate, points, lock, victim, calls, listVars>>

\* Popen, and the log pump of the child: the next unused number, as a name.
Spawn(t) ==
  /\ place[t] = "spawn"
  /\ \E c \in Children :
       /\ child[c] = "none" /\ \A n \in Children : child[n] = "none" => c <= n
       /\ child' = [child EXCEPT ![c] = "up"]
       /\ proc' = c
       /\ place' = [place EXCEPT ![t] = Home(t), ![c] = "reading"]
  /\ lock' = 0
  /\ UNCHANGED <<deliberate, points, victim, calls, listVars>>

SpawnFails(t) ==
  /\ place[t] = "spawn" /\ Goto(t, Home(t))
  /\ proc' = 0 /\ lock' = 0
  /\ UNCHANGED <<deliberate, points, child, victim, calls, listVars>>

-----------------------------------------------------------------------------
\* stop() takes the child under the lock; a restart is a stop() and a start().
Stop(t) ==
  /\ place[t] \in {"stop", "restart"} /\ lock = 0
  /\ deliberate' = TRUE
  /\ victim' = [victim EXCEPT ![t] = proc]
  /\ proc' = 0
  /\ Goto(t, IF place[t] = "stop" THEN "term" ELSE "reterm")
  /\ UNCHANGED <<points, lock, child, calls, listVars>>

Then(t, stop, restart) == Goto(t, IF place[t] \in {"term", "sweep", "kill"} THEN stop ELSE restart)

\* SIGTERM, which the child may take in time for a clean exit, or SIGKILL.
Terminate(t) ==
  /\ place[t] \in {"term", "reterm"}
  /\ Then(t, "sweep", "resweep")
  /\ child' \in {[c \in Children |-> IF c = victim[t] /\ child[c] = "up" THEN end ELSE child[c]] :
                   end \in {"exited", "killed"}}
  /\ UNCHANGED <<proc, deliberate, points, lock, victim, calls, listVars>>

\* The sweep at the end of stop() first decides whom to spare ...
Spare(t) ==
  /\ place[t] \in {"sweep", "resweep"}
  /\ Then(t, "kill", "rekill")
  /\ victim' = [victim EXCEPT ![t] = proc]
  /\ UNCHANGED <<proc, deliberate, points, lock, child, calls, listVars>>

\* ... then scans and kills.
Sweep(t) ==
  /\ place[t] \in {"kill", "rekill"}
  /\ Then(t, "idle", "start")
  /\ Killed(Reaped(victim[t]))
  /\ victim' = [victim EXCEPT ![t] = 0]
  /\ UNCHANGED <<proc, deliberate, points, lock, calls, listVars>>

-----------------------------------------------------------------------------
\* The producer ends by itself.
Die(c) ==
  /\ child[c] = "up"
  /\ child' \in {[child EXCEPT ![c] = end] : end \in {"exited", "crashed"}}
  /\ UNCHANGED <<proc, deliberate, points, lock, place, victim, calls, listVars>>

\* EOF on the child's output: was it deliberate, or clean?
ReadEnd(c) ==
  /\ place[c] = "reading" /\ child[c] # "up"
  /\ Goto(c, IF deliberate \/ child[c] = "exited" THEN "done" ELSE "count")
  /\ UNCHANGED <<proc, deliberate, points, lock, child, victim, calls, listVars>>

\* The log pumps between the prune of the list and the end of the append.
Counting == {"pruned", "limit", "append"}

\* The comprehension reads the list and keeps what is within the window.
Prune(c) ==
  /\ place[c] = "count" /\ Goto(c, "pruned")
  /\ seen' = [seen EXCEPT ![c] = respawns \ old]
  /\ LET others == {d \in Children : place[d] \in Counting}
     IN  raced' = IF others = {} THEN raced ELSE raced \cup others \cup {c}
  /\ UNCHANGED <<proc, deliberate, points, lock, child, victim, calls, respawns, old, counted>>

\* Its result becomes the list, whatever another pump appended meanwhile.
Rebind(c) ==
  /\ place[c] = "pruned" /\ Goto(c, "limit")
  /\ respawns' = seen[c]
  /\ seen' = [seen EXCEPT ![c] = {}]
  /\ UNCHANGED <<proc, deliberate, points, lock, child, victim, calls, old, counted, raced>>

\* Mutant of WithinLimit: one respawn too many.
WithinLimitLate == Cardinality(respawns) <= Limit

WithinLimit == Cardinality(respawns) < Limit

\* A full window: the host gives up.
Check(c) ==
  /\ place[c] = "limit"
  /\ Goto(c, IF WithinLimit THEN "append" ELSE "gave_up")
  /\ UNCHANGED <<proc, deliberate, points, lock, child, victim, calls, listVars>>

\* A crash is counted and the timer armed.
Enlist(c) ==
  /\ place[c] = "append" /\ Goto(c, "armed")
  /\ respawns' = respawns \cup {c}
  /\ counted' = counted \cup {c}
  /\ UNCHANGED <<proc, deliberate, points, lock, child, victim, calls, old, seen, raced>>

\* The timer fires.
Respawn(c) ==
  /\ place[c] = "armed"
  /\ Goto(c, IF deliberate THEN "done" ELSE "check")
  /\ UNCHANGED <<proc, deliberate, points, lock, child, victim, calls, listVars>>

\* Unless someone already restarted it, start().
Recheck(c) ==
  /\ place[c] = "check" /\ lock = 0
  /\ Goto(c, IF Tracked THEN "done" ELSE "start")
  /\ UNCHANGED <<proc, deliberate, points, lock, child, victim, calls, listVars>>

\* A respawn is older than the window.
Expire(c) ==
  /\ c \in counted \ old
  /\ old' = old \cup {c}
  /\ UNCHANGED <<proc, deliberate, points, lock, child, place, victim, calls, respawns, seen, counted, raced>>

-----------------------------------------------------------------------------
HostInit ==
  /\ proc = 0 /\ deliberate = FALSE /\ points = TRUE /\ lock = 0
  /\ respawns = {} /\ old = {} /\ counted = {} /\ raced = {}
  /\ seen = [c \in Children |-> {}]
  /\ child = [c \in Children |-> "none"]
  /\ place = [t \in Threads |-> IF t \in Clients THEN "idle" ELSE "none"]
  /\ victim = [t \in Threads |-> 0]
  /\ calls = 0

Begin(t) == Start(t) \/ Reap(t) \/ Spawn(t)
End(t) == Stop(t) \/ Terminate(t) \/ Spare(t) \/ Sweep(t)
Tally(c) == Prune(c) \/ Rebind(c) \/ Check(c) \/ Enlist(c)
Watch(c) == ReadEnd(c) \/ Tally(c) \/ Respawn(c) \/ Recheck(c)

Threading == \/ \E t \in Clients : End(t)
             \/ \E t \in Threads : Begin(t) \/ SpawnFails(t)
             \/ \E c \in Children : Watch(c)
HostNext == \/ \E t \in Clients : Call(t)
            \/ \E c \in Children : Die(c) \/ Expire(c)
            \/ Threading \/ SaveMode

HostSpec == HostInit /\ [][HostNext]_hostVars

\* As long as some thread of the host can go on, one of them does.
HostFair == WF_hostVars(Threading)

FairHost == HostSpec /\ HostFair

-----------------------------------------------------------------------------
Busy == {"term", "reterm"}

\* The lock is held by the one thread that is spawning, and every child that was
\* spawned has its log pump.
HostTypeOK ==
  /\ proc \in {0} \cup Children /\ deliberate \in BOOLEAN
  /\ \A t \in Threads : place[t] \in {"reap", "spawn"} <=> lock = t
  /\ \A c \in Children : child[c] = "none" <=> place[c] = "none"
  /\ counted \cup raced \subseteq Children /\ respawns \cup old \subseteq counted

\* Two producers would fight over the cameras and the GPU: at most one lives,
\* whatever calls, crashes and timers overlap.
OneProducer == \A c, d \in Up : c = d

\* A live producer is the tracked one, or a stop() has it in hand: none is
\* lost, so that neither STOP nor START would know of it.
NoneLost == \A c \in Up : c = proc \/ \E t \in Clients : place[t] \in Busy /\ victim[t] = c

\* A tracked producer's crash is never taken for a deliberate stop: the flag
\* is up only while no child is tracked.
FlagMeansUntracked == lock = 0 /\ deliberate => proc = 0

\* Of the respawns whose log pump had the list to itself, from the prune of the
\* list to the append, the window never holds more than allowed, whatever other
\* pumps write to the list side by side before and after.
RespawnsBounded == Cardinality((counted \ raced) \ old) <= Limit

\* One would expect it of all of them: but two log pumps may both pass the check
\* before either appends, and a prune may drop what another pump just appended.
LimitKept == Cardinality(counted \ old) <= Limit

\* One thread at a time spawns, and a crash loop has an end.
HostSafe == HostTypeOK /\ RespawnsBounded

\* A crash of the tracked producer that its log pump has yet to see is healed,
\* unless somebody stops the host, a spawn fails, the host gives up, or the
\* configuration stops saying points mode.
CrashHealed ==
  proc # 0 /\ child[proc] = "crashed" /\ place[proc] = "reading"
    ~> proc = 0 \/ child[proc] = "up" \/ place[proc] = "gave_up" \/ ~points

\* A deliberate STOP never respawns: while the flag of a stop() is up, and no
\* client is about to start, only a START brings a producer up, not a timer.
StopSticks ==
  [][\A c \in Children :
       /\ deliberate /\ place[c] = "start"
       /\ \A t \in Clients : place[t] \notin {"start", "reterm", "resweep", "rekill"}
       => place'[c] # "reap"]_hostVars

\* Only a producer that died by itself is counted as a crash.
CountsCrashes ==
  [][\A c \in Children : c \in counted' \ counted => child[c] = "crashed"]_hostVars

\* The sweep of a stop() takes strays, never the producer a START has just
\* brought up and tracks.
SweepSparesTracked ==
  [][\A t \in Clients : place[t] \in {"kill", "rekill"} /\ place'[t] \notin {"kill", "rekill"} /\ Tracked
       => child'[proc] = "up"]_hostVars
=============================================================================
