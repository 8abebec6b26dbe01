-------------------------- MODULE ProducerHostProofs --------------------------
(***************************************************************************)
(* Theorems about ProducerHost, for any number of client threads, calls    *)
(* and respawns.                                                           *)
(***************************************************************************)
EXTENDS ProducerHost, FiniteSetTheorems, TLAPS

Places == {"none", "idle", "done", "start", "reap", "spawn",
           "stop", "restart", "term", "reterm", "sweep", "resweep", "kill", "rekill",
           "reading", "count", "pruned", "limit", "append", "armed", "check", "gave_up"}
Ends == {"none", "up", "exited", "killed", "crashed"}

HostTypes ==
  /\ proc \in {0} \cup Children /\ deliberate \in BOOLEAN
  /\ lock \in {0} \cup Threads
  /\ child \in [Children -> Ends]
  /\ place \in [Threads -> Places]
  /\ victim \in [Threads -> {0} \cup Children]

\* The lock is held from start()'s look at the tracked child to the Popen.
LockHeld == \A t \in Threads : place[t] \in {"reap", "spawn"} <=> lock = t

\* Under the lock the tracked child stays dead: stop() waits, and only the
\* holder spawns.
NoneTracked == lock # 0 => ~Tracked

\* After the reap nothing is alive until the Popen.
ClearToSpawn == \A t \in Threads : place[t] = "spawn" => Up = {}

\* The flag of a stop falls before the next child is tracked.
FlagFirst == deliberate => lock = 0 /\ proc = 0

\* The inductive invariant.
HostInv ==
  /\ HostTypes /\ LockHeld /\ NoneTracked /\ ClearToSpawn /\ FlagFirst
  /\ OneProducer /\ NoneLost

LEMMA ThreadFacts == /\ 0 \notin Threads
                     /\ 0 \notin Children
                     /\ Clients \subseteq Threads
                     /\ Children \subseteq Threads
  BY HostAssumption DEF Threads, Children

\* What no step but a spawn undoes: no child comes up, whoever is tracked
\* stays tracked, and no stop() lets go of a live victim.
LEMMA QuietStep ==
  ASSUME HostInv, HostTypes',
         LockHeld',
         proc' = proc, deliberate' = deliberate, lock' = lock,
         \A c \in Children : child'[c] = "up" => child[c] = "up",
         \A t \in Threads : place'[t] = "spawn" => place[t] = "spawn",
         \A t \in Clients : place[t] \in Busy =>
            \/ place'[t] \in Busy /\ victim'[t] = victim[t]
            \/ \A c \in Children : victim[t] = c => child'[c] # "up"
  PROVE  HostInv'
<1>1. Up' \subseteq Up
  BY DEF Up
<1>2. NoneTracked' /\ ClearToSpawn' /\ FlagFirst'
  BY <1>1 DEF HostInv, NoneTracked, Tracked, ClearToSpawn, FlagFirst
<1>3. OneProducer'
  BY <1>1 DEF HostInv, OneProducer
<1>4. NoneLost'
  <2> SUFFICES ASSUME NEW c \in Up', c # proc
               PROVE  \E t \in Clients : place'[t] \in Busy /\ victim'[t] = c
    BY DEF NoneLost, Busy
  <2>1. c \in Up /\ c \in Children /\ child'[c] = "up"
    BY <1>1 DEF Up
  <2>2. PICK t \in Clients : place[t] \in Busy /\ victim[t] = c
    BY <2>1 DEF HostInv, NoneLost
  <2>3. QED
    BY <2>1, <2>2
<1>5. QED
  BY <1>2, <1>3, <1>4 DEF HostInv

LEMMA InitInv == HostInit => HostInv
<1> SUFFICES ASSUME HostInit PROVE HostInv
  OBVIOUS
<1>1. HostTypes
  <2>2. child \in [Children -> Ends]
    BY DEF HostInit, Ends
  <2>3. place \in [Threads -> Places]
    BY DEF HostInit, Places
  <2>4. QED
    BY <2>2, <2>3 DEF HostInit, HostTypes
<1>2. LockHeld /\ FlagFirst /\ NoneTracked
  BY ThreadFacts DEF HostInit, LockHeld, FlagFirst, NoneTracked
<1>3. Up = {}
  BY DEF HostInit, Up
<1>4. QED
  BY <1>1, <1>2, <1>3, ThreadFacts DEF HostInit, HostInv, ClearToSpawn, OneProducer, NoneLost

\* What Goto does to the places: only t's, and to a place outside the lock.
LEMMA GotoFree ==
  ASSUME HostInv, NEW t \in Threads, NEW w \in Places, w \notin {"reap", "spawn"},
         place[t] \notin {"reap", "spawn"}, Goto(t, w), lock' = lock
  PROVE  /\ place' \in [Threads -> Places]
         /\ LockHeld'
         /\ place'[t] = w
         /\ \A u \in Threads : u # t => place'[u] = place[u]
         /\ \A u \in Threads : place'[u] = "spawn" => place[u] = "spawn"
  BY ThreadFacts DEF HostInv, HostTypes, LockHeld, Goto

-----------------------------------------------------------------------------
LEMMA CallInv == ASSUME HostInv, NEW t \in Clients, Call(t) PROVE HostInv'
<1>1. PICK w \in {"start", "stop", "restart"} : Goto(t, w)
  BY DEF Call
<1>2. UNCHANGED <<proc, deliberate, lock, child, victim>> /\ place[t] = "idle"
  BY DEF Call
<1>3. t \in Threads
  BY ThreadFacts
<1>4. /\ place' \in [Threads -> Places] /\ LockHeld'
      /\ \A u \in Threads : u # t => place'[u] = place[u]
      /\ \A u \in Threads : place'[u] = "spawn" => place[u] = "spawn"
  BY <1>1, <1>2, <1>3, GotoFree DEF Places
<1>5. HostTypes'
  BY <1>2, <1>4 DEF HostInv, HostTypes, Ends
<1>6. QED
  BY <1>2, <1>4, <1>5, ThreadFacts, QuietStep DEF Busy

LEMMA StartInv == ASSUME HostInv, NEW t \in Threads, Start(t) PROVE HostInv'
<1>1. place[t] = "start" /\ lock = 0 /\ UNCHANGED <<proc, child, victim>>
  BY DEF Start
<1>2. CASE AlreadyUp \/ ~points
  <2>1. Goto(t, Home(t)) /\ UNCHANGED <<lock, deliberate>>
    BY <1>2 DEF Start
  <2>2. Home(t) \in Places /\ Home(t) \notin {"reap", "spawn"}
    BY DEF Home, Places
  <2>3. /\ place' \in [Threads -> Places] /\ LockHeld'
        /\ \A u \in Threads : u # t => place'[u] = place[u]
        /\ \A u \in Threads : place'[u] = "spawn" => place[u] = "spawn"
    BY <1>1, <2>1, <2>2, GotoFree DEF Places
  <2>4. HostTypes'
    BY <1>1, <2>1, <2>3 DEF HostInv, HostTypes, Ends
  <2>5. QED
    BY <1>1, <2>1, <2>3, <2>4, ThreadFacts, QuietStep DEF Busy
<1>3. CASE ~(AlreadyUp \/ ~points)
  <2>1. place' = [place EXCEPT ![t] = "reap"] /\ lock' = t /\ deliberate' = FALSE
    BY <1>3 DEF Start, Goto, Entered, Armed
  <2>2. Up' = Up /\ ~Tracked'
    BY <1>1, <1>3 DEF AlreadyUp, Tracked, Up
  <2>3. HostTypes' /\ LockHeld'
    BY <1>1, <2>1, ThreadFacts DEF HostInv, HostTypes, LockHeld, Ends, Places
  <2>4. NoneTracked' /\ FlagFirst' /\ OneProducer'
    BY <2>1, <2>2 DEF HostInv, NoneTracked, FlagFirst, OneProducer
  <2>5. ClearToSpawn'
    BY <2>1, <2>2 DEF HostInv, HostTypes, ClearToSpawn
  <2>6. NoneLost'
    <3>1. \A u \in Clients : place[u] \in Busy => place'[u] = place[u] /\ victim'[u] = victim[u]
      BY <1>1, <2>1, ThreadFacts DEF HostInv, HostTypes, Busy
    <3>2. QED
      BY <1>1, <2>2, <3>1 DEF HostInv, NoneLost
  <2>7. QED
    BY <2>3, <2>4, <2>5, <2>6 DEF HostInv
<1>4. QED
  BY <1>2, <1>3

LEMMA ReapInv == ASSUME HostInv, NEW t \in Threads, Reap(t) PROVE HostInv'
<1>1. /\ place[t] = "reap" /\ place' = [place EXCEPT ![t] = "spawn"]
      /\ child' = [c \in Children |-> IF c \in Up \ {proc} THEN "killed" ELSE child[c]]
      /\ UNCHANGED <<proc, deliberate, lock, victim>>
  BY DEF Reap, Goto, Killed, Reaped
<1>2. lock = t /\ lock # 0
  BY <1>1, ThreadFacts DEF HostInv, LockHeld
<1>3. Up' = {}
  BY <1>1, <1>2 DEF HostInv, NoneTracked, Tracked, Up
<1>4. HostTypes'
  BY <1>1 DEF HostInv, HostTypes, Ends, Places
<1>5. LockHeld'
  BY <1>1, <1>2 DEF HostInv, HostTypes, LockHeld, Ends, Places
<1>6. QED
  BY <1>1, <1>3, <1>4, <1>5
  DEF HostInv, NoneTracked, Tracked, ClearToSpawn, FlagFirst, OneProducer, NoneLost

LEMMA SpawnInv == ASSUME HostInv, NEW t \in Threads, Spawn(t) PROVE HostInv'
<1>1. PICK c \in Children :
        /\ child' = [child EXCEPT ![c] = "up"]
        /\ proc' = c
        /\ place' = [place EXCEPT ![t] = Home(t), ![c] = "reading"]
  BY DEF Spawn
<1>2. place[t] = "spawn" /\ lock' = 0 /\ UNCHANGED <<deliberate, victim>>
  BY DEF Spawn
<1>3. lock = t /\ lock # 0 /\ Up = {}
  BY <1>2, ThreadFacts DEF HostInv, LockHeld, ClearToSpawn
<1>4. Up' = {c}
  BY <1>1, <1>3 DEF Up, HostInv, HostTypes
<1>5. HostTypes'
  <2>1. Home(t) \in Places
    BY DEF Home, Places
  <2>2. QED
    BY <1>1, <1>2, <2>1, ThreadFacts DEF HostInv, HostTypes, Ends, Places
<1>6. \A u \in Threads : place'[u] \notin {"reap", "spawn"}
  <2>1. Home(t) \notin {"reap", "spawn"}
    BY DEF Home, Places
  <2>2. \A u \in Threads : place[u] \in {"reap", "spawn"} => u = t
    BY <1>3 DEF HostInv, LockHeld
  <2>3. QED
    BY <1>1, <2>1, <2>2, ThreadFacts DEF HostInv, HostTypes, Ends
<1>7. LockHeld' /\ ClearToSpawn' /\ NoneTracked'
  BY <1>2, <1>6, ThreadFacts DEF LockHeld, ClearToSpawn, NoneTracked
<1>8. FlagFirst'
  BY <1>2, <1>3 DEF HostInv, FlagFirst
<1>9. QED
  BY <1>1, <1>4, <1>5, <1>7, <1>8 DEF HostInv, OneProducer, NoneLost

LEMMA SpawnFailsInv == ASSUME HostInv, NEW t \in Threads, SpawnFails(t) PROVE HostInv'
<1>1. /\ place[t] = "spawn" /\ place' = [place EXCEPT ![t] = Home(t)]
      /\ proc' = 0 /\ lock' = 0 /\ UNCHANGED <<deliberate, child, victim>>
  BY DEF SpawnFails, Goto
<1>2. lock = t /\ Up = {}
  BY <1>1 DEF HostInv, LockHeld, ClearToSpawn
<1>3. Up' = {}
  BY <1>1, <1>2 DEF Up
<1>4. Home(t) \in Places /\ Home(t) \notin {"reap", "spawn"}
  BY DEF Home, Places
<1>5. HostTypes'
  BY <1>1, <1>4 DEF HostInv, HostTypes, Ends
<1>6. LockHeld'
  BY <1>1, <1>2, <1>4, ThreadFacts DEF HostInv, HostTypes, LockHeld, Ends, Places
<1>7. QED
  BY <1>1, <1>3, <1>5, <1>6
  DEF HostInv, NoneTracked, ClearToSpawn, FlagFirst, OneProducer, NoneLost

LEMMA StopInv == ASSUME HostInv, NEW t \in Clients, Stop(t) PROVE HostInv'
<1> DEFINE w == IF place[t] = "stop" THEN "term" ELSE "reterm"
<1>1. /\ place[t] \in {"stop", "restart"} /\ lock = 0 /\ lock' = 0
      /\ deliberate' = TRUE /\ proc' = 0
      /\ victim' = [victim EXCEPT ![t] = proc]
      /\ place' = [place EXCEPT ![t] = w]
      /\ UNCHANGED child
  BY DEF Stop, Goto
<1>2. Up' = Up
  BY <1>1 DEF Up
<1>3. w \in Busy /\ w \notin {"reap", "spawn"} /\ w \in Places
  BY DEF Busy, Places
<1> HIDE DEF w
<1>4. HostTypes'
  BY <1>1, <1>3 DEF HostInv, HostTypes, Ends
<1>5. LockHeld'
  BY <1>1, <1>3, ThreadFacts DEF HostInv, HostTypes, LockHeld, Ends, Places
<1>6. ClearToSpawn'
  BY <1>1, <1>2, <1>3 DEF HostInv, HostTypes, ClearToSpawn
<1>7. NoneLost'
  <2> SUFFICES ASSUME NEW c \in Up
               PROVE  \E u \in Clients : place'[u] \in Busy /\ victim'[u] = c
    BY <1>2 DEF NoneLost, Busy
  <2>1. place'[t] \in Busy /\ victim'[t] = proc
    BY <1>1, <1>3, ThreadFacts DEF HostInv, HostTypes, Ends
  <2>2. CASE c = proc
    BY <2>1, <2>2
  <2>3. CASE c # proc
    <3>1. PICK u \in Clients : place[u] \in Busy /\ victim[u] = c
      BY <2>3 DEF HostInv, NoneLost
    <3>2. u # t
      BY <1>1, <3>1 DEF Busy
    <3>3. place'[u] \in Busy /\ victim'[u] = c
      BY <1>1, <3>1, <3>2, ThreadFacts DEF HostInv, HostTypes, Ends
    <3>4. QED
      BY <3>3
  <2>4. QED
    BY <2>2, <2>3
<1>8. QED
  BY <1>1, <1>2, <1>4, <1>5, <1>6, <1>7
  DEF HostInv, NoneTracked, FlagFirst, OneProducer

LEMMA TerminateInv == ASSUME HostInv, NEW t \in Clients, Terminate(t) PROVE HostInv'
<1>1. PICK w \in {"sweep", "resweep"} : Goto(t, w)
  BY DEF Terminate, Then
<1>2. PICK e \in {"exited", "killed"} :
        child' = [c \in Children |-> IF c = victim[t] /\ child[c] = "up" THEN e ELSE child[c]]
  BY DEF Terminate
<1>3. /\ UNCHANGED <<proc, deliberate, lock, victim>>
      /\ place[t] \in {"term", "reterm"} /\ t \in Threads
  BY ThreadFacts DEF Terminate
<1>4. /\ place' \in [Threads -> Places] /\ LockHeld'
      /\ \A u \in Threads : u # t => place'[u] = place[u]
      /\ \A u \in Threads : place'[u] = "spawn" => place[u] = "spawn"
  BY <1>1, <1>3, GotoFree DEF Places
<1>5. HostTypes'
  BY <1>2, <1>3, <1>4 DEF HostInv, HostTypes, Ends
<1>6. \A c \in Children : child'[c] = "up" => child[c] = "up" /\ c # victim[t]
  BY <1>2
<1>7. QED
  BY <1>3, <1>4, <1>5, <1>6, ThreadFacts, QuietStep

LEMMA SpareInv == ASSUME HostInv, NEW t \in Clients, Spare(t) PROVE HostInv'
<1>1. PICK w \in {"kill", "rekill"} : Goto(t, w)
  BY DEF Spare, Then
<1>2. /\ UNCHANGED <<proc, deliberate, lock, child>>
      /\ victim' = [victim EXCEPT ![t] = proc]
      /\ place[t] \in {"sweep", "resweep"} /\ t \in Threads
  BY ThreadFacts DEF Spare
<1>3. /\ place' \in [Threads -> Places] /\ LockHeld'
      /\ \A u \in Threads : u # t => place'[u] = place[u]
      /\ \A u \in Threads : place'[u] = "spawn" => place[u] = "spawn"
  BY <1>1, <1>2, GotoFree DEF Places
<1>4. HostTypes'
  BY <1>2, <1>3 DEF HostInv, HostTypes, Ends
<1>5. \A u \in Clients : place[u] \in Busy => place'[u] = place[u] /\ victim'[u] = victim[u]
  BY <1>2, <1>3, ThreadFacts DEF Busy, HostInv, HostTypes
<1>6. QED
  BY <1>2, <1>3, <1>4, <1>5, QuietStep

LEMMA SweepInv == ASSUME HostInv, NEW t \in Clients, Sweep(t) PROVE HostInv'
<1>1. PICK w \in {"idle", "start"} : Goto(t, w)
  BY DEF Sweep, Then
<1>2. /\ UNCHANGED <<proc, deliberate, lock>>
      /\ victim' = [victim EXCEPT ![t] = 0]
      /\ child' = [c \in Children |-> IF c \in Reaped(victim[t]) THEN "killed" ELSE child[c]]
      /\ place[t] \in {"kill", "rekill"} /\ t \in Threads
  BY ThreadFacts DEF Sweep, Killed
<1>3. /\ place' \in [Threads -> Places] /\ LockHeld'
      /\ \A u \in Threads : u # t => place'[u] = place[u]
      /\ \A u \in Threads : place'[u] = "spawn" => place[u] = "spawn"
  BY <1>1, <1>2, GotoFree DEF Places
<1>4. HostTypes'
  BY <1>2, <1>3 DEF HostInv, HostTypes, Ends
<1>5. \A c \in Children : child'[c] = "up" => child[c] = "up"
  BY <1>2
<1>6. \A u \in Clients : place[u] \in Busy => place'[u] = place[u] /\ victim'[u] = victim[u]
  BY <1>2, <1>3, ThreadFacts DEF Busy, HostInv, HostTypes
<1>7. QED
  BY <1>2, <1>3, <1>4, <1>5, <1>6, QuietStep

LEMMA DieInv == ASSUME HostInv, NEW c \in Children, Die(c) PROVE HostInv'
<1>1. PICK e \in {"exited", "crashed"} : child' = [child EXCEPT ![c] = e]
  BY DEF Die
<1>2. UNCHANGED <<proc, deliberate, lock, place, victim>>
  BY DEF Die
<1>3. HostTypes' /\ LockHeld'
  BY <1>1, <1>2 DEF HostInv, HostTypes, LockHeld, Ends, Places
<1>4. \A d \in Children : child'[d] = "up" => child[d] = "up"
  BY <1>1 DEF HostInv, HostTypes, Ends
<1>5. QED
  BY <1>2, <1>3, <1>4, QuietStep

LEMMA WatchInv == ASSUME HostInv, NEW c \in Children, Watch(c) PROVE HostInv'
<1>1. PICK w \in {"done", "count", "pruned", "limit", "append", "armed", "gave_up", "check", "start"} : Goto(c, w)
  BY DEF Watch, ReadEnd, Tally, Prune, Rebind, Check, Enlist, Respawn, Recheck
<1>2. /\ UNCHANGED <<proc, deliberate, lock, child, victim>>
      /\ place[c] \in {"reading", "count", "pruned", "limit", "append", "armed", "check"} /\ c \in Threads
  BY ThreadFacts DEF Watch, ReadEnd, Tally, Prune, Rebind, Check, Enlist, Respawn, Recheck
<1>3. /\ place' \in [Threads -> Places] /\ LockHeld'
      /\ \A u \in Threads : u # c => place'[u] = place[u]
      /\ \A u \in Threads : place'[u] = "spawn" => place[u] = "spawn"
  BY <1>1, <1>2, GotoFree DEF Places
<1>4. HostTypes'
  BY <1>2, <1>3 DEF HostInv, HostTypes, Ends
<1>5. \A u \in Clients : place[u] \in Busy => place'[u] = place[u] /\ victim'[u] = victim[u]
  BY <1>2, <1>3, ThreadFacts DEF Busy
<1>6. QED
  BY <1>2, <1>3, <1>4, <1>5, QuietStep

\* A respawn that leaves the window, or a save of the mode, moves no thread.
LEMMA StillInv ==
  ASSUME HostInv, UNCHANGED <<proc, deliberate, lock, child, place, victim>>
  PROVE  HostInv'
<1>1. HostTypes' /\ LockHeld'
  BY DEF HostInv, HostTypes, LockHeld
<1>2. QED
  BY <1>1, QuietStep

-----------------------------------------------------------------------------
LEMMA InvTheorem == HostSpec => []HostInv
<1>1. HostInv /\ [HostNext]_hostVars => HostInv'
  <2> SUFFICES ASSUME HostInv, [HostNext]_hostVars PROVE HostInv'
    OBVIOUS
  <2>1. ASSUME NEW t \in Clients, Call(t) \/ End(t) PROVE HostInv'
    BY <2>1, CallInv, StopInv, TerminateInv, SpareInv, SweepInv DEF End
  <2>2. ASSUME NEW t \in Threads, Begin(t) \/ SpawnFails(t) PROVE HostInv'
    BY <2>2, StartInv, ReapInv, SpawnInv, SpawnFailsInv DEF Begin
  <2>3. ASSUME NEW c \in Children, Die(c) \/ Watch(c) PROVE HostInv'
    BY <2>3, DieInv, WatchInv
  <2>4. ASSUME SaveMode \/ (\E c \in Children : Expire(c)) \/ UNCHANGED hostVars PROVE HostInv'
    BY <2>4, StillInv DEF SaveMode, Expire, hostVars
  <2>5. QED
    BY <2>1, <2>2, <2>3, <2>4 DEF HostNext, Threading
<1>2. QED
  BY <1>1, InitInv, PTL DEF HostSpec

\* However many STARTs, STOPs, restarts, crashes and timers overlap, at most
\* one producer of this instance lives.
THEOREM OneProducerTheorem == HostSpec => []OneProducer
<1>1. HostInv => OneProducer
  BY DEF HostInv
<1>2. QED
  BY <1>1, InvTheorem, PTL

\* A live producer is tracked, or a stop() has taken it and is about to end it:
\* no overlap leaves one behind that neither STOP nor START knows of.
THEOREM NoneLostTheorem == HostSpec => []NoneLost
<1>1. HostInv => NoneLost
  BY DEF HostInv
<1>2. QED
  BY <1>1, InvTheorem, PTL

\* While a child is tracked the flag of a deliberate stop is down, so that its
\* log pump never takes its crash for the end of a stop.
THEOREM FlagTheorem == HostSpec => []FlagMeansUntracked
<1>1. HostInv => FlagMeansUntracked
  BY DEF HostInv, FlagFirst, FlagMeansUntracked
<1>2. QED
  BY <1>1, InvTheorem, PTL

-----------------------------------------------------------------------------
\* The respawns whose log pump had the list to itself.
Alone == counted \ raced

\* Where a log pump has not yet counted its child's crash.
Early == {"none", "reading", "count"} \cup Counting

ListTypes ==
  /\ counted \subseteq Children /\ raced \subseteq Children
  /\ respawns \subseteq counted /\ old \subseteq counted
  /\ seen \in [Children -> SUBSET Children]
  /\ \A c \in Children : seen[c] \subseteq counted

\* Every child that was spawned has its log pump.
Pumped == \A c \in Children : child[c] = "none" <=> place[c] = "none"

CountedOnce == \A c \in Children : place[c] \in Early => c \notin counted

\* Log pumps side by side on the list are known to be so.
Noted == \A c, d \in Children :
  c # d /\ place[c] \in Counting /\ place[d] \in Counting => c \in raced /\ d \in raced

\* What a log pump alone on the list appended stays in it for the whole window:
\* no prune drops it, as one that could have read the list before raced with it.
Listed ==
  /\ Alone \ old \subseteq respawns
  /\ \A c \in Children : place[c] = "pruned" => Alone \ old \subseteq seen[c]

\* What it found of the list still holds when it appends.
Room == \A c \in Children : place[c] = "append" /\ c \notin raced => Cardinality(respawns) < Limit

ListInv == ListTypes /\ Pumped /\ CountedOnce /\ Noted /\ Listed /\ Room /\ RespawnsBounded

LEMMA SubsetsFinite ==
  \A S \in SUBSET Children : IsFiniteSet(S) /\ Cardinality(S) \in Nat
<1>1. IsFiniteSet(1..MaxChildren)
  BY HostAssumption, FS_Interval
<1>2. QED
  BY <1>1, FS_Subset, FS_CardinalityType DEF Children

LEMMA Smaller ==
  ASSUME NEW S \in SUBSET Children, NEW T \in SUBSET S
  PROVE  Cardinality(T) <= Cardinality(S)
  BY SubsetsFinite, FS_Subset

\* A step that leaves the list alone, and neither takes a log pump on to it nor
\* back to where it has yet to count.
LEMMA QuietList ==
  ASSUME ListInv, UNCHANGED listVars, Pumped',
         \A c \in Children : place'[c] \in Early => place[c] \in Early,
         \A c \in Children : place'[c] \in Counting => place'[c] = place[c]
  PROVE  ListInv'
<1>1. ListTypes' /\ CountedOnce' /\ RespawnsBounded'
  BY DEF ListInv, listVars, ListTypes, CountedOnce, RespawnsBounded
<1>2. Noted'
  BY DEF ListInv, listVars, Noted
<1>3. Listed' /\ Room'
  BY DEF ListInv, listVars, Listed, Room, Alone, Counting
<1>4. QED
  BY <1>1, <1>2, <1>3 DEF ListInv

\* The same, for a step that moves one thread.
LEMMA QuietMove ==
  ASSUME HostInv, ListInv, UNCHANGED listVars, NEW t \in Threads, NEW w \in Places, Goto(t, w),
         w \notin Early, place[t] \notin Early,
         \A c \in Children : child'[c] = "none" <=> child[c] = "none"
  PROVE  ListInv'
<1>1. /\ \A u \in Threads : u # t => place'[u] = place[u]
      /\ place'[t] = w
  BY DEF HostInv, HostTypes, Goto
<1>2. Pumped'
  BY <1>1, ThreadFacts DEF ListInv, Pumped, Early
<1>3. QED
  BY <1>1, <1>2, ThreadFacts, QuietList DEF Early

LEMMA InitList == HostInit => ListInv
<1> SUFFICES ASSUME HostInit PROVE ListInv
  OBVIOUS
<1>1. \A c \in Children : place[c] = "none"
  BY HostAssumption, ThreadFacts DEF HostInit, Children
<1>2. (counted \ raced) \ old = {} /\ Cardinality({}) = 0
  BY FS_EmptySet DEF HostInit
<1>3. QED
  BY <1>1, <1>2, HostAssumption
  DEF HostInit, ListInv, ListTypes, Pumped, CountedOnce, Noted, Listed, Room, RespawnsBounded,
      Alone, Counting

LEMMA ClientList == ASSUME HostInv, ListInv, NEW t \in Clients, Call(t) \/ End(t) PROVE ListInv'
<1>1. PICK w \in Places \ Early : Goto(t, w)
  BY DEF Call, End, Stop, Terminate, Spare, Sweep, Then, Places, Early, Counting
<1>2. UNCHANGED listVars /\ t \in Threads /\ t \notin Children
  BY HostAssumption, ThreadFacts DEF Call, End, Stop, Terminate, Spare, Sweep, Children
<1>3. \A c \in Children : child'[c] = "none" <=> child[c] = "none"
  <2>1. CASE Terminate(t)
    <3>1. PICK e \in {"exited", "killed"} :
            child' = [c \in Children |-> IF c = victim[t] /\ child[c] = "up" THEN e ELSE child[c]]
      BY <2>1 DEF Terminate
    <3>2. QED
      BY <3>1
  <2>2. CASE Call(t) \/ Stop(t) \/ Spare(t) \/ Sweep(t)
    BY <2>2 DEF Call, Stop, Spare, Sweep, Killed, Reaped, Up
  <2>3. QED
    BY <2>1, <2>2 DEF End
<1>4. \A c \in Children : place'[c] = place[c]
  BY <1>1, <1>2, ThreadFacts DEF HostInv, HostTypes, Goto
<1>5. Pumped'
  BY <1>3, <1>4 DEF ListInv, Pumped
<1>6. QED
  BY <1>2, <1>4, <1>5, QuietList

LEMMA BeginList ==
  ASSUME HostInv, ListInv, NEW t \in Threads, Start(t) \/ Reap(t) \/ SpawnFails(t)
  PROVE  ListInv'
<1>1. PICK w \in Places \ Early : Goto(t, w)
  BY DEF Start, Reap, SpawnFails, Home, Places, Early, Counting
<1>2. UNCHANGED listVars /\ place[t] \notin Early
  BY DEF Start, Reap, SpawnFails, Early, Counting
<1>3. \A c \in Children : child'[c] = "none" <=> child[c] = "none"
  BY DEF Start, Reap, SpawnFails, Killed, Reaped, Up
<1>4. QED
  BY <1>1, <1>2, <1>3, QuietMove

LEMMA SpawnList == ASSUME HostInv, ListInv, NEW t \in Threads, Spawn(t) PROVE ListInv'
<1>1. PICK c \in Children :
        /\ child[c] = "none" /\ child' = [child EXCEPT ![c] = "up"]
        /\ place' = [place EXCEPT ![t] = Home(t), ![c] = "reading"]
  BY DEF Spawn
<1>2. place[t] = "spawn" /\ UNCHANGED listVars
  BY DEF Spawn
<1>3. place[c] = "none" /\ c # t /\ c \in Threads
  BY <1>1, <1>2, ThreadFacts DEF ListInv, Pumped
<1>4. /\ \A u \in Threads : u # t /\ u # c => place'[u] = place[u]
      /\ place'[t] = Home(t) /\ place'[c] = "reading"
  BY <1>1, <1>3 DEF HostInv, HostTypes
<1>5. /\ \A d \in Children : d # c => child'[d] = child[d]
      /\ child'[c] = "up"
  BY <1>1 DEF HostInv, HostTypes
<1>6. Home(t) \notin Early /\ Home(t) # "none"
  BY DEF Home, Early, Counting
<1>7. Pumped'
  BY <1>2, <1>4, <1>5, <1>6, ThreadFacts DEF ListInv, Pumped
<1>8. \A d \in Children : place'[d] \in Early => place[d] \in Early
  BY <1>3, <1>4, <1>6, ThreadFacts DEF Early
<1>9. \A d \in Children : place'[d] \in Counting => place'[d] = place[d]
  BY <1>3, <1>4, <1>6, ThreadFacts DEF Early, Counting
<1>10. QED
  BY <1>2, <1>7, <1>8, <1>9, QuietList

\* The log pump and its timer, away from the list.
LEMMA PumpList ==
  ASSUME HostInv, ListInv, NEW c \in Children, ReadEnd(c) \/ Respawn(c) \/ Recheck(c)
  PROVE  ListInv'
<1>1. PICK w \in {"done", "count", "check", "start"} : Goto(c, w) /\ (w = "count" => place[c] = "reading")
  BY DEF ReadEnd, Respawn, Recheck
<1>2. UNCHANGED <<listVars, child>> /\ place[c] \in {"reading", "armed", "check"}
  BY DEF ReadEnd, Respawn, Recheck
<1>3. /\ \A d \in Children : d # c => place'[d] = place[d]
      /\ place'[c] = w
  BY <1>1, ThreadFacts DEF HostInv, HostTypes, Goto
<1>4. Pumped'
  BY <1>1, <1>2, <1>3 DEF ListInv, Pumped
<1>5. QED
  BY <1>1, <1>2, <1>3, <1>4, QuietList DEF Early, Counting

LEMMA DieList == ASSUME HostInv, ListInv, NEW c \in Children, Die(c) PROVE ListInv'
<1>1. PICK e \in {"exited", "crashed"} : child' = [child EXCEPT ![c] = e]
  BY DEF Die
<1>2. child[c] = "up" /\ UNCHANGED <<place, listVars>>
  BY DEF Die
<1>3. Pumped'
  BY <1>1, <1>2 DEF HostInv, HostTypes, ListInv, Pumped
<1>4. QED
  BY <1>2, <1>3, QuietList

-----------------------------------------------------------------------------
\* A log pump's step on the list moves it one place on; everything else but the
\* list stays.
LEMMA TallyMoves ==
  ASSUME HostInv, ListInv, NEW c \in Children, Tally(c)
  PROVE  /\ \A d \in Children : d # c => place'[d] = place[d]
         /\ place[c] \in {"count"} \cup Counting /\ place'[c] \in Counting \cup {"armed", "gave_up"}
         /\ place'[c] \in Early => place[c] \in Early
         /\ Pumped'
<1>1. PICK w \in {"pruned", "limit", "append", "armed", "gave_up"} : Goto(c, w)
  BY DEF Tally, Prune, Rebind, Check, Enlist
<1>2. UNCHANGED child /\ place[c] \in {"count"} \cup Counting
  BY DEF Tally, Prune, Rebind, Check, Enlist, Counting
<1>3. /\ \A d \in Children : d # c => place'[d] = place[d]
      /\ place'[c] = w
  BY <1>1, ThreadFacts DEF HostInv, HostTypes, Goto
<1>4. QED
  BY <1>1, <1>2, <1>3 DEF ListInv, Pumped, Early, Counting

LEMMA PruneList == ASSUME HostInv, ListInv, NEW c \in Children, Prune(c) PROVE ListInv'
<1> DEFINE others == {d \in Children : place[d] \in Counting}
<1>1. /\ place[c] = "count" /\ place'[c] = "pruned"
      /\ seen' = [seen EXCEPT ![c] = respawns \ old]
      /\ raced' = IF others = {} THEN raced ELSE raced \cup others \cup {c}
      /\ UNCHANGED <<respawns, old, counted>>
  BY ThreadFacts DEF Prune, Goto, HostInv, HostTypes
<1>2. (\A d \in Children : d # c => place'[d] = place[d]) /\ Pumped'
  BY TallyMoves DEF Tally
<1>3. raced \subseteq raced' /\ raced' \subseteq Children /\ Alone' \subseteq Alone
  BY <1>1 DEF ListInv, ListTypes, Alone
<1>4. ListTypes'
  BY <1>1, <1>3 DEF ListInv, ListTypes
<1>5. CountedOnce'
  BY <1>1, <1>2 DEF ListInv, CountedOnce, Early
<1>6. Noted'
  <2> SUFFICES ASSUME NEW d \in Children, NEW e \in Children, d # e,
                      place'[d] \in Counting, place'[e] \in Counting
               PROVE  d \in raced' /\ e \in raced'
    BY DEF Noted
  <2>1. CASE d # c /\ e # c
    BY <1>2, <1>3, <2>1 DEF ListInv, Noted
  <2>2. CASE d = c \/ e = c
    BY <1>1, <1>2, <2>2
  <2>3. QED
    BY <2>1, <2>2
<1>7. Listed'
  BY <1>1, <1>2, <1>3 DEF ListInv, Listed, ListTypes
<1>8. Room'
  BY <1>1, <1>2, <1>3 DEF ListInv, Room
<1>9. RespawnsBounded'
  <2>1. Cardinality(Alone' \ old') <= Cardinality(Alone \ old)
    BY <1>1, <1>3, Smaller DEF ListInv, ListTypes, Alone
  <2>2. /\ Cardinality(Alone' \ old') \in Nat
        /\ Cardinality(Alone \ old) \in Nat
    BY <1>4, SubsetsFinite DEF ListInv, ListTypes, Alone
  <2>3. QED
    BY <2>1, <2>2, HostAssumption DEF ListInv, RespawnsBounded, Alone
<1>10. QED
  BY <1>2, <1>4, <1>5, <1>6, <1>7, <1>8, <1>9 DEF ListInv

LEMMA RebindList == ASSUME HostInv, ListInv, NEW c \in Children, Rebind(c) PROVE ListInv'
<1>1. /\ place[c] = "pruned" /\ place'[c] = "limit"
      /\ respawns' = seen[c]
      /\ seen' = [seen EXCEPT ![c] = {}]
      /\ UNCHANGED <<raced, old, counted>>
  BY ThreadFacts DEF Rebind, Goto, HostInv, HostTypes
<1>2. (\A d \in Children : d # c => place'[d] = place[d]) /\ Pumped'
  BY TallyMoves DEF Tally
<1>3. ListTypes' /\ RespawnsBounded'
  BY <1>1 DEF ListInv, ListTypes, RespawnsBounded
<1>4. CountedOnce' /\ Noted'
  BY <1>1, <1>2 DEF ListInv, CountedOnce, Noted, Early, Counting
<1>5. Listed'
  BY <1>1, <1>2 DEF ListInv, Listed, ListTypes, Alone
<1>6. Room'
  BY <1>1, <1>2 DEF ListInv, Room, Noted, Counting
<1>7. QED
  BY <1>2, <1>3, <1>4, <1>5, <1>6 DEF ListInv

LEMMA CheckList == ASSUME HostInv, ListInv, NEW c \in Children, Check(c) PROVE ListInv'
<1>1. /\ place[c] = "limit" /\ place'[c] = IF Cardinality(respawns) < Limit THEN "append" ELSE "gave_up"
      /\ UNCHANGED <<respawns, old, seen, counted, raced>>
  BY ThreadFacts DEF Check, Goto, WithinLimit, HostInv, HostTypes, listVars
<1>2. (\A d \in Children : d # c => place'[d] = place[d]) /\ Pumped'
  BY TallyMoves DEF Tally
<1>3. ListTypes' /\ RespawnsBounded'
  BY <1>1 DEF ListInv, ListTypes, RespawnsBounded
<1>4. CountedOnce' /\ Noted'
  BY <1>1, <1>2 DEF ListInv, CountedOnce, Noted, Early, Counting
<1>5. Listed' /\ Room'
  BY <1>1, <1>2 DEF ListInv, Listed, Room, Alone
<1>6. QED
  BY <1>2, <1>3, <1>4, <1>5 DEF ListInv

LEMMA EnlistList == ASSUME HostInv, ListInv, NEW c \in Children, Enlist(c) PROVE ListInv'
<1>1. /\ place[c] = "append" /\ place'[c] = "armed"
      /\ respawns' = respawns \cup {c} /\ counted' = counted \cup {c}
      /\ UNCHANGED <<seen, raced, old>>
  BY ThreadFacts DEF Enlist, Goto, HostInv, HostTypes
<1>2. (\A d \in Children : d # c => place'[d] = place[d]) /\ Pumped'
  BY TallyMoves DEF Tally
<1>3. ListTypes'
  BY <1>1 DEF ListInv, ListTypes
<1>4. CountedOnce' /\ Noted'
  BY <1>1, <1>2 DEF ListInv, CountedOnce, Noted, Early, Counting
<1>5. \A d \in Children : d # c /\ place[d] \in Counting => c \in raced /\ d \in raced
  BY <1>1 DEF ListInv, Noted, Counting
<1>6. Alone' \subseteq Alone \cup {c} /\ (c \in raced => Alone' = Alone)
  BY <1>1 DEF Alone
<1>7. Listed'
  BY <1>1, <1>2, <1>5, <1>6 DEF ListInv, Listed, Counting
<1>8. Room'
  BY <1>1, <1>2, <1>5 DEF Room, Counting
<1>9. RespawnsBounded'
  <2>1. CASE c \in raced
    BY <1>1, <1>6, <2>1 DEF ListInv, RespawnsBounded, Alone
  <2>2. CASE c \notin raced
    <3>1. Cardinality(respawns) < Limit
      BY <1>1, <2>2 DEF ListInv, Room
    <3>2. respawns \subseteq Children /\ respawns' \subseteq Children
      BY <1>1 DEF ListInv, ListTypes
    <3>3. Cardinality(respawns') <= Cardinality(respawns) + 1
      BY <1>1, <3>2, SubsetsFinite, FS_AddElement
    <3>4. Alone' \ old' \subseteq respawns'
      BY <1>7 DEF Listed
    <3>5. Cardinality(Alone' \ old') <= Cardinality(respawns')
      BY <3>2, <3>4, Smaller
    <3>6. /\ Cardinality(respawns) \in Nat /\ Cardinality(respawns') \in Nat
          /\ Cardinality(Alone' \ old') \in Nat
      BY <3>2, <3>4, SubsetsFinite
    <3>7. Cardinality(Alone' \ old') <= Limit
      BY <3>1, <3>3, <3>5, <3>6, HostAssumption
    <3>8. QED
      BY <3>7 DEF RespawnsBounded, Alone
  <2>3. QED
    BY <2>1, <2>2
<1>10. QED
  BY <1>2, <1>3, <1>4, <1>7, <1>8, <1>9 DEF ListInv

LEMMA ExpireList == ASSUME HostInv, ListInv, NEW c \in Children, Expire(c) PROVE ListInv'
<1>1. /\ c \in counted /\ old' = old \cup {c}
      /\ UNCHANGED <<place, child, respawns, seen, counted, raced>>
  BY DEF Expire
<1>2. ListTypes' /\ Pumped' /\ CountedOnce' /\ Noted' /\ Room'
  BY <1>1 DEF ListInv, ListTypes, Pumped, CountedOnce, Noted, Room
<1>3. Listed'
  BY <1>1 DEF ListInv, Listed, Alone
<1>4. RespawnsBounded'
  <2>1. Cardinality(Alone' \ old') <= Cardinality(Alone \ old)
    BY <1>1, Smaller DEF ListInv, ListTypes, Alone
  <2>2. /\ Cardinality(Alone' \ old') \in Nat
        /\ Cardinality(Alone \ old) \in Nat
    BY <1>2, SubsetsFinite DEF ListInv, ListTypes, Alone
  <2>3. QED
    BY <2>1, <2>2, HostAssumption DEF ListInv, RespawnsBounded, Alone
<1>5. QED
  BY <1>2, <1>3, <1>4 DEF ListInv

LEMMA ListTheorem == HostSpec => []ListInv
<1>1. HostInv /\ HostInv' /\ ListInv /\ [HostNext]_hostVars => ListInv'
  <2> SUFFICES ASSUME HostInv, ListInv, [HostNext]_hostVars PROVE ListInv'
    OBVIOUS
  <2>1. ASSUME NEW t \in Clients, Call(t) \/ End(t) PROVE ListInv'
    BY <2>1, ClientList
  <2>2. ASSUME NEW t \in Threads, Begin(t) \/ SpawnFails(t) PROVE ListInv'
    BY <2>2, BeginList, SpawnList DEF Begin
  <2>3. ASSUME NEW c \in Children, Tally(c) PROVE ListInv'
    BY <2>3, PruneList, RebindList, CheckList, EnlistList DEF Tally
  <2>4. ASSUME NEW c \in Children, Die(c) \/ Watch(c) \/ Expire(c) PROVE ListInv'
    BY <2>3, <2>4, DieList, PumpList, ExpireList DEF Watch
  <2>5. ASSUME SaveMode \/ UNCHANGED hostVars PROVE ListInv'
    <3>1. UNCHANGED <<place, child, listVars>>
      BY <2>5 DEF SaveMode, hostVars
    <3>2. Pumped'
      BY <3>1 DEF ListInv, Pumped
    <3>3. QED
      BY <3>1, <3>2, QuietList
  <2>6. QED
    BY <2>1, <2>2, <2>4, <2>5 DEF HostNext, Threading
<1>2. QED
  BY <1>1, InitList, InvTheorem, PTL DEF HostSpec

\* The respawns whose log pumps had the list to themselves never exceed the limit
\* of a window, whatever order crashes, expiries, STARTs and the unlocked steps
\* of other log pumps on the list come in.
THEOREM RespawnsTheorem == HostSpec => []RespawnsBounded
<1>1. ListInv => RespawnsBounded
  BY DEF ListInv
<1>2. QED
  BY <1>1, ListTheorem, PTL

\* One thread at a time spawns, every child has its log pump, and a crash loop
\* counted by one log pump at a time has an end.
THEOREM HostSafeTheorem == HostSpec => []HostSafe
<1>1. HostInv /\ ListInv => HostSafe
  BY DEF HostSafe, HostTypeOK, HostInv, HostTypes, LockHeld, ListInv, ListTypes, Pumped
<1>2. QED
  BY <1>1, InvTheorem, ListTheorem, PTL
=============================================================================
