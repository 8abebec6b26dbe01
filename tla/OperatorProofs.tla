--------------------------- MODULE OperatorProofs ---------------------------
(***************************************************************************)
(* Theorems about SystemControl, for any sets of threads and any number of *)
(* engines, and about JobRunner, for any keys and any number of jobs.      *)
(***************************************************************************)
EXTENDS MCOperator, Sequences, TLAPS

Begin == {"start", "reap", "failed", "spawn", "adopt", "boot", "ready", "perceive"}
Done == {"anchor", "log"}
Places == Begin \cup Teardown \cup Done \cup {"idle", "due", "save", "start again"}

\* Where a thread may be.
Track(t) ==
  {"idle"} \cup (IF t \in Starters \cup {"cycler"} THEN Begin ELSE {})
           \cup (IF t \in Stoppers \cup {"cycler"} THEN Teardown \cup Done ELSE {})
           \cup (IF t = "cycler" THEN {"due"} ELSE {})
           \cup (IF t \in Savers THEN {"save", "start again"} ELSE {})

PlaceTypes == place \in [Threads -> Places] /\ \A t \in Threads : place[t] \in Track(t)

ControlTypes ==
  /\ proc \in {0} \cup Engines /\ engine \in [Engines -> {"none", "up", "ended"}]
  /\ producer \in BOOLEAN /\ stopping \in BOOLEAN
  /\ seen \in [Threads -> {0} \cup Engines] /\ handle \in [Threads -> {0} \cup Engines]
  /\ mishaps \subseteq {"two starts", "stale getter", "two stops"}

\* Who is tracked or in hand was spawned, and what a getter has polled has ended.
InHand ==
  /\ proc # 0 => engine[proc] # "none"
  /\ \A t \in Threads :
       /\ handle[t] # 0 => engine[handle[t]] # "none"
       /\ seen[t] # 0 => engine[seen[t]] = "ended"
       /\ place[t] \in {"adopt", "terminate", "forget"} => handle[t] # 0

\* One thread at a time between the reap and the assignment of the child: what it
\* finds is nothing, and what it leaves is that child.
OneStart ==
  "two starts" \notin mishaps =>
    /\ \A t, u \in Threads : place[t] \in Spawning /\ place[u] \in Spawning => t = u
    /\ \A t \in Threads : /\ place[t] = "spawn" => Up = {}
                          /\ place[t] = "adopt" => Up \subseteq {handle[t]}
    /\ \A d, e \in Up : d = e

\* An engine that is not tracked is about to be, or to be swept.
Known ==
  mishaps \cap {"two starts", "stale getter"} = {} =>
    Up \subseteq {proc} \/ \E t \in Threads : place[t] \in {"sweep", "adopt"}

\* stop_in_progress is up from a teardown's first statement to its last.
OneStop ==
  "two stops" \notin mishaps =>
    /\ \A t, u \in Threads : place[t] \in Teardown /\ place[u] \in Teardown => t = u
    /\ \A t \in Threads : place[t] \in Teardown \ {"clear"} => stopping

\* After a STOP clicked while nothing was at work only its teardown is, and what
\* it has been through is down.
Stayed ==
  intent = "quiet stop" =>
    /\ \A t \in Starters \cup Savers : place[t] = "idle"
    /\ place["cycler"] \in {"idle", "due"} /\ (place["cycler"] = "due" => Up = {})
    /\ \A t, u \in Threads : place[t] \in Teardown /\ place[u] \in Teardown => t = u
    /\ (\A t \in Threads : place[t] \notin Teardown) => Up = {} /\ ~producer
    /\ Up \subseteq {proc}
    /\ \A t \in Threads :
         /\ place[t] \in Teardown => stopping
         /\ place[t] \in Teardown \ {"clear", "producer"} => ~producer
         /\ place[t] = "terminate" => Up \subseteq {handle[t]}
         /\ place[t] \in {"forget", "sweep", "finally"} => Up = {}
         /\ seen[t] # 0 => Up = {}

\* The inductive invariant.
RunInv == PlaceTypes /\ ControlTypes /\ InHand /\ OneStart /\ Known /\ OneStop /\ Stayed

-----------------------------------------------------------------------------
LEMMA ThreadFacts ==
  /\ Starters \subseteq Threads /\ Stoppers \subseteq Threads /\ Savers \subseteq Threads
  /\ Readers \subseteq Threads /\ "cycler" \in Threads
  /\ "cycler" \notin Starters /\ "cycler" \notin Stoppers /\ "cycler" \notin Savers /\ "cycler" \notin Readers
  /\ Starters \cap Stoppers = {} /\ Starters \cap Savers = {} /\ Stoppers \cap Savers = {}
  BY ControlAssumption DEF Threads

LEMMA EngineFacts == 0 \notin Engines /\ Engines \subseteq Nat
  BY DEF Engines

\* Who may be where.
LEMMA Whereabouts ==
  ASSUME PlaceTypes, NEW t \in Threads
  PROVE  /\ place[t] \in Begin => t \in Starters \cup {"cycler"}
         /\ place[t] \in Teardown \cup Done => t \in Stoppers \cup {"cycler"}
         /\ place[t] = "due" => t = "cycler"
         /\ place[t] \in {"save", "start again"} => t \in Savers
  BY DEF PlaceTypes, Track, Begin, Teardown, Done

\* What follows for the properties checked.
LEMMA RunInvImplies == RunInv => ControlInv
<1> SUFFICES ASSUME RunInv PROVE ControlInv
  OBVIOUS
<1>1. ControlTypeOK
  BY DEF RunInv, ControlTypes, InHand, ControlTypeOK
<1>2. OneEngine
  BY DEF RunInv, OneStart, OneEngine
<1>3. NoneLost
  BY DEF RunInv, Known, NoneLost, Idle, At
<1>4. DownAfterStop
  <2> SUFFICES ASSUME intent = "quiet stop", \A t \in Stoppers : place[t] \notin Teardown
               PROVE  Up = {} /\ ~producer
    BY DEF DownAfterStop
  <2>1. place["cycler"] \notin Teardown
    BY DEF RunInv, Stayed, Teardown
  <2>2. \A t \in Threads : place[t] \notin Teardown
    BY <2>1, Whereabouts DEF RunInv
  <2>3. QED
    BY <2>2 DEF RunInv, Stayed
<1>5. QED
  BY <1>1, <1>2, <1>3, <1>4 DEF ControlInv

-----------------------------------------------------------------------------
(* What most steps leave as it is.                                            *)

LEMMA Moved ==
  ASSUME PlaceTypes, NEW t \in Threads, NEW w \in Places, w \in Track(t), Goto(t, w)
  PROVE  /\ PlaceTypes' /\ place'[t] = w
         /\ \A u \in Threads : u # t => place'[u] = place[u]
  BY DEF PlaceTypes, Goto

\* What a getter may be about to note.
Seeing ==
  /\ seen' \in [Threads -> {0} \cup Engines]
  /\ \A u \in Threads : \/ seen'[u] = seen[u] \/ seen'[u] = 0
                        \/ seen'[u] = proc /\ proc # 0 /\ proc \notin Up

LEMMA PollSees ==
  ASSUME ControlTypes, NEW t \in Threads, seen' = seen \/ Poll(t)
  PROVE  Seeing
<1>1. CASE seen' = seen
  BY <1>1 DEF ControlTypes, Seeing
<1>2. CASE Poll(t)
  BY <1>2 DEF ControlTypes, Seeing, Poll, Running
<1>3. QED
  BY <1>1, <1>2

\* Engines only end.
Ending ==
  /\ engine' \in [Engines -> {"none", "up", "ended"}]
  /\ \A e \in Engines : \/ engine'[e] = engine[e]
                        \/ engine[e] # "none" /\ engine'[e] = "ended"

LEMMA EndingFacts == ASSUME Ending PROVE Up' \subseteq Up
  BY DEF Ending, Up

LEMMA SameEngines == ASSUME ControlTypes, UNCHANGED engine PROVE Ending
  BY DEF ControlTypes, Ending

LEMMA KillEnds ==
  ASSUME ControlTypes, NEW S \in SUBSET Engines, \A e \in S : engine[e] # "none", Kill(S)
  PROVE  Ending /\ Up' = Up \ S
<1>1. \A e \in Engines : engine'[e] = IF e \in S THEN "ended" ELSE engine[e]
  BY DEF Kill
<1>2. Ending
  BY <1>1 DEF ControlTypes, Ending, Kill
<1>3. QED
  BY <1>1, <1>2 DEF Up

LEMMA HandKept ==
  ASSUME InHand, ControlTypes, Ending, Seeing, proc' = proc \/ proc' = 0 \/ \E u \in Threads : proc' = handle[u],
         \A u \in Threads : handle'[u] = handle[u] \/ handle'[u] = 0 \/ handle'[u] = proc,
         \A u \in Threads : place'[u] \in {"adopt", "terminate", "forget"} => handle'[u] # 0
  PROVE  InHand'
<1>1. \A e \in Engines : /\ engine[e] # "none" => engine'[e] # "none"
                         /\ engine[e] = "ended" => engine'[e] = "ended"
  BY DEF Ending
<1>2. proc' # 0 => engine'[proc'] # "none"
  BY <1>1 DEF InHand, ControlTypes
<1>3. ASSUME NEW u \in Threads, handle'[u] # 0 PROVE engine'[handle'[u]] # "none"
  BY <1>1, <1>3 DEF InHand, ControlTypes
<1>4. ASSUME NEW u \in Threads, seen'[u] # 0 PROVE engine'[seen'[u]] = "ended"
  <2>1. CASE seen'[u] = seen[u]
    BY <1>1, <1>4, <2>1 DEF InHand, ControlTypes
  <2>2. CASE seen'[u] = proc /\ proc # 0 /\ proc \notin Up
    <3>1. proc \in Engines /\ engine[proc] = "ended"
      BY <2>2 DEF InHand, ControlTypes, Up
    <3>2. QED
      BY <1>1, <2>2, <3>1
  <2>3. QED
    BY <1>4, <2>1, <2>2 DEF Seeing
<1>5. QED
  BY <1>2, <1>3, <1>4 DEF InHand

LEMMA StartKept ==
  ASSUME OneStart, mishaps \subseteq mishaps', Up' \subseteq Up,
         \A u \in Threads : place'[u] \in Spawning => place'[u] = place[u] /\ handle'[u] = handle[u]
  PROVE  OneStart'
  BY DEF OneStart, Spawning

LEMMA KnownKept ==
  ASSUME Known, mishaps \subseteq mishaps', Up' \subseteq Up, proc' = proc,
         \A u \in Threads : place[u] \in {"sweep", "adopt"} => place'[u] = place[u]
  PROVE  Known'
  BY DEF Known

LEMMA StopKept ==
  ASSUME OneStop, mishaps \subseteq mishaps', stopping => stopping',
         \A u \in Threads : place'[u] \in Teardown => place[u] \in Teardown,
         \A u \in Threads : place'[u] \in Teardown \ {"clear"} => (place[u] \in Teardown \ {"clear"} \/ stopping')
  PROVE  OneStop'
  BY DEF OneStop

\* After a quiet STOP nobody starts, and the cycler stops nothing.
LEMMA NotQuiet ==
  ASSUME PlaceTypes, Stayed, NEW t \in Threads,
         \/ place[t] \in Begin \cup {"save", "start again"}
         \/ t = "cycler" /\ place[t] \notin {"idle", "due"}
  PROVE  intent # "quiet stop"
  BY Whereabouts, ThreadFacts DEF Stayed, Begin

LEMMA StayedVoid == ASSUME intent' # "quiet stop" PROVE Stayed'
  BY DEF Stayed

\* What the other threads see of a step of t, when it only takes the engines down.
LEMMA StayedKept ==
  ASSUME Stayed, intent' = intent, Up' \subseteq Up, Up' \subseteq {proc'}, NEW t \in Threads,
         PlaceTypes, place[t] \in Teardown \cup Done,
         \A u \in Threads : u # t => place'[u] = place[u],
         place'[t] \in Teardown => place[t] \in Teardown /\ stopping',
         place'[t] \notin Begin \cup {"due", "save", "start again"},
         place[t] \in Teardown /\ place'[t] \notin Teardown => Up' = {} /\ ~producer',
         producer' => producer, place[t] \notin Teardown => (stopping => stopping'),
         place'[t] \in Teardown \ {"clear", "producer"} => ~producer',
         place'[t] = "terminate" => Up' \subseteq {handle'[t]},
         place'[t] \in {"forget", "sweep", "finally"} => Up' = {},
         \A u \in Threads : seen'[u] # 0 => seen[u] # 0 \/ Up = {},
         \A u \in Threads : u # t => handle'[u] = handle[u]
  PROVE  Stayed'
<1> SUFFICES ASSUME intent = "quiet stop" PROVE Stayed'
  BY DEF Stayed
<1>1. t \in Stoppers /\ t \notin Starters \cup Savers \cup {"cycler"}
  BY Whereabouts, ThreadFacts DEF Stayed, Teardown, Done
<1>2. /\ \A u \in Starters \cup Savers : place'[u] = "idle"
      /\ place'["cycler"] \in {"idle", "due"} /\ (place'["cycler"] = "due" => Up' = {})
  BY <1>1, ThreadFacts DEF Stayed
<1>3. \A u, v \in Threads : place'[u] \in Teardown /\ place'[v] \in Teardown => u = v
  BY DEF Stayed
<1>4. (\A u \in Threads : place'[u] \notin Teardown) => Up' = {} /\ ~producer'
  <2>1. CASE place[t] \in Teardown
    BY <2>1
  <2>2. CASE place[t] \notin Teardown
    <3>1. ASSUME \A u \in Threads : place'[u] \notin Teardown PROVE \A u \in Threads : place[u] \notin Teardown
      BY <2>2, <3>1
    <3>2. QED
      BY <3>1 DEF Stayed
  <2>3. QED
    BY <2>1, <2>2
<1>5. ASSUME NEW u \in Threads
      PROVE  /\ place'[u] \in Teardown => stopping'
             /\ place'[u] \in Teardown \ {"clear", "producer"} => ~producer'
             /\ place'[u] = "terminate" => Up' \subseteq {handle'[u]}
             /\ place'[u] \in {"forget", "sweep", "finally"} => Up' = {}
             /\ seen'[u] # 0 => Up' = {}
  <2>1. CASE u = t
    BY <2>1 DEF Stayed
  <2>2. CASE u # t
    <3>1. place'[u] = place[u] /\ handle'[u] = handle[u]
      BY <2>2
    <3>2. place[u] \in Teardown => place[t] \notin Teardown /\ (stopping => stopping')
      BY <2>2 DEF Stayed
    <3>3. place'[u] \in Teardown => stopping'
      BY <3>1, <3>2 DEF Stayed
    <3>6. place'[u] \in Teardown \ {"clear", "producer"} => ~producer'
      BY <3>1 DEF Stayed
    <3>4. /\ place'[u] = "terminate" => Up' \subseteq {handle'[u]}
          /\ place'[u] \in {"forget", "sweep", "finally"} => Up' = {}
      BY <3>1 DEF Stayed
    <3>5. seen'[u] # 0 => Up' = {}
      BY DEF Stayed
    <3>7. QED
      BY <3>3, <3>4, <3>5, <3>6
  <2>3. QED
    BY <2>1, <2>2
<1>6. QED
  BY <1>2, <1>3, <1>4, <1>5 DEF Stayed

\* A step that moves one thread, outside the reap and the sweep, and spawns, ends
\* and forgets nothing.
LEMMA Onward ==
  ASSUME RunInv, NEW t \in Threads, NEW w \in Track(t), Goto(t, w),
         w \notin Spawning, place[t] \notin {"sweep", "adopt"},
         w \in Teardown => place[t] \in Teardown /\ (place[t] # "clear" \/ w = "clear" \/ stopping'),
         stopping => stopping', stopping' \in BOOLEAN, producer' \in BOOLEAN,
         UNCHANGED <<proc, engine, mishaps>>, seen' = seen \/ Poll(t),
         handle' = handle \/ handle' = [handle EXCEPT ![t] = proc],
         w \in {"terminate", "forget"} => handle'[t] # 0
  PROVE  /\ PlaceTypes' /\ ControlTypes' /\ InHand' /\ OneStart' /\ Known' /\ OneStop'
         /\ Up' = Up /\ Seeing /\ place'[t] = w
         /\ \A u \in Threads : u # t => place'[u] = place[u] /\ handle'[u] = handle[u]
<1>1. PlaceTypes' /\ place'[t] = w /\ \A u \in Threads : u # t => place'[u] = place[u]
  <2>1. w \in Places
    BY DEF Track, Places
  <2>2. QED
    BY <2>1, Moved DEF RunInv
<1>2. Ending /\ Seeing /\ Up' = Up
  BY SameEngines, PollSees DEF RunInv, Up
<1>3. /\ handle' \in [Threads -> {0} \cup Engines]
      /\ \A u \in Threads : handle'[u] = handle[u] \/ handle'[u] = proc
      /\ \A u \in Threads : u # t => handle'[u] = handle[u]
  BY DEF RunInv, ControlTypes
<1>4. ControlTypes'
  BY <1>2, <1>3 DEF RunInv, ControlTypes, Ending, Seeing
<1>5. InHand'
  <2>1. \A u \in Threads : place'[u] \in {"adopt", "terminate", "forget"} => handle'[u] # 0
    BY <1>1, <1>3 DEF RunInv, InHand, Spawning
  <2>2. QED
    BY <1>2, <1>3, <2>1, HandKept DEF RunInv
<1>6. OneStart'
  BY <1>1, <1>2, <1>3, StartKept DEF RunInv, Spawning
<1>7. Known'
  BY <1>1, <1>2, KnownKept DEF RunInv
<1>8. OneStop'
  <2>1. \A u \in Threads : place'[u] \in Teardown => place[u] \in Teardown
    BY <1>1
  <2>2. \A u \in Threads : place'[u] \in Teardown \ {"clear"} => (place[u] \in Teardown \ {"clear"} \/ stopping')
    BY <1>1
  <2>3. QED
    BY <2>1, <2>2, StopKept DEF RunInv
<1>9. QED
  BY <1>1, <1>2, <1>3, <1>4, <1>5, <1>6, <1>7, <1>8

-----------------------------------------------------------------------------
(* A START, from the first look to the producer.                              *)

LEMMA LookStep ==
  ASSUME RunInv, NEW t \in Threads,
         StartEngine(t) \/ NoConfig(t) \/ SpawnFails(t) \/ Boot(t) \/ Ready(t) \/ Perceive(t)
  PROVE  RunInv'
<1>1. PICK w \in (Begin \ Spawning) \cup {"idle"} : Goto(t, w)
  BY DEF StartEngine, NoConfig, SpawnFails, Boot, Ready, Perceive, Begin, Spawning
<1>2. /\ place[t] \in Begin \ {"adopt"} /\ (seen' = seen \/ Poll(t))
      /\ UNCHANGED <<proc, engine, stopping, handle, intent, mishaps>>
  BY DEF StartEngine, NoConfig, SpawnFails, Boot, Ready, Perceive, At, Begin, processes, flags, history
<1>3. producer' \in BOOLEAN
  BY DEF StartEngine, NoConfig, SpawnFails, Boot, Ready, Perceive, processes, RunInv, ControlTypes
<1>4. w \in Track(t)
  BY <1>2, Whereabouts DEF RunInv, Track
<1>5. w \notin Spawning /\ w \notin Teardown /\ w \notin {"terminate", "forget"}
      /\ place[t] \notin {"sweep", "adopt"}
  BY <1>2 DEF Begin, Teardown, Spawning
<1>6. /\ PlaceTypes' /\ ControlTypes' /\ InHand' /\ OneStart' /\ Known' /\ OneStop'
  BY <1>1, <1>2, <1>3, <1>4, <1>5, Onward DEF RunInv, ControlTypes
<1>7. Stayed'
  BY <1>2, NotQuiet, StayedVoid DEF RunInv
<1>8. QED
  BY <1>6, <1>7 DEF RunInv

LEMMA ReapStep == ASSUME RunInv, NEW t \in Threads, Reap(t) PROVE RunInv'
<1> USE DEF RunInv
<1>1. /\ place[t] = "reap" /\ Goto(t, "spawn") /\ Overlap(t, Spawning, "two starts") /\ Kill(Up)
      /\ UNCHANGED <<proc, producer, stopping, seen, handle, intent>>
  BY DEF Reap, At, Strays, flags
<1>2. "spawn" \in Track(t) /\ "spawn" \in Places
  BY <1>1, Whereabouts DEF Track, Begin, Places
<1>3. PlaceTypes' /\ place'[t] = "spawn" /\ \A u \in Threads : u # t => place'[u] = place[u]
  BY <1>1, <1>2, Moved
<1>4. Ending /\ Up' = {} /\ Seeing
  <2>1. Up \subseteq Engines /\ \A e \in Up : engine[e] # "none"
    BY DEF Up
  <2>2. QED
    BY <1>1, <2>1, KillEnds, PollSees
<1>5. ControlTypes' /\ mishaps \subseteq mishaps' /\ mishaps' \subseteq mishaps \cup {"two starts"}
  BY <1>1, <1>4 DEF ControlTypes, Overlap, Ending
<1>6. InHand'
  BY <1>1, <1>3, <1>4, HandKept DEF InHand
<1>7. OneStart'
  <2> SUFFICES ASSUME "two starts" \notin mishaps' PROVE OneStart'
    BY DEF OneStart
  <2>1. \A u \in Threads : u # t => place[u] \notin Spawning
    BY <1>1 DEF Overlap
  <2>2. QED
    BY <1>3, <1>4, <2>1 DEF OneStart
<1>8. Known'
  BY <1>4 DEF Known
<1>9. OneStop'
  BY <1>1, <1>3, <1>5, StopKept DEF Teardown
<1>10. Stayed'
  BY <1>1, NotQuiet, StayedVoid DEF Begin
<1>11. QED
  BY <1>3, <1>5, <1>6, <1>7, <1>8, <1>9, <1>10

LEMMA PopenStep == ASSUME RunInv, NEW t \in Threads, Popen(t) PROVE RunInv'
<1> USE DEF RunInv
<1>1. /\ place[t] = "spawn" /\ Goto(t, "adopt")
      /\ UNCHANGED <<proc, producer, stopping, seen, intent, mishaps>>
  BY DEF Popen, At, flags, history
<1>2. PICK e \in Engines : /\ engine[e] = "none" /\ engine' = [engine EXCEPT ![e] = "up"]
                           /\ handle' = [handle EXCEPT ![t] = e]
  BY DEF Popen
<1>3. "adopt" \in Track(t) /\ "adopt" \in Places
  BY <1>1, Whereabouts DEF Track, Begin, Places
<1>4. PlaceTypes' /\ place'[t] = "adopt" /\ \A u \in Threads : u # t => place'[u] = place[u]
  BY <1>1, <1>3, Moved
<1>5. ControlTypes'
  BY <1>1, <1>2 DEF ControlTypes
<1>6. /\ engine'[e] = "up" /\ (\A d \in Engines \ {e} : engine'[d] = engine[d])
      /\ Up' = Up \cup {e} /\ handle'[t] = e /\ e # 0
      /\ \A u \in Threads : u # t => handle'[u] = handle[u]
  BY <1>2, EngineFacts DEF ControlTypes, Up
<1>7. InHand'
  <2>1. \A d \in Engines : /\ engine[d] # "none" => engine'[d] # "none"
                           /\ engine[d] = "ended" => engine'[d] = "ended"
    BY <1>2, <1>6
  <2>2. proc' # 0 => engine'[proc'] # "none"
    BY <1>1, <2>1 DEF InHand, ControlTypes
  <2>3. ASSUME NEW u \in Threads
        PROVE  /\ handle'[u] # 0 => engine'[handle'[u]] # "none"
               /\ place'[u] \in {"adopt", "terminate", "forget"} => handle'[u] # 0
    <3>1. CASE u = t
      BY <1>6, <3>1
    <3>2. CASE u # t
      <4>1. place'[u] = place[u] /\ handle'[u] = handle[u] /\ handle[u] \in {0} \cup Engines
        BY <1>4, <1>6, <3>2 DEF ControlTypes
      <4>2. QED
        BY <2>1, <4>1 DEF InHand
    <3>3. QED
      BY <3>1, <3>2
  <2>4. \A u \in Threads : seen'[u] # 0 => engine'[seen'[u]] = "ended"
    BY <1>1, <2>1 DEF InHand, ControlTypes
  <2>5. QED
    BY <2>2, <2>3, <2>4 DEF InHand
<1>8. OneStart'
  <2> SUFFICES ASSUME "two starts" \notin mishaps PROVE OneStart'
    BY <1>1 DEF OneStart
  <2>1. Up' = {e}
    BY <1>1, <1>6 DEF OneStart
  <2>2. \A u \in Threads : u # t => place'[u] \notin Spawning
    BY <1>1, <1>4 DEF OneStart, Spawning
  <2>3. QED
    BY <1>4, <1>6, <2>1, <2>2 DEF OneStart, Spawning
<1>9. Known'
  BY <1>4 DEF Known
<1>10. OneStop'
  BY <1>1, <1>4, StopKept DEF Teardown
<1>11. Stayed'
  BY <1>1, NotQuiet, StayedVoid DEF Begin
<1>12. QED
  BY <1>4, <1>5, <1>7, <1>8, <1>9, <1>10, <1>11

LEMMA AdoptStep == ASSUME RunInv, NEW t \in Threads, Adopt(t) PROVE RunInv'
<1> USE DEF RunInv
<1>1. /\ place[t] = "adopt" /\ Goto(t, "boot") /\ proc' = handle[t] /\ handle' = [handle EXCEPT ![t] = 0]
      /\ UNCHANGED <<engine, producer, stopping, seen, intent, mishaps>>
  BY DEF Adopt, At, flags, processes, history
<1>2. "boot" \in Track(t) /\ "boot" \in Places
  BY <1>1, Whereabouts DEF Track, Begin, Places
<1>3. PlaceTypes' /\ place'[t] = "boot" /\ \A u \in Threads : u # t => place'[u] = place[u]
  BY <1>1, <1>2, Moved
<1>4. Ending /\ Seeing /\ Up' = Up
  BY <1>1, SameEngines, PollSees DEF Up
<1>5. ControlTypes'
  BY <1>1, <1>4 DEF ControlTypes, Ending, Seeing
<1>6. \A u \in Threads : handle'[u] = IF u = t THEN 0 ELSE handle[u]
  BY <1>1 DEF ControlTypes
<1>7. InHand'
  <2>1. \A u \in Threads : place'[u] \in {"adopt", "terminate", "forget"} => handle'[u] # 0
    BY <1>3, <1>6 DEF InHand
  <2>2. QED
    BY <1>1, <1>4, <1>6, <2>1, HandKept
<1>8. OneStart'
  BY <1>1, <1>3, <1>4, <1>6, StartKept DEF Spawning
<1>9. Known'
  <2> SUFFICES ASSUME mishaps \cap {"two starts", "stale getter"} = {} PROVE Up' \subseteq {proc'}
    BY <1>1 DEF Known
  <2>1. QED
    BY <1>1, <1>4 DEF OneStart
<1>10. OneStop'
  BY <1>1, <1>3, StopKept DEF Teardown
<1>11. Stayed'
  BY <1>1, NotQuiet, StayedVoid DEF Begin
<1>12. QED
  BY <1>3, <1>5, <1>7, <1>8, <1>9, <1>10, <1>11

-----------------------------------------------------------------------------
(* What a getter, an engine that ends and the clock do.                       *)

\* Steps that move no thread and raise no flag.
LEMMA InPlace ==
  ASSUME RunInv, Ending, Seeing, UNCHANGED <<producer, stopping, place, handle, intent>>,
         mishaps \subseteq mishaps', mishaps' \subseteq mishaps \cup {"stale getter"},
         \/ proc' = proc
         \/ proc' = 0 /\ (proc \notin Up \/ "stale getter" \in mishaps') /\ \E u \in Threads : seen[u] # 0,
         \A u \in Threads : seen'[u] # 0 => seen[u] # 0 \/ Up = {} \/ intent # "quiet stop"
  PROVE  RunInv'
<1> USE DEF RunInv
<1>1. Up' \subseteq Up
  BY EndingFacts
<1>2. PlaceTypes' /\ ControlTypes'
  BY DEF PlaceTypes, ControlTypes, Ending, Seeing
<1>3. InHand'
  BY HandKept DEF InHand
<1>4. OneStart'
  BY <1>1, StartKept
<1>5. Known'
  <2>1. CASE proc' = proc
    BY <1>1, <2>1, KnownKept
  <2>2. CASE proc' = 0 /\ (proc \notin Up \/ "stale getter" \in mishaps')
    BY <1>1, <2>2 DEF Known
  <2>3. QED
    BY <2>1, <2>2
<1>6. OneStop'
  BY StopKept
<1>7. Stayed'
  <2> SUFFICES ASSUME intent = "quiet stop" PROVE Stayed'
    BY DEF Stayed
  <2>1. Up' \subseteq {proc'} /\ \A u \in Threads : seen'[u] # 0 => Up' = {}
    BY <1>1 DEF Stayed
  <2>2. QED
    BY <1>1, <2>1 DEF Stayed
<1>8. QED
  BY <1>2, <1>3, <1>4, <1>5, <1>6, <1>7

LEMMA NoteStep == ASSUME RunInv, NEW t \in Threads, Note(t) PROVE RunInv'
<1>1. Ending /\ Seeing
  BY SameEngines DEF RunInv, Note, processes, ControlTypes, Seeing
<1>2. /\ proc' = 0 /\ seen[t] # 0 /\ UNCHANGED <<producer, stopping, place, handle, intent>>
      /\ \A u \in Threads : seen'[u] # 0 => seen[u] # 0
      /\ mishaps \subseteq mishaps' /\ mishaps' \subseteq mishaps \cup {"stale getter"}
  BY DEF RunInv, Note, processes, flags, ControlTypes
<1>3. proc \notin Up \/ "stale getter" \in mishaps'
  <2>1. CASE proc \in {0, seen[t]}
    BY <1>2, <2>1, EngineFacts DEF RunInv, InHand, Up
  <2>2. CASE proc \notin {0, seen[t]}
    BY <2>2 DEF Note
  <2>3. QED
    BY <2>1, <2>2
<1>4. QED
  BY <1>1, <1>2, <1>3, InPlace

LEMMA DieStep == ASSUME RunInv, NEW e \in Engines, Die(e) PROVE RunInv'
<1>1. Kill({e}) /\ engine[e] # "none"
  BY DEF RunInv, ControlTypes, Die, Kill
<1>2. Ending /\ Seeing
  BY <1>1, KillEnds DEF RunInv, Die, ControlTypes, Seeing
<1>3. QED
  BY <1>2, InPlace DEF Die, flags, history

LEMMA ReadStep == ASSUME RunInv, NEW t \in Threads, Read(t) PROVE RunInv'
<1>1. Ending /\ Seeing
  BY SameEngines, PollSees DEF RunInv, Read, processes
<1>2. \A u \in Threads : seen'[u] # 0 => seen[u] # 0 \/ Up = {} \/ intent # "quiet stop"
  <2> SUFFICES ASSUME NEW u \in Threads, seen'[u] # 0, seen[u] = 0, intent = "quiet stop" PROVE Up = {}
    OBVIOUS
  <2>1. proc \notin Up
    BY DEF RunInv, ControlTypes, Read, Poll, Running
  <2>2. QED
    BY <2>1 DEF RunInv, Stayed
<1>3. QED
  BY <1>1, <1>2, InPlace DEF Read, processes, flags, history

LEMMA SettledStep == ASSUME RunInv, Settled PROVE RunInv'
<1>1. Ending /\ Seeing
  BY SameEngines DEF RunInv, Settled, processes, ControlTypes, Seeing
<1>2. QED
  BY <1>1, InPlace DEF Settled, processes, history

-----------------------------------------------------------------------------
(* A STOP, from the flag to the debounce.                                     *)

\* Where a step takes a thread that tears down.
LEMMA Downward ==
  ASSUME RunInv, NEW t \in Threads, place[t] \in Teardown \cup Done,
         NEW w \in Teardown \cup Done \cup {"idle"}
  PROVE  w \in Track(t) /\ w \in Places /\ w \notin Spawning /\ place[t] # "adopt"
  BY Whereabouts DEF RunInv, Track, Places, Teardown, Done, Spawning

\* What a quiet STOP knows of the getter that reads along.
LEMMA QuietSeen ==
  ASSUME RunInv, intent = "quiet stop", NEW t \in Threads, seen' = seen \/ Poll(t)
  PROVE  \A u \in Threads : seen'[u] # 0 => seen[u] # 0 \/ Up = {}
<1> SUFFICES ASSUME NEW u \in Threads, seen'[u] # 0, seen[u] = 0 PROVE Up = {}
  OBVIOUS
<1>1. proc \notin Up
  BY DEF RunInv, ControlTypes, Poll, Running
<1>2. QED
  BY <1>1 DEF RunInv, Stayed

LEMMA ClearStep == ASSUME RunInv, NEW t \in Threads, Clear(t) PROVE RunInv'
<1>1. /\ place[t] = "clear" /\ Goto(t, "producer") /\ stopping' = TRUE
      /\ UNCHANGED <<proc, engine, producer, seen, handle, intent, mishaps>>
  BY DEF Clear, At, processes, history
<1>2. /\ place[t] \in Teardown \cup Done /\ "producer" \in Teardown /\ "producer" \in Track(t)
      /\ "producer" \notin Spawning
  BY <1>1, Downward DEF Teardown
<1>3. /\ PlaceTypes' /\ ControlTypes' /\ InHand' /\ OneStart' /\ Known' /\ OneStop'
      /\ Up' = Up /\ place'[t] = "producer"
      /\ \A u \in Threads : u # t => place'[u] = place[u] /\ handle'[u] = handle[u]
  BY <1>1, <1>2, Onward DEF RunInv, ControlTypes, Teardown
<1>4. Stayed'
  <2> SUFFICES ASSUME intent = "quiet stop" PROVE Stayed'
    BY <1>1 DEF Stayed
  <2>1. Up' \subseteq {proc'}
    BY <1>1, <1>3 DEF RunInv, Stayed
  <2>2. QED
    BY <1>1, <1>2, <1>3, <2>1, StayedKept DEF RunInv, Begin, Teardown
<1>5. QED
  BY <1>3, <1>4 DEF RunInv

LEMMA StopProducerStep == ASSUME RunInv, NEW t \in Threads, StopProducer(t) PROVE RunInv'
<1>1. /\ place[t] = "producer" /\ Goto(t, "engine") /\ producer' = FALSE
      /\ UNCHANGED <<proc, engine, stopping, seen, handle, intent, mishaps>>
  BY DEF StopProducer, Silenced, At, flags, history
<1>2. /\ place[t] \in Teardown \cup Done /\ "engine" \in Teardown /\ "engine" \in Track(t)
      /\ "engine" \notin Spawning
  BY <1>1, Downward DEF Teardown
<1>3. /\ PlaceTypes' /\ ControlTypes' /\ InHand' /\ OneStart' /\ Known' /\ OneStop'
      /\ Up' = Up /\ place'[t] = "engine"
      /\ \A u \in Threads : u # t => place'[u] = place[u] /\ handle'[u] = handle[u]
  BY <1>1, <1>2, Onward DEF RunInv, ControlTypes, Teardown
<1>4. Stayed'
  <2> SUFFICES ASSUME intent = "quiet stop" PROVE Stayed'
    BY <1>1 DEF Stayed
  <2>1. Up' \subseteq {proc'} /\ stopping'
    BY <1>1, <1>2, <1>3 DEF RunInv, Stayed, Teardown
  <2>2. QED
    BY <1>1, <1>2, <1>3, <2>1, StayedKept DEF RunInv, Begin, Teardown
<1>5. QED
  BY <1>3, <1>4 DEF RunInv

\* The three looks of supervisor.stop() before it terminates.
LEMMA LooksStep ==
  ASSUME RunInv, NEW t \in Threads, StopEngine(t) \/ Mark(t) \/ Take(t)
  PROVE  RunInv'
<1>1. PICK w \in {"mark", "take", "terminate", "finally"} :
        /\ Goto(t, w) /\ place[t] \in {"engine", "mark", "take"}
        /\ w = "finally" => proc \notin Up
        /\ w = "terminate" => proc # 0 /\ handle' = [handle EXCEPT ![t] = proc]
  BY EngineFacts DEF StopEngine, Mark, Take, At, Running, Up
<1>2. /\ UNCHANGED <<proc, engine, producer, stopping, intent, mishaps>> /\ (seen' = seen \/ Poll(t))
      /\ (handle' = handle \/ handle' = [handle EXCEPT ![t] = proc])
  BY DEF StopEngine, Mark, Take, processes, flags, history
<1>3. /\ place[t] \in Teardown \cup Done /\ w \in Teardown /\ w \in Track(t) /\ w \notin Spawning
      /\ place[t] \notin {"clear", "sweep", "adopt"}
  BY <1>1, Downward DEF Teardown
<1>4. w = "terminate" => handle'[t] = proc /\ handle'[t] # 0
  BY <1>1 DEF RunInv, ControlTypes
<1>5. /\ PlaceTypes' /\ ControlTypes' /\ InHand' /\ OneStart' /\ Known' /\ OneStop'
      /\ Up' = Up /\ place'[t] = w
      /\ \A u \in Threads : u # t => place'[u] = place[u] /\ handle'[u] = handle[u]
  <2>1. w \in {"terminate", "forget"} => handle'[t] # 0
    BY <1>1, <1>4
  <2>2. stopping' \in BOOLEAN /\ producer' \in BOOLEAN /\ (stopping => stopping')
    BY <1>2 DEF RunInv, ControlTypes
  <2>3. w \in Teardown => place[t] \in Teardown /\ (place[t] # "clear" \/ w = "clear" \/ stopping')
    BY <1>1, <1>3 DEF Teardown
  <2>4. QED
    BY <1>1, <1>2, <1>3, <2>1, <2>2, <2>3, Onward
<1>6. Stayed'
  <2> SUFFICES ASSUME intent = "quiet stop" PROVE Stayed'
    BY <1>2 DEF Stayed
  <2>1. Up \subseteq {proc} /\ stopping /\ ~producer
    BY <1>1, <1>3 DEF RunInv, Stayed, Teardown
  <2>2. \A u \in Threads : seen'[u] # 0 => seen[u] # 0 \/ Up = {}
    BY <1>2, QuietSeen
  <2>3. w = "finally" => Up' = {}
    BY <1>1, <1>5, <2>1
  <2>4. w = "terminate" => Up' \subseteq {handle'[t]}
    BY <1>4, <1>5, <2>1
  <2>5. place'[t] \notin Begin \cup {"due", "save", "start again"} /\ place'[t] \notin {"forget", "sweep"}
    BY <1>1, <1>5 DEF Begin
  <2>6. intent' = intent /\ Up' \subseteq Up /\ Up' \subseteq {proc'} /\ (producer' => producer)
        /\ ~producer' /\ stopping'
    BY <1>2, <1>5, <2>1
  <2>7. /\ place[t] \in Teardown /\ place'[t] \in Teardown
        /\ place'[t] = "terminate" => Up' \subseteq {handle'[t]}
        /\ place'[t] \in {"forget", "sweep", "finally"} => Up' = {}
    BY <1>1, <1>3, <1>5, <2>3, <2>4, <2>5 DEF Teardown
  <2>8. QED
    BY <1>5, <2>2, <2>5, <2>6, <2>7, StayedKept DEF RunInv
<1>7. QED
  BY <1>5, <1>6 DEF RunInv

\* The terminate, the forgetting and the sweep.
LEMMA EndStep ==
  ASSUME RunInv, NEW t \in Threads, Terminate(t) \/ Forget(t) \/ Sweep(t)
  PROVE  RunInv'
<1> USE DEF RunInv
<1>1. PICK w \in {"forget", "sweep", "finally"} :
        /\ Goto(t, w) /\ place[t] \in {"terminate", "forget", "sweep"}
        /\ w = "forget" => place[t] = "terminate" /\ proc' = proc /\ Kill({handle[t]}) /\ handle' = handle
        /\ w = "sweep" => place[t] = "forget" /\ proc' = 0 /\ engine' = engine /\ handle' = [handle EXCEPT ![t] = 0]
        /\ w = "finally" => proc' = proc /\ Kill(Up) /\ handle' = handle
  BY DEF Terminate, Forget, Sweep, At, Strays, processes
<1>2. UNCHANGED <<producer, stopping, seen, intent, mishaps>>
  BY DEF Terminate, Forget, Sweep, processes, flags, history
<1>3. /\ place[t] \in Teardown \cup Done /\ w \in Teardown /\ w \in Track(t) /\ w \in Places
      /\ w \notin Spawning /\ place[t] \notin Spawning
  BY <1>1, Downward DEF Teardown, Spawning
<1>4. PlaceTypes' /\ place'[t] = w /\ \A u \in Threads : u # t => place'[u] = place[u]
  BY <1>1, <1>3, Moved
<1>5. /\ Ending /\ Seeing
      /\ w = "forget" => Up' = Up \ {handle[t]}
      /\ w = "finally" => Up' = {}
  <2>1. CASE w = "forget"
    <3>1. handle[t] \in Engines /\ engine[handle[t]] # "none"
      BY <1>1, <2>1 DEF InHand, ControlTypes
    <3>2. QED
      BY <1>1, <1>2, <2>1, <3>1, KillEnds, PollSees
  <2>2. CASE w = "sweep"
    BY <1>1, <1>2, <2>2, SameEngines, PollSees
  <2>3. CASE w = "finally"
    <3>1. Up \subseteq Engines /\ \A e \in Up : engine[e] # "none"
      BY DEF Up
    <3>2. QED
      BY <1>1, <1>2, <2>3, <3>1, KillEnds, PollSees
  <2>4. QED
    BY <2>1, <2>2, <2>3
<1>6. Up' \subseteq Up
  BY <1>5, EndingFacts
<1>7. \A u \in Threads : handle'[u] = IF u = t /\ w = "sweep" THEN 0 ELSE handle[u]
  BY <1>1 DEF ControlTypes
<1>8. ControlTypes'
  BY <1>1, <1>2, <1>5 DEF ControlTypes, Ending, Seeing
<1>9. InHand'
  <2>1. \A u \in Threads : place'[u] \in {"adopt", "terminate", "forget"} => handle'[u] # 0
    BY <1>1, <1>4, <1>7 DEF InHand
  <2>2. QED
    BY <1>1, <1>5, <1>7, <2>1, HandKept
<1>10. OneStart'
  <2>1. \A u \in Threads : place'[u] \in Spawning => place'[u] = place[u] /\ handle'[u] = handle[u]
    BY <1>3, <1>4, <1>7
  <2>2. QED
    BY <1>2, <1>6, <2>1, StartKept
<1>11. Known'
  <2>1. CASE w = "forget"
    BY <1>1, <1>2, <1>4, <1>5, <1>6, <2>1, KnownKept
  <2>2. CASE w = "sweep"
    BY <1>1, <1>4, <1>6, <2>2, EngineFacts DEF Known, Up
  <2>3. CASE w = "finally"
    BY <1>5, <2>3 DEF Known
  <2>4. QED
    BY <2>1, <2>2, <2>3
<1>12. OneStop'
  <2>1. \A u \in Threads : place'[u] \in Teardown \ {"clear"} => place[u] \in Teardown \ {"clear"}
    BY <1>1, <1>4 DEF Teardown
  <2>2. \A u \in Threads : place'[u] \in Teardown => place[u] \in Teardown
    BY <1>1, <1>4 DEF Teardown
  <2>3. QED
    BY <1>2, <2>1, <2>2, StopKept
<1>13. Stayed'
  <2> SUFFICES ASSUME intent = "quiet stop" PROVE Stayed'
    BY <1>2 DEF Stayed
  <2>1. stopping /\ ~producer /\ (place[t] = "terminate" => Up \subseteq {handle[t]})
        /\ (place[t] \in {"forget", "sweep"} => Up = {})
    BY <1>1 DEF Stayed, Teardown
  <2>2. Up' = {}
    BY <1>1, <1>5, <1>6, <2>1
  <2>3. place'[t] \notin Begin \cup {"due", "save", "start again", "terminate"}
    BY <1>1, <1>4 DEF Begin
  <2>4. place[t] \in Teardown /\ \A u \in Threads : u # t => handle'[u] = handle[u]
    BY <1>1, <1>7 DEF Teardown
  <2>5. QED
    BY <1>2, <1>4, <2>1, <2>2, <2>3, <2>4, StayedKept
<1>14. QED
  BY <1>4, <1>8, <1>9, <1>10, <1>11, <1>12, <1>13

LEMMA FinallyStep == ASSUME RunInv, NEW t \in Threads, Finally(t) PROVE RunInv'
<1> USE DEF RunInv
<1>1. /\ place[t] = "finally" /\ Goto(t, "anchor") /\ stopping' = FALSE
      /\ UNCHANGED <<proc, engine, producer, seen, handle, intent, mishaps>>
  BY DEF Finally, At, processes, history
<1>2. place[t] \in Teardown \cup Done /\ "anchor" \in Track(t) /\ "anchor" \in Places
  BY <1>1, Downward DEF Teardown, Done
<1>3. PlaceTypes' /\ place'[t] = "anchor" /\ \A u \in Threads : u # t => place'[u] = place[u]
  BY <1>1, <1>2, Moved
<1>4. Ending /\ Seeing /\ Up' = Up
  BY <1>1, SameEngines, PollSees DEF Up
<1>5. ControlTypes'
  BY <1>1, <1>4 DEF ControlTypes, Ending, Seeing
<1>6. InHand'
  BY <1>1, <1>3, <1>4, HandKept DEF InHand
<1>7. OneStart' /\ Known'
  BY <1>1, <1>3, <1>4, StartKept, KnownKept DEF Spawning
<1>8. OneStop'
  <2> SUFFICES ASSUME "two stops" \notin mishaps PROVE \A u \in Threads : place'[u] \notin Teardown
    BY <1>1 DEF OneStop
  <2>1. QED
    BY <1>1, <1>3 DEF OneStop, Teardown
<1>9. Stayed'
  <2> SUFFICES ASSUME intent = "quiet stop" PROVE Stayed'
    BY <1>1 DEF Stayed
  <2>1. Up' = {} /\ ~producer'
    BY <1>1, <1>4 DEF Stayed, Teardown
  <2>2. place'[t] \notin Teardown \cup Begin \cup {"due", "save", "start again"}
    BY <1>3 DEF Begin, Teardown
  <2>3. QED
    BY <1>1, <1>2, <1>3, <2>1, <2>2, StayedKept DEF Teardown
<1>10. QED
  BY <1>3, <1>5, <1>6, <1>7, <1>8, <1>9

LEMMA DoneStep == ASSUME RunInv, NEW t \in Threads, Anchor(t) \/ Log(t) PROVE RunInv'
<1>1. PICK w \in {"log", "idle", "start"} :
        Goto(t, w) /\ place[t] \in Done /\ (w = "start" => t = "cycler")
  BY DEF Anchor, Log, At, Restarted, Done
<1>2. /\ UNCHANGED <<proc, engine, producer, stopping, handle, intent, mishaps>> /\ (seen' = seen \/ Poll(t))
  BY DEF Anchor, Log, processes, flags, history
<1>3. /\ w \in Track(t) /\ w \notin Spawning /\ w \notin Teardown
      /\ place[t] \notin Teardown /\ place[t] \notin {"sweep", "adopt"}
  BY <1>1, Downward DEF Track, Begin, Done, Teardown, Spawning
<1>4. /\ PlaceTypes' /\ ControlTypes' /\ InHand' /\ OneStart' /\ Known' /\ OneStop'
      /\ Up' = Up /\ place'[t] = w
      /\ \A u \in Threads : u # t => place'[u] = place[u] /\ handle'[u] = handle[u]
  BY <1>1, <1>2, <1>3, Onward DEF RunInv, ControlTypes, Teardown
<1>5. Stayed'
  <2> SUFFICES ASSUME intent = "quiet stop" PROVE Stayed'
    BY <1>2 DEF Stayed
  <2>1. w # "start"
    BY <1>1, NotQuiet DEF RunInv, Done
  <2>2. Up' \subseteq {proc'} /\ \A u \in Threads : seen'[u] # 0 => seen[u] # 0 \/ Up = {}
    BY <1>2, <1>4, QuietSeen DEF RunInv, Stayed
  <2>3. place'[t] \notin Teardown \cup Begin \cup {"due", "save", "start again"}
    BY <1>1, <1>4, <2>1 DEF Begin, Teardown
  <2>4. QED
    BY <1>1, <1>2, <1>3, <1>4, <2>2, <2>3, StayedKept DEF RunInv, Teardown
<1>6. QED
  BY <1>4, <1>5 DEF RunInv

-----------------------------------------------------------------------------
(* The clicks, the saves and the cycler's clock.                              *)

LEMMA StartRequestStep == ASSUME RunInv, NEW t \in Starters, StartRequest(t) PROVE RunInv'
<1>1. /\ t \in Threads /\ place[t] = "idle" /\ intent' = "start" /\ Goto(t, "start")
      /\ UNCHANGED <<proc, engine, producer, stopping, seen, handle, mishaps>>
  BY ThreadFacts DEF StartRequest, At, processes, flags
<1>2. "start" \in Track(t) /\ "start" \notin Teardown \cup Spawning
  BY DEF Track, Begin, Teardown, Spawning
<1>3. PlaceTypes' /\ ControlTypes' /\ InHand' /\ OneStart' /\ Known' /\ OneStop'
  BY <1>1, <1>2, Onward DEF RunInv, ControlTypes
<1>4. QED
  BY <1>1, <1>3, StayedVoid DEF RunInv

LEMMA StopRequestStep == ASSUME RunInv, NEW t \in Stoppers, StopRequest(t) PROVE RunInv'
<1> USE DEF RunInv
<1>1. /\ t \in Threads /\ place[t] = "idle" /\ stopping' = TRUE /\ Goto(t, "clear")
      /\ Overlap(t, Teardown, "two stops") /\ intent' = (IF Calm THEN "quiet stop" ELSE "stop")
      /\ UNCHANGED <<proc, engine, producer, seen, handle>>
  BY ThreadFacts DEF StopRequest, At, Announced, processes
<1>2. "clear" \in Track(t) /\ "clear" \in Places /\ "clear" \in Teardown
  BY DEF Track, Places, Teardown
<1>3. PlaceTypes' /\ place'[t] = "clear" /\ \A u \in Threads : u # t => place'[u] = place[u]
  BY <1>1, <1>2, Moved
<1>4. Ending /\ Seeing /\ Up' = Up
  BY <1>1, SameEngines, PollSees DEF Up
<1>5. /\ mishaps \subseteq mishaps' /\ mishaps' \subseteq mishaps \cup {"two stops"}
      /\ "two stops" \notin mishaps' => \A u \in Threads : u # t => place[u] \notin Teardown
  BY <1>1 DEF Overlap
<1>6. ControlTypes'
  BY <1>1, <1>4, <1>5 DEF ControlTypes, Ending, Seeing
<1>7. InHand'
  BY <1>1, <1>3, <1>4, HandKept DEF InHand
<1>8. OneStart' /\ Known'
  BY <1>1, <1>3, <1>4, <1>5, StartKept, KnownKept DEF Spawning
<1>9. OneStop'
  BY <1>1, <1>3, <1>5 DEF OneStop
<1>10. Stayed'
  <2> SUFFICES ASSUME Calm PROVE Stayed'
    BY <1>1, StayedVoid
  <2>1. /\ \A u \in Threads : u # t => place'[u] = "idle"
        /\ \A u \in Threads : seen'[u] = 0
        /\ Up' \subseteq {proc'}
    BY <1>1, <1>3, <1>4 DEF Calm, Idle, At
  <2>2. t \notin Starters \cup Savers \cup {"cycler"}
    BY ThreadFacts
  <2>3. \A u \in Threads : place'[u] \in Teardown => u = t
    BY <2>1 DEF Teardown
  <2>4. QED
    BY <1>1, <1>2, <1>3, <2>1, <2>2, <2>3, ThreadFacts DEF Stayed
<1>11. QED
  BY <1>3, <1>6, <1>7, <1>8, <1>9, <1>10

LEMMA SwallowedStep == ASSUME RunInv, StopSwallowed PROVE RunInv'
<1>1. intent' = "stop" /\ UNCHANGED <<proc, engine, producer, stopping, place, seen, handle, mishaps>>
  BY DEF StopSwallowed, processes, flags
<1>2. PlaceTypes' /\ ControlTypes' /\ InHand'
  BY <1>1 DEF RunInv, PlaceTypes, ControlTypes, InHand
<1>3. OneStart' /\ Known' /\ OneStop'
  BY <1>1 DEF RunInv, OneStart, Known, OneStop, Up
<1>4. QED
  BY <1>1, <1>2, <1>3, StayedVoid DEF RunInv

LEMMA DueStep == ASSUME RunInv, Due PROVE RunInv'
<1>1. /\ place["cycler"] = "idle" /\ ~stopping /\ Goto("cycler", "due")
      /\ UNCHANGED <<proc, engine, producer, stopping, seen, handle, intent, mishaps>>
  BY DEF Due, At, processes, flags, history
<1>2. "cycler" \in Threads /\ "due" \in Track("cycler") /\ "due" \notin Teardown \cup Spawning
  BY ThreadFacts DEF Track, Teardown, Spawning
<1>3. /\ PlaceTypes' /\ ControlTypes' /\ InHand' /\ OneStart' /\ Known' /\ OneStop'
      /\ Up' = Up /\ place'["cycler"] = "due"
      /\ \A u \in Threads : u # "cycler" => place'[u] = place[u] /\ handle'[u] = handle[u]
  BY <1>1, <1>2, Onward DEF RunInv, ControlTypes
<1>4. Stayed'
  <2> SUFFICES ASSUME intent = "quiet stop" PROVE Stayed'
    BY <1>1 DEF Stayed
  <2>1. \A u \in Threads : place[u] \notin Teardown
    BY <1>1 DEF RunInv, Stayed
  <2>2. Up = {} /\ ~producer /\ \A u \in Threads : place'[u] \notin Teardown
    BY <1>2, <1>3, <2>1 DEF RunInv, Stayed
  <2>3. \A u \in Starters \cup Savers : place'[u] = "idle"
    BY <1>3, <2>2, ThreadFacts DEF RunInv, Stayed
  <2>4. QED
    BY <1>1, <1>3, <2>2, <2>3 DEF Stayed, Teardown
<1>5. QED
  BY <1>3, <1>4 DEF RunInv

LEMMA CycleStep == ASSUME RunInv, Cycle PROVE RunInv'
<1> USE DEF RunInv
<1> DEFINE t == "cycler"
<1>1. /\ t \in Threads /\ place[t] = "due" /\ Poll(t)
      /\ UNCHANGED <<proc, engine, producer, stopping, handle, intent>>
  BY ThreadFacts DEF Cycle, At, processes, flags
<1>2. CASE Running
  <2>1. Goto(t, "clear") /\ Overlap(t, Teardown, "two stops")
    BY <1>2 DEF Cycle, Revivable
  <2>2. "clear" \in Track(t) /\ "clear" \in Places
    BY DEF Track, Places, Teardown
  <2>3. PlaceTypes' /\ place'[t] = "clear" /\ \A u \in Threads : u # t => place'[u] = place[u]
    BY <1>1, <2>1, <2>2, Moved
  <2>4. Ending /\ Seeing /\ Up' = Up
    BY <1>1, SameEngines, PollSees DEF Up
  <2>5. /\ mishaps \subseteq mishaps' /\ mishaps' \subseteq mishaps \cup {"two stops"}
        /\ "two stops" \notin mishaps' => \A u \in Threads : u # t => place[u] \notin Teardown
    BY <2>1 DEF Overlap
  <2>6. ControlTypes'
    BY <1>1, <2>4, <2>5 DEF ControlTypes, Ending, Seeing
  <2>7. InHand'
    BY <1>1, <2>3, <2>4, HandKept DEF InHand
  <2>8. OneStart' /\ Known'
    BY <1>1, <2>3, <2>4, <2>5, StartKept, KnownKept DEF Spawning
  <2>9. OneStop'
    BY <1>1, <2>3, <2>5 DEF OneStop
  <2>10. intent # "quiet stop"
    BY <1>1, <1>2 DEF Stayed, Running
  <2>11. QED
    BY <1>1, <2>3, <2>6, <2>7, <2>8, <2>9, <2>10, StayedVoid
<1>3. CASE ~Running
  <2>1. Goto(t, "idle") /\ mishaps' = mishaps
    BY <1>3 DEF Cycle, Revivable
  <2>2. "idle" \in Track(t) /\ "idle" \notin Teardown \cup Spawning
    BY DEF Track, Teardown, Spawning
  <2>3. /\ PlaceTypes' /\ ControlTypes' /\ InHand' /\ OneStart' /\ Known' /\ OneStop'
        /\ Up' = Up /\ place'[t] = "idle"
        /\ \A u \in Threads : u # t => place'[u] = place[u] /\ handle'[u] = handle[u]
    BY <1>1, <2>1, <2>2, Onward DEF ControlTypes
  <2>4. Stayed'
    <3> SUFFICES ASSUME intent = "quiet stop" PROVE Stayed'
      BY <1>1 DEF Stayed
    <3>1. Up = {}
      BY <1>1 DEF Stayed
    <3>2. \A u \in Threads : place[u] \in Teardown <=> place'[u] \in Teardown
      BY <1>1, <2>2, <2>3 DEF Teardown
    <3>3. (\A u \in Threads : place'[u] \notin Teardown) => Up' = {} /\ ~producer'
      BY <1>1, <2>3, <3>2 DEF Stayed
    <3>4. \A u \in Starters \cup Savers : place'[u] = "idle"
      BY <2>3, ThreadFacts DEF Stayed
    <3>5. QED
      BY <1>1, <2>3, <3>1, <3>2, <3>3, <3>4 DEF Stayed
  <2>5. QED
    BY <2>3, <2>4
<1>4. QED
  BY <1>2, <1>3

LEMMA SaveStep == ASSUME RunInv, NEW t \in Savers, Save(t) PROVE RunInv'
<1>1. /\ t \in Threads /\ place[t] = "idle" /\ intent' # "quiet stop" /\ Goto(t, "save")
      /\ UNCHANGED <<proc, engine, producer, stopping, seen, handle, mishaps>>
  BY ThreadFacts DEF Save, At, processes, flags
<1>2. "save" \in Track(t) /\ "save" \notin Teardown \cup Spawning
  BY DEF Track, Teardown, Spawning
<1>3. PlaceTypes' /\ ControlTypes' /\ InHand' /\ OneStart' /\ Known' /\ OneStop'
  BY <1>1, <1>2, Onward DEF RunInv, ControlTypes
<1>4. QED
  BY <1>1, <1>3, StayedVoid DEF RunInv

LEMMA SavingStep == ASSUME RunInv, NEW t \in Threads, Saving(t) PROVE RunInv'
<1>1. PICK w \in {"start again", "idle"} :
        Goto(t, w) /\ place[t] \in {"save", "start again"}
  BY DEF Saving, At
<1>2. /\ UNCHANGED <<proc, engine, stopping, seen, handle, intent, mishaps>> /\ producer' \in BOOLEAN
  BY DEF RunInv, ControlTypes, Saving, flags, history
<1>3. w \in Track(t) /\ w \notin Teardown \cup Spawning
  BY <1>1, Whereabouts DEF RunInv, Track, Teardown, Spawning
<1>4. PlaceTypes' /\ ControlTypes' /\ InHand' /\ OneStart' /\ Known' /\ OneStop'
  BY <1>1, <1>2, <1>3, Onward DEF RunInv, ControlTypes
<1>5. QED
  BY <1>1, <1>2, <1>4, NotQuiet, StayedVoid DEF RunInv

-----------------------------------------------------------------------------
LEMMA RunInvInit == ControlInit => RunInv
<1> SUFFICES ASSUME ControlInit PROVE RunInv
  OBVIOUS
<1>1. /\ \A t \in Threads : place[t] = "idle" /\ seen[t] = 0 /\ handle[t] = 0
      /\ Up = {} /\ mishaps = {} /\ proc = 0
  BY DEF ControlInit, Up
<1>2. PlaceTypes /\ ControlTypes
  BY DEF ControlInit, PlaceTypes, ControlTypes, Places, Track
<1>3. InHand /\ OneStart /\ Known /\ OneStop
  BY <1>1 DEF InHand, OneStart, Known, OneStop, Spawning, Teardown
<1>4. Stayed
  BY <1>1, ThreadFacts DEF ControlInit, Stayed, Teardown
<1>5. QED
  BY <1>2, <1>3, <1>4 DEF RunInv

LEMMA RunInvStep == RunInv /\ [ControlNext]_controlVars => RunInv'
<1> SUFFICES ASSUME RunInv, [ControlNext]_controlVars PROVE RunInv'
  OBVIOUS
<1>1. ASSUME NEW t \in Threads, Step(t) PROVE RunInv'
  <2>1. CASE Starting(t)
    BY <2>1, LookStep, ReapStep, PopenStep, AdoptStep DEF Starting
  <2>2. CASE Stopping(t)
    BY <2>2, ClearStep, StopProducerStep, LooksStep, EndStep, FinallyStep, DoneStep DEF Stopping
  <2>3. QED
    BY <1>1, <2>1, <2>2, NoteStep, SavingStep DEF Step
<1>2. CASE Clicks
  BY <1>2, StartRequestStep, StopRequestStep, SaveStep, SwallowedStep DEF Clicks
<1>3. CASE World
  BY <1>3, ThreadFacts, DueStep, CycleStep, SettledStep, DieStep, ReadStep DEF World
<1>4. CASE UNCHANGED controlVars
  <2>1. UNCHANGED <<proc, engine, producer, stopping, place, seen, handle, intent, mishaps>>
    BY <1>4 DEF controlVars, processes, flags, history
  <2>2. Ending /\ Seeing
    BY <2>1, SameEngines DEF RunInv, ControlTypes, Seeing
  <2>3. QED
    BY <2>1, <2>2, InPlace
<1>5. QED
  BY <1>1, <1>2, <1>3, <1>4 DEF ControlNext

\* There is one engine, the supervisor knows it, and a quiet STOP ends it for
\* good, but for the overlaps ControlInv names.
THEOREM ControlTheorem == ControlSpec => []ControlInv
<1>1. ControlInit => RunInv
  BY RunInvInit
<1>2. RunInv /\ [ControlNext]_controlVars => RunInv'
  BY RunInvStep
<1>3. RunInv => ControlInv
  BY RunInvImplies
<1>4. QED
  BY <1>1, <1>2, <1>3, PTL DEF ControlSpec

\* What the invariant says of a start: the cycler spawns after no quiet STOP, and a
\* START is let through in no teardown.
LEMMA Obeyed ==
  ASSUME RunInv, ControlNext
  PROVE  /\ place["cycler"] = "spawn" /\ place'["cycler"] = "adopt" => intent # "quiet stop"
         /\ (\E t \in Starters : place[t] = "idle" /\ place'[t] = "start") /\ "two stops" \notin mishaps
              => \A t \in Threads : place[t] \notin Teardown \ {"clear"}
<1>1. place["cycler"] = "spawn" => intent # "quiet stop"
  BY DEF RunInv, Stayed
<1>2. ASSUME NEW t \in Starters, place[t] = "idle", place'[t] = "start" PROVE ~stopping
  <2>1. t \in Threads /\ t # "cycler"
    BY ThreadFacts
  <2>2. ASSUME NEW u \in Threads, NEW w, Goto(u, w) PROVE u = t /\ w = "start"
    BY <1>2, <2>1, <2>2 DEF Goto, RunInv, PlaceTypes
  <2>3. ~UNCHANGED place
    BY <1>2
  <2>4. ASSUME NEW u \in Threads, Step(u) PROVE FALSE
    <3>1. \E w : Goto(u, w) /\ place[u] # "idle"
      BY <2>3, <2>4 DEF Step, Note, Starting, Stopping, Saving, At, StartEngine, NoConfig, Reap, Popen, Adopt,
           SpawnFails, Boot, Ready, Perceive, Clear, StopProducer, StopEngine, Mark, Take, Terminate,
           Forget, Sweep, Finally, Anchor, Log
    <3>2. QED
      BY <1>2, <2>2, <3>1
  <2>5. CASE Clicks
    <3>1. ASSUME NEW u \in Stoppers \cup Savers, Goto(u, "clear") \/ Goto(u, "save") PROVE FALSE
      BY <2>2, <3>1, ThreadFacts
    <3>2. QED
      BY <2>3, <2>5, <3>1 DEF Clicks, StartRequest, Refused, StopRequest, Save, StopSwallowed
  <2>6. CASE World
    <3>1. ASSUME NEW w, Goto("cycler", w) PROVE FALSE
      BY <2>1, <2>2, <3>1, ThreadFacts
    <3>2. QED
      BY <2>3, <2>6, <3>1 DEF World, Due, Cycle, Settled, Die, Read
  <2>7. QED
    BY <2>4, <2>5, <2>6 DEF ControlNext
<1>3. QED
  BY <1>1, <1>2 DEF RunInv, OneStop

\* No start, scheduled or asked for, goes against a STOP.
THEOREM StartsObeyTheorem == ControlSpec => StartsObey
<1>1. ControlInit => RunInv
  BY RunInvInit
<1>2. RunInv /\ [ControlNext]_controlVars => RunInv'
  BY RunInvStep
<1>3. RunInv /\ [ControlNext]_controlVars =>
        /\ [place["cycler"] = "spawn" /\ place'["cycler"] = "adopt" => intent # "quiet stop"]_controlVars
        /\ [(\E t \in Starters : place[t] = "idle" /\ place'[t] = "start") /\ "two stops" \notin mishaps
              => \A t \in Threads : place[t] \notin Teardown \ {"clear"}]_controlVars
  BY Obeyed
<1>4. QED
  BY <1>1, <1>2, <1>3, PTL DEF ControlSpec, StartsObey, CyclerObeys, RefusedWhileStopping
-----------------------------------------------------------------------------
(* The jobs of a studio.                                                      *)

JobStates == {"queued", "running", "done", "failed"}
JobTypes == jobs \in Seq([key : Keys, state : JobStates]) /\ queue \in Seq(Nat)

\* A job is in the queue once.
Once ==
  worker # "ended" => \A a, b \in DOMAIN queue : a # b /\ queue[a] = queue[b] => queue[a] = 0

\* What is in the queue is a job that waits, or the pill.
InQueue ==
  worker # "ended" =>
    \A a \in DOMAIN queue :
      queue[a] # 0 => queue[a] \in DOMAIN jobs /\ jobs[queue[a]].state = "queued" /\ queue[a] # putting

\* Every job that waits is in the queue or on its way there.
Waits ==
  worker # "ended" =>
    \A j \in DOMAIN jobs :
      jobs[j].state = "queued" /\ j # putting => \E a \in DOMAIN queue : queue[a] = j

\* What the worker is at, while it is at it.
AtWork ==
  /\ worker \in {"prelude", "body"} => doing \in DOMAIN jobs /\ jobs[doing].state = "running"
  /\ worker = "cleanup" => \A j \in DOMAIN jobs : jobs[j].state # "running"

\* The inductive invariant.
StudioInv ==
  /\ Studio!JobsTypeOK /\ Studio!OneRuns /\ Studio!NoDuplicate
  /\ JobTypes /\ Once /\ InQueue /\ Waits /\ AtWork
  /\ putting # 0 => jobs[putting].state = "queued"

LEMMA StudioInvImplies == StudioInv => JobsInv
<1> SUFFICES ASSUME StudioInv PROVE Studio!QueuedIsThere
  BY DEF StudioInv, JobsInv, Studio!JobsInv
<1>1. \A j \in DOMAIN jobs : j # 0
  BY DEF StudioInv, JobTypes
<1>2. ASSUME worker # "ended", NEW j \in DOMAIN jobs
      PROVE  jobs[j].state = "queued" /\ j # putting <=> \E a \in DOMAIN queue : queue[a] = j
  BY <1>1, <1>2 DEF StudioInv, InQueue, Waits
<1> QED
  BY <1>2 DEF Studio!QueuedIsThere, Studio!Jobs, Studio!ToSet

LEMMA InitStudioInv == Studio!JobsInit => StudioInv
  BY DEF Studio!JobsInit, StudioInv, Studio!JobsTypeOK, Studio!OneRuns, Studio!NoDuplicate, Studio!Jobs,
         Studio!Active, JobTypes, Once, InQueue, Waits, AtWork

LEMMA InsertStep == ASSUME StudioInv, NEW k \in Keys, Studio!Insert(k) PROVE StudioInv'
<1> USE DEF StudioInv, Studio!Insert
<1> DEFINE n == Len(jobs)
<1>1. n \in Nat /\ DOMAIN jobs = 1..n /\ jobs' \in Seq([key : Keys, state : JobStates])
  BY DEF JobTypes, JobStates
<1>2. /\ DOMAIN jobs' = 1..(n + 1) /\ jobs'[n + 1] = [key |-> k, state |-> "queued"]
      /\ \A j \in 1..n : jobs'[j] = jobs[j]
  BY <1>1 DEF JobTypes
<1> HIDE DEF n
<1>3. putting' = n + 1 /\ UNCHANGED <<queue, worker, doing, ending>>
  BY DEF n
<1>4. \A j \in 1..n : Studio!Active(j) => jobs[j].key # k
  BY <1>1 DEF Studio!Refused, Studio!Jobs
<1>5. \A j \in 1..(n + 1) : j = n + 1 \/ (j \in 1..n /\ j # n + 1)
  BY <1>1
<1>6. Studio!JobsTypeOK' /\ JobTypes' /\ Once'
  BY <1>1, <1>2, <1>3 DEF Studio!JobsTypeOK, Studio!Jobs, JobTypes, Once
<1>7. Studio!OneRuns' /\ AtWork'
  BY <1>1, <1>2, <1>3, <1>5 DEF Studio!OneRuns, Studio!Jobs, AtWork
<1>8. Studio!NoDuplicate'
  <2>1. \A j \in 1..n : Studio!Active(j)' <=> Studio!Active(j)
    BY <1>1, <1>2 DEF Studio!Active, Studio!Jobs
  <2> QED
    BY <1>1, <1>2, <1>4, <1>5, <2>1 DEF Studio!NoDuplicate, Studio!Jobs
<1>9. InQueue' /\ Waits'
  BY <1>1, <1>2, <1>3, <1>5 DEF InQueue, Waits
<1>10. jobs'[putting'].state = "queued"
  BY <1>2, <1>3
<1> QED
  BY <1>6, <1>7, <1>8, <1>9, <1>10

\* A number is appended to the queue.
LEMMA QueuedFacts ==
  ASSUME NEW q \in Seq(Nat), NEW x \in Nat
  PROVE  /\ Append(q, x) \in Seq(Nat) /\ Len(q) \in Nat /\ DOMAIN q = 1..Len(q)
         /\ DOMAIN Append(q, x) = 1..(Len(q) + 1) /\ Append(q, x)[Len(q) + 1] = x
         /\ \A a \in 1..Len(q) : Append(q, x)[a] = q[a]
         /\ \A a \in 1..(Len(q) + 1) : a = Len(q) + 1 \/ (a \in 1..Len(q) /\ a # Len(q) + 1)
  OBVIOUS

LEMMA PutJobStep == ASSUME StudioInv, Studio!PutJob PROVE StudioInv'
<1> USE DEF StudioInv, Studio!PutJob
<1>1. putting \in Nat /\ putting \in DOMAIN jobs /\ queue \in Seq(Nat)
  BY DEF Studio!JobsTypeOK, Studio!Jobs, JobTypes
<1>2. Studio!JobsTypeOK' /\ JobTypes' /\ AtWork'
  BY <1>1, QueuedFacts DEF Studio!JobsTypeOK, Studio!Jobs, JobTypes, AtWork
<1>3. Studio!OneRuns' /\ Studio!NoDuplicate'
  BY DEF Studio!OneRuns, Studio!NoDuplicate, Studio!Active, Studio!Jobs
<1>4. ASSUME worker # "ended" PROVE Once' /\ InQueue' /\ Waits'
  <2> DEFINE n == Len(queue)
  <2>1. /\ n \in Nat /\ DOMAIN queue = 1..n /\ DOMAIN queue' = 1..(n + 1) /\ queue'[n + 1] = putting
        /\ \A a \in 1..n : queue'[a] = queue[a]
        /\ \A a \in 1..(n + 1) : a = n + 1 \/ (a \in 1..n /\ a # n + 1)
    BY <1>1, QueuedFacts
  <2> HIDE DEF n
  <2>2. \A a \in 1..n : queue[a] # putting
    BY <1>4, <2>1 DEF InQueue
  <2>3. Once'
    BY <1>4, <2>1, <2>2 DEF Once
  <2>4. InQueue'
    BY <1>1, <1>4, <2>1 DEF InQueue
  <2>5. Waits'
    <3> SUFFICES ASSUME NEW j \in DOMAIN jobs, jobs[j].state = "queued"
                 PROVE  \E a \in DOMAIN queue' : queue'[a] = j
      BY DEF Waits
    <3>1. CASE j = putting
      BY <2>1, <3>1, n + 1 \in 1..(n + 1)
    <3>2. CASE j # putting
      <4>1. PICK a \in 1..n : queue[a] = j
        BY <1>4, <2>1, <3>2 DEF Waits
      <4>2. a \in 1..(n + 1)
        BY <2>1
      <4> QED
        BY <2>1, <4>1, <4>2
    <3> QED
      BY <3>1, <3>2
  <2> QED
    BY <2>3, <2>4, <2>5
<1> QED
  BY <1>2, <1>3, <1>4 DEF Once, InQueue, Waits

LEMMA StopJobsStep == ASSUME StudioInv, Studio!Stop PROVE StudioInv'
<1> USE DEF StudioInv, Studio!Stop, Studio!Pill
<1>1. queue \in Seq(Nat)
  BY DEF JobTypes
<1>2. Studio!JobsTypeOK' /\ JobTypes' /\ AtWork'
  BY <1>1, QueuedFacts DEF Studio!JobsTypeOK, Studio!Jobs, JobTypes, AtWork
<1>3. Studio!OneRuns' /\ Studio!NoDuplicate'
  BY DEF Studio!OneRuns, Studio!NoDuplicate, Studio!Active, Studio!Jobs
<1>4. worker # "ended" => Once' /\ InQueue' /\ Waits'
  BY <1>1, QueuedFacts, SMTT(30) DEF Once, InQueue, Waits
<1> QED
  BY <1>2, <1>3, <1>4 DEF Once, InQueue, Waits

\* A job changes its state.
LEMMA StateFacts ==
  ASSUME StudioInv, NEW j \in DOMAIN jobs, NEW s \in JobStates, Studio!State(j, s)
  PROVE  /\ DOMAIN jobs' = DOMAIN jobs /\ jobs' \in Seq([key : Keys, state : JobStates])
         /\ \A i \in DOMAIN jobs : jobs'[i].key = jobs[i].key
         /\ \A i \in DOMAIN jobs \ {j} : jobs'[i] = jobs[i]
         /\ jobs'[j].state = s
<1> DEFINE S == [key : Keys, state : JobStates]
<1>1. jobs \in Seq(S) /\ jobs[j] \in S
  <2>1. jobs \in Seq(S)
    BY DEF StudioInv, JobTypes
  <2> HIDE DEF S
  <2>2. jobs[j] \in S
    BY <2>1
  <2> QED
    BY <2>1, <2>2
<1>2. jobs' = [jobs EXCEPT ![j] = [jobs[j] EXCEPT !.state = s]]
  BY <1>1 DEF Studio!State
<1>3. [jobs[j] EXCEPT !.state = s] \in [key : Keys, state : JobStates]
  BY <1>1
<1> QED
  BY <1>1, <1>2, <1>3

LEMMA GetStep == ASSUME StudioInv, Studio!Get PROVE StudioInv'
<1> USE DEF StudioInv, Studio!Get, Studio!Pill
<1> DEFINE h == queue[1]
<1>1. /\ queue \in Seq(Nat) /\ queue' \in Seq(Nat) /\ Head(queue) = h /\ h \in Nat /\ 1 \in DOMAIN queue
      /\ \A a \in DOMAIN queue' : queue'[a] = queue[a + 1] /\ a + 1 \in DOMAIN queue /\ a + 1 # 1
      /\ \A a, b \in DOMAIN queue' : a # b => a + 1 # b + 1
      /\ \A a \in DOMAIN queue : a # 1 => a - 1 \in DOMAIN queue' /\ queue'[a - 1] = queue[a]
  BY SMTT(30) DEF JobTypes
<1> HIDE DEF h
<1>2. CASE h = 0 \/ ending
  <2>1. worker' = "ended" /\ UNCHANGED <<jobs, doing, putting>>
    BY <1>1, <1>2
  <2>2. Studio!JobsTypeOK' /\ JobTypes' /\ AtWork'
    BY <1>1, <2>1 DEF Studio!JobsTypeOK, Studio!Jobs, JobTypes, AtWork
  <2>3. Studio!OneRuns' /\ Studio!NoDuplicate'
    BY <2>1 DEF Studio!OneRuns, Studio!NoDuplicate, Studio!Active, Studio!Jobs
  <2> QED
    BY <2>1, <2>2, <2>3 DEF Once, InQueue, Waits
<1>3. CASE h # 0 /\ ~ending
  <2>1. worker' = "prelude" /\ doing' = h /\ Studio!State(h, "running") /\ UNCHANGED <<putting, ending>>
    BY <1>1, <1>3
  <2>2. h \in DOMAIN jobs /\ jobs[h].state = "queued" /\ h # putting
    BY <1>1, <1>3 DEF InQueue
  <2>3. /\ DOMAIN jobs' = DOMAIN jobs /\ jobs' \in Seq([key : Keys, state : JobStates])
        /\ \A i \in DOMAIN jobs : jobs'[i].key = jobs[i].key
        /\ \A i \in DOMAIN jobs \ {h} : jobs'[i] = jobs[i]
        /\ jobs'[h].state = "running"
    <3>1. "running" \in JobStates
      BY DEF JobStates
    <3> QED
      BY <2>1, <2>2, <3>1, StateFacts
  <2>4. Studio!JobsTypeOK' /\ JobTypes' /\ AtWork'
    BY <1>1, <2>1, <2>2, <2>3 DEF Studio!JobsTypeOK, Studio!Jobs, JobTypes, AtWork
  <2>5. Studio!OneRuns'
    BY <2>1, <2>2, <2>3 DEF Studio!OneRuns, Studio!Jobs, Studio!JobsTypeOK
  <2>6. Studio!NoDuplicate'
    <3>1. \A i \in DOMAIN jobs : Studio!Active(i)' <=> Studio!Active(i)
      BY <2>2, <2>3 DEF Studio!Active, Studio!Jobs
    <3> QED
      BY <2>3, <3>1 DEF Studio!NoDuplicate, Studio!Jobs
  <2>7. Once'
    BY <1>1 DEF Once
  <2>8. \A a \in DOMAIN queue' : queue'[a] # h
    BY <1>1, <1>3 DEF Once
  <2>9. InQueue'
    BY <1>1, <2>1, <2>3, <2>8 DEF InQueue
  <2>10. Waits'
    <3> SUFFICES ASSUME NEW j \in DOMAIN jobs', jobs'[j].state = "queued", j # putting'
                 PROVE  \E a \in DOMAIN queue' : queue'[a] = j
      BY DEF Waits
    <3>1. j \in DOMAIN jobs \ {h} /\ jobs[j].state = "queued"
      BY <2>3
    <3>2. PICK a \in DOMAIN queue : queue[a] = j
      BY <2>1, <3>1 DEF Waits
    <3>3. a # 1
      BY <3>1, <3>2 DEF h
    <3>4. a - 1 \in DOMAIN queue' /\ queue'[a - 1] = j
      BY <1>1, <3>2, <3>3
    <3> QED
      BY <3>4
  <2>11. putting' # 0 => jobs'[putting'].state = "queued"
    BY <2>1, <2>2, <2>3 DEF Studio!JobsTypeOK, Studio!Jobs
  <2> QED
    BY <2>4, <2>5, <2>6, <2>7, <2>9, <2>10, <2>11
<1> QED
  BY <1>2, <1>3

LEMMA BodyStep == ASSUME StudioInv, Studio!Body PROVE StudioInv'
<1> USE DEF StudioInv, Studio!Body
<1>1. PICK s \in {"done", "failed"} : Studio!State(doing, s)
  BY DEF Studio!Outcomes
<1>2. doing \in DOMAIN jobs /\ jobs[doing].state = "running" /\ s \in JobStates
  BY DEF AtWork, JobStates
<1>3. /\ DOMAIN jobs' = DOMAIN jobs /\ jobs' \in Seq([key : Keys, state : JobStates])
      /\ \A i \in DOMAIN jobs : jobs'[i].key = jobs[i].key
      /\ \A i \in DOMAIN jobs \ {doing} : jobs'[i] = jobs[i]
      /\ jobs'[doing].state = s
  BY <1>1, <1>2, StateFacts
<1>4. Studio!JobsTypeOK' /\ JobTypes' /\ Once'
  BY <1>3 DEF Studio!JobsTypeOK, Studio!Jobs, JobTypes, Once
<1>5. \A j \in DOMAIN jobs' : jobs'[j].state # "running"
  BY <1>2, <1>3 DEF Studio!OneRuns, Studio!Jobs
<1>6. Studio!OneRuns' /\ AtWork'
  BY <1>5 DEF Studio!OneRuns, Studio!Jobs, AtWork
<1>7. Studio!NoDuplicate'
  <2>1. \A i \in DOMAIN jobs : Studio!Active(i)' => Studio!Active(i)
    BY <1>2, <1>3 DEF Studio!Active, Studio!Jobs
  <2> QED
    BY <1>3, <2>1 DEF Studio!NoDuplicate, Studio!Jobs
<1>8. InQueue' /\ Waits'
  BY <1>2, <1>3 DEF InQueue, Waits
<1>9. putting' # 0 => jobs'[putting'].state = "queued"
  BY <1>2, <1>3 DEF Studio!JobsTypeOK, Studio!Jobs
<1> QED
  BY <1>4, <1>6, <1>7, <1>8, <1>9

\* The steps of the worker between those.
LEMMA WorkerStep ==
  ASSUME StudioInv, UNCHANGED <<jobs, putting, queue, ending>>, Studio!JobsTypeOK', Studio!OneRuns', AtWork',
         worker # "ended"
  PROVE  StudioInv'
<1> USE DEF StudioInv
<1>1. Studio!NoDuplicate' /\ JobTypes'
  BY DEF Studio!NoDuplicate, Studio!Active, Studio!Jobs, JobTypes
<1>2. Once' /\ InQueue' /\ Waits'
  BY DEF Once, InQueue, Waits
<1> QED
  BY <1>1, <1>2

LEMMA WaitStep == ASSUME StudioInv, Studio!Wait PROVE StudioInv'
  BY WorkerStep DEF StudioInv, Studio!Wait, Studio!JobsTypeOK, Studio!OneRuns, Studio!Jobs, AtWork

LEMMA PreludeStep == ASSUME StudioInv, Studio!Prelude PROVE StudioInv'
  BY WorkerStep DEF StudioInv, Studio!Prelude, Studio!JobsTypeOK, Studio!OneRuns, Studio!Jobs, AtWork

LEMMA CleanupStep == ASSUME StudioInv, Studio!Cleanup PROVE StudioInv'
  BY WorkerStep DEF StudioInv, Studio!Cleanup, Studio!JobsTypeOK, Studio!OneRuns, Studio!Jobs, AtWork

LEMMA StudioInvKept == StudioInv /\ [Studio!JobsNext]_studioVars => StudioInv'
<1> SUFFICES ASSUME StudioInv, [Studio!JobsNext]_studioVars PROVE StudioInv'
  OBVIOUS
<1>1. ASSUME Studio!Requests PROVE StudioInv'
  BY <1>1, InsertStep, PutJobStep, StopJobsStep DEF Studio!Requests
<1>2. ASSUME Studio!Worker PROVE StudioInv'
  BY <1>2, WaitStep, GetStep, PreludeStep, BodyStep, CleanupStep DEF Studio!Worker
<1>3. CASE UNCHANGED studioVars
  BY <1>3 DEF studioVars, StudioInv, Studio!JobsTypeOK, Studio!OneRuns, Studio!NoDuplicate, Studio!Jobs,
              Studio!Active, JobTypes, Once, InQueue, Waits, AtWork
<1> QED
  BY <1>1, <1>2, <1>3 DEF Studio!JobsNext

\* One job runs at a time, none is asked for twice while it is queued or running,
\* and none that is queued is forgotten while the worker serves the queue.
THEOREM JobsTheorem == OperatorSpec => []JobsInv
<1>1. OperatorInit => StudioInv
  BY InitStudioInv DEF OperatorInit
<1>2. StudioInv /\ [OperatorNext]_<<part, controlVars, studioVars>> => StudioInv'
  <2>1. OperatorNext => [Studio!JobsNext]_studioVars
    BY DEF OperatorNext
  <2>2. UNCHANGED <<part, controlVars, studioVars>> => UNCHANGED studioVars
    OBVIOUS
  <2> QED
    BY <2>1, <2>2, StudioInvKept
<1> QED
  BY <1>1, <1>2, StudioInvImplies, PTL DEF OperatorSpec

\* Both keep their invariants in the composed specification.
THEOREM OperatorTheorem == OperatorSpec => [](ControlInv /\ JobsInv)
<1>1. OperatorInit => RunInv /\ StudioInv
  BY RunInvInit, InitStudioInv DEF OperatorInit
<1>2. RunInv /\ StudioInv /\ [OperatorNext]_<<part, controlVars, studioVars>> => RunInv' /\ StudioInv'
  <2>1. OperatorNext => [ControlNext]_controlVars /\ [Studio!JobsNext]_studioVars
    BY DEF OperatorNext, System
  <2> QED
    BY <2>1, RunInvStep, StudioInvKept
<1> QED
  BY <1>1, <1>2, RunInvImplies, StudioInvImplies, PTL DEF OperatorSpec
=============================================================================
