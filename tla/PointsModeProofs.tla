--------------------------- MODULE PointsModeProofs ---------------------------
(***************************************************************************)
(* Theorems about points mode, from submit() to the pipeline, for any      *)
(* number of cameras, any tolerances, tables and queues.                   *)
(*                                                                         *)
(* Ingestion with one thread that publishes, as FrameBus asks for ("Single *)
(* producer, single consumer") and points mode has it: no pair is lost     *)
(* without being counted, the pipeline is handed pairs in order, and every *)
(* step is one LatestWins allows.  With two threads none of the three      *)
(* holds.                                                                  *)
(*                                                                         *)
(* PerceptionLoop: what is sent with a frame is current, or fades.         *)
(*                                                                         *)
(* PointsWire: a set is handed over exactly when all of its datagrams came *)
(* in, the gap counter is between what was surely lost and what was lost,  *)
(* and the wire implements SetStream.                                      *)
(***************************************************************************)
EXTENDS MCPointsMode, FiniteSetTheorems, SequenceTheorems, TLAPS

-----------------------------------------------------------------------------
(* From submit() to step().                                                  *)

\* The queue is in order, ahead of the pipeline, and behind what was emitted.
QueueInOrder ==
  \A i \in 1..Len(queue) :
    /\ delivered < queue[i] /\ got < queue[i] /\ queue[i] <= pair.idx
    /\ \A j \in 1..Len(queue) : j < i => queue[j] < queue[i]

\* So is the pair get_latest() holds ...
GotInOrder ==
  /\ delivered <= pair.idx
  /\ got # 0 => delivered < got /\ got <= pair.idx

\* ... and the one a thread is publishing is ahead of the queue.  Once it has
\* evicted there is room, which nobody else can take.
HandInOrder ==
  \A t \in Threads : at[t] # "source" =>
    /\ delivered < item[t] /\ got < item[t] /\ item[t] <= pair.idx
    /\ \A i \in 1..Len(queue) : queue[i] < item[t]
    /\ at[t] = "retry" => Len(queue) < BusSize

\* The inductive invariant.
PathInv ==
  /\ BusTypeOK /\ pair.idx \in Nat /\ InFlight \in Nat
  /\ QueueInOrder /\ GotInOrder /\ HandInOrder
  /\ NothingLostSilently

-----------------------------------------------------------------------------
\* The single thread has at most one pair in its hand.
LEMMA OneInHand ==
  ASSUME NEW l, Threads = {l}
  PROVE  InFlight = IF at[l] = "source" THEN 0 ELSE 1
<1>1. CASE at[l] = "source"
  <2>1. {t \in Threads : at[t] # "source"} = {}
    BY <1>1
  <2> QED
    BY <1>1, <2>1, FS_EmptySet DEF InFlight
<1>2. CASE at[l] # "source"
  <2>1. {t \in Threads : at[t] # "source"} = {l}
    BY <1>2
  <2> QED
    BY <1>2, <2>1, FS_Singleton DEF InFlight
<1> QED
  BY <1>1, <1>2

LEMMA OneInHandNext ==
  ASSUME NEW l, Threads = {l}
  PROVE  InFlight' = IF at'[l] = "source" THEN 0 ELSE 1
<1>1. CASE at'[l] = "source"
  <2>1. {t \in Threads : at'[t] # "source"} = {}
    BY <1>1
  <2> QED
    BY <1>1, <2>1, FS_EmptySet DEF InFlight
<1>2. CASE at'[l] # "source"
  <2>1. {t \in Threads : at'[t] # "source"} = {l}
    BY <1>2
  <2> QED
    BY <1>2, <2>1, FS_Singleton DEF InFlight
<1> QED
  BY <1>1, <1>2

\* submit() returns nothing, or the next number.
LEMMA SubmitNumbers ==
  ASSUME pair.idx \in Nat, NEW c, NEW ts, Submit(c, ts)
  PROVE  pair'.idx = pair.idx \/ pair'.idx = pair.idx + 1
<1>1. ASSUME NEW frames, Return(frames) PROVE pair'.idx = pair.idx + 1
  BY <1>1 DEF Return
<1>2. ASSUME NEW held, EmitAligned(held) PROVE pair'.idx = pair.idx + 1
  BY <1>1, <1>2 DEF EmitAligned
<1>3. ASSUME NEW held, NEW now, EmitSolo(held, now) PROVE pair'.idx = pair.idx + 1
  BY <1>1, <1>3 DEF EmitSolo
<1>4. ASSUME NEW held, NEW now, Hold(held, now) PROVE pair'.idx = pair.idx
  BY <1>4 DEF Hold
<1> QED
  BY <1>2, <1>3, <1>4 DEF Submit

LEMMA InitPathInv ==
  ASSUME NEW l, Threads = {l}, IngestionInit
  PROVE  PathInv
<1> USE ThreadsAssumption DEF IngestionInit
<1>1. BusTypeOK /\ pair.idx = 0
  BY DEF BusTypeOK, Init
<1>2. InFlight = 0
  BY OneInHand
<1>3. QueueInOrder /\ GotInOrder /\ HandInOrder
  BY <1>1 DEF QueueInOrder, GotInOrder, HandInOrder
<1>4. NothingLostSilently
  BY <1>1, <1>2 DEF NothingLostSilently
<1> QED
  BY <1>1, <1>2, <1>3, <1>4 DEF PathInv

-----------------------------------------------------------------------------
LEMMA SubmitFrameStep ==
  ASSUME NEW l, Threads = {l}, PathInv, SubmitFrame(l)
  PROVE  PathInv'
<1> USE ThreadsAssumption DEF PathInv
<1>1. /\ at[l] = "source" /\ UNCHANGED <<queue, dropped, busLock, got, delivered, frameCount>>
      /\ pair'.idx = pair.idx \/ pair'.idx = pair.idx + 1
  BY SubmitNumbers DEF SubmitFrame
<1>2. CASE Emits
  <2>1. /\ pair'.idx = pair.idx + 1
        /\ item' = [item EXCEPT ![l] = pair'.idx] /\ at' = [at EXCEPT ![l] = "put"]
    BY <1>1, <1>2 DEF SubmitFrame, Emits
  <2>2. BusTypeOK'
    BY <1>1, <2>1 DEF BusTypeOK
  <2>3. InFlight = 0 /\ InFlight' = 1
    BY <1>1, <2>1, OneInHand, OneInHandNext DEF BusTypeOK
  <2>4. QueueInOrder' /\ GotInOrder'
    BY <1>1, <2>1 DEF QueueInOrder, GotInOrder, BusTypeOK
  <2>5. HandInOrder'
    <3>1. item'[l] = pair.idx + 1 /\ at'[l] = "put"
      BY <2>1 DEF BusTypeOK
    <3>2. delivered \in Nat /\ got \in Nat /\ delivered <= pair.idx /\ got <= pair.idx
      BY DEF GotInOrder, BusTypeOK
    <3>3. \A i \in 1..Len(queue) : queue[i] <= pair.idx /\ queue[i] \in Nat
      BY DEF QueueInOrder, BusTypeOK
    <3> QED
      BY <1>1, <2>1, <3>1, <3>2, <3>3 DEF HandInOrder
  <2>6. NothingLostSilently'
    BY <1>1, <2>1, <2>3 DEF NothingLostSilently, BusTypeOK
  <2> QED
    BY <2>1, <2>2, <2>3, <2>4, <2>5, <2>6
<1>3. CASE ~Emits
  <2>1. pair'.idx = pair.idx /\ UNCHANGED <<item, at>>
    BY <1>3 DEF SubmitFrame, Emits
  <2>2. InFlight' = InFlight
    BY <2>1 DEF InFlight
  <2> QED
    BY <1>1, <2>1, <2>2 DEF BusTypeOK, QueueInOrder, GotInOrder, HandInOrder, NothingLostSilently
<1> QED
  BY <1>2, <1>3

\* The pair goes to the back of the queue.
LEMMA AppendedStep ==
  ASSUME NEW l, Threads = {l}, PathInv, at[l] # "source", Len(queue) < BusSize,
         queue' = Append(queue, item[l]), at' = [at EXCEPT ![l] = "source"],
         busLock' \subseteq Threads,
         UNCHANGED <<pair, dropped, item, got, delivered, frameCount>>
  PROVE  PathInv'
<1> USE ThreadsAssumption DEF PathInv
<1>1. item[l] \in Nat /\ queue \in Seq(Nat) /\ Len(queue) \in Nat
  BY DEF BusTypeOK
<1>2. /\ Len(queue') = Len(queue) + 1 /\ queue' \in Seq(Nat)
      /\ queue'[Len(queue) + 1] = item[l]
      /\ \A i \in 1..Len(queue) : queue'[i] = queue[i] /\ queue[i] \in Nat
  BY <1>1
<1>3. BusTypeOK'
  BY <1>1, <1>2 DEF BusTypeOK
<1>4. InFlight = 1 /\ InFlight' = 0
  BY OneInHand, OneInHandNext DEF BusTypeOK
<1>5. /\ delivered < item[l] /\ got < item[l] /\ item[l] <= pair.idx
      /\ \A i \in 1..Len(queue) : queue[i] < item[l]
  BY DEF HandInOrder
<1>6. QueueInOrder'
  <2> SUFFICES ASSUME NEW i \in 1..Len(queue')
               PROVE  /\ delivered < queue'[i] /\ got < queue'[i] /\ queue'[i] <= pair.idx
                      /\ \A j \in 1..Len(queue') : j < i => queue'[j] < queue'[i]
    BY DEF QueueInOrder
  <2>1. CASE i = Len(queue) + 1
    BY <1>1, <1>2, <1>5, <2>1
  <2>2. CASE i \in 1..Len(queue)
    BY <1>1, <1>2, <2>2 DEF QueueInOrder
  <2> QED
    BY <1>1, <1>2, <2>1, <2>2
<1>7. GotInOrder' /\ HandInOrder'
  BY DEF GotInOrder, HandInOrder, BusTypeOK
<1>8. NothingLostSilently'
  BY <1>1, <1>2, <1>4, SMTT(30) DEF NothingLostSilently, BusTypeOK
<1> QED
  BY <1>3, <1>4, <1>6, <1>7, <1>8

\* What a Tail does to a queue in order.
LEMMA TailOf ==
  ASSUME NEW q \in Seq(Nat), q # <<>>
  PROVE  /\ Tail(q) \in Seq(Nat) /\ Len(Tail(q)) = Len(q) - 1 /\ Len(q) \in Nat /\ Len(q) >= 1
         /\ Head(q) = q[1] /\ Head(q) \in Nat
         /\ \A i \in 1..Len(Tail(q)) : Tail(q)[i] = q[i + 1] /\ i + 1 \in 1..Len(q)
  OBVIOUS

LEMMA PublishStep ==
  ASSUME NEW l, Threads = {l}, PathInv, Publish(l)
  PROVE  PathInv'
<1> USE ThreadsAssumption DEF PathInv
<1>1. CASE Put(l)
  <2>1. CASE Len(queue) < BusSize
    BY <1>1, <2>1, AppendedStep DEF Put, vars, BusTypeOK
  <2>2. CASE ~(Len(queue) < BusSize)
    <3>1. /\ at' = [at EXCEPT ![l] = "evict"] /\ at[l] = "put"
          /\ UNCHANGED <<queue, pair, dropped, item, busLock, got, delivered, frameCount>>
      BY <1>1, <2>2 DEF Put, vars
    <3>2. InFlight = 1 /\ InFlight' = 1
      BY <3>1, OneInHand, OneInHandNext DEF BusTypeOK
    <3>3. BusTypeOK'
      BY <3>1 DEF BusTypeOK
    <3> QED
      BY <3>1, <3>2, <3>3
      DEF QueueInOrder, GotInOrder, HandInOrder, NothingLostSilently, BusTypeOK
  <2> QED
    BY <2>1, <2>2
<1>2. CASE Evict(l)
  <2>1. /\ at[l] = "evict" /\ at' = [at EXCEPT ![l] = "retry"] /\ dropped' = dropped + 1
        /\ queue' = IF queue = <<>> THEN queue ELSE Tail(queue)
        /\ busLock' = {l} /\ UNCHANGED <<pair, item, got, delivered, frameCount>>
    BY <1>2 DEF Evict, vars
  <2>2. InFlight = 1 /\ InFlight' = 1
    BY <2>1, OneInHand, OneInHandNext DEF BusTypeOK
  <2>3. queue \in Seq(Nat) /\ Len(queue) \in Nat /\ Len(queue) <= BusSize
    BY DEF BusTypeOK
  <2>4. CASE queue = <<>>
    <3>1. queue' = <<>> /\ Len(queue') = 0 /\ queue' \in Seq(Nat)
      BY <2>1, <2>4
    <3>2. BusTypeOK'
      BY <2>1, <3>1 DEF BusTypeOK
    <3>3. QueueInOrder' /\ GotInOrder' /\ HandInOrder'
      BY <2>1, <3>1 DEF QueueInOrder, GotInOrder, HandInOrder, BusTypeOK
    <3>4. NothingLostSilently'
      BY <2>1, <2>2, <2>4, <3>1 DEF NothingLostSilently, BusTypeOK
    <3> QED
      BY <2>1, <2>2, <3>2, <3>3, <3>4
  <2>5. CASE queue # <<>>
    <3>1. /\ queue' \in Seq(Nat) /\ Len(queue') = Len(queue) - 1 /\ Len(queue) >= 1
          /\ \A i \in 1..Len(queue') : queue'[i] = queue[i + 1] /\ i + 1 \in 1..Len(queue)
      BY <2>1, <2>3, <2>5, TailOf
    <3>2. BusTypeOK'
      BY <2>1, <2>3, <3>1 DEF BusTypeOK
    <3>3. QueueInOrder'
      BY <2>1, <2>3, <3>1 DEF QueueInOrder
    <3>4. GotInOrder' /\ HandInOrder'
      BY <2>1, <2>3, <3>1 DEF GotInOrder, HandInOrder, BusTypeOK
    <3>5. NothingLostSilently'
      BY <2>1, <2>2, <2>3, <3>1 DEF NothingLostSilently, BusTypeOK
    <3> QED
      BY <2>1, <2>2, <3>2, <3>3, <3>4, <3>5
  <2> QED
    BY <2>4, <2>5
<1>3. CASE Retry(l)
  <2>1. at[l] = "retry" /\ Len(queue) < BusSize
    BY <1>3 DEF Retry, HandInOrder
  <2> QED
    BY <1>3, <2>1, AppendedStep DEF Retry, vars
<1> QED
  BY <1>1, <1>2, <1>3 DEF Publish

LEMMA ConsumeStep ==
  ASSUME NEW l, Threads = {l}, PathInv, Consume
  PROVE  PathInv'
<1> USE ThreadsAssumption DEF PathInv
<1>1. UNCHANGED <<pair, at, item, busLock>> /\ InFlight' = InFlight
  BY DEF Consume, Get, Drain, Step, vars, InFlight
<1>2. queue \in Seq(Nat) /\ Len(queue) \in Nat /\ Len(queue) <= BusSize
  BY DEF BusTypeOK
<1>3. CASE Get \/ Drain
  <2>1. /\ queue # <<>> /\ got' = Head(queue) /\ queue' = Tail(queue)
        /\ UNCHANGED <<delivered, frameCount>>
        /\ \/ got = 0 /\ dropped' = dropped
           \/ got # 0 /\ dropped' = dropped + 1
    BY <1>3 DEF Get, Drain
  <2>2. /\ queue' \in Seq(Nat) /\ Len(queue') = Len(queue) - 1 /\ Len(queue) >= 1
        /\ got' = queue[1] /\ got' \in Nat
        /\ \A i \in 1..Len(queue') : queue'[i] = queue[i + 1] /\ i + 1 \in 1..Len(queue)
    BY <1>2, <2>1, TailOf
  <2>3. /\ delivered < got' /\ got' <= pair.idx
        /\ \A i \in 1..Len(queue) : 1 < i => got' < queue[i]
    BY <1>2, <2>2 DEF QueueInOrder
  <2>4. BusTypeOK'
    BY <1>1, <1>2, <2>1, <2>2 DEF BusTypeOK
  <2>5. QueueInOrder'
    BY <1>1, <1>2, <2>1, <2>2, <2>3 DEF QueueInOrder
  <2>6. GotInOrder'
    BY <1>1, <2>1, <2>3 DEF GotInOrder
  <2>7. HandInOrder'
    BY <1>1, <1>2, <2>1, <2>2 DEF HandInOrder, BusTypeOK
  <2>8. got' # 0
    BY <2>2, <2>3 DEF BusTypeOK
  <2>9. NothingLostSilently'
    BY <1>1, <1>2, <2>1, <2>2, <2>8, SMTT(30) DEF NothingLostSilently, BusTypeOK
  <2> QED
    BY <1>1, <2>4, <2>5, <2>6, <2>7, <2>9
<1>4. CASE Step
  <2>1. /\ got # 0 /\ delivered' = got /\ frameCount' = frameCount + 1 /\ got' = 0
        /\ queue' = queue /\ dropped' = dropped
    BY <1>4 DEF Step
  <2>2. BusTypeOK'
    BY <1>1, <2>1 DEF BusTypeOK
  <2>3. QueueInOrder' /\ GotInOrder'
    BY <1>1, <2>1 DEF QueueInOrder, GotInOrder, BusTypeOK
  <2>4. HandInOrder'
    BY <1>1, <2>1 DEF HandInOrder, BusTypeOK
  <2>5. NothingLostSilently'
    BY <1>1, <1>2, <2>1, SMTT(30) DEF NothingLostSilently, BusTypeOK
  <2> QED
    BY <1>1, <2>2, <2>3, <2>4, <2>5
<1> QED
  BY <1>3, <1>4 DEF Consume

LEMMA PathInvKept ==
  ASSUME NEW l, Threads = {l}
  PROVE  PathInv /\ [IngestionNext]_allVars => PathInv'
<1> SUFFICES ASSUME PathInv, [IngestionNext]_allVars PROVE PathInv'
  OBVIOUS
<1>1. CASE \E t \in Threads : SubmitFrame(t) \/ Publish(t)
  BY <1>1, SubmitFrameStep, PublishStep
<1>2. CASE Consume
  BY <1>2, ConsumeStep
<1>3. CASE UNCHANGED allVars
  BY <1>3 DEF allVars, vars, busVars, PathInv, BusTypeOK, QueueInOrder, GotInOrder, HandInOrder,
              NothingLostSilently, InFlight
<1> QED
  BY <1>1, <1>2, <1>3 DEF IngestionNext

-----------------------------------------------------------------------------
\* With one publisher the queue keeps its size, and every pair emitted was
\* processed, is counted as dropped, or is on its way.
THEOREM BusTheorem ==
  ASSUME NEW l, Threads = {l}
  PROVE  IngestionSafety => []BusInv
<1>1. IngestionInit => PathInv
  BY InitPathInv
<1>2. PathInv /\ [IngestionNext]_allVars => PathInv'
  BY PathInvKept
<1>3. PathInv => BusInv
  BY DEF PathInv, BusInv
<1> QED
  BY <1>1, <1>2, <1>3, PTL DEF IngestionSafety

\* What a step of the path is to its promise: it emits the next pair, it hands
\* over a newer one than before, or it goes unnoticed.
LEMMA StepOfLatest ==
  ASSUME NEW l, Threads = {l}, PathInv, [IngestionNext]_allVars
  PROVE  [Latest!Next]_<<pair.idx, delivered, frameCount>>
<1> USE DEF PathInv
<1>1. CASE SubmitFrame(l)
  <2>1. UNCHANGED <<delivered, frameCount>> /\ (pair'.idx = pair.idx \/ pair'.idx = pair.idx + 1)
    BY <1>1, SubmitNumbers DEF SubmitFrame
  <2> QED
    BY <2>1 DEF Latest!Next, Latest!Emit
<1>2. CASE Publish(l) \/ Get \/ Drain
  BY <1>2 DEF Publish, Put, Evict, Retry, Get, Drain, vars
<1>3. CASE Step
  <2>1. delivered' = got /\ frameCount' = frameCount + 1 /\ got # 0 /\ pair' = pair
    BY <1>3 DEF Step, vars
  <2>2. got \in (delivered + 1)..pair.idx
    BY <2>1 DEF GotInOrder, BusTypeOK
  <2> QED
    BY <2>1, <2>2 DEF Latest!Next, Latest!Deliver
<1>4. CASE UNCHANGED allVars
  BY <1>4 DEF allVars, vars, busVars
<1> QED
  BY <1>1, <1>2, <1>3, <1>4 DEF IngestionNext, Consume

\* With one publisher the path implements the safety of LatestWins: pairs may be
\* skipped, but none is processed again or after a newer one.
THEOREM LatestWinsTheorem ==
  ASSUME NEW l, Threads = {l}
  PROVE  IngestionSafety => Latest!Init /\ [][Latest!Next]_<<pair.idx, delivered, frameCount>>
<1>1. IngestionInit => PathInv /\ Latest!Init
  <2> SUFFICES ASSUME IngestionInit PROVE PathInv /\ Latest!Init
    OBVIOUS
  <2>1. pair.idx = 0 /\ delivered = 0 /\ frameCount = 0
    BY DEF IngestionInit, Init
  <2> QED
    BY <2>1, InitPathInv DEF Latest!Init
<1>2. PathInv /\ [IngestionNext]_allVars => PathInv'
  BY PathInvKept
<1>3. PathInv /\ [IngestionNext]_allVars => [Latest!Next]_<<pair.idx, delivered, frameCount>>
  BY StepOfLatest
<1> QED
  BY <1>1, <1>2, <1>3, PTL DEF IngestionSafety

\* In particular the pipeline is handed pairs in the order they were emitted.
THEOREM InOrderTheorem ==
  ASSUME NEW l, Threads = {l}
  PROVE  IngestionSafety => InOrderDelivery
<1>1. IngestionInit => PathInv
  BY InitPathInv
<1>2. PathInv /\ [IngestionNext]_allVars => PathInv'
  BY PathInvKept
<1>3. PathInv /\ [IngestionNext]_allVars => [frameCount' # frameCount => delivered' > delivered]_allVars
  <2> SUFFICES ASSUME PathInv, [IngestionNext]_allVars, frameCount' # frameCount
               PROVE  delivered' > delivered
    OBVIOUS
  <2>1. Latest!Deliver
    BY StepOfLatest DEF Latest!Next, Latest!Emit
  <2> QED
    BY <2>1 DEF Latest!Deliver, PathInv, BusTypeOK
<1> QED
  BY <1>1, <1>2, <1>3, PTL DEF IngestionSafety, InOrderDelivery

-----------------------------------------------------------------------------
(* The perception loop of the producer.                                       *)

\* What is cached is what the gate compares with, unless a model raised; and the
\* gate has aged since it did.
CachedIsReference ==
  \A c \in Seen :
    /\ c \notin objFailed => wireObj[c] = objSig[c]
    /\ c \notin poseFailed => wirePerson[c] = poseSig[c]
    /\ c \in objFailed => objAge[c] > 0

\* The inductive invariant.
TickInv == Loop!LoopInv /\ CachedIsReference

LEMMA InitTickInv == ASSUME Loop!LoopAssumption PROVE Loop!LoopInit => TickInv
  BY DEF Loop!LoopAssumption, Loop!LoopInit, TickInv, Loop!LoopInv, Loop!LoopTypeOK, Loop!ObjectsCurrent, Loop!PersonsCurrent,
         Loop!FailureFades, CachedIsReference

\* What the gate answers: a camera that is not asked for looks the same and is
\* not due.
LEMMA AskedFacts ==
  ASSUME Loop!LoopAssumption, TickInv, Loop!Taken
  PROVE  /\ Loop!ObjCams \subseteq Loop!Fresh /\ Loop!PoseCams \subseteq Loop!Fresh /\ Loop!Fresh \subseteq Seen
         /\ \A c \in Loop!Fresh : frame'[c] \in Levels /\ ~Loop!Changed(frame'[c], frame'[c])
         /\ \A c \in Loop!Fresh \ Loop!ObjCams : objAge[c] < Refresh /\ ~Loop!Changed(objSig[c], frame'[c])
         /\ \A c \in Loop!Fresh \ Loop!PoseCams : tick' = 0 => ~Loop!Changed(poseSig[c], frame'[c])
<1>1. frame' \in [Seen -> Levels \cup {Loop!None}] /\ objAge \in [Seen -> 0..Refresh + 1]
  BY DEF TickInv, Loop!LoopInv, Loop!LoopTypeOK, Loop!Taken
<1>2. Loop!ObjCams \subseteq Loop!Fresh /\ Loop!PoseCams \subseteq Loop!Fresh /\ Loop!Fresh \subseteq Seen
  BY DEF Loop!ObjCams, Loop!PoseCams, Loop!Fresh
<1>3. ASSUME NEW c \in Loop!Fresh PROVE frame'[c] \in Levels /\ ~Loop!Changed(frame'[c], frame'[c])
  <2>1. c \in Seen /\ frame'[c] \in Levels
    BY <1>1 DEF Loop!Fresh
  <2>2. frame'[c] \in Nat /\ Delta \in Nat
    BY <2>1 DEF Loop!LoopAssumption
  <2> DEFINE f == frame'[c]
  <2>3. f \in Nat
    BY <2>2
  <2> HIDE DEF f
  <2>4. ~Loop!Changed(f, f)
    BY <2>2, <2>3 DEF Loop!Changed, Loop!None
  <2> QED
    BY <2>1, <2>4 DEF f
<1>4. ASSUME NEW c \in Loop!Fresh \ Loop!ObjCams PROVE objAge[c] < Refresh /\ ~Loop!Changed(objSig[c], frame'[c])
  <2>1. ~Loop!Due(objSig[c], objAge[c], frame'[c]) /\ c \in Seen
    BY DEF Loop!ObjCams, Loop!Fresh
  <2> QED
    BY <1>1, <2>1 DEF Loop!Due, Loop!LoopAssumption
<1>5. ASSUME NEW c \in Loop!Fresh \ Loop!PoseCams, tick' = 0 PROVE ~Loop!Changed(poseSig[c], frame'[c])
  BY <1>5 DEF Loop!PoseCams, Loop!Due
<1> QED
  BY <1>2, <1>3, <1>4, <1>5

\* The types, and the ages of the references.
LEMMA TakenFacts ==
  ASSUME Loop!LoopAssumption, TickInv, Loop!Taken
  PROVE  /\ frame' \in [Seen -> Levels \cup {Loop!None}] /\ tick' \in 0..PoseEvery - 1
         /\ objSig' \in [Seen -> Levels \cup {Loop!None}] /\ objAge' \in [Seen -> 0..Refresh + 1]
         /\ poseSig' \in [Seen -> Levels \cup {Loop!None}] /\ poseAge' \in [Seen -> 0..Refresh + 1]
         /\ \A c \in Loop!ObjCams : objSig'[c] = frame'[c] /\ objAge'[c] = 1
         /\ \A c \in Seen \ Loop!ObjCams : objSig'[c] = objSig[c] /\ objAge'[c] = Loop!Older(objAge[c])
         /\ \A c \in Loop!PoseCams : poseSig'[c] = frame'[c]
         /\ \A c \in Seen \ Loop!PoseCams : poseSig'[c] = poseSig[c]
<1> USE DEF Loop!LoopAssumption
<1>1. /\ frame' \in [Seen -> Levels \cup {Loop!None}]
      /\ objSig \in [Seen -> Levels \cup {Loop!None}] /\ objAge \in [Seen -> 0..Refresh + 1]
      /\ poseSig \in [Seen -> Levels \cup {Loop!None}] /\ poseAge \in [Seen -> 0..Refresh + 1]
      /\ tick \in 0..PoseEvery - 1
  BY DEF TickInv, Loop!LoopInv, Loop!LoopTypeOK, Loop!Taken
<1>2. Loop!ObjCams \subseteq Seen /\ Loop!PoseCams \subseteq Seen
  BY AskedFacts
<1>3. tick' \in 0..PoseEvery - 1
  BY <1>1 DEF Loop!Taken
<1>4. \A c \in Seen : objSig'[c] = Loop!Signature(Loop!ObjCams, objSig, c) /\ objAge'[c] = Loop!Age(Loop!ObjCams, objAge, c)
  BY DEF Loop!Taken
<1>5. \A c \in Seen : poseSig'[c] = Loop!Signature(Loop!PoseCams, poseSig, c) /\ poseAge'[c] = Loop!Age(Loop!PoseCams, poseAge, c)
  BY DEF Loop!Taken
<1>6. \A c \in Seen : /\ Loop!Age(Loop!ObjCams, objAge, c) \in 0..Refresh + 1
                         /\ Loop!Age(Loop!PoseCams, poseAge, c) \in 0..Refresh + 1
  BY <1>1 DEF Loop!Age, Loop!Older
<1>7. \A c \in Seen : /\ Loop!Signature(Loop!ObjCams, objSig, c) \in Levels \cup {Loop!None}
                         /\ Loop!Signature(Loop!PoseCams, poseSig, c) \in Levels \cup {Loop!None}
  BY <1>1 DEF Loop!Signature
<1>8. objSig' \in [Seen -> Levels \cup {Loop!None}] /\ poseSig' \in [Seen -> Levels \cup {Loop!None}]
  BY <1>7 DEF Loop!Taken
<1>9. objAge' \in [Seen -> 0..Refresh + 1] /\ poseAge' \in [Seen -> 0..Refresh + 1]
  BY <1>6 DEF Loop!Taken
<1>10. \A c \in Loop!ObjCams : objSig'[c] = frame'[c] /\ objAge'[c] = 1
  BY <1>2, <1>4 DEF Loop!Signature, Loop!Age, Loop!Older
<1>11. \A c \in Seen \ Loop!ObjCams : objSig'[c] = objSig[c] /\ objAge'[c] = Loop!Older(objAge[c])
  BY <1>4 DEF Loop!Signature, Loop!Age
<1>12. /\ \A c \in Loop!PoseCams : poseSig'[c] = frame'[c]
       /\ \A c \in Seen \ Loop!PoseCams : poseSig'[c] = poseSig[c]
  BY <1>2, <1>5 DEF Loop!Signature
<1> QED
  BY <1>1, <1>3, <1>8, <1>9, <1>10, <1>11, <1>12

-----------------------------------------------------------------------------
(* The steps.                                                                *)

LEMMA EmitStep == ASSUME Loop!LoopAssumption, TickInv, NEW posed \in BOOLEAN, Loop!Emit(posed) PROVE TickInv'
<1> USE DEF Loop!LoopAssumption
<1>1. Loop!Taken
  BY DEF Loop!Emit
<1>2. /\ \A c \in Loop!ObjCams : wireObj'[c] = frame'[c]
      /\ \A c \in Seen \ Loop!ObjCams : wireObj'[c] = wireObj[c]
  BY <1>1, AskedFacts DEF Loop!Emit, Loop!Cached
<1>3. /\ \A c \in Loop!PoseCams : wirePerson'[c] = IF posed THEN frame'[c] ELSE wirePerson[c]
      /\ \A c \in Seen \ Loop!PoseCams : wirePerson'[c] = wirePerson[c]
  BY <1>1, AskedFacts DEF Loop!Emit, Loop!Cached
<1>4. emitted' = Loop!Fresh /\ objFailed' = objFailed \ Loop!ObjCams
  BY DEF Loop!Emit
<1>5. poseFailed' = IF posed THEN poseFailed \ Loop!PoseCams ELSE poseFailed \cup Loop!PoseCams
  BY DEF Loop!Emit
<1>6. Loop!LoopTypeOK'
  <2>1. /\ wireObj \in [Seen -> Levels \cup {Loop!None}] /\ wirePerson \in [Seen -> Levels \cup {Loop!None}]
        /\ objFailed \subseteq Seen /\ poseFailed \subseteq Seen
    BY DEF TickInv, Loop!LoopInv, Loop!LoopTypeOK
  <2>2. /\ \A c \in Seen : Loop!Cached(Loop!ObjCams, wireObj, c) \in Levels \cup {Loop!None}
        /\ \A c \in Seen : Loop!Cached(Loop!PoseCams, wirePerson, c) \in Levels \cup {Loop!None}
    BY <1>1, <2>1, AskedFacts DEF Loop!Cached
  <2>3. wireObj' \in [Seen -> Levels \cup {Loop!None}] /\ wirePerson' \in [Seen -> Levels \cup {Loop!None}]
    BY <2>1, <2>2 DEF Loop!Emit
  <2>4. emitted' \subseteq {c \in Seen : frame'[c] # Loop!None}
    BY <1>4 DEF Loop!Fresh
  <2>5. objFailed' \subseteq Seen /\ poseFailed' \subseteq Seen
    BY <1>1, <1>4, <1>5, <2>1, AskedFacts
  <2> QED
    BY <1>1, <2>3, <2>4, <2>5, TakenFacts DEF Loop!LoopTypeOK
<1>7. CachedIsReference'
  <2> SUFFICES ASSUME NEW c \in Seen
               PROVE  /\ c \notin objFailed' => wireObj'[c] = objSig'[c]
                      /\ c \notin poseFailed' => wirePerson'[c] = poseSig'[c]
                      /\ c \in objFailed' => objAge'[c] > 0
    BY DEF CachedIsReference
  <2>1. c \notin objFailed' => wireObj'[c] = objSig'[c]
    BY <1>1, <1>2, <1>4, TakenFacts DEF TickInv, CachedIsReference
  <2>2. c \notin poseFailed' => wirePerson'[c] = poseSig'[c]
    BY <1>1, <1>3, <1>5, TakenFacts DEF TickInv, CachedIsReference
  <2>3. c \in objFailed' => objAge'[c] > 0
    <3>1. objAge[c] \in 0..Refresh + 1
      BY DEF TickInv, Loop!LoopInv, Loop!LoopTypeOK
    <3> QED
      BY <1>1, <1>4, <3>1, TakenFacts DEF TickInv, CachedIsReference, Loop!Older
  <2> QED
    BY <2>1, <2>2, <2>3
<1>8. ASSUME NEW c \in emitted'
      PROVE  /\ objAge'[c] <= Refresh
             /\ Loop!Changed(wireObj'[c], frame'[c]) => c \in objFailed'
             /\ c \in objFailed' => objAge'[c] \in 2..Refresh
             /\ tick' = 0 /\ Loop!Changed(wirePerson'[c], frame'[c]) => c \in poseFailed'
  <2>1. c \in Loop!Fresh /\ c \in Seen /\ objAge[c] \in 0..Refresh + 1
    BY <1>1, <1>4, AskedFacts DEF TickInv, Loop!LoopInv, Loop!LoopTypeOK
  <2>2. CASE c \in Loop!ObjCams
    <3>1. c \notin objFailed' /\ objAge'[c] = 1 /\ ~Loop!Changed(wireObj'[c], frame'[c])
      BY <1>1, <1>2, <1>4, <2>1, <2>2, AskedFacts, TakenFacts
    <3> HIDE DEF Loop!Changed
    <3>2. tick' = 0 /\ Loop!Changed(wirePerson'[c], frame'[c]) => c \in poseFailed'
      BY <1>1, <1>3, <1>5, <2>1, AskedFacts DEF TickInv, CachedIsReference
    <3> QED
      BY <3>1, <3>2
  <2>3. CASE c \notin Loop!ObjCams
    <3>1. objAge'[c] = objAge[c] + 1 /\ objAge'[c] <= Refresh
      BY <1>1, <2>1, <2>3, AskedFacts, TakenFacts DEF Loop!Older
    <3>2. Loop!Changed(wireObj'[c], frame'[c]) => c \in objFailed'
      BY <1>1, <1>2, <1>4, <2>1, <2>3, AskedFacts DEF TickInv, CachedIsReference
    <3>3. c \in objFailed' => objAge'[c] \in 2..Refresh
      BY <1>4, <2>1, <3>1 DEF TickInv, CachedIsReference
    <3>4. tick' = 0 /\ Loop!Changed(wirePerson'[c], frame'[c]) => c \in poseFailed'
      BY <1>1, <1>3, <1>5, <2>1, AskedFacts DEF TickInv, CachedIsReference
    <3> QED
      BY <3>1, <3>2, <3>3, <3>4
  <2> QED
    BY <2>2, <2>3
<1>9. Loop!ObjectsCurrent' /\ Loop!PersonsCurrent' /\ Loop!FailureFades'
  BY <1>8 DEF Loop!ObjectsCurrent, Loop!PersonsCurrent, Loop!FailureFades, Loop!Changed
<1> QED
  BY <1>6, <1>7, <1>9 DEF TickInv, Loop!LoopInv

LEMMA FailDetectStep == ASSUME Loop!LoopAssumption, TickInv, Loop!FailDetect PROVE TickInv'
<1>1. Loop!Taken /\ emitted' = {} /\ objFailed' = objFailed \cup Loop!ObjCams /\ poseFailed' = poseFailed \cup Loop!PoseCams
  BY DEF Loop!FailDetect
<1>2. wireObj' = wireObj /\ wirePerson' = wirePerson
  BY DEF Loop!FailDetect
<1>3. Loop!LoopTypeOK'
  <2>1. /\ wireObj' \in [Seen -> Levels \cup {Loop!None}] /\ wirePerson' \in [Seen -> Levels \cup {Loop!None}]
        /\ objFailed' \subseteq Seen /\ poseFailed' \subseteq Seen
    BY <1>1, <1>2, AskedFacts DEF TickInv, Loop!LoopInv, Loop!LoopTypeOK
  <2> QED
    BY <1>1, <2>1, TakenFacts DEF Loop!LoopTypeOK
<1>4. CachedIsReference'
  <2> SUFFICES ASSUME NEW c \in Seen
               PROVE  /\ c \notin objFailed' => wireObj'[c] = objSig'[c]
                      /\ c \notin poseFailed' => wirePerson'[c] = poseSig'[c]
                      /\ c \in objFailed' => objAge'[c] > 0
    BY DEF CachedIsReference
  <2>1. /\ c \notin objFailed' => wireObj'[c] = objSig'[c]
        /\ c \notin poseFailed' => wirePerson'[c] = poseSig'[c]
    BY <1>1, <1>2, TakenFacts DEF TickInv, CachedIsReference
  <2>2. c \in objFailed' => objAge'[c] > 0
    <3>1. objAge[c] \in 0..Refresh + 1 /\ Refresh \in Nat
      BY DEF TickInv, Loop!LoopInv, Loop!LoopTypeOK, Loop!LoopAssumption
    <3> QED
      BY <1>1, <3>1, TakenFacts DEF TickInv, CachedIsReference, Loop!Older
  <2> QED
    BY <2>1, <2>2
<1>5. Loop!ObjectsCurrent' /\ Loop!PersonsCurrent' /\ Loop!FailureFades'
  BY <1>1 DEF Loop!ObjectsCurrent, Loop!PersonsCurrent, Loop!FailureFades
<1> QED
  BY <1>3, <1>4, <1>5 DEF TickInv, Loop!LoopInv

LEMMA TickInvKept == ASSUME Loop!LoopAssumption PROVE TickInv /\ [Loop!LoopNext]_perceptionVars => TickInv'
<1> SUFFICES ASSUME TickInv, [Loop!LoopNext]_perceptionVars PROVE TickInv'
  OBVIOUS
<1>1. CASE \E posed \in BOOLEAN : Loop!Emit(posed)
  BY <1>1, EmitStep
<1>2. CASE Loop!FailDetect
  BY <1>2, FailDetectStep
<1>3. CASE UNCHANGED perceptionVars
  BY <1>3 DEF perceptionVars, TickInv, Loop!LoopInv, Loop!LoopTypeOK, Loop!ObjectsCurrent, Loop!PersonsCurrent,
              Loop!FailureFades, CachedIsReference, Loop!Changed
<1> QED
  BY <1>1, <1>2, <1>3 DEF Loop!LoopNext

\* What the producer sends with a frame was inferred no longer than the refresh
\* interval ago, on a scene that looks the same unless a model raised; and after
\* a failure it is corrected within that interval.
THEOREM LoopTheorem == PointsModeSpec => []LoopInv
<1>1. PointsModeInit => TickInv
  BY LoopConstants, InitTickInv DEF PointsModeInit
<1>2. TickInv /\ [PointsModeNext]_<<part, allVars, wireVars, perceptionVars>> => TickInv'
  <2>1. [PointsModeNext]_<<part, allVars, wireVars, perceptionVars>> => [Loop!LoopNext]_perceptionVars
    BY DEF PointsModeNext
  <2> QED
    BY <2>1, LoopConstants, TickInvKept
<1>3. TickInv => LoopInv
  BY DEF TickInv, LoopInv
<1> QED
  BY <1>1, <1>2, <1>3, PTL DEF PointsModeSpec

-----------------------------------------------------------------------------
(* The points wire.                                                          *)

AllSets == [cam : Cameras, ts : Nat, seq : Nat, life : Nat]
Datagrams == [set : AllSets, i : Nat, n : Nat]
Groups == [set : AllSets, parts : SUBSET Nat]

Times(S) == {s.ts : s \in S} \cup {0}
BetweenTimes(S, a, b) == {s \in S : a < s.ts /\ s.ts < b}
TimesUpTo(S, k) ==
  /\ \A s \in S : s.ts \in 1..k
  /\ \A t \in 1..k : \E s \in S : s.ts = t
  /\ \A s, t \in S : s.ts = t.ts => s = t

\* In each life of the producer the numbers of a camera's sets advance with the
\* capture times; a new life falls behind.
Numbered(S) ==
  \A s, t \in S : s.ts < t.ts =>
    /\ s.life <= t.life /\ t.seq - s.seq <= t.ts - s.ts
    /\ s.life = t.life => t.seq - s.seq = t.ts - s.ts

SetsIn(q) == {q[k] : k \in DOMAIN q}
InOrder(q) == \A k, l \in DOMAIN q : k < l => q[k].ts < q[l].ts
AllBefore(q, s) == \A k \in DOMAIN q : q[k].ts < s.ts
LastNumber(q) == IF q = <<>> THEN -1 ELSE q[Len(q)].seq

\* Of the sets L those between two of q, by their numbers, and those before one
\* of q.
BetweenIn(L, q) ==
  {s \in L : \E k, l \in DOMAIN q :
     q[k].life = s.life /\ q[l].life = s.life /\ q[k].seq < s.seq /\ s.seq < q[l].seq}
PassedIn(L, q) == {s \in L : \E k \in DOMAIN q : s.ts < q[k].ts}

\* Of the sets S those before s are in q or among the lost sets L.
CountedUp(S, L, q, s) ==
  /\ L \subseteq S /\ SetsIn(q) \subseteq S /\ s \in S /\ L \cap SetsIn(q) = {}
  /\ \A x \in S : x.ts < s.ts => x \in L \/ x \in SetsIn(q)

WireTypes ==
  /\ seq \in [Cameras -> Nat] /\ life \in Nat
  /\ sent \in [Cameras -> SUBSET AllSets] /\ arrived \in [Cameras -> SUBSET AllSets]
  /\ wire \in Seq(Datagrams) /\ groups \in Seq(Groups)
  /\ handed \in [Cameras -> Seq(AllSets)]
  /\ lastSeq \in [Cameras -> Int] /\ gaps \in [Cameras -> Nat]

\* The sets of a camera are one of every capture time so far.
SentOf(c) ==
  LET k == Points!Newest(c)
  IN  /\ k \in Nat /\ k <= MaxSets /\ seq[c] <= k /\ arrived[c] \subseteq sent[c]
      /\ TimesUpTo(sent[c], k) /\ Numbered(sent[c])
      /\ \A s \in sent[c] :
           /\ s.cam = c /\ s.life <= life /\ s.seq < s.ts
           /\ seq[c] - s.seq <= k + 1 - s.ts
           /\ s.life = life => seq[c] - s.seq = k + 1 - s.ts
SentInv == \A c \in Cameras : SentOf(c)

\* The datagrams of a set are next to one another, and sets are in the order of
\* their capture.
WireInv ==
  /\ \A k \in DOMAIN wire : wire[k].set \in sent[wire[k].set.cam] /\ wire[k].i \in 1..wire[k].n
  /\ \A k, l \in DOMAIN wire : k < l =>
       /\ wire[k].set.cam = wire[l].set.cam /\ wire[k].set # wire[l].set
            => wire[k].set.ts < wire[l].set.ts
       /\ wire[k].set = wire[l].set =>
            /\ wire[k].n = wire[l].n /\ wire[k].i # wire[l].i
            /\ \A m \in k..l : wire[m].set = wire[k].set

\* What there is of a set, on the wire and in the table.
WireParts(w, s) == {w[j].i : j \in {j \in DOMAIN w : w[j].set = s}}
GroupParts(q, s) == UNION {q[g].parts : g \in {g \in DOMAIN q : q[g].set = s}}
PartsOf(s) == WireParts(wire, s) \cup GroupParts(groups, s)

\* A group some of which is still under way is the last of the table, and that of
\* the next datagram.
GroupInv ==
  /\ Len(groups) <= MaxGroups
  /\ \A g, h \in DOMAIN groups : groups[g].set = groups[h].set => g = h
  /\ \A g \in DOMAIN groups : groups[g].set \in sent[groups[g].set.cam]
  /\ \A g \in DOMAIN groups, k \in DOMAIN wire : groups[g].set = wire[k].set =>
       /\ g = Len(groups) /\ wire[1].set = wire[k].set
       /\ groups[g].parts \subseteq 1..wire[k].n /\ wire[k].i \notin groups[g].parts

\* A set under way is one that arrives if nothing of it is missing.
WholeInv ==
  \A k \in DOMAIN wire :
    wire[k].set \in arrived[wire[k].set.cam] <=> PartsOf(wire[k].set) = 1..wire[k].n

\* What was handed over came before what is on the wire.
HandedOf(c) ==
  /\ SetsIn(handed[c]) = arrived[c] \ Points!OnWire(c) /\ InOrder(handed[c])
  /\ \A j \in DOMAIN wire : wire[j].set.cam = c => AllBefore(handed[c], wire[j].set)
  /\ lastSeq[c] = LastNumber(handed[c])
HandedInv == \A c \in Cameras : HandedOf(c)

\* The gap counter is between what it must and what it may count.
CountedOf(c) ==
  /\ Cardinality(BetweenIn(Points!Lost(c), handed[c])) <= gaps[c]
  /\ gaps[c] <= Cardinality(PassedIn(Points!Lost(c), handed[c]))
CountedInv == \A c \in Cameras : CountedOf(c)

\* The inductive invariant.
OrderInv ==
  WireTypes /\ SentInv /\ WireInv /\ GroupInv /\ WholeInv /\ HandedInv /\ CountedInv

LEMMA PointsConstantsFacts ==
  /\ Sizes \subseteq Nat \ {0} /\ MaxGroups \in Nat /\ MaxGroups >= 2
  /\ MaxSets \in Nat /\ MaxLives \in Nat
  BY PointsConstants DEF Points!PointsAssumption

LEMMA SameSize == ASSUME NEW S PROVE Points!Cardinality(S) = Cardinality(S)
  BY DEF Points!Cardinality, Cardinality

\* The newest of sets that have every capture time up to k.
LEMMA NewestIs ==
  ASSUME NEW S, NEW k \in Nat, TimesUpTo(S, k)
  PROVE  Points!Max(Times(S)) = k
<1> USE DEF TimesUpTo
<1> DEFINE T == Times(S)
<1>1. k \in T
  <2>1. CASE k = 0
    BY <2>1 DEF Times
  <2>2. CASE k # 0
    BY <2>2, k \in 1..k DEF Times
  <2> QED
    BY <2>1, <2>2
<1>2. \A t \in T : t \in Nat /\ t <= k
  BY DEF Times
<1> HIDE DEF T
<1>3. k \in T /\ \A t \in T : k >= t
  BY <1>1, <1>2
<1>4. \A x \in T : (\A t \in T : x >= t) => x = k
  BY <1>1, <1>2
<1>5. Points!Max(T) = k
  BY <1>3, <1>4 DEF Points!Max
<1> QED
  BY <1>5 DEF T

\* How many sets of a camera there are between two capture times.
LEMMA SetsBetween ==
  ASSUME NEW S, NEW k \in Nat, TimesUpTo(S, k),
         NEW a \in Nat, NEW b \in Nat, a < b, b <= k + 1
  PROVE  /\ IsFiniteSet(BetweenTimes(S, a, b))
         /\ Cardinality(BetweenTimes(S, a, b)) = b - a - 1
<1> USE DEF TimesUpTo
<1> DEFINE T == {s \in S : a < s.ts /\ s.ts < b}
           I == (a + 1)..(b - 1)
           f == [s \in T |-> s.ts]
<1>1. f \in [T -> I] /\ (\A s, t \in T : f[s] = f[t] => s = t) /\ \A t \in I : \E s \in T : f[s] = t
  <2>1. f \in [T -> I]
    OBVIOUS
  <2>2. ASSUME NEW t \in I PROVE \E s \in T : f[s] = t
    <3>1. t \in 1..k
      OBVIOUS
    <3>2. PICK s \in S : s.ts = t
      BY <3>1
    <3> QED
      BY <3>2
  <2> QED
    BY <2>1, <2>2
<1> HIDE DEF T, f, I
<1>2. f \in Injection(T, I) /\ f \in Surjection(T, I)
  BY <1>1 DEF Injection, Surjection, IsInjective
<1>3. IsFiniteSet(I) /\ Cardinality(I) = b - a - 1
  BY FS_Interval DEF I
<1>4. IsFiniteSet(T) /\ Cardinality(T) = Cardinality(I)
  BY <1>2, <1>3, FS_Injection
<1> QED
  BY <1>3, <1>4 DEF T, BetweenTimes

LEMMA SentTimes ==
  ASSUME NEW c \in Cameras, SentOf(c)
  PROVE  /\ Points!Newest(c) \in Nat /\ TimesUpTo(sent[c], Points!Newest(c))
         /\ IsFiniteSet(sent[c])
<1>1. Points!Newest(c) \in Nat /\ TimesUpTo(sent[c], Points!Newest(c))
  BY DEF SentOf, TimesUpTo
<1> DEFINE k == Points!Newest(c)
<1> HIDE DEF k
<1>2. k \in Nat /\ TimesUpTo(sent[c], k)
  BY <1>1 DEF k
<1>3. IsFiniteSet(BetweenTimes(sent[c], 0, k + 1))
  BY <1>2, SetsBetween
<1>4. BetweenTimes(sent[c], 0, k + 1) = sent[c]
  BY <1>2 DEF BetweenTimes, TimesUpTo
<1> QED
  BY <1>1, <1>3, <1>4

LEMMA InitOrderInv == Points!PointsInit => OrderInv
<1> SUFFICES ASSUME Points!PointsInit PROVE OrderInv
  OBVIOUS
<1> USE DEF Points!PointsInit
<1>1. WireTypes
  BY DEF WireTypes
<1>2. ASSUME NEW c \in Cameras PROVE SentOf(c)
  <2>1. sent[c] = {} /\ arrived[c] = {} /\ seq[c] = 0
    OBVIOUS
  <2>2. Points!Newest(c) = 0
    <3>1. TimesUpTo(sent[c], 0)
      BY <2>1 DEF TimesUpTo
    <3> QED
      BY <3>1, NewestIs DEF Points!Newest, Times
  <2> QED
    BY <2>1, <2>2, PointsConstantsFacts DEF SentOf, TimesUpTo, Numbered
<1>3. WireInv /\ GroupInv /\ WholeInv
  BY PointsConstantsFacts DEF WireInv, GroupInv, WholeInv
<1>4. ASSUME NEW c \in Cameras PROVE HandedOf(c)
  BY DEF HandedOf, Points!OnWire, SetsIn, InOrder, LastNumber
<1>5. ASSUME NEW c \in Cameras PROVE CountedOf(c)
  <2>1. Points!Lost(c) = {} /\ gaps[c] = 0
    BY DEF Points!Lost
  <2>2. BetweenIn({}, handed[c]) = {} /\ PassedIn({}, handed[c]) = {}
    BY DEF BetweenIn, PassedIn
  <2> QED
    <3>1. Cardinality({}) = 0
      BY FS_EmptySet
    <3> QED
      <4>1. BetweenIn(Points!Lost(c), handed[c]) = {} /\ PassedIn(Points!Lost(c), handed[c]) = {}
        BY <2>1, <2>2
      <4> HIDE DEF Points!PointsInit
      <4> QED
        BY <2>1, <3>1, <4>1 DEF CountedOf
<1> QED
  BY <1>1, <1>2, <1>3, <1>4, <1>5 DEF OrderInv, SentInv, HandedInv, CountedInv

-----------------------------------------------------------------------------
(* Handing over.                                                             *)

LEMMA TailFacts ==
  ASSUME NEW T, NEW w \in Seq(T), w # <<>>
  PROVE  /\ Len(w) \in Nat /\ Len(w) > 0 /\ DOMAIN w = 1..Len(w)
         /\ Head(w) = w[1] /\ 1 \in DOMAIN w /\ w[1] \in T
         /\ Tail(w) \in Seq(T) /\ DOMAIN Tail(w) = 1..(Len(w) - 1)
         /\ \A k \in 1..(Len(w) - 1) : Tail(w)[k] = w[k + 1]
  OBVIOUS

LEMMA NextDatagram ==
  ASSUME WireTypes, wire # <<>>, wire' = Tail(wire)
  PROVE  /\ Len(wire) \in Nat /\ Len(wire) > 0 /\ DOMAIN wire = 1..Len(wire)
         /\ Head(wire) = wire[1] /\ 1 \in DOMAIN wire
         /\ wire[1] \in Datagrams /\ wire[1].set \in AllSets /\ wire[1].set.cam \in Cameras
         /\ wire' \in Seq(Datagrams) /\ DOMAIN wire' = 1..(Len(wire) - 1)
         /\ \A k \in DOMAIN wire' : wire'[k] = wire[k + 1] /\ k + 1 \in DOMAIN wire /\ k \in Nat /\ k > 0
         /\ \A k \in DOMAIN wire : k = 1 \/ (k - 1 \in DOMAIN wire' /\ (k - 1) + 1 = k /\ wire'[k - 1] = wire[k])
<1>1. wire \in Seq(Datagrams)
  BY DEF WireTypes
<1> DEFINE n == Len(wire)
<1>2. /\ n \in Nat /\ n > 0 /\ DOMAIN wire = 1..n
      /\ Head(wire) = wire[1] /\ 1 \in DOMAIN wire /\ wire[1] \in Datagrams
      /\ wire' \in Seq(Datagrams) /\ DOMAIN wire' = 1..(n - 1)
      /\ \A k \in 1..(n - 1) : wire'[k] = wire[k + 1]
  BY <1>1, TailFacts
<1> HIDE DEF n
<1>3. wire[1].set \in AllSets /\ wire[1].set.cam \in Cameras
  BY <1>2 DEF Datagrams, AllSets
<1>4. \A k \in DOMAIN wire' : wire'[k] = wire[k + 1] /\ k + 1 \in DOMAIN wire /\ k \in Nat /\ k > 0
  BY <1>2
<1>5. ASSUME NEW k \in DOMAIN wire, k # 1
      PROVE  k - 1 \in DOMAIN wire' /\ (k - 1) + 1 = k /\ wire'[k - 1] = wire[k]
  <2>1. k - 1 \in 1..(n - 1) /\ (k - 1) + 1 = k
    BY <1>2, <1>5
  <2> QED
    BY <1>2, <2>1
<1> QED
  BY <1>2, <1>3, <1>4, <1>5 DEF n

LEMMA AppendFacts ==
  ASSUME NEW T, NEW q \in Seq(T), NEW s \in T
  PROVE  /\ Len(q) \in Nat /\ DOMAIN q = 1..Len(q) /\ (Len(q) = 0 => q = <<>>)
         /\ Append(q, s) \in Seq(T) /\ Append(q, s) # <<>>
         /\ Len(Append(q, s)) = Len(q) + 1
         /\ DOMAIN Append(q, s) = 1..(Len(q) + 1) /\ Append(q, s)[Len(q) + 1] = s
         /\ \A k \in 1..Len(q) : Append(q, s)[k] = q[k] /\ q[k] \in T
  OBVIOUS

\* One more set at the end of those handed over.
LEMMA AppendOrder ==
  ASSUME NEW q \in Seq(AllSets), NEW s \in AllSets, InOrder(q), AllBefore(q, s)
  PROVE  /\ InOrder(Append(q, s)) /\ SetsIn(Append(q, s)) = SetsIn(q) \cup {s}
         /\ LastNumber(Append(q, s)) = s.seq
<1> DEFINE n == Len(q)
           p == Append(q, s)
<1>1. /\ n \in Nat /\ DOMAIN q = 1..n /\ p # <<>> /\ Len(p) = n + 1 /\ DOMAIN p = 1..(n + 1)
      /\ p[n + 1] = s /\ \A k \in 1..n : p[k] = q[k] /\ q[k] \in AllSets
  BY AppendFacts
<1> HIDE DEF n, p
<1>2. InOrder(p)
  <2> SUFFICES ASSUME NEW k \in 1..(n + 1), NEW l \in 1..(n + 1), k < l PROVE p[k].ts < p[l].ts
    BY <1>1 DEF InOrder
  <2>1. k \in 1..n
    BY <1>1
  <2>2. CASE l = n + 1
    BY <1>1, <2>1, <2>2 DEF AllBefore
  <2>3. CASE l \in 1..n
    BY <1>1, <2>1, <2>3 DEF InOrder
  <2> QED
    BY <1>1, <2>2, <2>3
<1>3. SetsIn(p) = SetsIn(q) \cup {s}
  <2>1. \A x \in SetsIn(p) : x \in SetsIn(q) \cup {s}
    BY <1>1 DEF SetsIn
  <2>2. n + 1 \in 1..(n + 1) /\ 1..n \subseteq 1..(n + 1)
    BY <1>1
  <2>3. \A x \in SetsIn(q) \cup {s} : x \in SetsIn(p)
    BY <1>1, <2>2 DEF SetsIn
  <2> QED
    BY <2>1, <2>3
<1>4. LastNumber(p) = s.seq
  BY <1>1 DEF LastNumber
<1> QED
  BY <1>2, <1>3, <1>4 DEF p

LEMMA LaterNumber ==
  ASSUME NEW S \in SUBSET AllSets, NEW k, TimesUpTo(S, k), Numbered(S),
         NEW a \in S, NEW b \in S, a.life = b.life, a.seq < b.seq
  PROVE  a.ts < b.ts
<1>1. ~(b.ts < a.ts)
  BY DEF Numbered, AllSets
<1>2. a.ts # b.ts
  BY DEF TimesUpTo, AllSets
<1> QED
  BY <1>1, <1>2 DEF AllSets

LEMMA CountBound ==
  ASSUME NEW a \in Nat, NEW b \in Nat, a < b, NEW u \in Nat, NEW v \in Nat, v - u <= b - a
  PROVE  LET j == IF v > u + 1 THEN v - u - 1 ELSE 0
         IN  j \in Nat /\ j <= b - a - 1 /\ (v - u = b - a => j = b - a - 1)
  OBVIOUS

LEMMA CountedAppend ==
  ASSUME NEW S \in SUBSET AllSets, NEW k \in Nat, TimesUpTo(S, k), Numbered(S), IsFiniteSet(S),
         NEW L, NEW q \in Seq(AllSets), NEW s \in AllSets, InOrder(q), AllBefore(q, s),
         CountedUp(S, L, q, s), NEW m \in Nat, NEW j,
         j = IF LastNumber(q) # -1 /\ s.seq > LastNumber(q) + 1 THEN s.seq - LastNumber(q) - 1 ELSE 0,
         Cardinality(BetweenIn(L, q)) <= m, m <= Cardinality(PassedIn(L, q))
  PROVE  /\ Cardinality(BetweenIn(L, Append(q, s))) <= m + j
         /\ m + j <= Cardinality(PassedIn(L, Append(q, s)))
<1> DEFINE n == Len(q)
           h == q[n]
           p == Append(q, s)
           A == BetweenTimes(S, h.ts, s.ts)
           B == BetweenIn(L, q)
           B2 == BetweenIn(L, p)
           P == PassedIn(L, q)
           P2 == PassedIn(L, p)
<1>1. /\ n \in Nat /\ DOMAIN q = 1..n /\ DOMAIN p = 1..(n + 1) /\ (n = 0 => q = <<>>)
      /\ p[n + 1] = s /\ \A i \in 1..n : p[i] = q[i] /\ q[i] \in AllSets
  BY AppendFacts
<1>2. /\ L \subseteq S /\ s \in S /\ L \subseteq AllSets
      /\ (\A i \in 1..n : q[i] \in S /\ q[i] \notin L /\ q[i].ts < s.ts)
      /\ \A x \in S : x.ts < s.ts => x \in L \/ \E i \in 1..n : q[i] = x
  BY <1>1 DEF CountedUp, SetsIn, AllBefore
<1>3. s.ts \in Nat /\ s.seq \in Nat /\ s.life \in Nat
  BY DEF AllSets
<1> HIDE DEF n, p
<1>4. /\ IsFiniteSet(B) /\ IsFiniteSet(B2) /\ IsFiniteSet(P) /\ IsFiniteSet(P2)
      /\ Cardinality(B) \in Nat /\ Cardinality(B2) \in Nat
      /\ Cardinality(P) \in Nat /\ Cardinality(P2) \in Nat
  <2>1. B \in SUBSET S /\ B2 \in SUBSET S /\ P \in SUBSET S /\ P2 \in SUBSET S
    BY <1>2 DEF BetweenIn, PassedIn
  <2> HIDE DEF B, B2, P, P2
  <2>2. IsFiniteSet(B) /\ IsFiniteSet(B2) /\ IsFiniteSet(P) /\ IsFiniteSet(P2)
    BY <2>1, FS_Subset
  <2> QED
    BY <2>2, FS_CardinalityType
<1>5. Cardinality(B) <= m /\ m <= Cardinality(P)
  OBVIOUS
<1>6. CASE n = 0
  <2>1. B2 = {}
    <3> SUFFICES ASSUME NEW x \in B2 PROVE FALSE
      OBVIOUS
    <3>1. PICK i, l \in DOMAIN p : p[i].seq < x.seq /\ x.seq < p[l].seq
      BY DEF BetweenIn
    <3>2. p[i] = s /\ p[l] = s /\ x \in AllSets
      BY <1>1, <1>2, <1>6 DEF BetweenIn
    <3> QED
      BY <3>1, <3>2 DEF AllSets
  <2>2. j = 0 /\ P = {}
    BY <1>1, <1>6 DEF LastNumber, PassedIn
  <2> HIDE DEF B, B2, P, P2
  <2>3. m = 0 /\ Cardinality(B2) = 0
    BY <1>5, <2>1, <2>2, FS_EmptySet
  <2> QED
    BY <1>4, <2>2, <2>3 DEF B2, P2, p
<1>7. CASE n # 0
  <2>1. /\ n \in 1..n /\ h \in AllSets /\ h \in S /\ h \notin L /\ h.ts < s.ts
        /\ h.ts \in Nat /\ h.seq \in Nat /\ h.life \in Nat
    BY <1>1, <1>2, <1>7 DEF AllSets
  <2>2. LastNumber(q) = h.seq
    BY <1>1, <2>1 DEF LastNumber, n
  <2>3. \A i \in 1..n : i = n \/ q[i].ts < h.ts
    BY <1>1, <2>1 DEF InOrder
  <2>4. \A i \in 1..n : q[i].ts <= h.ts /\ q[i].ts \in Nat
    <3> SUFFICES ASSUME NEW i \in 1..n PROVE q[i].ts <= h.ts /\ q[i].ts \in Nat
      OBVIOUS
    <3>1. q[i].ts \in Nat
      BY <1>1 DEF AllSets
    <3> HIDE DEF h
    <3>2. i = n => q[i] = h
      BY DEF h
    <3> QED
      BY <2>1, <2>3, <3>1, <3>2
  <2>5. \A i \in 1..n : q[i] = h \/ q[i].ts < h.ts
    BY <2>3
  <2> HIDE DEF h
  <2>6. s.ts <= k + 1
    BY <1>2, <1>3 DEF TimesUpTo
  <2>7. IsFiniteSet(A) /\ Cardinality(A) = s.ts - h.ts - 1
    BY <1>3, <2>1, <2>6, SetsBetween
  <2>8. ASSUME NEW x \in A PROVE x \in L /\ h.ts < x.ts /\ x.ts < s.ts /\ x.ts \in Nat
    <3>1. x \in S /\ h.ts < x.ts /\ x.ts < s.ts /\ x.ts \in Nat
      BY DEF BetweenTimes, AllSets
    <3>2. x \in L \/ \E i \in 1..n : q[i] = x
      BY <1>2, <3>1
    <3> QED
      BY <2>1, <2>4, <3>1, <3>2
  <2>9. \A x \in P : x \in P2 /\ x \notin A
    <3> SUFFICES ASSUME NEW x \in P PROVE x \in P2 /\ x \notin A
      OBVIOUS
    <3>1. PICK i \in 1..n : x.ts < q[i].ts
      BY <1>1 DEF PassedIn
    <3>2. x \in L /\ x.ts \in Nat
      BY <1>2 DEF PassedIn, AllSets
    <3>3. x \in P2
      BY <1>1, <3>1, <3>2 DEF PassedIn
    <3>4. ~(h.ts < x.ts)
      BY <2>1, <2>4, <3>1, <3>2
    <3> HIDE DEF P, P2, A
    <3> QED
      BY <2>8, <3>3, <3>4
  <2>10. \A x \in A : x \in P2
    <3> SUFFICES ASSUME NEW x \in A PROVE x \in P2
      OBVIOUS
    <3>1. n + 1 \in DOMAIN p /\ x.ts < p[n + 1].ts /\ x \in L
      BY <1>1, <2>8
    <3> QED
      BY <3>1 DEF PassedIn
  <2>11. \A x \in B2 : x \in B \/ (h.life = s.life /\ x \in A)
    <3> SUFFICES ASSUME NEW x \in B2 PROVE x \in B \/ (h.life = s.life /\ x \in A)
      OBVIOUS
    <3>1. x \in L /\ x \in S /\ x \in AllSets /\ x.ts \in Nat /\ x.seq \in Nat /\ x.life \in Nat
      BY <1>2 DEF BetweenIn, AllSets
    <3>2. PICK i, l \in 1..(n + 1) :
            p[i].life = x.life /\ p[l].life = x.life /\ p[i].seq < x.seq /\ x.seq < p[l].seq
      BY <1>1 DEF BetweenIn
    <3>3. CASE i \in 1..n /\ l \in 1..n
      <4>1. /\ i \in DOMAIN q /\ l \in DOMAIN q
            /\ q[i].life = x.life /\ q[l].life = x.life /\ q[i].seq < x.seq /\ x.seq < q[l].seq
        BY <1>1, <3>2, <3>3
      <4> QED
        BY <3>1, <4>1 DEF BetweenIn
    <3>4. CASE i = n + 1
      <4>1. s.ts < x.ts
        <5>1. s.life = x.life /\ s.seq < x.seq
          BY <1>1, <3>2, <3>4
        <5> QED
          BY <1>2, <3>1, <5>1, LaterNumber
      <4>2. p[l] \in S /\ p[l].ts \in Nat /\ p[l].ts <= s.ts
        <5>1. CASE l = n + 1
          BY <1>1, <1>2, <1>3, <5>1
        <5>2. CASE l \in 1..n
          <6>1. p[l] \in S /\ p[l] \in AllSets /\ p[l].ts < s.ts
            BY <1>1, <1>2, <5>2
          <6>2. p[l].ts \in Nat
            BY <6>1 DEF AllSets
          <6> QED
            BY <1>3, <6>1, <6>2
        <5> QED
          BY <1>1, <5>1, <5>2
      <4>3. x.ts < p[l].ts
        BY <3>1, <3>2, <4>2, LaterNumber
      <4> QED
        BY <1>3, <3>1, <4>1, <4>2, <4>3
    <3>5. CASE l = n + 1 /\ i \in 1..n
      <4>1. /\ q[i] \in S /\ q[i] \in AllSets /\ q[i].life = s.life /\ x.life = s.life
            /\ x.seq < s.seq /\ q[i].seq < x.seq /\ i \in DOMAIN q /\ n \in DOMAIN q
        BY <1>1, <1>2, <2>1, <3>2, <3>5
      <4>2. x.ts < s.ts
        BY <1>2, <3>1, <4>1, LaterNumber
      <4>3. h.life = s.life
        <5>1. h.life <= s.life
          BY <1>2, <2>1 DEF Numbered
        <5>2. q[i].life <= h.life
          <6>1. CASE q[i] = h
            BY <2>1, <6>1
          <6>2. CASE q[i].ts < h.ts
            BY <2>1, <4>1, <6>2 DEF Numbered
          <6> QED
            BY <2>5, <3>5, <6>1, <6>2
        <5> QED
          BY <1>3, <2>1, <4>1, <5>1, <5>2
      <4>4. x.ts # h.ts
        BY <2>1, <3>1 DEF TimesUpTo
      <4>5. CASE h.ts < x.ts
        BY <3>1, <4>2, <4>3, <4>5 DEF BetweenTimes
      <4>6. CASE x.ts < h.ts
        <5>1. h.seq - x.seq = h.ts - x.ts
          BY <2>1, <3>1, <4>1, <4>3, <4>6 DEF Numbered
        <5>2. x.seq < h.seq /\ q[n] = h
          <6>1. x.seq < h.seq
            BY <2>1, <3>1, <4>6, <5>1, SMTT(30)
          <6> QED
            BY <6>1 DEF h
        <5>3. /\ q[i].life = x.life /\ q[n].life = x.life
              /\ q[i].seq < x.seq /\ x.seq < q[n].seq
          BY <4>1, <4>3, <5>2
        <5> QED
          BY <3>1, <4>1, <5>3 DEF BetweenIn
      <4> QED
        BY <2>1, <3>1, <4>4, <4>5, <4>6
    <3> QED
      BY <1>1, <3>3, <3>4, <3>5
  <2>12. s.seq - h.seq <= s.ts - h.ts /\ (h.life = s.life => s.seq - h.seq = s.ts - h.ts)
    BY <1>2, <2>1 DEF Numbered
  <2>13. j = IF s.seq > h.seq + 1 THEN s.seq - h.seq - 1 ELSE 0
    BY <2>1, <2>2
  <2>14. j \in Nat /\ j <= s.ts - h.ts - 1 /\ (h.life = s.life => j = s.ts - h.ts - 1)
    <3>1. PICK t : t = IF s.seq > h.seq + 1 THEN s.seq - h.seq - 1 ELSE 0
      OBVIOUS
    <3>2. t \in Nat /\ t <= s.ts - h.ts - 1 /\ (s.seq - h.seq = s.ts - h.ts => t = s.ts - h.ts - 1)
      BY <1>3, <2>1, <2>12, <3>1, CountBound
    <3> QED
      BY <2>12, <2>13, <3>1, <3>2
  <2> HIDE DEF A, B, B2, P, P2
  <2>15. m + j <= Cardinality(P2)
    <3>1. P \cap A = {} /\ P \cup A \subseteq P2
      BY <2>9, <2>10
    <3>2. Cardinality(P \cup A) = Cardinality(P) + Cardinality(A) /\ Cardinality(A) \in Nat
      <4>1. Cardinality(P \cap A) = 0 /\ Cardinality(A) \in Nat
        BY <2>7, <3>1, FS_EmptySet, FS_CardinalityType
      <4>2. Cardinality(P \cup A) = Cardinality(P) + Cardinality(A) - Cardinality(P \cap A)
        BY <1>4, <2>7, FS_Union
      <4> QED
        BY <1>4, <4>1, <4>2
    <3>3. Cardinality(P \cup A) <= Cardinality(P2)
      BY <1>4, <3>1, FS_Subset
    <3>4. j \in Nat /\ j <= Cardinality(A)
      BY <2>7, <2>14
    <3> QED
      BY <1>4, <1>5, <3>2, <3>3, <3>4
  <2>16. Cardinality(B2) <= m + j
    <3>1. CASE h.life = s.life
      <4>1. IsFiniteSet(B \cap A) /\ Cardinality(B \cap A) \in Nat /\ Cardinality(A) \in Nat
        BY <1>4, <2>7, FS_Intersection, FS_CardinalityType
      <4>2. IsFiniteSet(B \cup A) /\ Cardinality(B \cup A) = Cardinality(B) + Cardinality(A) - Cardinality(B \cap A)
        BY <1>4, <2>7, FS_Union
      <4>3. B2 \subseteq B \cup A
        BY <2>11
      <4>4. Cardinality(B2) <= Cardinality(B \cup A)
        BY <4>2, <4>3, FS_Subset
      <4>5. j \in Nat /\ j = Cardinality(A)
        BY <2>7, <2>14, <3>1
      <4>6. Cardinality(B2) <= Cardinality(B) + Cardinality(A)
        BY <1>4, <4>1, <4>2, <4>4
      <4> QED
        BY <1>4, <1>5, <4>5, <4>6
    <3>2. CASE h.life # s.life
      <4>1. B2 \subseteq B
        BY <2>11, <3>2
      <4>2. Cardinality(B2) <= Cardinality(B)
        BY <1>4, <4>1, FS_Subset
      <4>3. j \in Nat
        BY <1>3, <2>1, <2>13, SMTT(30)
      <4> QED
        BY <1>4, <1>5, <4>2, <4>3
    <3> QED
      BY <3>1, <3>2
  <2> QED
    BY <2>15, <2>16 DEF B2, P2, p
<1> QED
  BY <1>6, <1>7
\* Losing sets newer than all handed over changes neither count.
LostNewer(L, M, q) == L \subseteq M /\ \A s \in M \ L : AllBefore(q, s)

LEMMA LostKept ==
  ASSUME NEW S \in SUBSET AllSets, NEW k, TimesUpTo(S, k), Numbered(S), NEW q, SetsIn(q) \subseteq S,
         NEW L, NEW M \in SUBSET S, LostNewer(L, M, q)
  PROVE  BetweenIn(M, q) = BetweenIn(L, q) /\ PassedIn(M, q) = PassedIn(L, q)
<1>1. L \subseteq M /\ (\A s \in M \ L : AllBefore(q, s)) /\ \A i \in DOMAIN q : q[i] \in S /\ q[i] \in AllSets
  BY DEF LostNewer, SetsIn
<1>2. ASSUME NEW s \in M \ L, NEW i \in DOMAIN q PROVE q[i].ts < s.ts /\ q[i].ts \in Nat /\ s.ts \in Nat
  BY <1>1 DEF AllBefore, AllSets
<1>3. \A s \in BetweenIn(M, q) : s \in L
  <2> SUFFICES ASSUME NEW s \in BetweenIn(M, q), s \notin L PROVE FALSE
    OBVIOUS
  <2>1. s \in M /\ s \in S
    BY DEF BetweenIn
  <2>2. PICK l \in DOMAIN q : q[l].life = s.life /\ s.seq < q[l].seq
    BY DEF BetweenIn
  <2>3. s.ts < q[l].ts
    BY <1>1, <2>1, <2>2, LaterNumber
  <2> QED
    BY <1>2, <2>1, <2>3
<1>4. \A s \in PassedIn(M, q) : s \in L
  <2> SUFFICES ASSUME NEW s \in PassedIn(M, q), s \notin L PROVE FALSE
    OBVIOUS
  <2>1. s \in M
    BY DEF PassedIn
  <2>2. PICK l \in DOMAIN q : s.ts < q[l].ts
    BY DEF PassedIn
  <2> QED
    BY <1>2, <2>1, <2>2
<1>5. BetweenIn(M, q) = BetweenIn(L, q)
  BY <1>1, <1>3 DEF BetweenIn
<1> QED
  BY <1>1, <1>4, <1>5 DEF PassedIn

LEMMA AppendBefore ==
  ASSUME NEW q \in Seq(AllSets), NEW s \in AllSets, NEW x, AllBefore(q, x), s.ts < x.ts
  PROVE  AllBefore(Append(q, s), x)
<1> DEFINE p == Append(q, s)
<1>1. /\ Len(q) \in Nat /\ DOMAIN q = 1..Len(q) /\ DOMAIN p = 1..(Len(q) + 1)
      /\ p[Len(q) + 1] = s /\ \A i \in 1..Len(q) : p[i] = q[i]
  BY AppendFacts
<1> HIDE DEF p
<1>2. ASSUME NEW i \in DOMAIN p PROVE p[i].ts < x.ts
  <2>1. i \in 1..Len(q) \/ i = Len(q) + 1
    BY <1>1
  <2> QED
    BY <1>1, <2>1 DEF AllBefore
<1> QED
  BY <1>2 DEF AllBefore, p

\* A camera nothing of which is handed over keeps its counts, if it loses only
\* sets newer than all handed over.
LEMMA CountedKept ==
  ASSUME NEW c \in Cameras, WireTypes', SentOf(c)', CountedOf(c), UNCHANGED <<handed[c], gaps[c]>>,
         SetsIn(handed[c]) \subseteq sent'[c],
         LostNewer(Points!Lost(c), Points!Lost(c)', handed[c])
  PROVE  CountedOf(c)'
<1>1. PICK S : S = sent'[c]
  OBVIOUS
<1>2. PICK M : M = Points!Lost(c)'
  OBVIOUS
<1>3. S \in SUBSET AllSets /\ M \in SUBSET S
  BY <1>1, <1>2 DEF WireTypes, Points!Lost
<1>4. TimesUpTo(S, Points!Newest(c)') /\ Numbered(S)
  BY <1>1 DEF SentOf
<1>5. SetsIn(handed[c]) \subseteq S /\ LostNewer(Points!Lost(c), M, handed[c])
  BY <1>1, <1>2
<1>6. BetweenIn(M, handed[c]) = BetweenIn(Points!Lost(c), handed[c])
      /\ PassedIn(M, handed[c]) = PassedIn(Points!Lost(c), handed[c])
  BY <1>3, <1>4, <1>5, LostKept
<1> QED
  BY <1>2, <1>6 DEF CountedOf

LEMMA HandedSets ==
  ASSUME WireTypes, NEW c \in Cameras, SentOf(c), HandedOf(c)
  PROVE  /\ handed[c] \in Seq(AllSets) /\ sent[c] \in SUBSET AllSets /\ gaps[c] \in Nat
         /\ SetsIn(handed[c]) \subseteq arrived[c] /\ SetsIn(handed[c]) \subseteq sent[c]
         /\ Points!Lost(c) \subseteq sent[c] /\ Points!Lost(c) \cap SetsIn(handed[c]) = {}
<1>1. handed[c] \in Seq(AllSets) /\ sent[c] \subseteq AllSets /\ arrived[c] \subseteq sent[c] /\ gaps[c] \in Nat
  BY DEF WireTypes, SentOf
<1>2. SetsIn(handed[c]) \subseteq arrived[c]
  BY DEF HandedOf
<1> QED
  BY <1>1, <1>2 DEF Points!Lost

\* The next datagram is taken: what it does to the sets on the wire.
LEMMA OnWireStep ==
  ASSUME WireTypes, wire # <<>>, wire' = Tail(wire), NEW c
  PROVE  /\ Points!OnWire(c)' \subseteq Points!OnWire(c)
         /\ Points!OnWire(c) \subseteq Points!OnWire(c)' \cup {wire[1].set}
         /\ wire[1].set.cam # c => Points!OnWire(c)' = Points!OnWire(c)
         /\ wire[1].set.cam = c => wire[1].set \in Points!OnWire(c)
<1>1. Points!OnWire(c)' \subseteq Points!OnWire(c)
  BY NextDatagram DEF Points!OnWire
<1>2. ASSUME NEW x \in Points!OnWire(c)
      PROVE  x \in Points!OnWire(c)' \/ (x = wire[1].set /\ wire[1].set.cam = c)
  <2>1. PICK k \in DOMAIN wire : wire[k].set.cam = c /\ x = wire[k].set
    BY DEF Points!OnWire
  <2>2. CASE k # 1
    <3>1. k - 1 \in DOMAIN wire' /\ wire'[k - 1] = wire[k]
      BY <2>2, NextDatagram
    <3> QED
      BY <2>1, <3>1 DEF Points!OnWire
  <2> QED
    BY <2>1, <2>2
<1>3. wire[1].set.cam = c => wire[1].set \in Points!OnWire(c)
  BY NextDatagram DEF Points!OnWire
<1> QED
  BY <1>1, <1>2, <1>3

\* What is handed over stays before what is still on the wire.
LEMMA BeforeStep ==
  ASSUME WireTypes, wire # <<>>, wire' = Tail(wire), NEW c, NEW q,
         \A j \in DOMAIN wire : wire[j].set.cam = c => AllBefore(q, wire[j].set)
  PROVE  \A j \in DOMAIN wire' : wire'[j].set.cam = c => AllBefore(q, wire'[j].set)
BY NextDatagram

\* The next datagram hands nothing over.
LEMMA NotHandedStep ==
  ASSUME WireTypes, WireTypes', SentInv, SentInv', HandedInv, CountedInv,
         wire # <<>>, wire' = Tail(wire), UNCHANGED <<sent, arrived, handed, lastSeq, gaps>>,
         wire[1].set \in arrived[wire[1].set.cam] => \E j \in DOMAIN wire' : wire'[j].set = wire[1].set
  PROVE  HandedInv' /\ CountedInv'
<1>1. PICK s : s = wire[1].set
  OBVIOUS
<1>2. ASSUME NEW c \in Cameras PROVE HandedOf(c)' /\ CountedOf(c)'
  <2>1. HandedOf(c) /\ CountedOf(c) /\ SentOf(c)' /\ SentOf(c)
    BY DEF HandedInv, CountedInv, SentInv
  <2>2. /\ Points!OnWire(c)' \subseteq Points!OnWire(c)
        /\ Points!OnWire(c) \subseteq Points!OnWire(c)' \cup {s}
        /\ s.cam # c => Points!OnWire(c)' = Points!OnWire(c)
    BY <1>1, OnWireStep
  <2>3. s.cam = c /\ s \in arrived[c] => s \in Points!OnWire(c)'
    <3> SUFFICES ASSUME s.cam = c, s \in arrived[c] PROVE s \in Points!OnWire(c)'
      OBVIOUS
    <3>1. PICK j \in DOMAIN wire' : wire'[j].set = s
      BY <1>1
    <3> QED
      BY <3>1 DEF Points!OnWire
  <2>4. HandedOf(c)'
    <3>1. arrived[c] \ Points!OnWire(c)' = arrived[c] \ Points!OnWire(c)
      BY <2>2, <2>3
    <3>2. PICK q : q = handed[c]
      OBVIOUS
    <3>3. \A j \in DOMAIN wire : wire[j].set.cam = c => AllBefore(q, wire[j].set)
      BY <2>1, <3>2 DEF HandedOf
    <3>4. \A j \in DOMAIN wire' : wire'[j].set.cam = c => AllBefore(q, wire'[j].set)
      BY <3>3, BeforeStep
    <3> QED
      BY <2>1, <3>1, <3>2, <3>4 DEF HandedOf
  <2>5. Points!Lost(c) \subseteq Points!Lost(c)'
    BY <2>2 DEF Points!Lost
  <2>6. \A x \in Points!Lost(c)' \ Points!Lost(c) : x = s /\ s.cam = c
    BY <2>2 DEF Points!Lost
  <2>7. s.cam = c => AllBefore(handed[c], s)
    BY <1>1, <2>1, NextDatagram DEF HandedOf
  <2>8. LostNewer(Points!Lost(c), Points!Lost(c)', handed[c])
    BY <2>5, <2>6, <2>7 DEF LostNewer
  <2>9. CountedOf(c)'
    BY <2>1, <2>8, HandedSets, CountedKept
  <2> QED
    BY <2>4, <2>9
<1> QED
  BY <1>2 DEF HandedInv, CountedInv

\* The next datagram completes a set: the other cameras.
LEMMA HandedOther ==
  ASSUME WireTypes, WireTypes', NEW c \in Cameras, SentOf(c), SentOf(c)', HandedOf(c), CountedOf(c),
         wire # <<>>, wire' = Tail(wire), wire[1].set.cam # c,
         UNCHANGED <<sent, arrived, handed[c], lastSeq[c], gaps[c]>>
  PROVE  HandedOf(c)' /\ CountedOf(c)'
<1>1. Points!OnWire(c)' = Points!OnWire(c)
  BY OnWireStep
<1>2. HandedOf(c)'
  <2>1. PICK q : q = handed[c]
    OBVIOUS
  <2>2. \A j \in DOMAIN wire : wire[j].set.cam = c => AllBefore(q, wire[j].set)
    BY <2>1 DEF HandedOf
  <2>3. \A j \in DOMAIN wire' : wire'[j].set.cam = c => AllBefore(q, wire'[j].set)
    BY <2>2, BeforeStep, ZenonT(30)
  <2> QED
    BY <1>1, <2>1, <2>3 DEF HandedOf
<1>3. Points!Lost(c)' = Points!Lost(c)
  BY <1>1 DEF Points!Lost
<1>4. LostNewer(Points!Lost(c), Points!Lost(c)', handed[c])
  BY <1>3 DEF LostNewer
<1>5. CountedOf(c)'
  BY <1>4, HandedSets, CountedKept
<1> QED
  BY <1>2, <1>5

\* The next datagram is the last of its set: the rest of the wire is newer.
LEMMA RestNewer ==
  ASSUME WireTypes, WireInv, wire # <<>>, wire' = Tail(wire), NEW s, s = wire[1].set, NEW c, c = s.cam,
         \A j \in DOMAIN wire' : wire'[j].set # s
  PROVE  /\ \A j \in DOMAIN wire' : wire'[j].set.cam = c => s.ts < wire'[j].set.ts
         /\ Points!OnWire(c)' = Points!OnWire(c) \ {s} /\ s \in Points!OnWire(c)
<1>1. ASSUME NEW j \in DOMAIN wire'
      PROVE  wire'[j] = wire[j + 1] /\ j + 1 \in DOMAIN wire /\ 1 < j + 1 /\ 1 \in DOMAIN wire
  BY NextDatagram
<1>2. ASSUME NEW j \in DOMAIN wire', wire'[j].set.cam = c PROVE s.ts < wire'[j].set.ts
  BY <1>1, <1>2 DEF WireInv
<1>3. s \notin Points!OnWire(c)'
  BY DEF Points!OnWire
<1> QED
  BY <1>2, <1>3, OnWireStep

\* What handing a set over changes.
LEMMA HandOverFacts ==
  ASSUME WireTypes, NEW s \in AllSets, Points!HandOver(s)
  PROVE  /\ handed' \in [Cameras -> Seq(AllSets)] /\ lastSeq' \in [Cameras -> Int]
         /\ gaps' \in [Cameras -> Nat] /\ s.cam \in Cameras
         /\ handed'[s.cam] = Append(handed[s.cam], s) /\ lastSeq'[s.cam] = s.seq
         /\ gaps'[s.cam] = gaps[s.cam] + Points!Counted(s) /\ Points!Counted(s) \in Nat
         /\ \A d \in Cameras : d # s.cam => UNCHANGED <<handed[d], lastSeq[d], gaps[d]>>
<1>1. PICK c \in Cameras : c = s.cam
  BY DEF AllSets
<1>2. handed[c] \in Seq(AllSets) /\ gaps[c] \in Nat /\ lastSeq[c] \in Int /\ s.seq \in Nat
  BY DEF WireTypes, AllSets
<1>3. Points!Counted(s) \in Nat
  BY <1>1, <1>2 DEF Points!Counted
<1>4. Append(handed[c], s) \in Seq(AllSets) /\ gaps[c] + Points!Counted(s) \in Nat
  BY <1>2, <1>3
<1>5. /\ gaps' = [gaps EXCEPT ![c] = gaps[c] + Points!Counted(s)]
      /\ lastSeq' = [lastSeq EXCEPT ![c] = s.seq]
      /\ handed' = [handed EXCEPT ![c] = Append(handed[c], s)]
  BY <1>1 DEF Points!HandOver
<1>6. handed \in [Cameras -> Seq(AllSets)] /\ lastSeq \in [Cameras -> Int] /\ gaps \in [Cameras -> Nat]
  BY DEF WireTypes
<1>7. /\ handed' \in [Cameras -> Seq(AllSets)] /\ lastSeq' \in [Cameras -> Int]
      /\ gaps' \in [Cameras -> Nat]
  BY <1>2, <1>4, <1>5, <1>6
<1>8. /\ handed'[c] = Append(handed[c], s) /\ lastSeq'[c] = s.seq
      /\ gaps'[c] = gaps[c] + Points!Counted(s)
      /\ \A d \in Cameras : d # c => UNCHANGED <<handed[d], lastSeq[d], gaps[d]>>
  BY <1>5, <1>6
<1> QED
  BY <1>1, <1>3, <1>7, <1>8

\* The next datagram completes a set: its camera.
LEMMA HandedOwn ==
  ASSUME WireTypes, WireTypes', NEW c \in Cameras, SentOf(c), SentOf(c)', HandedOf(c), CountedOf(c), WireInv,
         wire # <<>>, wire' = Tail(wire), UNCHANGED <<sent, arrived>>,
         NEW s \in AllSets, s = wire[1].set, s.cam = c, Points!HandOver(s),
         s \in arrived[c], \A j \in DOMAIN wire' : wire'[j].set # s
  PROVE  HandedOf(c)' /\ CountedOf(c)'
<1>1. PICK q : q = handed[c]
  OBVIOUS
<1>2. PICK p : p = handed'[c]
  OBVIOUS
<1>3. PICK L : L = Points!Lost(c)
  OBVIOUS
<1>4. PICK S : S = sent[c]
  OBVIOUS
<1>5. /\ q \in Seq(AllSets) /\ S \in SUBSET AllSets /\ gaps[c] \in Nat
      /\ SetsIn(q) \subseteq S /\ L \subseteq S /\ L \cap SetsIn(q) = {}
  BY <1>1, <1>3, <1>4, HandedSets
<1>6. /\ p = Append(q, s) /\ lastSeq'[c] = s.seq
      /\ gaps'[c] = gaps[c] + Points!Counted(s) /\ Points!Counted(s) \in Nat
  BY <1>1, <1>2, HandOverFacts
<1>7. /\ SetsIn(q) = arrived[c] \ Points!OnWire(c) /\ InOrder(q) /\ AllBefore(q, s)
      /\ lastSeq[c] = LastNumber(q)
      /\ \A j \in DOMAIN wire : wire[j].set.cam = c => AllBefore(q, wire[j].set)
  BY <1>1, NextDatagram DEF HandedOf
<1>8. InOrder(p) /\ SetsIn(p) = SetsIn(q) \cup {s} /\ LastNumber(p) = s.seq
  BY <1>5, <1>6, <1>7, AppendOrder
<1>9. /\ \A j \in DOMAIN wire' : wire'[j].set.cam = c => s.ts < wire'[j].set.ts
      /\ Points!OnWire(c)' = Points!OnWire(c) \ {s} /\ s \in Points!OnWire(c)
  BY RestNewer
<1>10. HandedOf(c)'
  <2>1. SetsIn(p) = arrived[c] \ Points!OnWire(c)'
    BY <1>7, <1>8, <1>9
  <2>2. \A j \in DOMAIN wire' : wire'[j].set.cam = c => AllBefore(q, wire'[j].set)
    BY <1>7, BeforeStep
  <2>3. \A j \in DOMAIN wire' : wire'[j].set.cam = c => AllBefore(p, wire'[j].set)
    BY <1>5, <1>6, <1>9, <2>2, AppendBefore
  <2> QED
    BY <1>2, <1>6, <1>8, <2>1, <2>3 DEF HandedOf
<1>11. Points!Lost(c)' = L
  BY <1>3, <1>9 DEF Points!Lost
<1>12. CountedUp(S, L, q, s)
  <2>1. s \in S
    BY <1>4 DEF SentOf
  <2>2. ASSUME NEW x \in S, x.ts < s.ts PROVE x \in L \/ x \in SetsIn(q)
    <3>1. ASSUME x \in Points!OnWire(c) PROVE FALSE
      <4>1. PICK j \in DOMAIN wire : wire[j].set.cam = c /\ x = wire[j].set
        BY <3>1 DEF Points!OnWire
      <4>2. j # 1 /\ x.ts \in Nat /\ s.ts \in Nat
        BY <1>5, <2>2, <4>1 DEF AllSets
      <4>3. j - 1 \in DOMAIN wire' /\ wire'[j - 1] = wire[j]
        BY <4>2, NextDatagram
      <4>4. s.ts < x.ts
        BY <1>9, <4>1, <4>3
      <4> QED
        BY <2>2, <4>2, <4>4
    <3>2. CASE x \in arrived[c]
      BY <1>7, <3>1, <3>2
    <3>3. CASE x \notin arrived[c]
      BY <1>3, <1>4, <3>1, <3>3 DEF Points!Lost
    <3> QED
      BY <3>2, <3>3
  <2> QED
    BY <1>5, <2>1, <2>2 DEF CountedUp
<1>13. PICK k : k = Points!Newest(c)
  OBVIOUS
<1>14. k \in Nat /\ TimesUpTo(S, k) /\ Numbered(S) /\ IsFiniteSet(S)
  BY <1>4, <1>13, SentTimes DEF SentOf
<1>15. PICK j : j = Points!Counted(s)
  OBVIOUS
<1>16. j = IF LastNumber(q) # -1 /\ s.seq > LastNumber(q) + 1 THEN s.seq - LastNumber(q) - 1 ELSE 0
  BY <1>7, <1>15 DEF Points!Counted
<1>17. PICK m \in Nat : m = gaps[c]
  BY <1>5
<1>18. Cardinality(BetweenIn(L, q)) <= m /\ m <= Cardinality(PassedIn(L, q))
  BY <1>1, <1>3, <1>17 DEF CountedOf
<1>19. /\ Cardinality(BetweenIn(L, p)) <= m + j
       /\ m + j <= Cardinality(PassedIn(L, p))
  BY <1>5, <1>6, <1>7, <1>12, <1>14, <1>16, <1>18, CountedAppend
<1>20. CountedOf(c)'
  BY <1>2, <1>6, <1>11, <1>15, <1>17, <1>19 DEF CountedOf
<1> QED
  BY <1>10, <1>20

\* The next datagram completes a set.
LEMMA HandedStep ==
  ASSUME WireTypes, WireTypes', SentInv, SentInv', WireInv, HandedInv, CountedInv,
         wire # <<>>, wire' = Tail(wire), UNCHANGED <<sent, arrived>>, NEW s, s = wire[1].set,
         Points!HandOver(s), s \in arrived[s.cam], \A j \in DOMAIN wire' : wire'[j].set # s
  PROVE  HandedInv' /\ CountedInv'
<1>1. s \in AllSets /\ s.cam \in Cameras
  BY NextDatagram
<1>2. \A d \in Cameras : d # s.cam => UNCHANGED <<handed[d], lastSeq[d], gaps[d]>>
  BY <1>1, HandOverFacts
<1>3. ASSUME NEW c \in Cameras PROVE HandedOf(c)' /\ CountedOf(c)'
  <2>1. HandedOf(c) /\ CountedOf(c) /\ SentOf(c)' /\ SentOf(c)
    BY DEF HandedInv, CountedInv, SentInv
  <2>2. CASE c = s.cam
    BY <1>1, <2>1, <2>2, HandedOwn
  <2>3. CASE c # s.cam
    BY <1>2, <2>1, <2>3, HandedOther
  <2> QED
    BY <2>2, <2>3
<1> QED
  BY <1>3 DEF HandedInv, CountedInv
-----------------------------------------------------------------------------
(* The FragmentBuffer.                                                       *)

LEMMA SubFacts ==
  ASSUME NEW T, NEW q \in Seq(T), NEW a \in 1..(Len(q) + 1)
  PROVE  /\ SubSeq(q, a, Len(q)) \in Seq(T) /\ Len(SubSeq(q, a, Len(q))) = Len(q) + 1 - a
         /\ \A i \in 1..(Len(q) + 1 - a) : SubSeq(q, a, Len(q))[i] = q[i + a - 1]
  BY SubSeqProperties

LEMMA RemoveLast ==
  ASSUME NEW T, NEW q \in Seq(T), q # <<>>
  PROVE  /\ Points!RemoveAt(q, Len(q)) \in Seq(T) /\ Len(Points!RemoveAt(q, Len(q))) = Len(q) - 1
         /\ \A i \in 1..(Len(q) - 1) : Points!RemoveAt(q, Len(q))[i] = q[i]
<1>1. Len(q) \in Nat /\ Len(q) > 0
  OBVIOUS
<1>2. /\ SubSeq(q, 1, Len(q) - 1) \in Seq(T) /\ Len(SubSeq(q, 1, Len(q) - 1)) = Len(q) - 1
      /\ \A i \in 1..(Len(q) - 1) : SubSeq(q, 1, Len(q) - 1)[i] = q[i]
  BY <1>1, SubSeqProperties
<1>3. SubSeq(q, Len(q) + 1, Len(q)) = <<>>
  BY <1>1, SubSeqProperties
<1>4. Points!RemoveAt(q, Len(q)) = SubSeq(q, 1, Len(q) - 1) \o <<>>
  BY <1>3 DEF Points!RemoveAt
<1>5. Points!RemoveAt(q, Len(q)) = SubSeq(q, 1, Len(q) - 1)
  BY <1>2, <1>4
<1> QED
  BY <1>2, <1>5

LEMMA LargerOf ==
  ASSUME NEW x \in Int
  PROVE  Points!Max({1, x}) = IF x > 1 THEN x ELSE 1
<1>1. CASE x > 1
  <2>1. \A m \in {1, x} : (\A y \in {1, x} : m >= y) <=> m = x
    BY <1>1
  <2> QED
    BY <1>1, <2>1 DEF Points!Max
<1>2. CASE ~(x > 1)
  <2>1. \A m \in {1, x} : (\A y \in {1, x} : m >= y) <=> m = 1
    BY <1>2
  <2> QED
    BY <1>2, <2>1 DEF Points!Max
<1> QED
  BY <1>1, <1>2

\* _prune drops the oldest groups and leaves room for one.
Pruned(p, q, aged) ==
  \E off \in 0..Len(p) :
    /\ q \in Seq(Groups) /\ Len(q) = Len(p) - off /\ Len(q) < MaxGroups
    /\ \A i \in 1..Len(q) : q[i] = p[i + off]
    /\ aged < Len(p) => off < Len(p)

LEMMA PruneFacts ==
  ASSUME NEW p \in Seq(Groups), p = groups, NEW aged \in 0..Len(p), NEW q, q = Points!Prune(aged)
  PROVE  Pruned(p, q, aged)
<1> DEFINE N == Len(p)
           young == SubSeq(p, aged + 1, N)
           x == N - aged - MaxGroups + 2
           b == Points!Max({1, x})
<1>1. N \in Nat /\ aged \in Nat /\ aged <= N /\ aged + 1 \in 1..(N + 1)
  OBVIOUS
<1>2. /\ young \in Seq(Groups) /\ Len(young) = N - aged
      /\ \A i \in 1..(N - aged) : young[i] = p[i + aged]
  <2>1. /\ young \in Seq(Groups) /\ Len(young) = N + 1 - (aged + 1)
        /\ \A i \in 1..(N + 1 - (aged + 1)) : young[i] = p[i + (aged + 1) - 1]
    BY <1>1, SubFacts
  <2> QED
    BY <1>1, <2>1
<1>3. q = SubSeq(young, b, Len(young))
  <2>1. q = SubSeq(young, Points!Max({1, Len(young) - MaxGroups + 2}), Len(young))
    BY DEF Points!Prune
  <2> QED
    BY <1>2, <2>1
<1> HIDE DEF N, young
<1>4. b \in 1..(N - aged + 1) /\ b >= x /\ (aged < N => b <= N - aged)
  BY <1>1, LargerOf, PointsConstantsFacts
<1> HIDE DEF b
<1>5. /\ q \in Seq(Groups) /\ Len(q) = N - aged + 1 - b
      /\ \A i \in 1..(N - aged + 1 - b) : q[i] = young[i + b - 1]
  BY <1>2, <1>3, <1>4, SubFacts
<1>6. PICK off : off = aged + b - 1
  OBVIOUS
<1>7. /\ off \in 0..N /\ Len(q) = N - off /\ Len(q) < MaxGroups /\ (aged < N => off < N)
  BY <1>1, <1>4, <1>5, <1>6, PointsConstantsFacts
<1>8. ASSUME NEW i \in 1..Len(q) PROVE q[i] = p[i + off]
  <2>1. i \in 1..(N - aged + 1 - b) /\ i + b - 1 \in 1..(N - aged) /\ (i + b - 1) + aged = i + off
    BY <1>1, <1>4, <1>5, <1>6
  <2> QED
    BY <1>2, <1>5, <2>1
<1> QED
  BY <1>5, <1>7, <1>8 DEF N, Pruned

\* The first k groups of q were in the table p, in their order, and are not of set s.
KeptFrom(p, q, k, s) ==
  \E off \in Nat : \A g \in 1..k :
    g + off \in DOMAIN p /\ q[g] = p[g + off] /\ p[g + off].set # s

LEMMA KeptIntro ==
  ASSUME NEW p, NEW q, NEW k, NEW s, NEW off \in Nat,
         \A g \in 1..k : g + off \in DOMAIN p /\ q[g] = p[g + off] /\ p[g + off].set # s
  PROVE  KeptFrom(p, q, k, s)
  BY Zenon DEF KeptFrom

LEMMA AllParts ==
  ASSUME NEW n \in Nat, NEW S \in SUBSET (1..n)
  PROVE  Points!Cardinality(S) = n <=> S = 1..n
<1>1. IsFiniteSet(1..n) /\ Cardinality(1..n) = n
  BY FS_Interval
<1>2. Cardinality(S) = Cardinality(1..n) => 1..n = S
  BY <1>1, FS_Subset
<1> QED
  BY <1>1, <1>2, SameSize

\* What add makes of the table p when it then has these parts of the set of d: all
\* groups it keeps come from p, and one of them is new unless the set is complete.
Added(p, r, d, have) ==
  /\ have \subseteq 1..d.n /\ d.i \notin GroupParts(p, d.set)
  /\ r \in Seq(Groups) /\ Len(r) <= MaxGroups
  /\ have = 1..d.n => KeptFrom(p, r, Len(r), d.set)
  /\ have # 1..d.n =>
       /\ Len(r) > 0 /\ r[Len(r)] = [set |-> d.set, parts |-> have]
       /\ KeptFrom(p, r, Len(r) - 1, d.set)

LEMMA AddFacts ==
  ASSUME WireTypes, WireInv, GroupInv, wire # <<>>, NEW d, d = wire[1], d.n > 1, NEW p, p = groups,
         NEW aged, Points!AddFragment(d, aged), NEW q, q = Points!Prune(aged),
         NEW have, have = {d.i} \cup GroupParts(p, d.set)
  PROVE  Added(p, groups', d, have) /\ (Points!Complete(q, d) <=> have = 1..d.n)
<1>1. /\ d \in Datagrams /\ d.i \in Nat /\ d.n \in Nat /\ d.set \in AllSets
      /\ d.i \in 1..d.n /\ 1 \in DOMAIN wire
  <2>1. wire \in Seq(Datagrams)
    BY DEF WireTypes
  <2>2. 1 \in DOMAIN wire /\ d \in Datagrams
    BY <2>1
  <2> QED
    BY <2>2 DEF Datagrams, WireInv
<1>2. p \in Seq(Groups) /\ Len(p) \in Nat /\ DOMAIN p = 1..Len(p)
  BY DEF WireTypes
<1>3. \A g \in DOMAIN p : p[g].set = d.set =>
        g = Len(p) /\ p[g].parts \subseteq 1..d.n /\ d.i \notin p[g].parts
  BY <1>1 DEF GroupInv
<1>4. aged \in 0..Len(p) /\ (\A k \in DOMAIN p : p[k].set = d.set => aged < k)
      /\ groups' = IF Points!Complete(q, d) THEN Points!Without(q, d) ELSE Points!With(q, d)
  BY DEF Points!AddFragment, Points!GroupAt
<1>5. PICK off \in 0..Len(p) :
        /\ q \in Seq(Groups) /\ Len(q) = Len(p) - off /\ Len(q) < MaxGroups
        /\ \A i \in 1..Len(q) : q[i] = p[i + off]
        /\ aged < Len(p) => off < Len(p)
  <2>1. aged \in 0..Len(p)
    BY <1>4
  <2>2. Pruned(p, q, aged)
    BY <1>2, <2>1, PruneFacts
  <2> QED
    BY <2>2 DEF Pruned
<1>6. Len(q) \in Nat /\ DOMAIN q = 1..Len(q) /\ off \in Nat /\ MaxGroups \in Nat
  BY <1>5, PointsConstantsFacts
<1>7. \A g \in 1..Len(q) : g + off \in DOMAIN p /\ (g + off = Len(p) <=> g = Len(q))
  BY <1>2, <1>5, <1>6
<1>8. have \subseteq 1..d.n /\ d.i \notin GroupParts(p, d.set)
  BY <1>1, <1>3 DEF GroupParts
<1>9. CASE \E g \in DOMAIN p : p[g].set = d.set
  <2>1. /\ Len(p) \in DOMAIN p /\ p[Len(p)].set = d.set /\ aged < Len(p)
    BY <1>3, <1>4, <1>9
  <2>2. Len(q) \in 1..Len(q) /\ q[Len(q)] = p[Len(p)] /\ q # <<>>
    BY <1>2, <1>5, <1>6, <2>1
  <2>3. \A g \in 1..(Len(q) - 1) : g + off \in DOMAIN p /\ q[g] = p[g + off] /\ p[g + off].set # d.set
    <3> SUFFICES ASSUME NEW g \in 1..(Len(q) - 1)
                 PROVE  g + off \in DOMAIN p /\ q[g] = p[g + off] /\ p[g + off].set # d.set
      OBVIOUS
    <3>1. g \in 1..Len(q) /\ g # Len(q)
      <4>1. PICK m \in Nat : m = Len(q)
        BY <1>6
      <4>2. g \in 1..(m - 1)
        BY <4>1
      <4> QED
        BY <4>1, <4>2
    <3>2. g + off \in DOMAIN p /\ g + off # Len(p) /\ q[g] = p[g + off]
      BY <1>5, <1>7, <3>1
    <3> QED
      BY <1>3, <3>2
  <2>4. Points!GroupAt(q, d) = {Len(q)}
    <3>1. ASSUME NEW g \in 1..Len(q), g # Len(q) PROVE q[g].set # d.set
      <4>1. g + off \in DOMAIN p /\ g + off # Len(p) /\ q[g] = p[g + off]
        BY <1>5, <1>7, <3>1
      <4> QED
        BY <1>3, <4>1
    <3> QED
      BY <1>6, <2>1, <2>2, <3>1 DEF Points!GroupAt
  <2>5. GroupParts(p, d.set) = p[Len(p)].parts
    BY <1>3, <2>1 DEF GroupParts
  <2>6. Points!Parts(q, d) = have
    BY <2>2, <2>4, <2>5 DEF Points!Parts
  <2>7. Points!Complete(q, d) <=> have = 1..d.n
    BY <1>1, <1>8, <2>6, AllParts DEF Points!Complete
  <2>8. CASE have = 1..d.n
    <3>1. groups' = Points!RemoveAt(q, Len(q))
      BY <1>4, <2>4, <2>7, <2>8 DEF Points!Without
    <3>2. /\ groups' \in Seq(Groups) /\ Len(groups') = Len(q) - 1
          /\ \A i \in 1..(Len(q) - 1) : groups'[i] = q[i]
      BY <1>5, <2>2, <3>1, RemoveLast
    <3>3. KeptFrom(p, groups', Len(groups'), d.set)
      <4>1. PICK t, l, x : t = groups' /\ l = Len(q) - 1 /\ x = d.set
        OBVIOUS
      <4>2. \A h \in 1..l : h + off \in DOMAIN p /\ t[h] = p[h + off] /\ p[h + off].set # x
        BY <2>3, <3>2, <4>1, Zenon
      <4>3. KeptFrom(p, t, l, x)
        BY <1>6, <4>2, KeptIntro, Zenon
      <4> QED
        BY <3>2, <4>1, <4>3, Zenon
    <3> QED
      BY <1>5, <1>6, <1>8, <2>7, <2>8, <3>2, <3>3 DEF Added
  <2>9. CASE have # 1..d.n
    <3>1. PICK g : g = [set |-> d.set, parts |-> have]
      OBVIOUS
    <3>2. g \in Groups
      BY <1>1, <1>8, <3>1 DEF Groups
    <3>3. groups' = [k \in DOMAIN q |-> IF k = Len(q) THEN g ELSE q[k]]
      BY <1>4, <2>4, <2>6, <2>7, <2>9, <3>1 DEF Points!With
    <3>4. /\ groups' \in Seq(Groups) /\ Len(groups') = Len(q) /\ groups'[Len(q)] = g
          /\ \A i \in 1..(Len(q) - 1) : groups'[i] = q[i]
      BY <1>5, <1>6, <2>2, <3>2, <3>3
    <3>5. KeptFrom(p, groups', Len(groups') - 1, d.set)
      <4>1. PICK t, l, x : t = groups' /\ l = Len(q) - 1 /\ x = d.set
        OBVIOUS
      <4>2. \A h \in 1..l : h + off \in DOMAIN p /\ t[h] = p[h + off] /\ p[h + off].set # x
        BY <2>3, <3>4, <4>1, Zenon
      <4>3. KeptFrom(p, t, l, x)
        BY <1>6, <4>2, KeptIntro, Zenon
      <4> QED
        BY <3>4, <4>1, <4>3, Zenon
    <3> QED
      BY <1>5, <1>6, <1>8, <2>2, <2>7, <2>9, <3>1, <3>4, <3>5, SMTT(30) DEF Added
  <2> QED
    BY <2>8, <2>9
<1>10. CASE ~ \E g \in DOMAIN p : p[g].set = d.set
  <2>1. Points!GroupAt(q, d) = {}
    BY <1>5, <1>6, <1>7, <1>10 DEF Points!GroupAt
  <2>2. GroupParts(p, d.set) = {} /\ have = {d.i}
    BY <1>10 DEF GroupParts
  <2>3. Points!Parts(q, d) = have
    BY <2>1, <2>2 DEF Points!Parts
  <2>4. Points!Complete(q, d) <=> have = 1..d.n
    BY <1>1, <1>8, <2>3, AllParts DEF Points!Complete
  <2>5. have # 1..d.n
    <3>1. 1 \in 1..d.n /\ 2 \in 1..d.n
      BY <1>1
    <3> QED
      BY <2>2, <3>1
  <2>6. PICK g : g = [set |-> d.set, parts |-> have]
    OBVIOUS
  <2>7. g \in Groups
    BY <1>1, <1>8, <2>6 DEF Groups
  <2>8. groups' = Append(q, g)
    BY <1>4, <2>1, <2>3, <2>4, <2>5, <2>6 DEF Points!With
  <2>9. /\ groups' \in Seq(Groups) /\ Len(groups') = Len(q) + 1 /\ groups'[Len(q) + 1] = g
        /\ \A i \in 1..Len(q) : groups'[i] = q[i]
    BY <1>5, <2>7, <2>8
  <2>10. KeptFrom(p, groups', Len(groups') - 1, d.set)
    <3>1. Len(groups') - 1 = Len(q)
      BY <1>6, <2>9
    <3>2. \A h \in 1..Len(q) : h + off \in DOMAIN p /\ groups'[h] = p[h + off] /\ p[h + off].set # d.set
      BY <1>5, <1>7, <1>10, <2>9
    <3> QED
      BY <1>6, <3>1, <3>2, KeptIntro, ZenonT(30)
  <2> QED
    BY <1>5, <1>6, <1>8, <2>4, <2>5, <2>6, <2>9, <2>10, SMTT(30) DEF Added
<1> QED
  BY <1>9, <1>10

-----------------------------------------------------------------------------
(* Receive.                                                                  *)

LEMMA TailWire ==
  ASSUME WireTypes, WireInv, wire # <<>>, wire' = Tail(wire), UNCHANGED sent
  PROVE  WireInv'
<1>1. \A k \in DOMAIN wire' : wire'[k] = wire[k + 1] /\ k + 1 \in DOMAIN wire /\ k \in Nat
  BY NextDatagram
<1>2. ASSUME NEW k \in DOMAIN wire', NEW l \in DOMAIN wire', k < l
      PROVE  /\ wire'[k].set.cam = wire'[l].set.cam /\ wire'[k].set # wire'[l].set
                  => wire'[k].set.ts < wire'[l].set.ts
             /\ wire'[k].set = wire'[l].set =>
                  /\ wire'[k].n = wire'[l].n /\ wire'[k].i # wire'[l].i
                  /\ \A m \in k..l : wire'[m].set = wire'[k].set
  <2>1. k + 1 < l + 1 /\ k \in Nat /\ l \in Nat
    BY <1>1, <1>2
  <2>2. ASSUME wire'[k].set = wire'[l].set, NEW m \in k..l PROVE wire'[m].set = wire'[k].set
    <3>1. DOMAIN wire' = 1..(Len(wire) - 1) /\ Len(wire) \in Nat
      BY NextDatagram
    <3>2. m \in DOMAIN wire' /\ m + 1 \in (k + 1)..(l + 1)
      BY <2>1, <3>1
    <3> QED
      BY <1>1, <2>1, <2>2, <3>2 DEF WireInv
  <2>3. /\ wire[k + 1].set.cam = wire[l + 1].set.cam /\ wire[k + 1].set # wire[l + 1].set
             => wire[k + 1].set.ts < wire[l + 1].set.ts
        /\ wire[k + 1].set = wire[l + 1].set =>
             wire[k + 1].n = wire[l + 1].n /\ wire[k + 1].i # wire[l + 1].i
    BY <1>1, <2>1 DEF WireInv
  <2> QED
    BY <1>1, <2>2, <2>3
<1>3. \A k \in DOMAIN wire' : wire'[k].set \in sent[wire'[k].set.cam] /\ wire'[k].i \in 1..wire'[k].n
  BY <1>1 DEF WireInv
<1> QED
  BY <1>2, <1>3 DEF WireInv

\* The parts on the wire when the next datagram is taken.
LEMMA WirePartsStep ==
  ASSUME WireTypes, WireInv, wire # <<>>, wire' = Tail(wire), NEW d, d = wire[1]
  PROVE  /\ WireParts(wire, d.set) = {d.i} \cup WireParts(wire', d.set)
         /\ \A x : x # d.set => WireParts(wire', x) = WireParts(wire, x)
         /\ d.i \in 1..d.n
         /\ \A j \in DOMAIN wire' : wire'[j].set = d.set =>
              /\ wire'[1].set = d.set /\ wire'[j].n = d.n /\ wire'[j].i # d.i
              /\ wire'[j].i \in 1..d.n
<1>1. /\ \A k \in DOMAIN wire' : wire'[k] = wire[k + 1] /\ k + 1 \in DOMAIN wire /\ k \in Nat /\ k > 0
      /\ \A k \in DOMAIN wire : k = 1 \/ (k - 1 \in DOMAIN wire' /\ wire'[k - 1] = wire[k])
      /\ 1 \in DOMAIN wire /\ DOMAIN wire' = 1..(Len(wire) - 1) /\ Len(wire) \in Nat
  BY NextDatagram
<1>2. \A x : x # d.set => WireParts(wire', x) = WireParts(wire, x)
  <2> SUFFICES ASSUME NEW x, x # d.set PROVE WireParts(wire', x) = WireParts(wire, x)
    OBVIOUS
  <2>1. \A i \in WireParts(wire', x) : i \in WireParts(wire, x)
    BY <1>1 DEF WireParts
  <2>2. \A i \in WireParts(wire, x) : i \in WireParts(wire', x)
    BY <1>1 DEF WireParts
  <2> QED
    BY <2>1, <2>2
<1>3. WireParts(wire, d.set) = {d.i} \cup WireParts(wire', d.set)
  <2>1. \A i \in WireParts(wire', d.set) : i \in WireParts(wire, d.set)
    BY <1>1 DEF WireParts
  <2>2. \A i \in WireParts(wire, d.set) : i = d.i \/ i \in WireParts(wire', d.set)
    BY <1>1, SMTT(30) DEF WireParts
  <2>3. d.i \in WireParts(wire, d.set)
    BY <1>1 DEF WireParts
  <2> QED
    BY <2>1, <2>2, <2>3
<1>4. d.i \in 1..d.n
  BY <1>1 DEF WireInv
<1>5. ASSUME NEW j \in DOMAIN wire', wire'[j].set = d.set
      PROVE  /\ wire'[1].set = d.set /\ wire'[j].n = d.n /\ wire'[j].i # d.i
             /\ wire'[j].i \in 1..d.n
  <2>1. j + 1 \in DOMAIN wire /\ 1 < j + 1 /\ wire'[j] = wire[j + 1] /\ wire[j + 1].set = wire[1].set
    BY <1>1, <1>5
  <2>2. wire[1].n = wire[j + 1].n /\ wire[1].i # wire[j + 1].i /\ wire[j + 1].i \in 1..wire[j + 1].n
        /\ \A m \in 1..(j + 1) : wire[m].set = wire[1].set
    BY <1>1, <2>1 DEF WireInv
  <2>3. 1 \in DOMAIN wire' /\ 2 \in 1..(j + 1) /\ wire'[1] = wire[1 + 1]
    BY <1>1
  <2> QED
    BY <2>1, <2>2, <2>3
<1> QED
  BY <1>2, <1>3, <1>4, <1>5

\* Only of the set of the next datagram is there a group and a rest on the wire.
LEMMA OtherGroups ==
  ASSUME WireTypes, GroupInv, wire # <<>>, wire' = Tail(wire), NEW d, d = wire[1],
         NEW j \in DOMAIN wire', NEW g \in DOMAIN groups, groups[g].set = wire'[j].set
  PROVE  groups[g].set = d.set
<1>1. j + 1 \in DOMAIN wire /\ wire'[j] = wire[j + 1]
  BY NextDatagram
<1> QED
  BY <1>1 DEF GroupInv

LEMMA KeptSets ==
  ASSUME NEW p, NEW q, NEW k, NEW s, KeptFrom(p, q, k, s), NEW g \in 1..k
  PROVE  q[g].set # s /\ \E h \in DOMAIN p : q[g] = p[h]
  BY DEF KeptFrom

\* A table of which all or all but the last group are kept.
LEMMA KeptGroups ==
  ASSUME WireTypes, WireInv, GroupInv, wire # <<>>, wire' = Tail(wire), UNCHANGED sent,
         NEW d, d = wire[1], groups' \in Seq(Groups), Len(groups') <= MaxGroups,
         NEW have, have \subseteq 1..d.n,
         \A j \in DOMAIN wire' : wire'[j].set = d.set => wire'[j].i \notin have,
         \/ KeptFrom(groups, groups', Len(groups'), d.set)
         \/ /\ Len(groups') > 0 /\ groups'[Len(groups')] = [set |-> d.set, parts |-> have]
            /\ KeptFrom(groups, groups', Len(groups') - 1, d.set)
  PROVE  /\ GroupInv'
         /\ \A j \in DOMAIN wire' : wire'[j].set # d.set =>
              GroupParts(groups, wire'[j].set) = {} /\ GroupParts(groups', wire'[j].set) = {}
<1>1. PICK p : p = groups
  OBVIOUS
<1>2. PICK r : r = groups'
  OBVIOUS
<1>3. PICK m \in Nat : m = Len(r)
  BY <1>2
<1>4. DOMAIN r = 1..m /\ m <= MaxGroups /\ r \in Seq(Groups)
  BY <1>2, <1>3
<1>5. PICK off \in Nat, k \in Nat :
        /\ k = m \/ (k = m - 1 /\ r[m] = [set |-> d.set, parts |-> have])
        /\ \A g \in 1..k : g + off \in DOMAIN p /\ r[g] = p[g + off] /\ p[g + off].set # d.set
  <2>1. CASE KeptFrom(p, r, m, d.set)
    BY <1>3, <2>1 DEF KeptFrom
  <2>2. CASE m > 0 /\ r[m] = [set |-> d.set, parts |-> have] /\ KeptFrom(p, r, m - 1, d.set)
    <3>1. m - 1 \in Nat
      BY <1>3, <2>2
    <3> QED
      BY <2>2, <3>1 DEF KeptFrom
  <2> QED
    BY <1>1, <1>2, <1>3, <2>1, <2>2
<1>6. \A g \in 1..m : g \in 1..k \/ (g = m /\ k = m - 1 /\ r[g] = [set |-> d.set, parts |-> have])
  BY <1>5
<1>7. \A g, h \in DOMAIN p : p[g].set = p[h].set => g = h
  BY <1>1 DEF GroupInv
<1>8. ASSUME NEW g \in 1..m, NEW h \in 1..m, r[g].set = r[h].set PROVE g = h
  <2>1. CASE g \in 1..k /\ h \in 1..k
    <3>1. g + off = h + off
      BY <1>5, <1>7, <1>8, <2>1
    <3> QED
      BY <1>5, <3>1
  <2>2. CASE ~(g \in 1..k /\ h \in 1..k)
    BY <1>5, <1>6, <1>8, <2>2
  <2> QED
    BY <2>1, <2>2
<1>9. ASSUME NEW g \in 1..m PROVE r[g].set \in sent[r[g].set.cam]
  <2>1. CASE g \in 1..k
    BY <1>1, <1>5, <2>1 DEF GroupInv
  <2>2. CASE r[g].set = d.set
    BY <2>2, NextDatagram DEF WireInv
  <2> QED
    BY <1>6, <2>1, <2>2
<1>10. ASSUME NEW g \in 1..m, NEW j \in DOMAIN wire', r[g].set = wire'[j].set
       PROVE  g = m /\ wire'[j].set = d.set /\ r[g].parts = have
  <2>1. g \notin 1..k
    <3> SUFFICES ASSUME g \in 1..k PROVE FALSE
      OBVIOUS
    <3>1. g + off \in DOMAIN groups /\ groups[g + off].set = wire'[j].set /\ groups[g + off].set # d.set
      BY <1>1, <1>5, <1>10
    <3> QED
      BY <3>1, OtherGroups
  <2> QED
    BY <1>6, <1>10, <2>1
<1>11. GroupInv'
  <2>1. ASSUME NEW g \in 1..m, NEW j \in DOMAIN wire', r[g].set = wire'[j].set
        PROVE  /\ g = m /\ wire'[1].set = wire'[j].set
               /\ r[g].parts \subseteq 1..wire'[j].n /\ wire'[j].i \notin r[g].parts
    <3>1. g = m /\ wire'[j].set = d.set /\ r[g].parts = have
      BY <1>10, <2>1
    <3>2. have \subseteq 1..wire'[j].n /\ wire'[j].i \notin have
      BY <3>1, WirePartsStep
    <3>3. wire'[1].set = wire'[j].set
      BY <3>1, WirePartsStep
    <3> QED
      BY <3>1, <3>2, <3>3
  <2> QED
    BY <1>2, <1>3, <1>4, <1>8, <1>9, <2>1 DEF GroupInv
<1>12. ASSUME NEW j \in DOMAIN wire', wire'[j].set # d.set
       PROVE  GroupParts(groups, wire'[j].set) = {} /\ GroupParts(groups', wire'[j].set) = {}
  <2>1. \A g \in DOMAIN groups : groups[g].set # wire'[j].set
    BY <1>12, OtherGroups
  <2>2. \A g \in DOMAIN groups' : groups'[g].set # wire'[j].set
    BY <1>2, <1>4, <1>10, <1>12
  <2> QED
    BY <2>1, <2>2 DEF GroupParts
<1> QED
  BY <1>11, <1>12

\* The other sets under way are as whole as they were.
LEMMA OthersWhole ==
  ASSUME WireTypes, WireInv, WholeInv, wire # <<>>, wire' = Tail(wire), UNCHANGED arrived,
         NEW d, d = wire[1], NEW j \in DOMAIN wire', NEW x, x = wire'[j].set, x # d.set,
         GroupParts(groups, x) = {}, GroupParts(groups', x) = {}
  PROVE  x \in arrived[x.cam] <=> PartsOf(x)' = 1..wire'[j].n
<1>1. j + 1 \in DOMAIN wire /\ wire'[j] = wire[j + 1]
  BY NextDatagram
<1>2. WireParts(wire', x) = WireParts(wire, x)
  BY <1>1, WirePartsStep
<1>3. PartsOf(x)' = PartsOf(x)
  BY <1>2 DEF PartsOf
<1>4. x \in arrived[x.cam] <=> PartsOf(x) = 1..wire'[j].n
  BY <1>1 DEF WholeInv
<1> QED
  BY <1>3, <1>4

\* A set in one datagram: it is whole, and handed over.
LEMMA ReceiveOne ==
  ASSUME OrderInv, WireTypes', SentInv', wire # <<>>, wire' = Tail(wire), UNCHANGED <<sent, arrived, groups>>,
         NEW d, d = wire[1], d.n = 1, Points!HandOver(d.set)
  PROVE  WireInv' /\ GroupInv' /\ WholeInv' /\ HandedInv' /\ CountedInv'
<1> USE DEF OrderInv
<1>1. d.i = 1 /\ \A j \in DOMAIN wire' : wire'[j].set # d.set
  BY WirePartsStep
<1>2. /\ 1 \in DOMAIN wire
      /\ \A g \in DOMAIN groups : groups[g].set = d.set => groups[g].parts \subseteq 1..1 /\ 1 \notin groups[g].parts
  BY <1>1, NextDatagram DEF GroupInv
<1>3. GroupParts(groups, d.set) = {}
  BY <1>2 DEF GroupParts
<1>4. WireParts(wire', d.set) = {}
  BY <1>1 DEF WireParts
<1>5. PartsOf(d.set) = 1..d.n
  BY <1>1, <1>3, <1>4, WirePartsStep DEF PartsOf
<1>6. d.set \in arrived[d.set.cam]
  BY <1>2, <1>5 DEF WholeInv
<1>7. HandedInv' /\ CountedInv'
  BY <1>1, <1>6, HandedStep
<1>8. ASSUME NEW j \in DOMAIN wire', NEW g \in DOMAIN groups PROVE groups[g].set # wire'[j].set
  BY <1>1, OtherGroups
<1>9. GroupInv'
  BY <1>8 DEF GroupInv
<1>10. \A j \in DOMAIN wire' : wire'[j].set # d.set =>
         GroupParts(groups, wire'[j].set) = {} /\ GroupParts(groups', wire'[j].set) = {}
  BY <1>8 DEF GroupParts
<1>11. WholeInv'
  <2> SUFFICES ASSUME NEW j \in DOMAIN wire', NEW x, x = wire'[j].set
               PROVE  x \in arrived[x.cam] <=> PartsOf(x)' = 1..wire'[j].n
    BY DEF WholeInv
  <2>1. x # d.set
    BY <1>1
  <2>2. WireTypes /\ WireInv /\ WholeInv /\ UNCHANGED arrived
    OBVIOUS
  <2>3. GroupParts(groups, x) = {} /\ GroupParts(groups', x) = {}
    BY <1>10, <2>1
  <2> HIDE DEF OrderInv
  <2> QED
    BY <2>1, <2>2, <2>3, OthersWhole
<1> QED
  BY <1>7, <1>9, <1>11, TailWire

\* A fragment.
LEMMA ReceivePart ==
  ASSUME OrderInv, WireTypes', SentInv', wire # <<>>, wire' = Tail(wire), UNCHANGED <<sent, arrived>>,
         NEW d, d = wire[1], d.n > 1, NEW aged, Points!AddFragment(d, aged),
         NEW q, q = Points!Prune(aged),
         IF Points!Complete(q, d) THEN Points!HandOver(d.set) ELSE UNCHANGED <<gaps, lastSeq, handed>>
  PROVE  WireInv' /\ GroupInv' /\ WholeInv' /\ HandedInv' /\ CountedInv'
<1> USE DEF OrderInv
<1>1. PICK have : have = {d.i} \cup GroupParts(groups, d.set)
  OBVIOUS
<1>2. /\ have \subseteq 1..d.n /\ d.i \notin GroupParts(groups, d.set)
      /\ Points!Complete(q, d) <=> have = 1..d.n
      /\ groups' \in Seq(Groups) /\ Len(groups') <= MaxGroups
      /\ have = 1..d.n => KeptFrom(groups, groups', Len(groups'), d.set)
      /\ have # 1..d.n =>
           /\ Len(groups') > 0 /\ groups'[Len(groups')] = [set |-> d.set, parts |-> have]
           /\ KeptFrom(groups, groups', Len(groups') - 1, d.set)
  <2>1. PICK p : p = groups
    OBVIOUS
  <2>2. WireTypes /\ WireInv /\ GroupInv /\ have = {d.i} \cup GroupParts(p, d.set)
    BY <1>1, <2>1
  <2> HIDE DEF OrderInv
  <2>3. Added(p, groups', d, have) /\ (Points!Complete(q, d) <=> have = 1..d.n)
    BY <2>1, <2>2, AddFacts
  <2> QED
    BY <2>1, <2>3 DEF Added
<1>3. /\ WireParts(wire, d.set) = {d.i} \cup WireParts(wire', d.set)
      /\ \A j \in DOMAIN wire' : wire'[j].set = d.set =>
              /\ wire'[j].n = d.n /\ wire'[j].i # d.i /\ wire'[j].i \in 1..d.n
  BY WirePartsStep
<1>4. ASSUME NEW j \in DOMAIN wire', wire'[j].set = d.set PROVE wire'[j].i \notin have
  <2>1. j + 1 \in DOMAIN wire /\ wire'[j] = wire[j + 1]
    BY NextDatagram
  <2>2. \A g \in DOMAIN groups : groups[g].set = d.set => wire'[j].i \notin groups[g].parts
    BY <1>4, <2>1 DEF GroupInv
  <2> QED
    BY <1>1, <1>3, <1>4, <2>2 DEF GroupParts
<1>5. /\ GroupInv'
      /\ \A j \in DOMAIN wire' : wire'[j].set # d.set =>
           GroupParts(groups, wire'[j].set) = {} /\ GroupParts(groups', wire'[j].set) = {}
  BY <1>2, <1>4, KeptGroups
<1>6. d.set \in arrived[d.set.cam] <=> have \cup WireParts(wire', d.set) = 1..d.n
  <2>1. 1 \in DOMAIN wire
    BY NextDatagram
  <2>2. PartsOf(d.set) = have \cup WireParts(wire', d.set)
    BY <1>1, <1>3 DEF PartsOf
  <2> QED
    BY <2>1, <2>2 DEF WholeInv
<1>7. CASE have = 1..d.n
  <2>1. \A j \in DOMAIN wire' : wire'[j].set # d.set
    BY <1>3, <1>4, <1>7
  <2>2. WireParts(wire', d.set) = {}
    BY <2>1 DEF WireParts
  <2>3. HandedInv' /\ CountedInv'
    BY <1>2, <1>6, <1>7, <2>1, <2>2, HandedStep
  <2>4. WholeInv'
    <3> SUFFICES ASSUME NEW j \in DOMAIN wire', NEW x, x = wire'[j].set
                 PROVE  x \in arrived[x.cam] <=> PartsOf(x)' = 1..wire'[j].n
      BY DEF WholeInv
    <3>1. GroupParts(groups, x) = {} /\ GroupParts(groups', x) = {} /\ x # d.set
      BY <1>5, <2>1
    <3> QED
      BY <3>1, OthersWhole
  <2> QED
    BY <1>5, <2>3, <2>4, TailWire
<1>8. CASE have # 1..d.n
  <2>1. ASSUME d.set \in arrived[d.set.cam] PROVE \E j \in DOMAIN wire' : wire'[j].set = d.set
    <3>1. WireParts(wire', d.set) # {}
      BY <1>6, <1>8, <2>1
    <3> QED
      BY <3>1 DEF WireParts
  <2>2. HandedInv' /\ CountedInv'
    BY <1>2, <1>8, <2>1, NotHandedStep
  <2>3. GroupParts(groups', d.set) = have
    <3>1. PICK m \in Nat : m = Len(groups')
      BY <1>2
    <3>2. /\ m > 0 /\ groups'[m] = [set |-> d.set, parts |-> have] /\ DOMAIN groups' = 1..m
          /\ m \in 1..m /\ (\A g \in 1..m : g = m \/ g \in 1..(m - 1))
      BY <1>2, <1>8, <3>1
    <3>3. \A g \in 1..(m - 1) : groups'[g].set # d.set
      BY <1>2, <1>8, <3>1, KeptSets
    <3> QED
      BY <3>2, <3>3 DEF GroupParts
  <2>4. WholeInv'
    <3> SUFFICES ASSUME NEW j \in DOMAIN wire', NEW x, x = wire'[j].set
                 PROVE  x \in arrived[x.cam] <=> PartsOf(x)' = 1..wire'[j].n
      BY DEF WholeInv
    <3>1. CASE x = d.set
      <4>1. PartsOf(x)' = have \cup WireParts(wire', d.set)
        BY <2>3, <3>1 DEF PartsOf
      <4> QED
        BY <1>3, <1>6, <3>1, <4>1
    <3>2. CASE x # d.set
      <4>1. GroupParts(groups, x) = {} /\ GroupParts(groups', x) = {}
        BY <1>5, <3>2
      <4> QED
        BY <3>2, <4>1, OthersWhole
    <3> QED
      BY <3>1, <3>2
  <2> QED
    BY <1>5, <2>2, <2>4, TailWire
<1> QED
  BY <1>7, <1>8

LEMMA ReceiveStep == ASSUME OrderInv, Points!Receive PROVE OrderInv'
<1>1. /\ wire # <<>> /\ wire' = Tail(wire) /\ UNCHANGED <<sent, arrived, seq, life>>
  BY DEF Points!Receive, Points!producerVars
<1>2. PICK d : d = wire[1]
  OBVIOUS
<1>3. d = Head(wire) /\ d.set \in AllSets /\ WireTypes /\ wire' \in Seq(Datagrams)
  BY <1>1, <1>2, NextDatagram DEF OrderInv
<1>4. SentInv'
  <2>1. ASSUME NEW c \in Cameras PROVE SentOf(c)'
    <3>1. SentOf(c)
      BY DEF OrderInv, SentInv
    <3> QED
      BY <1>1, <3>1 DEF SentOf, Points!Newest
  <2> QED
    BY <2>1 DEF SentInv
<1>5. \/ /\ handed' \in [Cameras -> Seq(AllSets)] /\ lastSeq' \in [Cameras -> Int]
         /\ gaps' \in [Cameras -> Nat] /\ groups' \in Seq(Groups)
      => WireTypes'
  BY <1>1, <1>3 DEF WireTypes
<1>6. CASE d.n = 1 /\ Points!HandOver(d.set) /\ UNCHANGED groups
  <2>1. WireTypes'
    BY <1>3, <1>5, <1>6, HandOverFacts DEF WireTypes
  <2> QED
    BY <1>1, <1>2, <1>4, <1>6, <2>1, ReceiveOne DEF OrderInv
<1>7. ASSUME d.n > 1, NEW aged \in 0..Len(groups), Points!AddFragment(d, aged), NEW q, q = Points!Prune(aged),
             IF Points!Complete(q, d) THEN Points!HandOver(d.set) ELSE UNCHANGED <<gaps, lastSeq, handed>>
      PROVE  OrderInv'
  <2>1. groups' \in Seq(Groups)
    <3>1. PICK have : have = {d.i} \cup GroupParts(groups, d.set)
      OBVIOUS
    <3>2. Added(groups, groups', d, have)
      BY <1>1, <1>2, <1>7, <3>1, AddFacts DEF OrderInv
    <3> QED
      BY <3>2 DEF Added
  <2>2. /\ handed' \in [Cameras -> Seq(AllSets)] /\ lastSeq' \in [Cameras -> Int]
        /\ gaps' \in [Cameras -> Nat]
    <3>1. CASE Points!HandOver(d.set)
      BY <1>3, <3>1, HandOverFacts
    <3>2. CASE UNCHANGED <<gaps, lastSeq, handed>>
      BY <1>3, <3>2 DEF WireTypes
    <3> QED
      BY <1>7, <3>1, <3>2
  <2>3. WireTypes'
    BY <1>5, <2>1, <2>2
  <2> QED
    BY <1>1, <1>2, <1>4, <1>7, <2>3, ReceivePart DEF OrderInv
<1>8. \/ d.n = 1 /\ Points!HandOver(d.set) /\ UNCHANGED groups
      \/ /\ d.n > 1
         /\ \E aged \in 0..Len(groups) :
              /\ Points!AddFragment(d, aged)
              /\ IF Points!Complete(Points!Prune(aged), d)
                 THEN Points!HandOver(d.set) ELSE UNCHANGED <<gaps, lastSeq, handed>>
  BY <1>3 DEF Points!Receive
<1> QED
  BY <1>6, <1>7, <1>8

-----------------------------------------------------------------------------
(* Sending.                                                                  *)

\* One more datagram sequence at the end of the wire.
LEMMA JoinFacts ==
  ASSUME NEW T, NEW w \in Seq(T), NEW v \in Seq(T)
  PROVE  /\ w \o v \in Seq(T) /\ Len(w) \in Nat /\ Len(v) \in Nat
         /\ DOMAIN w = 1..Len(w) /\ DOMAIN v = 1..Len(v)
         /\ DOMAIN (w \o v) = 1..(Len(w) + Len(v))
         /\ \A k \in 1..Len(w) : (w \o v)[k] = w[k]
         /\ \A k \in 1..Len(v) : (w \o v)[Len(w) + k] = v[k]
  OBVIOUS

\* What Send puts on the wire: the fragments that arrive, in their order.
FragmentsOf(w, u, s, n, parts) ==
  /\ DOMAIN w \subseteq DOMAIN u
  /\ \A k \in DOMAIN w : u[k] = w[k]
  /\ \A k \in DOMAIN u : k \in DOMAIN w \/
       (u[k].set = s /\ u[k].n = n /\ u[k].i \in 1..n /\ u[k].i \in {parts[j] : j \in DOMAIN parts})
  /\ \A k, l \in DOMAIN u : k < l /\ k \notin DOMAIN w => l \notin DOMAIN w /\ u[k].i # u[l].i
  /\ \A j \in DOMAIN parts : \E k \in DOMAIN u : k \notin DOMAIN w /\ u[k].i = parts[j]
  /\ \A k, l \in DOMAIN u : \A m \in k..l : m \in DOMAIN u /\ (k \notin DOMAIN w => m \notin DOMAIN w)
  /\ \A k, l \in DOMAIN w : \A m \in k..l : m \in DOMAIN w
  /\ \A k \in DOMAIN w, l \in DOMAIN u : l \notin DOMAIN w => k < l
  /\ w # <<>> => 1 \in DOMAIN w

LEMMA SendWire ==
  ASSUME wire \in Seq(Datagrams), NEW s \in AllSets, NEW n \in Nat, NEW parts \in Points!Fragments(n),
         wire' = wire \o [k \in DOMAIN parts |-> [set |-> s, i |-> parts[k], n |-> n]]
  PROVE  wire' \in Seq(Datagrams) /\ FragmentsOf(wire, wire', s, n, parts)
<1>1. PICK m \in 0..n : parts \in [1..m -> 1..n] /\ \A j, k \in 1..m : j < k => parts[j] < parts[k]
  BY DEF Points!Fragments
<1>2. PICK w : w = wire
  OBVIOUS
<1>3. PICK v : v = [k \in DOMAIN parts |-> [set |-> s, i |-> parts[k], n |-> n]]
  OBVIOUS
<1>4. PICK u : u = w \o v
  OBVIOUS
<1>5. /\ v \in Seq(Datagrams) /\ Len(v) = m /\ m \in Nat /\ DOMAIN parts = 1..m
      /\ \A k \in 1..m : v[k].set = s /\ v[k].i = parts[k] /\ v[k].n = n /\ parts[k] \in 1..n
  <2>1. m \in Nat /\ DOMAIN parts = 1..m
    BY <1>1
  <2>2. \A k \in 1..m : parts[k] \in 1..n /\ v[k] = [set |-> s, i |-> parts[k], n |-> n]
    BY <1>1, <1>3, <2>1
  <2>3. v \in [1..m -> Datagrams]
    BY <1>3, <2>1, <2>2 DEF Datagrams
  <2> QED
    BY <2>1, <2>2, <2>3
<1>6. PICK l \in Nat : l = Len(w)
  BY <1>2
<1>7. /\ u \in Seq(Datagrams) /\ DOMAIN w = 1..l /\ DOMAIN u = 1..(l + m)
      /\ (\A k \in 1..l : u[k] = w[k]) /\ \A k \in 1..m : u[l + k] = v[k]
  <2>1. w \in Seq(Datagrams)
    BY <1>2
  <2>2. /\ w \o v \in Seq(Datagrams) /\ DOMAIN w = 1..Len(w) /\ DOMAIN (w \o v) = 1..(Len(w) + Len(v))
        /\ \A k \in 1..Len(w) : (w \o v)[k] = w[k]
        /\ \A k \in 1..Len(v) : (w \o v)[Len(w) + k] = v[k]
    <3>1. v \in Seq(Datagrams)
      BY <1>5
    <3> QED
      BY <2>1, <3>1
  <2>3. Len(w) = l /\ Len(v) = m /\ w \o v = u
    BY <1>4, <1>5, <1>6
  <2> QED
    BY <2>2, <2>3
<1>8. \A k \in 1..(l + m) : k \in 1..l \/ (k - l \in 1..m /\ l + (k - l) = k /\ l < k /\ k \notin 1..l)
  BY <1>5
<1>9. \A k \in 1..(l + m) : k \in 1..l \/
        (u[k] = v[k - l] /\ u[k].set = s /\ u[k].n = n /\ u[k].i = parts[k - l] /\ parts[k - l] \in 1..n /\ k - l \in 1..m)
  BY <1>5, <1>7, <1>8, SMTT(30)
<1>10. \A k, h \in 1..(l + m) : k < h /\ k \notin 1..l => h \notin 1..l /\ u[k].i # u[h].i
  <2> SUFFICES ASSUME NEW k \in 1..(l + m), NEW h \in 1..(l + m), k < h, k \notin 1..l
               PROVE  h \notin 1..l /\ u[k].i # u[h].i
    OBVIOUS
  <2>1. h \notin 1..l /\ k - l < h - l
    BY <1>5
  <2>2. u[k].i = parts[k - l] /\ u[h].i = parts[h - l] /\ k - l \in 1..m /\ h - l \in 1..m
    BY <1>9, <2>1
  <2>3. parts[k - l] < parts[h - l] /\ parts[k - l] \in Int /\ parts[h - l] \in Int
    BY <1>1, <2>1, <2>2
  <2> QED
    BY <2>1, <2>2, <2>3
<1>11. \A j \in 1..m : \E k \in 1..(l + m) : k \notin 1..l /\ u[k].i = parts[j]
  <2> SUFFICES ASSUME NEW j \in 1..m PROVE l + j \in 1..(l + m) /\ l + j \notin 1..l /\ u[l + j].i = parts[j]
    OBVIOUS
  <2> QED
    BY <1>5, <1>7
<1>12. /\ \A k, h \in 1..(l + m) : \A j \in k..h : j \in 1..(l + m) /\ (k \notin 1..l => j \notin 1..l)
       /\ \A k, h \in 1..l : \A j \in k..h : j \in 1..l
       /\ \A k \in 1..l, h \in 1..(l + m) : h \notin 1..l => k < h
       /\ 1..l \subseteq 1..(l + m)
  BY <1>5
<1>13. w # <<>> => 1 \in 1..l
  BY <1>2, <1>6
<1>14. \A k \in 1..(l + m) : k \in 1..l \/
        (u[k].set = s /\ u[k].n = n /\ u[k].i \in 1..n /\ u[k].i \in {parts[j] : j \in DOMAIN parts})
  BY <1>5, <1>9
<1>15. u = wire' /\ w = wire
  BY <1>2, <1>3, <1>4
<1>16. DOMAIN w = 1..l /\ DOMAIN u = 1..(l + m) /\ DOMAIN parts = 1..m
  BY <1>5, <1>7
<1>17. FragmentsOf(w, u, s, n, parts)
  <2>1. \A k \in DOMAIN w : u[k] = w[k]
    BY <1>7
  <2>2. /\ \A k \in DOMAIN u : k \in DOMAIN w \/
             (u[k].set = s /\ u[k].n = n /\ u[k].i \in 1..n /\ u[k].i \in {parts[j] : j \in DOMAIN parts})
        /\ \A k, h \in DOMAIN u : k < h /\ k \notin DOMAIN w => h \notin DOMAIN w /\ u[k].i # u[h].i
    BY <1>10, <1>14, <1>16
  <2>3. \A j \in DOMAIN parts : \E k \in DOMAIN u : k \notin DOMAIN w /\ u[k].i = parts[j]
    BY <1>11, <1>16
  <2>4. /\ \A k, h \in DOMAIN u : \A j \in k..h : j \in DOMAIN u /\ (k \notin DOMAIN w => j \notin DOMAIN w)
        /\ \A k, h \in DOMAIN w : \A j \in k..h : j \in DOMAIN w
        /\ \A k \in DOMAIN w, h \in DOMAIN u : h \notin DOMAIN w => k < h
        /\ DOMAIN w \subseteq DOMAIN u /\ (w # <<>> => 1 \in DOMAIN w)
    BY <1>12, <1>13, <1>16
  <2> QED
    BY <2>1, <2>2, <2>3, <2>4, Zenon DEF FragmentsOf
<1> QED
  BY <1>7, <1>15, <1>17

\* What Send does to the other variables.
Sending(c, s, n, parts) ==
  /\ s = [cam |-> c, ts |-> Points!Newest(c) + 1, seq |-> seq[c], life |-> life]
  /\ s.ts <= MaxSets
  /\ seq' = [seq EXCEPT ![c] = seq[c] + 1]
  /\ sent' = [sent EXCEPT ![c] = sent[c] \cup {s}]
  /\ arrived' = [arrived EXCEPT ![c] = IF {parts[j] : j \in DOMAIN parts} = 1..n THEN arrived[c] \cup {s} ELSE arrived[c]]
  /\ UNCHANGED <<life, groups, lastSeq, gaps, handed>>

LEMMA SendFacts ==
  ASSUME WireTypes, SentInv, NEW c \in Cameras, NEW n \in Sizes, NEW parts \in Points!Fragments(n),
         Points!Send(c, n, parts)
  PROVE  \E s \in AllSets : Sending(c, s, n, parts) /\ FragmentsOf(wire, wire', s, n, parts) /\ wire' \in Seq(Datagrams)
<1>1. n \in Nat
  BY PointsConstantsFacts
<1>2. PICK s : s = [cam |-> c, ts |-> Points!Newest(c) + 1, seq |-> seq[c], life |-> life]
  OBVIOUS
<1>3. s \in AllSets
  <2>1. Points!Newest(c) \in Nat
    BY DEF SentInv, SentOf
  <2> QED
    BY <1>2, <2>1 DEF AllSets, WireTypes
<1>4. wire' = wire \o [k \in DOMAIN parts |-> [set |-> s, i |-> parts[k], n |-> n]]
  BY <1>2 DEF Points!Send
<1>5. wire' \in Seq(Datagrams) /\ FragmentsOf(wire, wire', s, n, parts)
  BY <1>1, <1>3, <1>4, SendWire DEF WireTypes
<1>6. Sending(c, s, n, parts)
  BY <1>2 DEF Points!Send, Sending, Points!ingestVars, Points!ToSet
<1> QED
  BY <1>3, <1>5, <1>6

LEMMA SendSent ==
  ASSUME WireTypes, SentInv, NEW c \in Cameras, NEW s \in AllSets, NEW n, NEW parts, Sending(c, s, n, parts)
  PROVE  /\ SentInv' /\ s \notin sent[c] /\ s \in sent'[c] /\ s.cam = c
         /\ \A t \in sent[c] : t.ts < s.ts
         /\ \A d \in Cameras : sent[d] \subseteq sent'[d]
<1>1. PICK k \in Nat : k = Points!Newest(c)
  BY DEF SentInv, SentOf
<1>2. PICK S : S = sent[c]
  OBVIOUS
<1>3. PICK U : U = S \cup {s}
  OBVIOUS
<1>4. /\ k <= MaxSets /\ seq[c] \in Nat /\ seq[c] <= k /\ arrived[c] \subseteq S /\ S \in SUBSET AllSets /\ life \in Nat
      /\ TimesUpTo(S, k) /\ Numbered(S)
      /\ \A t \in S :
           /\ t.cam = c /\ t.life <= life /\ t.seq < t.ts
           /\ seq[c] - t.seq <= k + 1 - t.ts
           /\ t.life = life => seq[c] - t.seq = k + 1 - t.ts
  BY <1>1, <1>2 DEF SentInv, SentOf, WireTypes
<1>5. s.cam = c /\ s.ts = k + 1 /\ s.seq = seq[c] /\ s.life = life
  BY <1>1 DEF Sending
<1>6. \A t \in S : t.ts \in 1..k /\ t.ts < s.ts /\ t.ts \in Nat /\ t.seq \in Nat /\ t.life \in Nat
  BY <1>4, <1>5 DEF TimesUpTo, AllSets
<1>7. /\ seq' = [seq EXCEPT ![c] = seq[c] + 1] /\ sent' = [sent EXCEPT ![c] = U]
      /\ life' = life /\ s.ts <= MaxSets
      /\ \/ arrived' = [arrived EXCEPT ![c] = arrived[c] \cup {s}]
         \/ arrived' = [arrived EXCEPT ![c] = arrived[c]]
  BY <1>2, <1>3 DEF Sending
<1>8. /\ seq'[c] = seq[c] + 1 /\ sent'[c] = U /\ arrived'[c] \subseteq U
      /\ \A d \in Cameras : d # c => seq'[d] = seq[d] /\ sent'[d] = sent[d] /\ arrived'[d] = arrived[d]
  BY <1>3, <1>4, <1>7 DEF WireTypes
<1>9. TimesUpTo(U, k + 1)
  BY <1>3, <1>4, <1>5, <1>6, SMTT(30) DEF TimesUpTo
<1>10. Numbered(U)
  <2> SUFFICES ASSUME NEW a \in U, NEW b \in U, a.ts < b.ts
               PROVE  /\ a.life <= b.life /\ b.seq - a.seq <= b.ts - a.ts
                      /\ a.life = b.life => b.seq - a.seq = b.ts - a.ts
    BY DEF Numbered
  <2>1. a # s
    BY <1>3, <1>5, <1>6
  <2>2. a \in S
    BY <1>3, <2>1
  <2>3. CASE b = s
    BY <1>4, <1>5, <1>6, <2>2, <2>3
  <2>4. CASE b \in S
    BY <1>4, <2>2, <2>4 DEF Numbered
  <2> QED
    BY <1>3, <2>3, <2>4
<1>11. Points!Newest(c)' = k + 1
  <2>1. Points!Max(Times(U)) = k + 1
    BY <1>9, NewestIs
  <2> QED
    BY <1>8, <2>1 DEF Points!Newest, Times
<1>12. SentOf(c)'
  <2>1. \A t \in U :
          /\ t.cam = c /\ t.life <= life /\ t.seq < t.ts
          /\ (seq[c] + 1) - t.seq <= (k + 1) + 1 - t.ts
          /\ t.life = life => (seq[c] + 1) - t.seq = (k + 1) + 1 - t.ts
    BY <1>3, <1>4, <1>5, <1>6
  <2> QED
    BY <1>4, <1>5, <1>7, <1>8, <1>9, <1>10, <1>11, <2>1 DEF SentOf
<1>13. ASSUME NEW d \in Cameras, d # c PROVE SentOf(d)'
  <2>1. SentOf(d)
    BY DEF SentInv
  <2> QED
    BY <1>7, <1>8, <1>13, <2>1 DEF SentOf, Points!Newest
<1>14. s \notin S
  BY <1>5, <1>6
<1> QED
  BY <1>2, <1>3, <1>5, <1>6, <1>8, <1>12, <1>13, <1>14 DEF SentInv

\* The wire, the table and the sets under way after a set has been sent.
LEMMA SendUnderWay ==
  ASSUME OrderInv, NEW c \in Cameras, NEW s \in AllSets, NEW n \in Nat, NEW parts,
         Sending(c, s, n, parts), FragmentsOf(wire, wire', s, n, parts)
  PROVE  WireInv' /\ GroupInv' /\ WholeInv'
<1>1. WireTypes /\ SentInv /\ WireInv /\ GroupInv /\ WholeInv
  BY DEF OrderInv
<1>2. /\ s \notin sent[c] /\ s \in sent'[c] /\ s.cam = c
      /\ (\A t \in sent[c] : t.ts < s.ts) /\ \A d \in Cameras : sent[d] \subseteq sent'[d]
  BY <1>1, SendSent
<1>3. PICK w \in Seq(Datagrams) : w = wire
  BY <1>1 DEF WireTypes
<1>4. PICK u : u = wire'
  OBVIOUS
<1>5. FragmentsOf(w, u, s, n, parts)
  BY <1>3, <1>4
<1>6. /\ \A k \in DOMAIN w : k \in DOMAIN u /\ u[k] = w[k]
      /\ \A k \in DOMAIN u : k \in DOMAIN w \/
           (u[k].set = s /\ u[k].n = n /\ u[k].i \in 1..n /\ u[k].i \in {parts[j] : j \in DOMAIN parts})
  BY <1>5 DEF FragmentsOf
<1>7. \A k \in DOMAIN w : w[k].set \in AllSets /\ w[k].set.cam \in Cameras /\ w[k].set \in sent[w[k].set.cam]
                          /\ w[k].set # s /\ w[k].i \in 1..w[k].n
  <2> SUFFICES ASSUME NEW k \in DOMAIN w
               PROVE  w[k].set \in AllSets /\ w[k].set.cam \in Cameras /\ w[k].set \in sent[w[k].set.cam]
                      /\ w[k].set # s /\ w[k].i \in 1..w[k].n
    OBVIOUS
  <2>1. w[k] \in Datagrams
    BY <1>3
  <2>2. w[k].set \in AllSets /\ w[k].set.cam \in Cameras
    BY <2>1 DEF Datagrams, AllSets
  <2>3. w[k].set \in sent[w[k].set.cam] /\ w[k].i \in 1..w[k].n
    BY <1>1, <1>3 DEF WireInv
  <2> QED
    BY <1>2, <2>2, <2>3
<1>8. WireInv'
  <2>1. \A k \in DOMAIN u : u[k].set \in sent'[u[k].set.cam] /\ u[k].i \in 1..u[k].n
    BY <1>2, <1>6, <1>7
  <2>2. ASSUME NEW k \in DOMAIN u, NEW l \in DOMAIN u, k < l
        PROVE  /\ u[k].set.cam = u[l].set.cam /\ u[k].set # u[l].set => u[k].set.ts < u[l].set.ts
               /\ u[k].set = u[l].set =>
                    /\ u[k].n = u[l].n /\ u[k].i # u[l].i
                    /\ \A m \in k..l : u[m].set = u[k].set
    <3>1. CASE k \in DOMAIN w /\ l \in DOMAIN w
      <4>1. /\ w[k].set.cam = w[l].set.cam /\ w[k].set # w[l].set => w[k].set.ts < w[l].set.ts
            /\ w[k].set = w[l].set =>
                 /\ w[k].n = w[l].n /\ w[k].i # w[l].i
                 /\ \A m \in k..l : w[m].set = w[k].set
        BY <1>1, <1>3, <2>2, <3>1 DEF WireInv
      <4>2. \A m \in k..l : m \in DOMAIN w
        BY <1>5, <3>1 DEF FragmentsOf
      <4> QED
        BY <1>6, <3>1, <4>1, <4>2
    <3>2. CASE k \in DOMAIN w /\ l \notin DOMAIN w
      <4>1. u[k] = w[k] /\ u[l].set = s
        BY <1>6, <3>2
      <4> QED
        BY <1>2, <1>7, <3>2, <4>1
    <3>3. CASE k \notin DOMAIN w
      <4>1. l \notin DOMAIN w /\ u[k].i # u[l].i /\ \A m \in k..l : m \in DOMAIN u /\ m \notin DOMAIN w
        BY <1>5, <2>2, <3>3 DEF FragmentsOf
      <4>2. u[k].set = s /\ u[l].set = s /\ u[k].n = n /\ u[l].n = n /\ \A m \in k..l : u[m].set = s
        BY <1>6, <3>3, <4>1
      <4> QED
        BY <4>1, <4>2
    <3> QED
      BY <3>1, <3>2, <3>3
  <2> QED
    BY <1>4, <2>1, <2>2 DEF WireInv
<1>9. groups' = groups
  BY DEF Sending
<1>10. \A g \in DOMAIN groups : groups[g].set # s /\ groups[g].set \in sent'[groups[g].set.cam]
  <2> SUFFICES ASSUME NEW g \in DOMAIN groups
               PROVE  groups[g].set # s /\ groups[g].set \in sent'[groups[g].set.cam]
    OBVIOUS
  <2>1. groups[g].set \in AllSets /\ groups[g].set \in sent[groups[g].set.cam]
    <3>1. groups[g] \in Groups
      BY <1>1 DEF WireTypes
    <3> QED
      BY <1>1, <3>1 DEF Groups, GroupInv
  <2> QED
    BY <1>2, <2>1 DEF AllSets
<1>11. GroupInv'
  <2>1. ASSUME NEW g \in DOMAIN groups, NEW k \in DOMAIN u, groups[g].set = u[k].set
        PROVE  /\ g = Len(groups) /\ u[1].set = u[k].set
               /\ groups[g].parts \subseteq 1..u[k].n /\ u[k].i \notin groups[g].parts
    <3>1. k \in DOMAIN w /\ u[k] = w[k]
      BY <1>6, <1>10, <2>1
    <3>2. 1 \in DOMAIN w
      BY <1>3, <3>1
    <3>3. u[1] = w[1]
      BY <1>6, <3>2
    <3> QED
      BY <1>1, <1>3, <2>1, <3>1, <3>3 DEF GroupInv
  <2> QED
    BY <1>1, <1>4, <1>9, <1>10, <2>1 DEF GroupInv
<1>12. GroupParts(groups, s) = {}
  BY <1>10 DEF GroupParts
<1>13. \A x : x # s => WireParts(u, x) = WireParts(w, x)
  <2> SUFFICES ASSUME NEW x, x # s PROVE WireParts(u, x) = WireParts(w, x)
    OBVIOUS
  <2>1. \A i \in WireParts(u, x) : i \in WireParts(w, x)
    BY <1>6 DEF WireParts
  <2>2. \A i \in WireParts(w, x) : i \in WireParts(u, x)
    BY <1>6 DEF WireParts
  <2> QED
    BY <2>1, <2>2
<1>14. PICK P : P = {parts[j] : j \in DOMAIN parts}
  OBVIOUS
<1>15. WireParts(u, s) = P
  <2>1. \A k \in DOMAIN u : u[k].set = s => u[k].i \in P
    BY <1>6, <1>7, <1>14
  <2>2. \A i \in P : \E k \in DOMAIN u : k \notin DOMAIN w /\ u[k].i = i
    BY <1>5, <1>14 DEF FragmentsOf
  <2>3. \A i \in P : \E k \in DOMAIN u : u[k].set = s /\ u[k].i = i
    BY <1>6, <2>2
  <2> QED
    BY <2>1, <2>3 DEF WireParts
<1>16. /\ s \in arrived'[c] <=> P = 1..n
       /\ \A x : x # s => \A d \in Cameras : x \in arrived'[d] <=> x \in arrived[d]
  <2>1. s \notin arrived[c]
    BY <1>1, <1>2 DEF SentInv, SentOf
  <2>2. arrived' = [arrived EXCEPT ![c] = IF P = 1..n THEN arrived[c] \cup {s} ELSE arrived[c]]
    BY <1>14 DEF Sending
  <2>3. arrived \in [Cameras -> SUBSET AllSets]
    BY <1>1 DEF WireTypes
  <2> QED
    BY <2>1, <2>2, <2>3
<1>17. WholeInv'
  <2> SUFFICES ASSUME NEW k \in DOMAIN u, NEW x, x = u[k].set
               PROVE  x \in arrived'[x.cam] <=> PartsOf(x)' = 1..u[k].n
    BY <1>4 DEF WholeInv
  <2>1. CASE x = s
    <3>1. u[k].n = n
      BY <1>6, <1>7, <2>1
    <3>2. PartsOf(x)' = P
      BY <1>4, <1>9, <1>12, <1>15, <2>1 DEF PartsOf
    <3> QED
      BY <1>2, <1>16, <2>1, <3>1, <3>2
  <2>2. CASE x # s
    <3>1. k \in DOMAIN w /\ u[k] = w[k]
      BY <1>6, <2>2
    <3>2. PartsOf(x)' = PartsOf(x)
      BY <1>3, <1>4, <1>9, <1>13, <2>2 DEF PartsOf
    <3>3. x \in arrived[x.cam] <=> PartsOf(x) = 1..w[k].n
      BY <1>1, <1>3, <3>1 DEF WholeInv
    <3> QED
      BY <1>7, <1>16, <2>2, <3>1, <3>2, <3>3
  <2> QED
    BY <2>1, <2>2
<1> QED
  BY <1>8, <1>11, <1>17

\* What has been handed over, and the counters, after a set has been sent.
LEMMA SendHanded ==
  ASSUME OrderInv, WireTypes', SentInv', NEW c \in Cameras, NEW s \in AllSets, NEW n \in Nat \ {0}, NEW parts,
         Sending(c, s, n, parts), FragmentsOf(wire, wire', s, n, parts)
  PROVE  HandedInv' /\ CountedInv'
<1>1. WireTypes /\ SentInv /\ HandedInv /\ CountedInv
  BY DEF OrderInv
<1>2. /\ s \notin sent[c] /\ s \in sent'[c] /\ s.cam = c
      /\ (\A t \in sent[c] : t.ts < s.ts) /\ \A d \in Cameras : sent[d] \subseteq sent'[d]
  BY <1>1, SendSent
<1>3. /\ \A k \in DOMAIN wire : k \in DOMAIN wire' /\ wire'[k] = wire[k]
      /\ \A k \in DOMAIN wire' : k \in DOMAIN wire \/ wire'[k].set = s
  BY DEF FragmentsOf
<1>4. UNCHANGED <<handed, lastSeq, gaps>>
  BY DEF Sending
<1>5. /\ \A d \in Cameras : d # c => sent'[d] = sent[d] /\ arrived'[d] = arrived[d]
      /\ sent'[c] = sent[c] \cup {s}
      /\ arrived'[c] \subseteq arrived[c] \cup {s} /\ arrived[c] \subseteq arrived'[c]
      /\ s \in arrived'[c] => {parts[j] : j \in DOMAIN parts} = 1..n
  <2>1. s \notin arrived[c]
    BY <1>1, <1>2 DEF SentInv, SentOf
  <2>2. /\ sent' = [sent EXCEPT ![c] = sent[c] \cup {s}]
        /\ \/ arrived' = [arrived EXCEPT ![c] = arrived[c] \cup {s}] /\ {parts[j] : j \in DOMAIN parts} = 1..n
           \/ arrived' = [arrived EXCEPT ![c] = arrived[c]]
    BY DEF Sending
  <2>3. arrived \in [Cameras -> SUBSET AllSets] /\ sent \in [Cameras -> SUBSET AllSets]
    BY <1>1 DEF WireTypes
  <2> QED
    BY <2>1, <2>2, <2>3
<1>6. s \in arrived'[c] => s \in Points!OnWire(c)'
  <2> SUFFICES ASSUME s \in arrived'[c] PROVE s \in Points!OnWire(c)'
    OBVIOUS
  <2>1. 1 \in {parts[j] : j \in DOMAIN parts}
    BY <1>5
  <2>2. PICK k \in DOMAIN wire' : k \notin DOMAIN wire
    BY <2>1 DEF FragmentsOf
  <2>3. wire'[k].set = s
    BY <1>3, <2>2
  <2> QED
    BY <1>2, <2>3 DEF Points!OnWire
<1>7. ASSUME NEW d \in Cameras PROVE HandedOf(d)' /\ CountedOf(d)'
  <2>1. HandedOf(d) /\ CountedOf(d) /\ SentOf(d) /\ SentOf(d)'
    BY <1>1 DEF HandedInv, CountedInv, SentInv
  <2>2. /\ SetsIn(handed[d]) \subseteq sent[d] /\ SetsIn(handed[d]) \subseteq sent'[d]
    BY <1>1, <1>2, <2>1, HandedSets
  <2>3. d = c => AllBefore(handed[d], s)
    BY <1>2, <2>2 DEF AllBefore, SetsIn
  <2>4. /\ Points!OnWire(d) \subseteq Points!OnWire(d)'
        /\ Points!OnWire(d)' \subseteq Points!OnWire(d) \cup {s}
        /\ d # c => Points!OnWire(d)' = Points!OnWire(d)
    <3>1. \A x \in Points!OnWire(d) : x \in Points!OnWire(d)'
      BY <1>3 DEF Points!OnWire
    <3>2. \A x \in Points!OnWire(d)' : x \in Points!OnWire(d) \/ (x = s /\ d = c)
      BY <1>2, <1>3 DEF Points!OnWire
    <3> QED
      BY <3>1, <3>2
  <2>5. arrived'[d] \ Points!OnWire(d)' = arrived[d] \ Points!OnWire(d)
    <3>1. CASE d = c
      <4>1. s \notin arrived[c]
        BY <1>1, <1>2 DEF SentInv, SentOf
      <4> QED
        BY <1>5, <1>6, <2>4, <3>1, <4>1
    <3>2. CASE d # c
      BY <1>5, <2>4, <3>2
    <3> QED
      BY <3>1, <3>2
  <2>6. HandedOf(d)'
    <3>1. ASSUME NEW j \in DOMAIN wire', wire'[j].set.cam = d PROVE AllBefore(handed[d], wire'[j].set)
      BY <1>2, <1>3, <2>1, <2>3, <3>1 DEF HandedOf
    <3> QED
      BY <1>4, <2>1, <2>5, <3>1 DEF HandedOf
  <2>7. LostNewer(Points!Lost(d), Points!Lost(d)', handed[d])
    <3>1. CASE d # c
      <4>1. Points!Lost(d)' = Points!Lost(d)
        BY <1>5, <2>4, <3>1 DEF Points!Lost
      <4> QED
        BY <4>1 DEF LostNewer
    <3>2. CASE d = c
      <4>1. Points!Lost(c) \subseteq Points!Lost(c)'
        BY <1>2, <1>5, <2>4, <3>2 DEF Points!Lost
      <4>2. \A x \in Points!Lost(c)' : x = s \/ x \in Points!Lost(c)
        BY <1>5, <2>4, <3>2 DEF Points!Lost
      <4> QED
        BY <2>3, <3>2, <4>1, <4>2 DEF LostNewer
    <3> QED
      BY <3>1, <3>2
  <2>8. CountedOf(d)'
    BY <1>4, <2>1, <2>2, <2>7, CountedKept
  <2> QED
    BY <2>6, <2>8
<1> QED
  BY <1>7 DEF HandedInv, CountedInv

LEMMA SendStep ==
  ASSUME OrderInv, NEW c \in Cameras, NEW n \in Sizes, NEW parts \in Points!Fragments(n), Points!Send(c, n, parts)
  PROVE  OrderInv'
<1>1. WireTypes /\ SentInv
  BY DEF OrderInv
<1>2. n \in Nat \ {0}
  BY PointsConstantsFacts
<1>3. PICK s \in AllSets :
        Sending(c, s, n, parts) /\ FragmentsOf(wire, wire', s, n, parts) /\ wire' \in Seq(Datagrams)
  BY <1>1, SendFacts
<1>4. SentInv'
  BY <1>1, <1>3, SendSent
<1>5. WireTypes'
  <2>1. /\ seq \in [Cameras -> Nat] /\ sent \in [Cameras -> SUBSET AllSets]
        /\ arrived \in [Cameras -> SUBSET AllSets]
    BY <1>1 DEF WireTypes
  <2>2. /\ seq' \in [Cameras -> Nat] /\ sent' \in [Cameras -> SUBSET AllSets]
        /\ arrived' \in [Cameras -> SUBSET AllSets]
    BY <1>3, <2>1 DEF Sending
  <2>3. UNCHANGED <<life, groups, lastSeq, gaps, handed>>
    BY <1>3 DEF Sending
  <2> QED
    BY <1>1, <1>3, <2>2, <2>3 DEF WireTypes
<1>6. WireInv' /\ GroupInv' /\ WholeInv'
  BY <1>2, <1>3, SendUnderWay
<1>7. HandedInv' /\ CountedInv'
  BY <1>2, <1>3, <1>4, <1>5, SendHanded
<1> QED
  BY <1>4, <1>5, <1>6, <1>7 DEF OrderInv

\* A new life of the producer starts its numbers over, and leaves the rest.
LEMMA RestartStep == ASSUME OrderInv, Points!RestartProducer PROVE OrderInv'
<1>1. /\ life' = life + 1 /\ seq' = [c \in Cameras |-> 0] /\ life \in Nat
      /\ UNCHANGED <<sent, wire, groups, lastSeq, gaps, handed, arrived>>
  BY DEF Points!RestartProducer, Points!ingestVars, OrderInv, WireTypes
<1>2. WireTypes'
  BY <1>1 DEF OrderInv, WireTypes
<1>3. ASSUME NEW c \in Cameras PROVE SentOf(c)'
  <2>1. SentOf(c) /\ sent[c] \subseteq AllSets
    BY DEF OrderInv, SentInv, WireTypes
  <2>2. Points!Newest(c)' = Points!Newest(c) /\ seq'[c] = 0
    BY <1>1 DEF Points!Newest
  <2>3. PICK k \in Nat : k = Points!Newest(c)
    BY <2>1 DEF SentOf
  <2>4. ASSUME NEW s \in sent[c]
        PROVE  /\ s.cam = c /\ s.life <= life + 1 /\ 0 - s.seq <= k + 1 - s.ts /\ s.life # life + 1 /\ s.seq < s.ts
    <3>1. /\ s.cam = c /\ s.life <= life /\ s.seq < s.ts /\ s.ts \in 1..k /\ s.seq \in Nat
          /\ s.life \in Nat
      BY <2>1, <2>3 DEF SentOf, TimesUpTo, AllSets
    <3> QED
      BY <1>1, <3>1
  <2> QED
    BY <1>1, <2>1, <2>2, <2>3, <2>4 DEF SentOf
<1>4. WireInv' /\ GroupInv' /\ WholeInv'
  BY <1>1 DEF OrderInv, WireInv, GroupInv, WholeInv, PartsOf
<1>5. ASSUME NEW c \in Cameras PROVE HandedOf(c)' /\ CountedOf(c)'
  <2>1. HandedOf(c) /\ CountedOf(c)
    BY DEF OrderInv, HandedInv, CountedInv
  <2> QED
    BY <1>1, <2>1 DEF HandedOf, CountedOf, Points!OnWire, Points!Lost
<1> QED
  BY <1>2, <1>3, <1>4, <1>5 DEF OrderInv, SentInv, HandedInv, CountedInv

LEMMA NextOrderInv == ASSUME OrderInv, Points!PointsNext PROVE OrderInv'
  BY SendStep, RestartStep, ReceiveStep DEF Points!PointsNext, Points!Tick

LEMMA SameOrderInv == ASSUME OrderInv, UNCHANGED wireVars PROVE OrderInv'
<1>1. UNCHANGED <<seq, life, sent, wire, groups, lastSeq, gaps, arrived, handed>>
  BY DEF wireVars
<1>2. WireTypes' /\ WireInv' /\ GroupInv' /\ WholeInv'
  <2>1. WireTypes' /\ WireInv'
    BY <1>1 DEF OrderInv, WireTypes, WireInv
  <2>2. GroupInv'
    BY <1>1 DEF OrderInv, GroupInv
  <2>3. WholeInv'
    BY <1>1 DEF OrderInv, WholeInv, PartsOf
  <2> QED
    BY <2>1, <2>2, <2>3
<1>3. ASSUME NEW c \in Cameras PROVE SentOf(c)' /\ HandedOf(c)' /\ CountedOf(c)'
  <2>1. SentOf(c) /\ HandedOf(c) /\ CountedOf(c)
    BY DEF OrderInv, SentInv, HandedInv, CountedInv
  <2> QED
    BY <1>1, <2>1 DEF SentOf, HandedOf, CountedOf, Points!Newest, Points!OnWire, Points!Lost
<1> QED
  BY <1>2, <1>3 DEF OrderInv, SentInv, HandedInv, CountedInv

-----------------------------------------------------------------------------
(* What follows from it.                                                     *)

\* The sets of a sequence in capture order are as many as it is long.
LEMMA NoneTwice ==
  ASSUME NEW T, NEW q \in Seq(T), InOrder(q), \A k \in DOMAIN q : q[k].ts \in Nat
  PROVE  IsFiniteSet(SetsIn(q)) /\ Cardinality(SetsIn(q)) = Len(q)
<1> DEFINE n == Len(q)
           S == SetsIn(q)
           f == [k \in 1..n |-> q[k]]
<1>1. n \in Nat /\ DOMAIN q = 1..n
  OBVIOUS
<1>2. \A j, k \in 1..n : q[j] = q[k] => j = k
  <2> SUFFICES ASSUME NEW j \in 1..n, NEW k \in 1..n, q[j] = q[k], j < k PROVE FALSE
    BY <1>1
  <2>1. q[j].ts < q[k].ts
    BY <1>1 DEF InOrder
  <2> QED
    BY <1>1, <2>1
<1>3. f \in [1..n -> S] /\ (\A j, k \in 1..n : f[j] = f[k] => j = k) /\ \A s \in S : \E k \in 1..n : f[k] = s
  BY <1>1, <1>2 DEF SetsIn
<1> HIDE DEF f, S, n
<1>4. f \in Bijection(1..n, S)
  BY <1>3 DEF Bijection, Injection, Surjection, IsInjective
<1>5. IsFiniteSet(1..n) /\ Cardinality(1..n) = n
  BY <1>1, FS_Interval
<1>6. IsFiniteSet(S) /\ Cardinality(S) = Cardinality(1..n)
  <2>1. ExistsBijection(1..n, S)
    BY <1>4 DEF ExistsBijection
  <2> QED
    BY <1>5, <2>1, FS_Bijection
<1> QED
  BY <1>5, <1>6 DEF n, S

LEMMA OrderPoints == ASSUME OrderInv PROVE PointsInv
<1>1. WireTypes /\ SentInv /\ GroupInv /\ HandedInv /\ CountedInv
  BY DEF OrderInv
<1>2. ASSUME NEW c \in Cameras
      PROVE  /\ lastSeq[c] \in -1..MaxSets /\ gaps[c] \in Nat
             /\ Points!ToSet(handed[c]) = arrived[c] \ Points!OnWire(c)
             /\ Points!Cardinality(Points!ToSet(handed[c])) = Len(handed[c])
             /\ Points!Cardinality(Points!Between(c)) <= gaps[c]
             /\ gaps[c] <= Points!Cardinality({s \in Points!Lost(c) : \E k \in DOMAIN handed[c] : s.ts < handed[c][k].ts})
  <2>1. SentOf(c) /\ HandedOf(c) /\ CountedOf(c)
    BY <1>1 DEF SentInv, HandedInv, CountedInv
  <2>2. PICK q : q = handed[c]
    OBVIOUS
  <2>3. /\ q \in Seq(AllSets) /\ gaps[c] \in Nat /\ SetsIn(q) \subseteq sent[c]
    BY <1>1, <2>1, <2>2, HandedSets
  <2>4. \A s \in sent[c] : s.seq \in -1..MaxSets
    <3>1. \A s \in sent[c] : s.ts \in 1..Points!Newest(c) /\ s.seq < s.ts /\ s.seq \in Nat
      BY <1>1, <2>1 DEF SentOf, TimesUpTo, WireTypes, AllSets
    <3>2. Points!Newest(c) \in Nat /\ Points!Newest(c) <= MaxSets
      BY <2>1 DEF SentOf
    <3> QED
      BY <3>1, <3>2, PointsConstantsFacts
  <2>5. lastSeq[c] \in -1..MaxSets
    <3>1. lastSeq[c] = LastNumber(q)
      BY <2>1, <2>2 DEF HandedOf
    <3>2. CASE q = <<>>
      BY <3>1, <3>2, PointsConstantsFacts DEF LastNumber
    <3>3. CASE q # <<>>
      <4>1. Len(q) \in DOMAIN q
        BY <2>3, <3>3
      <4>2. q[Len(q)] \in sent[c]
        BY <2>3, <4>1 DEF SetsIn
      <4> QED
        BY <2>4, <3>1, <3>3, <4>2 DEF LastNumber
    <3> QED
      BY <3>2, <3>3
  <2>6. Points!ToSet(q) = SetsIn(q)
    BY DEF Points!ToSet, SetsIn
  <2>7. Cardinality(SetsIn(q)) = Len(q)
    <3>1. ASSUME NEW k \in DOMAIN q PROVE q[k].ts \in Nat
      <4>1. q[k] \in AllSets
        BY <2>3
      <4> QED
        BY <4>1 DEF AllSets
    <3>2. InOrder(q)
      BY <2>1, <2>2 DEF HandedOf
    <3> QED
      BY <2>3, <3>1, <3>2, NoneTwice
  <2>8. /\ Points!Between(c) = BetweenIn(Points!Lost(c), handed[c])
        /\ {s \in Points!Lost(c) : \E k \in DOMAIN handed[c] : s.ts < handed[c][k].ts}
             = PassedIn(Points!Lost(c), handed[c])
    BY DEF Points!Between, BetweenIn, PassedIn
  <2>9. Points!ToSet(handed[c]) = arrived[c] \ Points!OnWire(c)
    BY <2>1, <2>2, <2>6 DEF HandedOf
  <2>10. Points!Cardinality(Points!ToSet(handed[c])) = Len(handed[c])
    BY <2>2, <2>6, <2>7, SameSize
  <2>11. /\ Points!Cardinality(Points!Between(c)) <= gaps[c]
         /\ gaps[c] <= Points!Cardinality({s \in Points!Lost(c) : \E k \in DOMAIN handed[c] : s.ts < handed[c][k].ts})
    BY <2>1, <2>8, SameSize DEF CountedOf
  <2> QED
    BY <2>3, <2>5, <2>9, <2>10, <2>11
<1>3. Points!PointsTypeOK
  BY <1>1, <1>2 DEF Points!PointsTypeOK, GroupInv
<1>4. Points!WholeSetsOnly
  BY <1>2 DEF Points!WholeSetsOnly
<1>5. Points!GapsAreLosses
  BY <1>2 DEF Points!GapsAreLosses
<1> QED
  BY <1>3, <1>4, <1>5 DEF PointsInv, Points!PointsInv

LEMMA OrderInvKept ==
  OrderInv /\ [PointsModeNext]_<<part, allVars, wireVars, perceptionVars>> => OrderInv'
<1> SUFFICES ASSUME OrderInv, [PointsModeNext]_<<part, allVars, wireVars, perceptionVars>> PROVE OrderInv'
  OBVIOUS
<1>1. CASE Points!PointsNext
  BY <1>1, NextOrderInv
<1>2. CASE UNCHANGED wireVars
  BY <1>2, SameOrderInv
<1> QED
  BY <1>1, <1>2 DEF PointsModeNext

\* Every set all of whose datagrams came in is handed over, each once, whatever else
\* was lost, and the gap counter misses no set lost between two of one life of the
\* producer and never counts more than what was lost.
THEOREM PointsTheorem == PointsModeSpec => []PointsInv
<1>1. PointsModeInit => OrderInv
  BY InitOrderInv DEF PointsModeInit
<1>2. OrderInv /\ [PointsModeNext]_<<part, allVars, wireVars, perceptionVars>> => OrderInv'
  BY OrderInvKept
<1>3. OrderInv => PointsInv
  BY OrderPoints
<1> QED
  BY <1>1, <1>2, <1>3, PTL DEF PointsModeSpec

-----------------------------------------------------------------------------
(* The stream.                                                               *)

LEMMA InitStream == Points!PointsInit => Points!Stream!Init
  BY DEF Points!PointsInit, Points!Stream!Init

\* A set handed over is newer than the last of its camera, and the others stay.
LEMMA StreamHandOver ==
  ASSUME WireTypes, SentInv, WireInv, HandedInv, wire # <<>>, NEW s \in AllSets, s = wire[1].set, Points!HandOver(s)
  PROVE  Points!Stream!HandOver(s.cam)
<1>1. PICK c \in Cameras : c = s.cam
  BY DEF AllSets
<1>2. PICK q \in Seq(AllSets) : q = handed[c]
  BY DEF WireTypes
<1>3. handed \in [Cameras -> Seq(AllSets)] /\ handed' = [handed EXCEPT ![c] = Append(q, s)]
  BY <1>1, <1>2 DEF WireTypes, Points!HandOver
<1>4. AllBefore(q, s)
  <2>1. 1 \in DOMAIN wire
    BY DEF WireTypes
  <2> QED
    BY <1>1, <1>2, <2>1 DEF HandedInv, HandedOf
<1>5. s.ts \in Nat /\ s.ts > 0
  <2>1. 1 \in DOMAIN wire
    BY DEF WireTypes
  <2>2. s \in sent[c] /\ TimesUpTo(sent[c], Points!Newest(c)) /\ Points!Newest(c) \in Nat
    BY <1>1, <2>1 DEF WireInv, SentInv, SentOf
  <2>3. s.ts \in 1..Points!Newest(c)
    BY <2>2 DEF TimesUpTo
  <2> QED
    BY <2>2, <2>3
<1>6. Len(Append(q, s)) = Len(q) + 1 /\ Points!Last(Append(q, s)) = s /\ Append(q, s) # <<>>
  BY <1>2, AppendFacts DEF Points!Last
<1>7. PICK N : N = [d \in Cameras |-> IF handed[d] = <<>> THEN 0 ELSE Points!Last(handed[d]).ts]
  OBVIOUS
<1>8. PICK M : M = [d \in Cameras |-> IF handed'[d] = <<>> THEN 0 ELSE Points!Last(handed'[d]).ts]
  OBVIOUS
<1>9. M[c] > N[c]
  <2>1. M[c] = s.ts /\ s.ts > 0
    <3>1. handed'[c] = Append(q, s)
      BY <1>3
    <3> QED
      BY <1>5, <1>6, <1>8, <3>1
  <2>2. CASE q = <<>>
    BY <1>2, <1>7, <2>1, <2>2
  <2>3. CASE q # <<>>
    <3>1. Len(q) \in DOMAIN q /\ q[Len(q)] \in AllSets
      BY <2>3
    <3>2. N[c] = q[Len(q)].ts /\ q[Len(q)].ts < s.ts /\ q[Len(q)].ts \in Nat
      BY <1>2, <1>4, <1>7, <2>3, <3>1 DEF Points!Last, AllBefore, AllSets
    <3> QED
      BY <1>5, <2>1, <3>2
  <2> QED
    BY <2>2, <2>3
<1>10. M = [N EXCEPT ![c] = M[c]]
  BY <1>3, <1>7, <1>8
<1>11. [d \in Cameras |-> Len(handed'[d])]
         = [[d \in Cameras |-> Len(handed[d])] EXCEPT ![c] = [d \in Cameras |-> Len(handed[d])][c] + 1]
  BY <1>2, <1>3, <1>6
<1> HIDE DEF Points!HandOver
<1> QED
  BY <1>1, <1>7, <1>8, <1>9, <1>10, <1>11 DEF Points!Stream!HandOver

\* A step of the wire hands one set over or none.
LEMMA StreamStep ==
  ASSUME OrderInv, Points!PointsNext
  PROVE  (\E c \in Cameras : Points!Stream!HandOver(c)) \/ UNCHANGED handed
<1>1. CASE Points!Tick \/ Points!RestartProducer
  BY <1>1 DEF Points!Tick, Points!Send, Points!RestartProducer, Points!ingestVars
<1>2. CASE Points!Receive
  <2>1. wire # <<>> /\ wire' = Tail(wire)
    BY <1>2 DEF Points!Receive
  <2>2. WireTypes /\ SentInv /\ WireInv /\ HandedInv
    BY DEF OrderInv
  <2>3. PICK s : s = wire[1].set
    OBVIOUS
  <2>4. s \in AllSets /\ s.cam \in Cameras /\ Head(wire).set = s
    BY <2>1, <2>2, <2>3, NextDatagram
  <2>5. Points!HandOver(s) \/ UNCHANGED handed
    BY <1>2, <2>4 DEF Points!Receive
  <2>6. ASSUME Points!HandOver(s) PROVE Points!Stream!HandOver(s.cam)
    BY <2>1, <2>2, <2>3, <2>4, <2>6, StreamHandOver
  <2> QED
    BY <2>4, <2>5, <2>6
<1> QED
  BY <1>1, <1>2 DEF Points!PointsNext

\* The wire implements SetStream: what the synchronizer is handed of a camera is in
\* the order of its capture, with gaps but without repetitions, whatever is lost on
\* the way and however often the producer starts over.
THEOREM StreamTheorem == PointsModeSpec => ImplementsStream
<1> DEFINE N == [c \in Cameras |-> IF handed[c] = <<>> THEN 0 ELSE Points!Last(handed[c]).ts]
           C == [c \in Cameras |-> Len(handed[c])]
<1>1. PointsModeInit => OrderInv /\ Points!Stream!Init
  BY InitOrderInv, InitStream DEF PointsModeInit
<1>2. OrderInv /\ [PointsModeNext]_<<part, allVars, wireVars, perceptionVars>> => OrderInv'
  BY OrderInvKept
<1>3. OrderInv /\ [PointsModeNext]_<<part, allVars, wireVars, perceptionVars>>
        => [\E c \in Cameras : Points!Stream!HandOver(c)]_<<N, C>>
  <2> SUFFICES ASSUME OrderInv, [PointsModeNext]_<<part, allVars, wireVars, perceptionVars>>
               PROVE  (\E c \in Cameras : Points!Stream!HandOver(c)) \/ UNCHANGED <<N, C>>
    OBVIOUS
  <2>1. (\E c \in Cameras : Points!Stream!HandOver(c)) \/ UNCHANGED handed
    <3>1. CASE Points!PointsNext
      BY <3>1, StreamStep
    <3>2. CASE UNCHANGED wireVars
      BY <3>2 DEF wireVars
    <3> QED
      BY <3>1, <3>2 DEF PointsModeNext
  <2>2. UNCHANGED handed => UNCHANGED <<N, C>>
    OBVIOUS
  <2> QED
    BY <2>1, <2>2
<1> QED
  BY <1>1, <1>2, <1>3, PTL DEF PointsModeSpec, ImplementsStream, Points!ImplementsStream, Points!Stream!Spec
=============================================================================
