------------------------------- MODULE Ingestion -------------------------------
(***************************************************************************)
(* The ingestion threads, the FrameBus and the pipeline thread of the      *)
(* orchestrator around FrameSync.  In frames mode one thread per camera    *)
(* runs _ingestion_loop; in points mode the single UDP listener delivers   *)
(* the sets of every camera.  Either way a thread calls submit(), which is *)
(* atomic under the synchronizer's lock, and then FrameBus.publish(), which*)
(* is not: the lock of the bus is only taken once the queue was full.  The *)
(* pipeline thread calls get_latest() and then step().                     *)
(***************************************************************************)
EXTENDS FrameSync

CONSTANTS
  Threads,   \* the threads that call submit() and publish()
  Serves,    \* [thread -> the cameras whose frames it submits]
  BusSize    \* maxsize of the bus's queue

ASSUME ThreadsAssumption ==
  /\ Serves \in [Threads -> SUBSET Cameras]
  /\ BusSize \in Nat \ {0}

VARIABLES
  queue,       \* the bus's queue of pair numbers, oldest first
  dropped,     \* FrameBus.dropped
  at,          \* [thread -> where it is in publish()]
  item,        \* [thread -> number of the pair it is publishing]
  busLock,     \* the threads holding the bus's lock
  got,         \* the pair get_latest() holds, 0 outside
  delivered,   \* number of the last pair handed to step()
  frameCount   \* pairs handed to step()

busVars == <<queue, dropped, at, item, busLock, got, delivered, frameCount>>
allVars == <<vars, busVars>>

-----------------------------------------------------------------------------
\* A thread submits the next frame of one of its cameras; a returned pair is
\* the thread's to publish.
SubmitFrame(t) ==
  /\ at[t] = "source"
  /\ \E c \in Serves[t] : \E ts \in (lastIn[c] + 1)..MaxTs : Submit(c, ts)
  /\ IF Emits
     THEN /\ item' = [item EXCEPT ![t] = pair'.idx]
          /\ at' = [at EXCEPT ![t] = "put"]
     ELSE UNCHANGED <<item, at>>
  /\ UNCHANGED <<queue, dropped, busLock, got, delivered, frameCount>>

\* Mutant of Put: the return after a successful put_nowait is forgotten.
PutFallsThrough(t) ==
  /\ at[t] = "put"
  /\ queue' = IF Len(queue) < BusSize THEN Append(queue, item[t]) ELSE queue
  /\ at' = [at EXCEPT ![t] = "evict"]
  /\ UNCHANGED <<vars, dropped, item, busLock, got, delivered, frameCount>>

\* The optimistic put_nowait of publish(), outside the bus's lock.
Put(t) ==
  /\ at[t] = "put"
  /\ IF Len(queue) < BusSize
     THEN /\ queue' = Append(queue, item[t])
          /\ at' = [at EXCEPT ![t] = "source"]
     ELSE /\ at' = [at EXCEPT ![t] = "evict"]
          /\ UNCHANGED queue
  /\ UNCHANGED <<vars, dropped, item, busLock, got, delivered, frameCount>>

\* Under the lock: get_nowait drops the oldest pair, if the pipeline has not
\* taken it meanwhile; the counter moves either way.
Evict(t) ==
  /\ at[t] = "evict"
  /\ busLock = {}
  /\ busLock' = {t}
  /\ queue' = IF queue = <<>> THEN queue ELSE Tail(queue)
  /\ dropped' = dropped + 1
  /\ at' = [at EXCEPT ![t] = "retry"]
  /\ UNCHANGED <<vars, item, got, delivered, frameCount>>

\* The second put_nowait: if the queue filled up again the pair is lost.
Retry(t) ==
  /\ at[t] = "retry"
  /\ queue' = IF Len(queue) < BusSize THEN Append(queue, item[t]) ELSE queue
  /\ busLock' = {}
  /\ at' = [at EXCEPT ![t] = "source"]
  /\ UNCHANGED <<vars, dropped, item, got, delivered, frameCount>>

\* get_latest(): the blocking get ...
Get ==
  /\ got = 0
  /\ queue # <<>>
  /\ got' = Head(queue)
  /\ queue' = Tail(queue)
  /\ UNCHANGED <<vars, dropped, at, item, busLock, delivered, frameCount>>

\* Mutant of Drain: the pairs skipped are not counted.
DrainUncounted ==
  /\ got # 0
  /\ queue # <<>>
  /\ got' = Head(queue)
  /\ queue' = Tail(queue)
  /\ UNCHANGED <<vars, dropped, at, item, busLock, delivered, frameCount>>

\* ... one round of the drain ...
Drain ==
  /\ got # 0
  /\ queue # <<>>
  /\ got' = Head(queue)
  /\ queue' = Tail(queue)
  /\ dropped' = dropped + 1
  /\ UNCHANGED <<vars, at, item, busLock, delivered, frameCount>>

\* ... and the return to _pipeline_loop once the queue is empty, with step().
Step ==
  /\ got # 0
  /\ queue = <<>>
  /\ delivered' = got
  /\ frameCount' = frameCount + 1
  /\ got' = 0
  /\ UNCHANGED <<vars, queue, dropped, at, item, busLock>>

IngestionInit ==
  /\ Init
  /\ queue = <<>>
  /\ dropped = 0
  /\ at = [t \in Threads |-> "source"]
  /\ item = [t \in Threads |-> 0]
  /\ busLock = {}
  /\ got = 0
  /\ delivered = 0
  /\ frameCount = 0

Publish(t) == Put(t) \/ Evict(t) \/ Retry(t)
Consume == Get \/ Drain \/ Step

IngestionNext ==
  \/ \E t \in Threads : SubmitFrame(t) \/ Publish(t)
  \/ Consume

\* publish() never blocks and the pipeline loop polls for ever; nothing makes
\* a camera deliver another frame.
Fairness ==
  /\ \A t \in Threads : WF_allVars(Publish(t))
  /\ WF_allVars(Consume)

IngestionSafety == IngestionInit /\ [][IngestionNext]_allVars
IngestionSpec == IngestionSafety /\ Fairness

-----------------------------------------------------------------------------
\* The type invariant of the bus and its threads.
BusTypeOK ==
  /\ queue \in Seq(Nat)
  /\ Len(queue) <= BusSize
  /\ dropped \in Nat
  /\ at \in [Threads -> {"source", "put", "evict", "retry"}]
  /\ item \in [Threads -> Nat]
  /\ busLock \in SUBSET Threads
  /\ {got, delivered, frameCount} \subseteq Nat

\* The pipeline is handed pairs in the order they were emitted, each at most
\* once: the tracker downstream computes its time step from pair to pair.
InOrderDelivery == [][frameCount' # frameCount => delivered' > delivered]_allVars

\* Pairs some thread holds between submit() and the end of publish().
InFlight == Cardinality({t \in Threads : at[t] # "source"})

\* No pair disappears without a trace: each one emitted was processed, is
\* counted as dropped, or is still on its way.
NothingLostSilently ==
  pair.idx <= frameCount + dropped + Len(queue) + InFlight
                + (IF got = 0 THEN 0 ELSE 1)

\* The queue of two stays one, and what it turns away is counted.
BusInv == BusTypeOK /\ NothingLostSilently

\* FrameBus.dropped is documented as the "count of items evicted because the
\* consumer was slow": then it never counts more than the pairs that are gone.
DroppedIsExact ==
  frameCount + dropped + Len(queue) + InFlight + (IF got = 0 THEN 0 ELSE 1)
    <= pair.idx

\* The promise of LatestWins, with the pair counter and the pairs handed to
\* step() as its state: in order, at most once each, and the newest one last.
Latest == INSTANCE LatestWins WITH emitted <- pair.idx, frames <- frameCount,
                                    Limit <- MaxTs * Len(CameraIds)
ImplementsLatestWins == Latest!Spec
=============================================================================
