------------------------------ MODULE FrameSync ------------------------------
(***************************************************************************)
(* FrameSynchronizer of backbone/ingestion/frame_sync.py: one bounded      *)
(* buffer of capture timestamps per camera, a sticky "degraded" flag per   *)
(* camera, and one operation, submit(), which runs under the lock and      *)
(* returns at most one FramePair.  A frame is its capture timestamp: the   *)
(* image plays no part in pairing.  One time unit stands for a fixed       *)
(* number of milliseconds, the same for every constant.                    *)
(***************************************************************************)
EXTENDS Integers, Sequences, FiniteSets

CONSTANTS
  CameraIds,      \* the configured cameras, in configuration order
  MaxSkew,        \* max_skew_ms
  MaxAge,         \* max_age_ms
  DegradedAfter,  \* degraded_emit_after_ms
  ProbeFactor,    \* the probe interval is this many times DegradedAfter
  BufferSize,     \* maxlen of each camera's deque
  MaxTs           \* bound of the model: the last capture timestamp

Cameras == {CameraIds[i] : i \in DOMAIN CameraIds}

\* __init__ refuses an empty or duplicated camera list.
ASSUME CameraAssumption ==
  /\ CameraIds \in Seq(Cameras)
  /\ CameraIds # <<>>
  /\ \A i, j \in DOMAIN CameraIds : CameraIds[i] = CameraIds[j] => i = j

ASSUME SyncAssumption ==
  /\ MaxSkew \in Nat
  /\ MaxAge \in Nat
  /\ DegradedAfter \in Nat \ {0}
  /\ ProbeFactor \in Nat \ {0}
  /\ BufferSize \in Nat \ {0}
  /\ MaxTs \in Nat

VARIABLES
  buffers,    \* [camera -> sequence of capture timestamps, oldest first]
  degraded,   \* [camera -> BOOLEAN]
  latest,     \* latest capture timestamp seen across the cameras
  lastProbe,  \* latest when a camera was last un-degraded by the probe
  pair,       \* the last pair returned: frame_idx and the frame per camera
  lastIn,     \* [camera -> the last timestamp it submitted] (the sources)
  lastOut     \* [camera -> the newest timestamp of it ever returned] (history)

syncVars == <<buffers, degraded, latest, lastProbe, pair>>
vars == <<buffers, degraded, latest, lastProbe, pair, lastIn, lastOut>>

-----------------------------------------------------------------------------
Newest(q) == q[Len(q)]

\* deque(maxlen): a full deque drops its oldest element on append.
Push(q, ts) == Append(IF Len(q) = BufferSize THEN Tail(q) ELSE q, ts)

\* Mutant of EvictStale: no eviction by age.
KeepStale(q, now) == q

\* Stale frames leave from the left until the head is young enough.
EvictStale(q, now) ==
  LET stale == {i \in DOMAIN q : \A j \in 1..i : q[j] < now - MaxAge}
  IN  SubSeq(q, Cardinality(stale) + 1, Len(q))

\* The buffers once c's frame is in and every buffer is purged.
Held(c, ts, now) ==
  [k \in Cameras |->
     EvictStale(IF k = c THEN Push(buffers[k], ts) ELSE buffers[k], now)]

Reference(ts) == IF ts > latest THEN ts ELSE latest

CanAlign(held) ==
  /\ Len(CameraIds) >= 2
  /\ \A k \in Cameras : held[k] # <<>>
  /\ \A j, k \in Cameras : Newest(held[j]) - Newest(held[k]) <= MaxSkew

\* Mutant of ProbeDue: the synchronizer before the recovery probe.
NeverProbe(now) == FALSE

\* Every camera is degraded and a whole probe interval has gone by.
ProbeDue(now) ==
  /\ Len(CameraIds) >= 2
  /\ \A k \in Cameras : degraded[k]
  /\ now - lastProbe >= ProbeFactor * DegradedAfter

\* The flags after the probe un-degraded the first camera, if it was due.
Probed(now) ==
  [k \in Cameras |-> degraded[k] /\ ~(ProbeDue(now) /\ k = CameraIds[1])]

\* k may emit solo: it is degraded, or its oldest frame is overdue.
Due(k, held, now) ==
  /\ held[k] # <<>>
  /\ Probed(now)[k] \/ now - Head(held[k]) >= DegradedAfter

Return(frames) ==
  /\ pair' = [idx |-> pair.idx + 1, frames |-> frames]
  /\ lastOut' = [k \in Cameras |->
                   IF k \in DOMAIN frames THEN frames[k] ELSE lastOut[k]]

\* Mutant of EmitAligned: the pairing before the 2026-09 fix, which consumed
\* the paired frames only and left each camera's older frames behind.
EmitAlignedHeadsOnly(held) ==
  /\ CanAlign(held)
  /\ Return([k \in Cameras |-> Newest(held[k])])
  /\ buffers' = [k \in Cameras |-> SubSeq(held[k], 1, Len(held[k]) - 1)]
  /\ degraded' = [k \in Cameras |-> FALSE]
  /\ UNCHANGED lastProbe

EmitAligned(held) ==
  /\ CanAlign(held)
  /\ Return([k \in Cameras |-> Newest(held[k])])
  /\ buffers' = [k \in Cameras |-> <<>>]
  /\ degraded' = [k \in Cameras |-> FALSE]
  /\ UNCHANGED lastProbe

Probe(now) == lastProbe' = IF ProbeDue(now) THEN now ELSE lastProbe

\* Mutant of EmitSolo: the oldest-first backlog drain the docstring rejects.
EmitSoloOldest(held, now) ==
  /\ ~CanAlign(held)
  /\ Probe(now)
  /\ \E i \in DOMAIN CameraIds :
       LET k == CameraIds[i] IN
       /\ Due(k, held, now)
       /\ \A j \in 1..(i - 1) : ~Due(CameraIds[j], held, now)
       /\ Return([x \in {k} |-> Head(held[k])])
       /\ buffers' = [held EXCEPT ![k] = Tail(@)]
       /\ degraded' = [Probed(now) EXCEPT ![k] = TRUE]

\* Mutant of EmitSolo: emits the newest frame and keeps the older ones.
EmitSoloKeepsOlder(held, now) ==
  /\ ~CanAlign(held)
  /\ Probe(now)
  /\ \E i \in DOMAIN CameraIds :
       LET k == CameraIds[i] IN
       /\ Due(k, held, now)
       /\ \A j \in 1..(i - 1) : ~Due(CameraIds[j], held, now)
       /\ Return([x \in {k} |-> Newest(held[k])])
       /\ buffers' = [held EXCEPT ![k] = SubSeq(@, 1, Len(@) - 1)]
       /\ degraded' = [Probed(now) EXCEPT ![k] = TRUE]

\* The first due camera in configuration order emits its newest frame.
EmitSolo(held, now) ==
  /\ ~CanAlign(held)
  /\ Probe(now)
  /\ \E i \in DOMAIN CameraIds :
       LET k == CameraIds[i] IN
       /\ Due(k, held, now)
       /\ \A j \in 1..(i - 1) : ~Due(CameraIds[j], held, now)
       /\ Return([x \in {k} |-> Newest(held[k])])
       /\ buffers' = [held EXCEPT ![k] = <<>>]
       /\ degraded' = [Probed(now) EXCEPT ![k] = TRUE]

Hold(held, now) ==
  /\ ~CanAlign(held)
  /\ \A k \in Cameras : ~Due(k, held, now)
  /\ Probe(now)
  /\ buffers' = held
  /\ degraded' = Probed(now)
  /\ UNCHANGED <<pair, lastOut>>

Submit(c, ts) ==
  LET now == Reference(ts)
      held == Held(c, ts, now)
  IN  /\ latest' = now
      /\ lastIn' = [lastIn EXCEPT ![c] = ts]
      /\ \/ EmitAligned(held)
         \/ EmitSolo(held, now)
         \/ Hold(held, now)

Init ==
  /\ buffers = [k \in Cameras |-> <<>>]
  /\ degraded = [k \in Cameras |-> Len(CameraIds) = 1]
  /\ latest = 0
  /\ lastProbe = 0
  /\ pair = [idx |-> 0, frames |-> <<>>]
  /\ lastIn = [k \in Cameras |-> 0]
  /\ lastOut = [k \in Cameras |-> 0]

\* A source submits its frames in capture order; two sources are not ordered.
Next == \E c \in Cameras : \E ts \in (lastIn[c] + 1)..MaxTs : Submit(c, ts)

Spec == Init /\ [][Next]_vars

-----------------------------------------------------------------------------
\* A partial assignment of capture timestamps to cameras.
FrameSets == UNION {[S -> 0..MaxTs] : S \in SUBSET Cameras}

\* The type invariant of the synchronizer's state.
TypeOK ==
  /\ buffers \in [Cameras -> Seq(0..MaxTs)]
  /\ \A k \in Cameras : Len(buffers[k]) <= BufferSize
  /\ degraded \in [Cameras -> BOOLEAN]
  /\ latest \in 0..MaxTs
  /\ lastProbe \in 0..MaxTs
  /\ pair \in [idx : Nat, frames : FrameSets]
  /\ lastIn \in [Cameras -> 0..MaxTs]
  /\ lastOut \in [Cameras -> 0..MaxTs]

\* Every frame still buffered is newer than any frame of its camera that was
\* ever returned, no newer than the last one submitted, and the buffer is in
\* capture order: whatever path emits next, no frame is served twice or late
\* (the "older backlog" the solo path is documented to discard).
BacklogIsNew ==
  \A k \in Cameras :
    /\ lastOut[k] <= lastIn[k]
    /\ \A i \in DOMAIN buffers[k] :
         /\ lastOut[k] < buffers[k][i]
         /\ buffers[k][i] <= lastIn[k]
         /\ \A j \in 1..(i - 1) : buffers[k][j] < buffers[k][i]

Emits == pair'.idx # pair.idx

\* "Emitting newest-only keeps capture_ts monotonic per camera": across
\* aligned pairs, solo pairs, degradation and recovery, a camera's frames
\* leave the synchronizer in strictly increasing capture order.
CaptureMonotone ==
  [][Emits => \A k \in DOMAIN pair'.frames : pair'.frames[k] > lastOut[k]]_vars

\* No emitted frame is older than max_age_ms relative to the latest capture:
\* after an outage the first frame in cannot be paired with, or overtaken by,
\* what its partner buffered before the outage.
FreshStep == Emits => \A k \in DOMAIN pair'.frames : latest' - pair'.frames[k] <= MaxAge

\* "WHILE degraded, every subsequent frame emits immediately" holds up to the
\* early return of the solo loop: the i-th camera of the configuration can be
\* made to wait by at most the i-1 cameras before it, and the first by none.
DegradedBacklogBounded ==
  \A i \in DOMAIN CameraIds :
    degraded[CameraIds[i]] => Len(buffers[CameraIds[i]]) <= i - 1

-----------------------------------------------------------------------------
(* Expectations the code does not meet: TLC refutes both, the second even when *)
(* frames reach submit() in capture order (InOrderSpec).                       *)

\* What the module docstring says of a degraded camera: "every subsequent
\* frame emits immediately (full input fps, zero buffering)".
ZeroBuffering == \A k \in Cameras : degraded[k] => buffers[k] = <<>>

\* The same sources when no frame overtakes another on its way to submit().
InOrderNext ==
  \E c \in Cameras : \E ts \in (lastIn[c] + 1)..MaxTs :
    ts >= latest /\ Submit(c, ts)

InOrderSpec == Init /\ [][InOrderNext]_vars

\* FramePair.capture_ts is the mean over the pair's frames: the sum here, to
\* be divided by their number.
TsSum(p) ==
  LET f == p.frames
      sum[S \in SUBSET DOMAIN f] ==
        IF S = {} THEN 0
        ELSE LET k == CHOOSE k \in S : TRUE IN f[k] + sum[S \ {k}]
  IN  sum[DOMAIN f]

\* The regression test test_capture_ts_monotonic_across_degrade_and_recovery:
\* the capture_ts of the pairs never goes back, whatever the cameras in them.
PairsForward ==
  [][Emits /\ pair.idx > 0 =>
       TsSum(pair) * Cardinality(DOMAIN pair'.frames)
         <= TsSum(pair') * Cardinality(DOMAIN pair.frames)]_vars
=============================================================================
