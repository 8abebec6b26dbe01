---------------------------- MODULE FrameBusProofs ----------------------------
(***************************************************************************)
(* Theorems about the way of a camera's frames: the source that reads the  *)
(* camera, the seqlock of the bus file's bytes, and the life of the file   *)
(* with the hub that follows it.  Any rate cap and number of samples, any  *)
(* number of frames, attempts, producers and polls.                        *)
(***************************************************************************)
EXTENDS MCFrameBus, FiniteSetTheorems, SequenceTheorems, TLAPS

-----------------------------------------------------------------------------
(* The source that reads the camera.                                         *)

Runners == {"none", "build", "make", "run", "null", "over"}
Streamers == {"idle", "put", "make room", "put again"}

CameraTypes ==
  /\ playing \in BOOLEAN /\ steady \in BOOLEAN
  /\ runner \in Runners /\ loop \in {"none", "made", "running", "quitting"}
  /\ ts \in 0..MaxTs /\ seen \in 0..MaxSamples /\ nextKeep \in Nat
  /\ kept \in Seq(0..MaxTs) /\ streamer \in Streamers /\ got \in 0..Len(kept)

\* While a put is under way the queue holds the sample before at most, and the
\* consumer has not seen the new one; otherwise it has the newest or finds it.
Handover ==
  /\ streamer # "idle" => /\ Len(kept) > got
                          /\ queue = <<>> \/ (queue = <<Len(kept) - 1>> /\ got < Len(kept) - 1)
  /\ streamer = "put again" => queue = <<>>
  /\ streamer = "idle" => \/ queue = <<>> /\ got = Len(kept)
                          \/ queue = <<Len(kept)>> /\ got < Len(kept)

\* The schedule is ahead of every sample kept by an interval for each one kept
\* since, but for one interval of credit, and no faster than a steady camera.
Schedule ==
  /\ \A i \in DOMAIN kept : nextKeep >= kept[i] + (Len(kept) - i - 1) * Interval
  /\ steady => nextKeep <= seen * Period /\ Len(kept) = seen

\* A main loop comes after the pipeline, and stop() leaves it quitting unless it
\* found none.
LoopFacts ==
  /\ playing => runner \in {"make", "run", "null"}
  /\ runner \in {"none", "build", "make"} => loop = "none"
  /\ owner = "new" => runner = "none"
  /\ owner \in {"join", "stopped"} => missed \/ loop = "quitting"

SourceFacts == CameraTypes /\ Handover /\ Schedule /\ LoopFacts /\ Camera!Capped

LEMMA Appended ==
  ASSUME NEW S, NEW q \in Seq(S), NEW e \in S
  PROVE  /\ Len(q) \in Nat /\ DOMAIN q = 1..Len(q) /\ \A i \in 1..Len(q) : q[i] \in S
         /\ Append(q, e) \in Seq(S) /\ Len(Append(q, e)) = Len(q) + 1
         /\ DOMAIN Append(q, e) = 1..(Len(q) + 1)
         /\ Append(q, e)[Len(q) + 1] = e /\ \A i \in 1..Len(q) : Append(q, e)[i] = q[i]
<1>1. Append(q, e) \in Seq(S) /\ Len(Append(q, e)) = Len(q) + 1 /\ Len(q) \in Nat
  BY AppendProperties, LenProperties
<1>2. DOMAIN q = 1..Len(q) /\ \A i \in 1..Len(q) : q[i] \in S
  BY LenProperties, ElementOfSeq
<1>3. DOMAIN Append(q, e) = 1..(Len(q) + 1)
  BY <1>1, LenProperties
<1> QED
  BY <1>1, <1>2, <1>3, AppendProperties

LEMMA Singleton ==
  ASSUME NEW x
  PROVE  <<x>> # <<>> /\ <<x>>[1] = x /\ Tail(<<x>>) = <<>> /\ \A y : <<x>> = <<y>> => x = y
  OBVIOUS

LEMMA SourceConstants ==
  /\ Interval \in Nat /\ Period \in Nat /\ Interval <= Period
  /\ MaxSamples \in Nat /\ MaxTs \in Nat
  BY FrameBusConstants DEF Camera!SourceAssumption

LEMMA Distributes ==
  ASSUME NEW a \in Int, NEW b \in Int
  PROVE  (a + 1) * b = a * b + b /\ a * b \in Int
  OBVIOUS

\* One interval more for one sample more.
LEMMA Accrues ==
  ASSUME NEW n \in Nat, NEW i \in 1..n, NEW k \in Nat, NEW x \in Nat, NEW y \in Nat, NEW g \in Nat,
         k >= x + (n - i - 1) * g, y >= k + g
  PROVE  y >= x + (n + 1 - i - 1) * g
  OBVIOUS

LEMMA Lags ==
  ASSUME NEW n \in Nat, NEW i, i = n + 1, NEW x \in Nat, NEW y \in Nat, NEW g \in Nat, y >= x - g
  PROVE  y >= x + (n + 1 - i - 1) * g
  OBVIOUS

LEMMA Spaced ==
  ASSUME NEW n \in Nat, NEW i \in 1..n, NEW j, j = n + 1, NEW k \in Nat, NEW x \in Nat, NEW y \in Nat,
         NEW g \in Nat, k >= x + (n - i - 1) * g, y >= k
  PROVE  y - x >= (j - i - 2) * g
  OBVIOUS

LEMMA InitSource == Camera!SourceInit => SourceFacts
<1> SUFFICES ASSUME Camera!SourceInit PROVE SourceFacts
  OBVIOUS
<1> USE DEF Camera!SourceInit
<1>1. CameraTypes
  <2>1. kept \in Seq(0..MaxTs) /\ got \in 0..Len(kept)
    BY EmptySeq
  <2>2. ts \in 0..MaxTs /\ seen \in 0..MaxSamples /\ nextKeep \in Nat
    BY SourceConstants
  <2> QED
    BY <2>1, <2>2 DEF CameraTypes, Runners, Streamers
<1>2. kept = <<>> /\ Len(kept) = 0 /\ DOMAIN kept = {}
  OBVIOUS
<1>4. Handover /\ LoopFacts
  BY <1>2 DEF Handover, LoopFacts
<1>3. Schedule /\ Camera!Capped
  BY <1>2, SourceConstants DEF Schedule, Camera!Capped
<1> QED
  BY <1>1, <1>3, <1>4 DEF SourceFacts

\* A sample that comes late enough is kept, and the schedule moves on.
LEMMA KeepFacts ==
  ASSUME SourceFacts, NEW t \in 0..MaxTs, t >= nextKeep, seen < MaxSamples,
         steady => t - seen * Period \in 0..(Period + Interval),
         nextKeep' = Camera!Scheduled(t), kept' = Append(kept, t), seen' = seen + 1,
         steady' = steady
  PROVE  Schedule' /\ Camera!Capped' /\ nextKeep' \in Nat
<1> DEFINE n == Len(kept)
<1>1. /\ n \in Nat /\ Len(kept') = n + 1 /\ DOMAIN kept = 1..n /\ DOMAIN kept' = 1..(n + 1)
      /\ kept'[n + 1] = t /\ \A i \in 1..n : kept'[i] = kept[i] /\ kept[i] \in 0..MaxTs
  <2> DEFINE S == 0..MaxTs
  <2>1. kept \in Seq(S) /\ t \in S
    BY DEF SourceFacts, CameraTypes
  <2> HIDE DEF S
  <2>2. /\ Len(kept) \in Nat /\ DOMAIN kept = 1..Len(kept)
        /\ \A i \in 1..Len(kept) : kept[i] \in S
        /\ Len(Append(kept, t)) = Len(kept) + 1 /\ DOMAIN Append(kept, t) = 1..(Len(kept) + 1)
        /\ Append(kept, t)[Len(kept) + 1] = t
        /\ \A i \in 1..Len(kept) : Append(kept, t)[i] = kept[i]
    BY <2>1, Appended
  <2> QED
    BY <2>2 DEF S
<1>2. /\ nextKeep \in Nat /\ seen \in Nat /\ Interval \in Nat /\ Period \in Nat /\ Interval <= Period
      /\ t \in Nat
  BY SourceConstants DEF SourceFacts, CameraTypes
<1>3. nextKeep' >= nextKeep + Interval /\ nextKeep' >= t - Interval
      /\ (nextKeep' = nextKeep + Interval \/ nextKeep' = t - Interval) /\ nextKeep' \in Nat
  BY <1>2 DEF Camera!Scheduled
<1>4. \A i \in 1..n : nextKeep >= kept[i] + (n - i - 1) * Interval
  BY <1>1 DEF SourceFacts, Schedule
<1> HIDE DEF n
<1>5. ASSUME NEW i \in DOMAIN kept' PROVE nextKeep' >= kept'[i] + (Len(kept') - i - 1) * Interval
  <2>1. CASE i = n + 1
    <3>1. nextKeep' >= t + (n + 1 - i - 1) * Interval
      BY ONLY <1>1, <1>2, <1>3, <2>1, Lags
    <3> QED
      BY <1>1, <2>1, <3>1
  <2>2. CASE i \in 1..n
    <3>1. nextKeep >= kept[i] + (n - i - 1) * Interval /\ kept'[i] = kept[i] /\ kept[i] \in Nat
      BY <1>1, <1>4, <2>2
    <3>2. nextKeep' >= kept[i] + (n + 1 - i - 1) * Interval
      BY ONLY <1>1, <1>2, <1>3, <2>2, <3>1, Accrues
    <3> QED
      BY <1>1, <3>1, <3>2
  <2> QED
    BY <1>1, <1>5, <2>1, <2>2
<1>6. steady' => nextKeep' <= seen' * Period /\ Len(kept') = seen'
  <2> SUFFICES ASSUME steady PROVE nextKeep' <= (seen + 1) * Period /\ n + 1 = seen + 1
    BY <1>1
  <2>1. (seen + 1) * Period = seen * Period + Period /\ seen * Period \in Int
    BY <1>2, Distributes
  <2>2. nextKeep <= seen * Period /\ n = seen
    BY DEF SourceFacts, Schedule, n
  <2> QED
    BY <1>2, <1>3, <2>1, <2>2
<1>7. Schedule'
  BY <1>5, <1>6 DEF Schedule
<1>8. ASSUME NEW i \in DOMAIN kept', NEW j \in DOMAIN kept', i < j
      PROVE  kept'[j] - kept'[i] >= (j - i - 2) * Interval
  <2>1. CASE j = n + 1
    <3>1. i \in 1..n /\ (j - i - 2) = n - i - 1
      BY <1>1, <1>8, <2>1
    <3>2. nextKeep >= kept[i] + (n - i - 1) * Interval /\ kept'[i] = kept[i] /\ kept[i] \in Nat
          /\ kept'[j] = t
      BY <1>1, <1>4, <2>1, <3>1
    <3>3. t - kept[i] >= (j - i - 2) * Interval
      BY ONLY <1>1, <1>2, <2>1, <3>1, <3>2, t >= nextKeep, Spaced
    <3> QED
      BY <3>2, <3>3
  <2>2. CASE j \in 1..n
    <3>1. i \in 1..n
      BY <1>1, <1>8, <2>2
    <3> QED
      BY <1>1, <1>8, <2>2, <3>1 DEF SourceFacts, Camera!Capped
  <2> QED
    BY <1>1, <1>8, <2>1, <2>2
<1>9. Camera!Capped'
  BY <1>8 DEF Camera!Capped
<1> QED
  BY <1>3, <1>7, <1>9

LEMMA SampleFacts == ASSUME SourceFacts, Camera!Sample PROVE SourceFacts'
<1>1. PICK t \in Camera!Arrival :
        /\ ts' = t
        /\ IF Camera!Early(t) THEN UNCHANGED <<nextKeep, kept, streamer>>
           ELSE /\ nextKeep' = Camera!Scheduled(t) /\ kept' = Append(kept, t) /\ streamer' = "put"
  BY DEF Camera!Sample
<1>2. /\ playing /\ streamer = "idle" /\ seen < MaxSamples /\ seen' = seen + 1
      /\ UNCHANGED <<owner, missed, ready, failed, runner, loop, playing, ended, steady, queue, consumer, got>>
  BY DEF Camera!Sample, Camera!ownerVars, Camera!runnerVars
<1>3. t \in 0..MaxTs /\ (steady => t - seen * Period \in 0..(Period + Interval))
  BY <1>1, SourceConstants DEF Camera!Arrival, SourceFacts, CameraTypes
<1>4. LoopFacts'
  BY <1>2 DEF SourceFacts, LoopFacts
<1>5. CASE Camera!Early(t)
  <2>1. ~steady
    <3>1. seen * Period \in Int /\ seen \in Nat /\ Period \in Nat /\ Interval \in Nat /\ nextKeep \in Nat
      BY SourceConstants, Distributes DEF SourceFacts, CameraTypes
    <3>2. t < nextKeep /\ (steady => t >= seen * Period /\ nextKeep <= seen * Period)
      BY <1>3, <1>5, <3>1 DEF Camera!Early, SourceFacts, Schedule
    <3> QED
      BY <1>3, <3>1, <3>2
  <2>2. UNCHANGED <<nextKeep, kept, streamer>>
    BY <1>1, <1>5
  <2>3. CameraTypes'
    BY <1>1, <1>2, <1>3, <2>2, SourceConstants DEF SourceFacts, CameraTypes
  <2>4. Handover' /\ Schedule' /\ Camera!Capped'
    BY <1>2, <2>1, <2>2 DEF SourceFacts, Handover, Schedule, Camera!Capped
  <2> QED
    BY <1>4, <2>3, <2>4 DEF SourceFacts
<1>6. CASE ~Camera!Early(t)
  <2>1. nextKeep' = Camera!Scheduled(t) /\ kept' = Append(kept, t) /\ streamer' = "put"
    BY <1>1, <1>6
  <2>2. t >= nextKeep
    BY <1>3, <1>6, SourceConstants DEF Camera!Early, SourceFacts, CameraTypes
  <2>3. Schedule' /\ Camera!Capped' /\ nextKeep' \in Nat
    BY <1>2, <1>3, <2>1, <2>2, KeepFacts
  <2>4. Len(kept) \in Nat /\ Len(kept') = Len(kept) + 1 /\ kept' \in Seq(0..MaxTs)
        /\ got \in 0..Len(kept)
    BY <1>3, <2>1 DEF SourceFacts, CameraTypes
  <2>5. CameraTypes'
    BY <1>1, <1>2, <1>3, <2>1, <2>3, <2>4, SourceConstants DEF SourceFacts, CameraTypes, Streamers
  <2>6. queue = <<>> \/ (queue = <<Len(kept)>> /\ got < Len(kept))
    BY <1>2 DEF SourceFacts, Handover
  <2>7. Handover'
    BY <1>2, <2>1, <2>4, <2>6 DEF Handover
  <2> QED
    BY <1>4, <2>3, <2>5, <2>7 DEF SourceFacts
<1> QED
  BY <1>5, <1>6

LEMMA PutFacts == ASSUME SourceFacts, Camera!Put PROVE SourceFacts'
<1>1. UNCHANGED <<owner, missed, ready, failed, runner, loop, playing, ended, steady, ts, seen,
                  nextKeep, kept, consumer, got>>
  BY DEF Camera!Put, Camera!ownerVars, Camera!runnerVars
<1>2. Schedule' /\ Camera!Capped' /\ LoopFacts'
  BY <1>1 DEF SourceFacts, Schedule, Camera!Capped, LoopFacts
<1>3. CameraTypes'
  BY <1>1 DEF Camera!Put, SourceFacts, CameraTypes, Streamers
<1>4. Len(kept) \in Nat /\ got \in Nat /\ streamer \in Streamers
  BY DEF SourceFacts, CameraTypes
<1>5. streamer # "idle" /\ Len(kept) > got
      /\ (queue = <<>> \/ (queue = <<Len(kept) - 1>> /\ got < Len(kept) - 1))
      /\ (streamer = "put again" => queue = <<>>)
  BY DEF Camera!Put, SourceFacts, Handover
<1>6. CASE streamer = "put" /\ queue # <<>> /\ streamer' = "make room" /\ UNCHANGED queue
  BY <1>1, <1>2, <1>3, <1>5, <1>6 DEF Handover, SourceFacts
<1>7. CASE streamer = "make room" /\ streamer' = "put again" /\ queue' = Camera!MakesRoom(queue)
  <2>1. queue' = <<>>
    BY <1>4, <1>5, <1>7, Singleton DEF Camera!MakesRoom
  <2> QED
    BY <1>1, <1>2, <1>3, <1>5, <1>7, <2>1 DEF Handover, SourceFacts
<1>8. CASE queue = <<>> /\ streamer' = "idle" /\ queue' = <<Len(kept)>>
  BY <1>1, <1>2, <1>3, <1>4, <1>5, <1>8 DEF Handover, SourceFacts
<1> QED
  BY <1>2, <1>3, <1>5, <1>6, <1>7, <1>8 DEF Camera!Put, SourceFacts

LEMMA ConsumeFacts == ASSUME SourceFacts, Camera!Consume PROVE SourceFacts'
<1>1. UNCHANGED <<owner, missed, ready, failed, runner, loop, playing, ended, steady, ts, seen,
                  nextKeep, kept, streamer>>
  BY DEF Camera!Consume, Camera!ownerVars, Camera!runnerVars, Camera!streamVars
<1>2. Schedule' /\ Camera!Capped' /\ LoopFacts'
  BY <1>1 DEF SourceFacts, Schedule, Camera!Capped, LoopFacts
<1>3. CASE UNCHANGED <<queue, got>>
  <2>1. CameraTypes' /\ Handover'
    BY <1>1, <1>3 DEF SourceFacts, CameraTypes, Handover
  <2> QED
    BY <1>2, <2>1 DEF SourceFacts
<1>4. CASE queue # <<>> /\ got' = queue[1] /\ queue' = <<>>
  <2>9. queue' = <<>>
    BY <1>4
  <2>1. Len(kept) \in Nat /\ got \in Nat /\ streamer \in Streamers
    BY DEF SourceFacts, CameraTypes
  <2>2. \/ streamer = "idle" /\ queue = <<Len(kept)>>
        \/ streamer # "idle" /\ queue = <<Len(kept) - 1>> /\ got < Len(kept) - 1
    BY <1>4 DEF SourceFacts, Handover
  <2>6. queue = <<Len(kept)>> => queue[1] = Len(kept)
    BY Singleton
  <2>7. queue = <<Len(kept) - 1>> => queue[1] = Len(kept) - 1
    BY Singleton
  <2>3. \/ streamer = "idle" /\ got' = Len(kept)
        \/ streamer # "idle" /\ got' = Len(kept) - 1
    BY <1>4, <2>2, <2>6, <2>7
  <2>5. Handover'
    BY ONLY <1>1, <2>9, <2>1, <2>3 DEF Handover
  <2>8. got' \in 0..Len(kept)
    BY <2>1, <2>2, <2>3
  <2>4. CameraTypes' /\ Handover'
    BY <1>1, <2>5, <2>8 DEF SourceFacts, CameraTypes
  <2> QED
    BY <1>2, <2>4 DEF SourceFacts
<1> QED
  BY <1>3, <1>4 DEF Camera!Consume

LEMMA QuitFacts ==
  ASSUME Camera!Quit
  PROVE  /\ loop' \in {loop, "quitting"}
         /\ loop \in {"none", "made", "running", "quitting"} => missed' \/ loop' = "quitting"
         /\ loop \in {"none", "quitting"} => loop' = loop
<1>1. CASE loop = "running"
  BY <1>1 DEF Camera!Quit
<1>2. CASE loop # "running"
  <2>1. missed' = (loop \in {"none", "made"}) /\ loop' = loop
    BY <1>2 DEF Camera!Quit
  <2>2. CASE loop \in {"none", "made"}
    <3>1. missed' = TRUE
      BY <2>1, <2>2, Zenon
    <3> QED
      BY <1>2, <2>1, <3>1
  <2>3. CASE loop \notin {"none", "made"}
    BY <1>2, <2>1, <2>3
  <2> QED
    BY <2>2, <2>3
<1> QED
  BY <1>1, <1>2

\* The owner, the thread of the main loop and the messages leave the samples
\* alone.
LEMMA LoopStepFacts ==
  ASSUME SourceFacts, Camera!Owner \/ Camera!Runner \/ Camera!Message
  PROVE  SourceFacts'
<1>1. UNCHANGED <<steady, ts, seen, nextKeep, kept, streamer, queue, got>>
  BY DEF Camera!Owner, Camera!Start, Camera!Started, Camera!StopAsked, Camera!SetStop, Camera!Quit,
         Camera!Join, Camera!Runner, Camera!Build, Camera!MakeLoop, Camera!RunLoop, Camera!Null,
         Camera!Message, Camera!streamVars
<1>2. Schedule' /\ Camera!Capped' /\ Handover'
  BY <1>1 DEF SourceFacts, Schedule, Camera!Capped, Handover
<1>3. /\ playing' \in BOOLEAN /\ runner' \in Runners
      /\ loop' \in {"none", "made", "running", "quitting"}
  <2> USE DEF SourceFacts, CameraTypes, Runners, Camera!ownerVars, Camera!runnerVars
  <2>1. CASE Camera!Start \/ Camera!Started \/ Camera!StopAsked \/ Camera!SetStop
    BY <2>1 DEF Camera!Start, Camera!Started, Camera!StopAsked, Camera!SetStop
  <2>5. CASE Camera!Quit
    <3>1. UNCHANGED <<playing, runner>> /\ owner' = "join"
      BY <2>5 DEF Camera!Quit
    <3> QED
      BY <2>5, <3>1, QuitFacts
  <2>2. CASE Camera!Join
    BY <2>2 DEF Camera!Join
  <2>3. CASE Camera!Build \/ Camera!MakeLoop
    BY <2>3 DEF Camera!Build, Camera!MakeLoop
  <2>4. CASE Camera!RunLoop \/ Camera!Null \/ Camera!Message
    BY <2>4 DEF Camera!RunLoop, Camera!Null, Camera!Message
  <2> QED
    BY <2>1, <2>2, <2>3, <2>4, <2>5 DEF Camera!Owner, Camera!Runner
<1>4. CameraTypes'
  BY <1>1, <1>3 DEF SourceFacts, CameraTypes
<1>5. LoopFacts'
  <2> USE DEF SourceFacts, CameraTypes, LoopFacts, Runners, Camera!ownerVars, Camera!runnerVars
  <2>1. CASE Camera!Start \/ Camera!Started \/ Camera!StopAsked \/ Camera!SetStop
    BY <2>1 DEF Camera!Start, Camera!Started, Camera!StopAsked, Camera!SetStop
  <2>5. CASE Camera!Quit
    <3>1. UNCHANGED <<playing, runner>> /\ owner' = "join"
      BY <2>5 DEF Camera!Quit
    <3> QED
      BY <2>5, <3>1, QuitFacts
  <2>2. CASE Camera!Join
    BY <2>2 DEF Camera!Join
  <2>3. CASE Camera!Build \/ Camera!MakeLoop
    BY <2>3 DEF Camera!Build, Camera!MakeLoop
  <2>4. CASE Camera!RunLoop \/ Camera!Null \/ Camera!Message
    BY <2>4 DEF Camera!RunLoop, Camera!Null, Camera!Message
  <2> QED
    BY <2>1, <2>2, <2>3, <2>4, <2>5 DEF Camera!Owner, Camera!Runner
<1> QED
  BY <1>2, <1>4, <1>5 DEF SourceFacts

LEMMA SourceFactsKept == SourceFacts /\ [Camera!SourceNext]_cameraVars => SourceFacts'
<1> SUFFICES ASSUME SourceFacts, [Camera!SourceNext]_cameraVars PROVE SourceFacts'
  OBVIOUS
<1>1. CASE UNCHANGED cameraVars
  BY <1>1 DEF cameraVars, SourceFacts, CameraTypes, Handover, Schedule, LoopFacts, Camera!Capped
<1> QED
  BY <1>1, LoopStepFacts, SampleFacts, PutFacts, ConsumeFacts DEF Camera!SourceNext

LEMMA SourceFactsImply == SourceFacts => Camera!SourceInv
<1> SUFFICES ASSUME SourceFacts PROVE Camera!SourceInv
  OBVIOUS
<1>1. Len(kept) \in Nat /\ DOMAIN kept = 1..Len(kept) /\ got \in 0..Len(kept) /\ streamer \in Streamers
  BY DEF SourceFacts, CameraTypes
<1>2. \/ queue = <<>>
      \/ \E n \in 1..Len(kept) : queue = <<n>> /\ got < n
  <2>1. CASE queue = <<Len(kept)>> /\ got < Len(kept)
    <3>1. Len(kept) \in 1..Len(kept)
      BY <1>1, <2>1
    <3> QED
      BY <2>1, <3>1, Zenon
  <2>2. CASE queue = <<Len(kept) - 1>> /\ got < Len(kept) - 1
    <3>1. Len(kept) - 1 \in 1..Len(kept)
      BY <1>1, <2>2
    <3> QED
      BY <2>2, <3>1, Zenon
  <2> QED
    BY <2>1, <2>2 DEF SourceFacts, Handover
<1>3. Camera!SourceTypeOK
  BY <1>1, <1>2, SourceConstants DEF Camera!SourceTypeOK, SourceFacts, CameraTypes, LoopFacts
<1>4. \A n \in Camera!ToSet(queue) : got < n
  BY <1>2 DEF Camera!ToSet
<1>5. Camera!NewestOffered
  BY <1>4 DEF Camera!NewestOffered, SourceFacts, Handover
<1>6. Camera!NothingCut /\ Camera!StopTakes
  BY DEF Camera!NothingCut, Camera!StopTakes, SourceFacts, Schedule, LoopFacts
<1> QED
  BY <1>3, <1>5, <1>6 DEF Camera!SourceInv, SourceFacts

-----------------------------------------------------------------------------
(* The seqlock of the bytes.                                                 *)

WriterPlaces == {"idle", "first", "second", "close", "flip"}
ReaderPlaces == {"idle", "slot", "first", "second", "check"}
Writing == {"first", "second", "close"}
Copying == {"first", "second", "check"}
Frames == [Shm!Halves -> Nat]

ShmTypes ==
  /\ latest \in Shm!Slots /\ frame \in Nat /\ flipped \in Nat /\ floor \in Nat
  /\ slots \in [Shm!Slots -> [seq : Nat, ts : Nat, halves : Frames]]
  /\ writer \in [at : WriterPlaces, latest : Shm!Slots, seq : Nat]
  /\ reader \in [at : ReaderPlaces, slot : Shm!Slots, seq : Nat, ts : Nat, halves : Frames,
                 attempt : 0..Attempts - 1]

\* The writer's own copy of the header is right, its counter is odd while a slot
\* is open and ahead of every slot.
Counts ==
  /\ writer.latest = latest
  /\ frame = IF writer.at = "idle" THEN flipped ELSE flipped + 1
  /\ writer.seq % 2 = IF writer.at \in Writing THEN 1 ELSE 0
  /\ writer.at # "idle" => writer.seq > 0
  /\ \A s \in Shm!Slots : slots[s].seq <= writer.seq

Whole(s) == slots[s].halves[1] = slots[s].ts /\ slots[s].halves[2] = slots[s].ts

\* The slot of the header is closed and whole ...
Front ==
  /\ slots[latest].seq % 2 = 0 /\ Whole(latest) /\ slots[latest].ts = flipped
  /\ flipped > 0 => slots[latest].seq > 0

\* ... and the other one is as far as the writer has come with it.
Back ==
  LET b == slots[Shm!BackSlot] IN
  /\ writer.at = "idle" => b.seq % 2 = 0 /\ Whole(Shm!BackSlot)
  /\ writer.at # "idle" => b.seq = writer.seq
  /\ writer.at \in Writing => b.ts = 0
  /\ writer.at \in {"second", "close"} => b.halves[1] = frame
  /\ writer.at = "close" => b.halves[2] = frame
  /\ writer.at = "flip" => Whole(Shm!BackSlot) /\ b.ts = frame

\* The slot a call stays with held a frame no older than the call, and the writer
\* comes back to it only after a newer one.
CallFacts ==
  LET s == slots[reader.slot] IN
  reader.at # "idle" =>
    /\ reader.slot = latest => floor <= flipped
    /\ reader.slot # latest => floor + 1 <= flipped
    /\ floor > 0 => s.seq > 0
    /\ s.seq % 2 = 0 => s.ts >= floor

\* While the number of the slot is what it was, so is what has been copied; once
\* it is not, it never is again.
CopyFacts ==
  LET s == slots[reader.slot] IN
  reader.at \in Copying =>
    /\ reader.seq % 2 = 0 /\ reader.seq <= s.seq /\ reader.ts >= floor
    /\ s.seq # reader.seq => frame >= floor + 2
    /\ s.seq = reader.seq =>
         /\ reader.ts = s.ts
         /\ reader.at \in {"second", "check"} => reader.halves[1] = s.halves[1]
         /\ reader.at = "check" => reader.halves[2] = s.halves[2]

\* The inductive invariant.
LockInv ==
  ShmTypes /\ Counts /\ Front /\ Back /\ CallFacts /\ CopyFacts /\ Shm!NoTornFrame

-----------------------------------------------------------------------------
LEMMA Parity ==
  \A n \in Nat : (n % 2 = 0 \/ n % 2 = 1) /\ (n + 1) % 2 = 1 - (n % 2)
  OBVIOUS

\* Records with some fields set.
LEMMA SlotSet ==
  ASSUME NEW x \in [seq : Nat, ts : Nat, halves : Frames], NEW n \in Nat, NEW t \in Nat
  PROVE  [x EXCEPT !.seq = n, !.ts = t] \in [seq : Nat, ts : Nat, halves : Frames]
  OBVIOUS

LEMMA WriterSet ==
  ASSUME NEW x \in [at : WriterPlaces, latest : Shm!Slots, seq : Nat], NEW w \in WriterPlaces, NEW n \in Nat
  PROVE  [x EXCEPT !.at = w, !.seq = n] \in [at : WriterPlaces, latest : Shm!Slots, seq : Nat]
  OBVIOUS

LEMMA ReaderSet ==
  ASSUME NEW A,
         NEW x \in [at : ReaderPlaces, slot : Shm!Slots, seq : Nat, ts : Nat, halves : Frames, attempt : A],
         NEW w \in ReaderPlaces, NEW k \in A
  PROVE  /\ [x EXCEPT !.at = w, !.attempt = k]
              \in [at : ReaderPlaces, slot : Shm!Slots, seq : Nat, ts : Nat, halves : Frames, attempt : A]
         /\ [x EXCEPT !.attempt = k]
              \in [at : ReaderPlaces, slot : Shm!Slots, seq : Nat, ts : Nat, halves : Frames, attempt : A]
         /\ [x EXCEPT !.at = w, !.attempt = k].at = w
         /\ [x EXCEPT !.attempt = k].at = x.at
         /\ [x EXCEPT !.at = w, !.attempt = k].slot = x.slot
         /\ [x EXCEPT !.attempt = k].slot = x.slot
  OBVIOUS

LEMMA BackFacts ==
  ASSUME ShmTypes, Counts
  PROVE  Shm!BackSlot \in Shm!Slots /\ Shm!BackSlot # latest /\ Shm!Slots = {Shm!BackSlot, latest}
         /\ Shm!BackSlot = 1 - latest
  BY DEF ShmTypes, Counts, Shm!BackSlot, Shm!Slots

LEMMA BlankFrame == <<0, 0>> \in Frames /\ <<0, 0>>[1] = 0 /\ <<0, 0>>[2] = 0
  BY DEF Frames, Shm!Halves

\* Two halves with the same capture_ts are that frame.
LEMMA TwoHalves ==
  ASSUME NEW h \in Frames, NEW a \in Nat, h[1] = a, h[2] = a
  PROVE  h = <<a, a>>
<1>1. DOMAIN <<a, a>> = Shm!Halves /\ <<a, a>> \in Frames
  BY DEF Shm!Halves, Frames
<1>2. \A i \in Shm!Halves : h[i] = <<a, a>>[i]
  BY DEF Shm!Halves
<1> QED
  BY <1>1, <1>2 DEF Frames

LEMMA AttemptsPositive == Attempts \in Nat \ {0}
  BY FrameBusConstants DEF Shm!ShmAssumption

LEMMA IdleReaderFacts ==
  /\ Shm!IdleReader \in [at : ReaderPlaces, slot : Shm!Slots, seq : Nat, ts : Nat, halves : Frames,
                       attempt : 0..Attempts - 1]
  /\ Shm!IdleReader.at = "idle"
  BY AttemptsPositive, BlankFrame DEF Shm!IdleReader, ReaderPlaces, Shm!Slots

LEMMA InitLockInv == ASSUME Shm!ShmInit PROVE LockInv
<1> USE BlankFrame DEF Shm!ShmInit
<1>1. ShmTypes
  BY IdleReaderFacts DEF ShmTypes, Shm!Blank, Shm!Slots, WriterPlaces
<1>2. Counts
  BY DEF Counts, Shm!Blank, Shm!Slots, Writing
<1>3. Front /\ Back
  BY DEF Front, Back, Whole, Shm!Blank, Shm!BackSlot, Shm!Slots, Writing
<1>4. CallFacts /\ CopyFacts /\ Shm!NoTornFrame
  BY DEF CallFacts, CopyFacts, Shm!NoTornFrame, Shm!IdleReader, Copying
<1> QED
  BY <1>1, <1>2, <1>3, <1>4 DEF LockInv

-----------------------------------------------------------------------------
(* The writer: what the reader relies on survives each of its steps.         *)

\* A step that leaves alone the header, and the slots as long as they are closed.
LEMMA WriterBeside ==
  ASSUME LockInv, ShmTypes', UNCHANGED <<latest, flipped, reader, floor, result>>,
         frame' >= frame,
         \A s \in Shm!Slots :
           /\ slots'[s].seq >= slots[s].seq
           /\ slots'[s].seq = slots[s].seq =>
                slots'[s] = slots[s] \/ slots'[s].seq % 2 = 1
           /\ slots'[s].seq # slots[s].seq =>
                /\ s # latest /\ frame' >= flipped + 1
                /\ slots'[s].seq % 2 = 0 => slots'[s].ts >= flipped
  PROVE  CallFacts' /\ CopyFacts' /\ Shm!NoTornFrame'
<1> USE DEF LockInv
<1>1. Shm!NoTornFrame'
  BY DEF Shm!NoTornFrame
<1> DEFINE r == reader.slot
<1>2. /\ r \in Shm!Slots /\ slots[r].seq \in Nat /\ slots'[r].seq \in Nat /\ reader.seq \in Nat
      /\ slots[r].ts \in Nat /\ slots'[r].ts \in Nat /\ reader.slot' = r
      /\ frame \in Nat /\ frame' \in Nat /\ flipped \in Nat /\ floor \in Nat
  BY DEF ShmTypes
<1>3. CallFacts'
  BY <1>2 DEF CallFacts
<1>4. CopyFacts'
  <2> SUFFICES ASSUME reader.at \in Copying PROVE CopyFacts'
    BY DEF CopyFacts
  <2>1. /\ reader.seq % 2 = 0 /\ reader.seq <= slots[r].seq /\ reader.ts >= floor
        /\ slots[r].seq # reader.seq => frame >= floor + 2
        /\ reader.at # "idle"
    BY DEF CopyFacts, Copying
  <2>2. slots'[r].seq # reader.seq => frame' >= floor + 2
    <3>1. CASE slots'[r].seq # slots[r].seq
      BY <1>2, <2>1, <3>1 DEF CallFacts
    <3>2. CASE slots'[r].seq = slots[r].seq
      BY <1>2, <2>1, <3>2
    <3> QED
      BY <3>1, <3>2
  <2>3. slots'[r].seq = reader.seq => slots'[r] = slots[r]
    BY <1>2, <2>1
  <2> QED
    BY <1>2, <2>1, <2>2, <2>3 DEF CopyFacts
<1> QED
  BY <1>1, <1>3, <1>4

LEMMA OpenStep == ASSUME LockInv, Shm!Open PROVE LockInv'
<1> USE DEF LockInv
<1> DEFINE b == Shm!BackSlot
<1>1. /\ writer.at = "idle" /\ frame' = frame + 1 /\ writer.seq \in Nat /\ frame = flipped
      /\ writer' = [writer EXCEPT !.at = "first", !.seq = @ + 1]
      /\ UNCHANGED <<latest, flipped, reader, floor, result>>
  BY DEF Shm!Open, Shm!reading, ShmTypes, Counts
<1>2. b \in Shm!Slots /\ b # latest /\ Shm!Slots = {b, latest} /\ b = 1 - latest
  BY BackFacts
<1>3. writer'.seq = writer.seq + 1 /\ writer'.at = "first" /\ writer'.latest = latest
  BY <1>1 DEF ShmTypes, Counts
<1> HIDE DEF b
<1>4. slots' = [slots EXCEPT ![b] = [slots[b] EXCEPT !.seq = writer.seq + 1, !.ts = 0]]
  BY <1>3 DEF Shm!Open, Shm!Opened, b, ShmTypes
<1>5. /\ slots'[b].seq = writer.seq + 1 /\ slots'[b].ts = 0 /\ slots'[latest] = slots[latest]
  BY <1>2, <1>4 DEF ShmTypes
<1>6. ShmTypes'
  <2>0. writer.seq + 1 \in Nat /\ frame \in Nat /\ 0 \in Nat
    BY <1>1 DEF ShmTypes
  <2>1. [slots[b] EXCEPT !.seq = writer.seq + 1, !.ts = 0] \in [seq : Nat, ts : Nat, halves : Frames]
    BY <1>2, <2>0, SlotSet DEF ShmTypes
  <2>2. writer' \in [at : WriterPlaces, latest : Shm!Slots, seq : Nat]
    <3>1. "first" \in WriterPlaces
      BY DEF WriterPlaces
    <3> QED
      BY <1>1, <2>0, <3>1, WriterSet DEF ShmTypes
  <2>3. slots' \in [Shm!Slots -> [seq : Nat, ts : Nat, halves : Frames]]
    BY <1>2, <1>4, <2>1 DEF ShmTypes
  <2> QED
    BY <1>1, <2>2, <2>3 DEF ShmTypes
<1>7. (writer.seq + 1) % 2 = 1
  BY <1>1, Parity DEF Counts, Writing
<1>8. Counts'
  BY <1>1, <1>2, <1>3, <1>5, <1>7 DEF Counts, ShmTypes, Writing
<1>9. Front'
  BY <1>1, <1>5 DEF Front, Whole
<1>10. Shm!BackSlot' = b
  BY <1>2, <1>3 DEF Shm!BackSlot
<1>11. Back'
  BY <1>3, <1>5, <1>10 DEF Back, Whole, Writing
<1>12. \A s \in Shm!Slots : slots[s].seq <= writer.seq /\ slots[s].seq \in Nat
  BY DEF Counts, ShmTypes
<1>13. CallFacts' /\ CopyFacts' /\ Shm!NoTornFrame'
  BY <1>1, <1>2, <1>5, <1>6, <1>7, <1>12, WriterBeside DEF ShmTypes
<1> QED
  BY <1>6, <1>8, <1>9, <1>11, <1>13

LEMMA CopyStep == ASSUME LockInv, NEW half \in Shm!Halves, Shm!Copy(half) PROVE LockInv'
<1> USE DEF LockInv
<1> DEFINE b == Shm!BackSlot
<1>1. /\ writer.at = (IF half = 1 THEN "first" ELSE "second")
      /\ writer' = [writer EXCEPT !.at = IF half = 1 THEN "second" ELSE "close"]
      /\ UNCHANGED <<latest, frame, flipped, reader, floor, result>>
  BY DEF Shm!Copy, Shm!reading
<1>2. b \in Shm!Slots /\ b # latest /\ Shm!Slots = {b, latest} /\ b = 1 - latest
  BY BackFacts
<1>3. writer'.seq = writer.seq /\ writer'.latest = latest /\ Shm!BackSlot' = b
      /\ writer'.at = IF half = 1 THEN "second" ELSE "close"
  BY <1>1, <1>2 DEF ShmTypes, Counts, Shm!BackSlot
<1> HIDE DEF b
<1>4. slots' = [slots EXCEPT ![b].halves[half] = frame]
  BY DEF Shm!Copy, b
<1>5. /\ slots'[b].seq = slots[b].seq /\ slots'[b].ts = slots[b].ts /\ slots'[latest] = slots[latest]
      /\ slots'[b].halves[half] = frame
      /\ \A i \in Shm!Halves : i # half => slots'[b].halves[i] = slots[b].halves[i]
  BY <1>2, <1>4 DEF ShmTypes, Frames
<1>6. ShmTypes'
  BY <1>1, <1>2, <1>4 DEF ShmTypes, WriterPlaces, Frames, Shm!Halves
<1>7. slots[b].seq = writer.seq /\ writer.seq % 2 = 1 /\ slots[b].ts = 0
      /\ (writer.at = "second" => slots[b].halves[1] = frame)
  BY <1>1 DEF Back, Counts, Writing, b
<1>8. Counts'
  BY <1>1, <1>2, <1>3, <1>5, <1>7 DEF Counts, ShmTypes, Writing
<1>9. Front'
  BY <1>1, <1>5 DEF Front, Whole
<1>11. Back'
  BY <1>1, <1>3, <1>5, <1>7 DEF Back, Whole, Writing, Shm!Halves
<1>13. CallFacts' /\ CopyFacts' /\ Shm!NoTornFrame'
  BY <1>1, <1>2, <1>5, <1>6, <1>7, WriterBeside DEF ShmTypes
<1> QED
  BY <1>6, <1>8, <1>9, <1>11, <1>13

LEMMA CloseStep == ASSUME LockInv, Shm!Close PROVE LockInv'
<1> USE DEF LockInv
<1> DEFINE b == Shm!BackSlot
<1>1. /\ writer.at = "close" /\ writer.seq \in Nat /\ frame = flipped + 1
      /\ writer' = [writer EXCEPT !.at = "flip", !.seq = @ + 1]
      /\ UNCHANGED <<latest, frame, flipped, reader, floor, result>>
  BY DEF Shm!Close, Shm!reading, ShmTypes, Counts
<1>2. b \in Shm!Slots /\ b # latest /\ Shm!Slots = {b, latest} /\ b = 1 - latest
  BY BackFacts
<1>3. writer'.seq = writer.seq + 1 /\ writer'.at = "flip" /\ writer'.latest = latest /\ Shm!BackSlot' = b
  BY <1>1, <1>2 DEF ShmTypes, Counts, Shm!BackSlot
<1> HIDE DEF b
<1>4. slots' = [slots EXCEPT ![b] = [slots[b] EXCEPT !.seq = writer.seq + 1, !.ts = frame]]
  BY <1>3 DEF Shm!Close, Shm!Closed, b, ShmTypes
<1>5. /\ slots'[b].seq = writer.seq + 1 /\ slots'[b].ts = frame /\ slots'[latest] = slots[latest]
      /\ slots'[b].halves = slots[b].halves
  BY <1>2, <1>4 DEF ShmTypes
<1>6. ShmTypes'
  <2>0. writer.seq + 1 \in Nat /\ frame \in Nat /\ 0 \in Nat
    BY <1>1 DEF ShmTypes
  <2>1. [slots[b] EXCEPT !.seq = writer.seq + 1, !.ts = frame] \in [seq : Nat, ts : Nat, halves : Frames]
    BY <1>2, <2>0, SlotSet DEF ShmTypes
  <2>2. writer' \in [at : WriterPlaces, latest : Shm!Slots, seq : Nat]
    <3>1. "flip" \in WriterPlaces
      BY DEF WriterPlaces
    <3> QED
      BY <1>1, <2>0, <3>1, WriterSet DEF ShmTypes
  <2>3. slots' \in [Shm!Slots -> [seq : Nat, ts : Nat, halves : Frames]]
    BY <1>2, <1>4, <2>1 DEF ShmTypes
  <2> QED
    BY <1>1, <2>2, <2>3 DEF ShmTypes
<1>7. (writer.seq + 1) % 2 = 0 /\ slots[b].halves[1] = frame /\ slots[b].halves[2] = frame
  BY <1>1, Parity DEF Counts, Back, Writing, b
<1>8. Counts'
  BY <1>1, <1>2, <1>3, <1>5, <1>7 DEF Counts, ShmTypes, Writing
<1>9. Front'
  BY <1>1, <1>5 DEF Front, Whole
<1>11. Back'
  BY <1>1, <1>3, <1>5, <1>7 DEF Back, Whole, Writing
<1>12. \A s \in Shm!Slots : slots[s].seq <= writer.seq /\ slots[s].seq \in Nat
  BY DEF Counts, ShmTypes
<1>13. CallFacts' /\ CopyFacts' /\ Shm!NoTornFrame'
  BY <1>1, <1>2, <1>5, <1>6, <1>7, <1>12, WriterBeside DEF ShmTypes
<1> QED
  BY <1>6, <1>8, <1>9, <1>11, <1>13

LEMMA FlipStep == ASSUME LockInv, Shm!Flip PROVE LockInv'
<1> USE DEF LockInv
<1> DEFINE b == Shm!BackSlot
<1>1. /\ writer.at = "flip" /\ frame = flipped + 1 /\ latest' = b /\ flipped' = frame
      /\ writer' = [writer EXCEPT !.at = "idle", !.latest = b]
      /\ UNCHANGED <<slots, frame, reader, floor, result>>
  BY DEF Shm!Flip, Shm!Flipped, Shm!reading, Counts
<1>2. b \in Shm!Slots /\ b # latest /\ Shm!Slots = {b, latest} /\ b = 1 - latest /\ latest = 1 - b
  BY BackFacts DEF Shm!Slots, ShmTypes
<1>3. writer'.seq = writer.seq /\ writer'.at = "idle" /\ writer'.latest = b /\ Shm!BackSlot' = latest
  BY <1>1, <1>2 DEF ShmTypes, Shm!BackSlot
<1>4. slots[b].seq = writer.seq /\ writer.seq % 2 = 0 /\ Whole(b) /\ slots[b].ts = frame
  BY <1>1 DEF Back, Counts, Writing
<1> HIDE DEF b
<1>5. ShmTypes'
  BY <1>1, <1>2 DEF ShmTypes, WriterPlaces
<1>6. Counts'
  BY <1>1, <1>3, <1>4 DEF Counts, ShmTypes, Writing
<1>7. slots[latest].seq \in Nat /\ slots[b].seq \in Nat /\ flipped \in Nat /\ writer.seq \in Nat
  BY <1>2 DEF ShmTypes
<1>8. slots[b].seq > 0
  BY <1>1, <1>4 DEF Counts
<1>9. Front'
  BY <1>1, <1>4, <1>8 DEF Front, Whole
<1>10. Back'
  BY <1>1, <1>3 DEF Back, Front, Whole, Writing
<1>11. CallFacts'
  BY <1>1, <1>2, <1>7 DEF CallFacts, ShmTypes
<1>12. CopyFacts' /\ Shm!NoTornFrame'
  BY <1>1 DEF CopyFacts, Shm!NoTornFrame
<1> QED
  BY <1>5, <1>6, <1>9, <1>10, <1>11, <1>12

-----------------------------------------------------------------------------
(* The reader: it writes nothing the writer looks at.                        *)

\* The writer's part of the invariant, and what is left to show of the reader's.
LEMMA ReaderBeside ==
  ASSUME LockInv, UNCHANGED <<latest, slots, writer, frame, flipped>>,
         floor' \in Nat,
         reader' \in [at : ReaderPlaces, slot : Shm!Slots, seq : Nat, ts : Nat, halves : Frames,
                      attempt : 0..Attempts - 1]
  PROVE  ShmTypes' /\ Counts' /\ Front' /\ Back'
<1> USE DEF LockInv
<1>1. ShmTypes' /\ Counts'
  BY DEF ShmTypes, Counts
<1>2. Front' /\ Back'
  BY DEF Front, Back, Whole, Shm!BackSlot
<1> QED
  BY <1>1, <1>2

\* A call ends: with a frame whose halves belong to it, or with none.
LEMMA ReturnStep ==
  ASSUME LockInv, UNCHANGED <<latest, slots, writer, frame, flipped, floor>>,
         NEW r, Shm!Return(r), r # Shm!None => r.halves = <<r.ts, r.ts>>
  PROVE  LockInv'
<1>1. reader' = Shm!IdleReader /\ result' = r
  BY DEF Shm!Return
<1>2. ShmTypes' /\ Counts' /\ Front' /\ Back'
  BY <1>1, ReaderBeside, IdleReaderFacts DEF LockInv, ShmTypes
<1>3. CallFacts' /\ CopyFacts' /\ Shm!NoTornFrame'
  BY <1>1, IdleReaderFacts DEF CallFacts, CopyFacts, Shm!NoTornFrame, Copying
<1> QED
  BY <1>2, <1>3 DEF LockInv

LEMMA ReadHeaderStep ==
  ASSUME LockInv, Shm!ReadHeader
  PROVE  LockInv'
<1> USE DEF LockInv
<1>1. /\ reader' = [Shm!IdleReader EXCEPT !.at = "slot", !.slot = latest] /\ floor' = flipped
      /\ UNCHANGED <<latest, slots, writer, frame, flipped, result>>
  BY DEF Shm!ReadHeader, Shm!memory, Shm!writing
<1>2. /\ reader' \in [at : ReaderPlaces, slot : Shm!Slots, seq : Nat, ts : Nat, halves : Frames,
                       attempt : 0..Attempts - 1]
      /\ reader'.at = "slot" /\ reader'.slot = latest
  BY <1>1, IdleReaderFacts DEF ReaderPlaces, ShmTypes
<1>3. ShmTypes' /\ Counts' /\ Front' /\ Back'
  BY <1>1, <1>2, ReaderBeside DEF ShmTypes
<1>4. CallFacts' /\ CopyFacts' /\ Shm!NoTornFrame'
  BY <1>1, <1>2 DEF CallFacts, CopyFacts, Shm!NoTornFrame, Front, Copying, ShmTypes
<1> QED
  BY <1>3, <1>4

LEMMA ReadSlotStep ==
  ASSUME LockInv, Shm!ReadSlot
  PROVE  LockInv'
<1> USE DEF LockInv
<1> DEFINE s == slots[reader.slot]
<1>1. /\ reader.at = "slot" /\ UNCHANGED <<latest, slots, writer, frame, flipped, floor>>
      /\ s.seq \in Nat /\ s.ts \in Nat /\ reader.attempt \in 0..Attempts - 1
  BY DEF Shm!ReadSlot, Shm!memory, Shm!writing, ShmTypes
<1>2. CASE Shm!Return(Shm!None)
  BY <1>1, <1>2, ReturnStep
<1>3. CASE /\ reader.attempt # Attempts - 1
           /\ reader' = [reader EXCEPT !.attempt = @ + 1] /\ UNCHANGED result
  <2>1. /\ reader' \in [at : ReaderPlaces, slot : Shm!Slots, seq : Nat, ts : Nat, halves : Frames,
                        attempt : 0..Attempts - 1]
        /\ reader'.at = "slot" /\ reader'.slot = reader.slot
    <3>1. reader.attempt + 1 \in 0..Attempts - 1 /\ "slot" \in ReaderPlaces
      BY <1>1, <1>3, AttemptsPositive DEF ReaderPlaces
    <3>2. reader' = [reader EXCEPT !.attempt = reader.attempt + 1]
      BY <1>3
    <3> QED
      BY <1>1, <3>1, <3>2, ReaderSet DEF ShmTypes
  <2>2. ShmTypes' /\ Counts' /\ Front' /\ Back'
    BY <1>1, <2>1, ReaderBeside DEF ShmTypes
  <2>3. CallFacts' /\ CopyFacts' /\ Shm!NoTornFrame'
    BY <1>1, <1>3, <2>1 DEF CallFacts, CopyFacts, Shm!NoTornFrame, Copying
  <2> QED
    BY <2>2, <2>3
<1>4. CASE /\ s.seq # 0 /\ s.seq % 2 # 1 /\ s.ts # 0 /\ UNCHANGED result
           /\ reader' = [reader EXCEPT !.at = "first", !.seq = s.seq, !.ts = s.ts]
  <2>1. /\ reader' \in [at : ReaderPlaces, slot : Shm!Slots, seq : Nat, ts : Nat, halves : Frames,
                        attempt : 0..Attempts - 1]
        /\ reader'.at = "first" /\ reader'.slot = reader.slot
        /\ reader'.seq = s.seq /\ reader'.ts = s.ts
    BY <1>1, <1>4 DEF ShmTypes, ReaderPlaces
  <2>2. ShmTypes' /\ Counts' /\ Front' /\ Back'
    BY <1>1, <2>1, ReaderBeside DEF ShmTypes
  <2>3. s.seq % 2 = 0 /\ s.ts >= floor
    BY <1>1, <1>4, Parity DEF CallFacts
  <2>4. CallFacts' /\ CopyFacts' /\ Shm!NoTornFrame'
    BY <1>1, <1>4, <2>1, <2>3 DEF CallFacts, CopyFacts, Shm!NoTornFrame, Copying
  <2> QED
    BY <2>2, <2>4
<1> QED
  BY <1>2, <1>3, <1>4 DEF Shm!ReadSlot

LEMMA ReadHalfStep ==
  ASSUME LockInv, NEW half \in Shm!Halves, Shm!ReadHalf(half)
  PROVE  LockInv'
<1> USE DEF LockInv
<1> DEFINE s == slots[reader.slot]
<1>1. /\ reader.at = (IF half = 1 THEN "first" ELSE "second")
      /\ reader' = [reader EXCEPT !.at = IF half = 1 THEN "second" ELSE "check",
                                  !.halves[half] = s.halves[half]]
      /\ UNCHANGED <<latest, slots, writer, frame, flipped, floor, result>>
      /\ s.halves \in Frames /\ reader.halves \in Frames /\ floor \in Nat
  BY DEF Shm!ReadHalf, Shm!memory, Shm!writing, ShmTypes
<1>2. s.halves[half] \in Nat /\ Shm!Halves = {1, 2}
  BY <1>1 DEF Frames, Shm!Halves
<1>3. [reader.halves EXCEPT ![half] = s.halves[half]] \in Frames
  BY <1>1, <1>2 DEF Frames
<1>4. /\ reader' \in [at : ReaderPlaces, slot : Shm!Slots, seq : Nat, ts : Nat, halves : Frames,
                      attempt : 0..Attempts - 1]
      /\ reader'.at = (IF half = 1 THEN "second" ELSE "check") /\ reader'.slot = reader.slot
      /\ reader'.seq = reader.seq /\ reader'.ts = reader.ts
      /\ reader'.halves = [reader.halves EXCEPT ![half] = s.halves[half]]
  BY <1>1, <1>3 DEF ShmTypes, ReaderPlaces
<1>5. reader'.halves[half] = s.halves[half] /\ (half = 2 => reader'.halves[1] = reader.halves[1])
  BY <1>1, <1>2, <1>4 DEF Frames
<1>6. ShmTypes' /\ Counts' /\ Front' /\ Back'
  BY <1>1, <1>4, ReaderBeside
<1>7. CallFacts' /\ Shm!NoTornFrame'
  BY <1>1, <1>4 DEF CallFacts, Shm!NoTornFrame
<1>8. CopyFacts'
  BY <1>1, <1>2, <1>4, <1>5 DEF CopyFacts, Copying
<1> QED
  BY <1>6, <1>7, <1>8

LEMMA CheckStep ==
  ASSUME LockInv, Shm!Check
  PROVE  LockInv'
<1> USE DEF LockInv
<1> DEFINE s == slots[reader.slot]
<1>1. /\ reader.at = "check" /\ UNCHANGED <<latest, slots, writer, frame, flipped, floor>>
      /\ reader.attempt \in 0..Attempts - 1 /\ reader.slot \in Shm!Slots
      /\ reader.halves \in Frames /\ reader.ts \in Nat
  BY DEF Shm!Check, Shm!memory, Shm!writing, ShmTypes
<1>2. CASE Shm!Return(Shm!None)
  BY <1>1, <1>2, ReturnStep
<1>3. CASE s.seq = reader.seq /\ Shm!Return([ts |-> reader.ts, halves |-> reader.halves])
  <2>1. Whole(reader.slot)
    <3>1. s.seq % 2 = 0
      BY <1>1, <1>3 DEF CopyFacts, Copying
    <3>2. reader.slot = latest \/ reader.slot = Shm!BackSlot
      BY <1>1, BackFacts
    <3>3. CASE reader.slot = Shm!BackSlot /\ writer.at \in Writing
      BY <3>1, <3>3 DEF Back, Counts, Writing
    <3>4. CASE reader.slot = Shm!BackSlot /\ writer.at \notin Writing
      BY <3>4 DEF Back, ShmTypes, WriterPlaces, Writing
    <3>5. CASE reader.slot = latest
      BY <3>5 DEF Front
    <3> QED
      BY <3>2, <3>3, <3>4, <3>5
  <2>2. reader.halves[1] = reader.ts /\ reader.halves[2] = reader.ts
    BY <1>1, <1>3, <2>1 DEF CopyFacts, Copying, Whole
  <2>3. reader.halves = <<reader.ts, reader.ts>>
    BY <1>1, <2>2, TwoHalves
  <2> QED
    BY <1>1, <1>3, <2>3, ReturnStep
<1>4. CASE /\ reader.attempt # Attempts - 1 /\ UNCHANGED result
           /\ reader' = [reader EXCEPT !.at = "slot", !.attempt = @ + 1]
  <2>1. /\ reader' \in [at : ReaderPlaces, slot : Shm!Slots, seq : Nat, ts : Nat, halves : Frames,
                        attempt : 0..Attempts - 1]
        /\ reader'.at = "slot" /\ reader'.slot = reader.slot
    <3>1. reader.attempt + 1 \in 0..Attempts - 1 /\ "slot" \in ReaderPlaces
      BY <1>1, <1>4, AttemptsPositive DEF ReaderPlaces
    <3>2. reader' = [reader EXCEPT !.at = "slot", !.attempt = reader.attempt + 1]
      BY <1>4
    <3> QED
      BY <1>1, <3>1, <3>2, ReaderSet DEF ShmTypes
  <2>2. ShmTypes' /\ Counts' /\ Front' /\ Back'
    BY <1>1, <2>1, ReaderBeside DEF ShmTypes
  <2>3. CallFacts' /\ CopyFacts' /\ Shm!NoTornFrame'
    BY <1>1, <1>4, <2>1 DEF CallFacts, CopyFacts, Shm!NoTornFrame, Copying
  <2> QED
    BY <2>2, <2>3
<1> QED
  BY <1>2, <1>3, <1>4 DEF Shm!Check

-----------------------------------------------------------------------------
LEMMA LockInvKept == LockInv /\ [Shm!ShmNext]_shmVars => LockInv'
<1> SUFFICES ASSUME LockInv, [Shm!ShmNext]_shmVars PROVE LockInv'
  OBVIOUS
<1>1. CASE Shm!Write
  BY <1>1, OpenStep, CopyStep, CloseStep, FlipStep DEF Shm!Write
<1>2. CASE Shm!Read
  BY <1>2, ReadHeaderStep, ReadSlotStep, ReadHalfStep, CheckStep DEF Shm!Read
<1>3. CASE UNCHANGED shmVars
  BY <1>3 DEF shmVars, LockInv, ShmTypes, Counts, Front, Back, Whole,
              Shm!BackSlot, CallFacts, CopyFacts, Shm!NoTornFrame
<1> QED
  BY <1>1, <1>2, <1>3 DEF Shm!ShmNext


\* Only the slot the writer is in is odd, and no frame returned is torn.
LEMMA LockImplies == LockInv => Shm!FrameInv
<1> SUFFICES ASSUME LockInv, NEW s \in Shm!Slots
             PROVE  slots[s].seq % 2 = 1 <=> s # latest /\ writer.at \in Writing
  BY DEF Shm!FrameInv, Shm!ShmTypeOK, LockInv, ShmTypes, WriterPlaces, ReaderPlaces, Writing
<1> USE DEF LockInv
<1>1. CASE s = latest
  BY <1>1 DEF Front
<1>2. CASE s # latest
  <2>1. s = Shm!BackSlot
    BY <1>2, BackFacts
  <2> QED
    BY <1>2, <2>1 DEF Back, Counts, ShmTypes, WriterPlaces, Writing
<1> QED
  BY <1>1, <1>2

\* A call ends with nothing older than what was published when it began.
LEMMA AnswerFresh ==
  LockInv /\ [Shm!ShmNext]_shmVars
    => [reader.at = "check" /\ result' # result => result'.ts >= floor \/ result' = Shm!None]_shmVars
<1> SUFFICES ASSUME LockInv, Shm!ShmNext, reader.at = "check", result' # result
             PROVE  result'.ts >= floor \/ result' = Shm!None
  BY DEF shmVars
<1>1. Shm!Check
  BY DEF Shm!ShmNext, Shm!Write, Shm!Read, Shm!Open, Shm!Copy, Shm!Close, Shm!Flip, Shm!ReadHeader,
         Shm!ReadSlot, Shm!ReadHalf, Shm!reading, Shm!Halves
<1>2. reader.ts >= floor
  BY DEF LockInv, CopyFacts, Copying
<1> QED
  BY <1>1, <1>2 DEF Shm!Check, Shm!Return

\* A call that ends with nothing was lapped.
LEMMA MissLapped ==
  LockInv /\ [Shm!ShmNext]_shmVars
    => [reader.at # "idle" /\ reader'.at = "idle" /\ result' = Shm!None /\ floor > 0
          => frame >= floor + 2]_shmVars
<1> SUFFICES ASSUME LockInv, Shm!ShmNext, reader.at # "idle", reader'.at = "idle",
                    result' = Shm!None, floor > 0
             PROVE  frame >= floor + 2
  BY DEF shmVars
<1> USE DEF LockInv
<1>1. CASE Shm!ReadSlot
  <2> DEFINE s == slots[reader.slot]
  <2>1. s.seq > 0 /\ s.seq \in Nat /\ floor \in Nat /\ flipped \in Nat /\ s.ts \in Nat
        /\ (s.seq % 2 = 0 => s.ts >= floor) /\ reader.slot \in Shm!Slots
    BY DEF CallFacts, ShmTypes
  <2>2. s.seq % 2 = 1
    <3>1. CASE s.seq % 2 = 0
      <4>1. reader' = [reader EXCEPT !.at = "first", !.seq = s.seq, !.ts = s.ts]
        BY <1>1, <2>1, <3>1 DEF Shm!ReadSlot
      <4> QED
        BY <4>1 DEF ShmTypes
    <3> QED
      BY <2>1, <3>1, Parity
  <2>3. reader.slot # latest
    BY <2>2 DEF Front
  <2>4. writer.at # "idle"
    BY <2>1, <2>2, <2>3, BackFacts DEF Back
  <2> QED
    BY <2>1, <2>3, <2>4 DEF CallFacts, Counts
<1>2. CASE Shm!Check
  <2>1. slots[reader.slot].seq # reader.seq
    BY <1>2, IdleReaderFacts DEF Shm!Check, Shm!Return, Shm!None, CopyFacts, Copying, ShmTypes
  <2> QED
    BY <1>2, <2>1 DEF Shm!Check, CopyFacts, Copying
<1>3. Shm!ReadSlot \/ Shm!Check
  BY DEF Shm!ShmNext, Shm!Write, Shm!Read, Shm!Open, Shm!Copy, Shm!Close, Shm!Flip, Shm!ReadHeader,
         Shm!ReadHalf, Shm!reading, Shm!Halves, ShmTypes
<1> QED
  BY <1>1, <1>2, <1>3

-----------------------------------------------------------------------------
(* The file of the bus and the hub that follows it.                          *)

Lives == {"ready", "up", "closing", "unlinked", "down"}
Pumps == {"idle", "write", "create", "copy", "gone"}

\* The inodes in use are the path's, the hub's and those of the one producer that
\* lives.
FileFacts ==
  /\ life \in [Producers -> Lives] /\ pump \in [Producers -> Pumps]
  /\ map \in [Producers -> {0} \cup Inodes] /\ ino \in [Producers -> {0} \cup Inodes]
  /\ writes \in [Producers -> Nat]
  /\ BusTypeOK
  /\ \A p, q \in Producers : Alive(p) /\ Alive(q) => p = q

HubFacts == FileFacts /\ HubTypeOK

LEMMA HubConstants ==
  /\ Recheck \in Nat \ {0} /\ GiveUp \in Nat \ {0} /\ MaxInodes \in Nat /\ MaxInodes >= 3
  /\ {1, 2, 3} \subseteq Inodes /\ Inodes \subseteq Nat \ {0}
  BY BusAssumption, HubAssumption DEF Inodes

LEMMA InitHub == HubInit => HubFacts
<1> SUFFICES ASSUME HubInit PROVE HubFacts
  OBVIOUS
<1> USE DEF HubInit, BusInit
<1>1. FileFacts
  BY DEF FileFacts, BusTypeOK, Alive, Lives, Pumps
<1>2. HubTypeOK
  BY <1>1, HubConstants DEF FileFacts, HubTypeOK
<1> QED
  BY <1>1, <1>2 DEF HubFacts

\* The hub writes nothing that a producer looks at.
LEMMA HubStep == ASSUME HubFacts, Hub PROVE HubFacts'
<1>1. UNCHANGED <<path, written, fresh, life, pump, map, ino, writes>>
  BY DEF Hub, Look, Poll, Recall, SourceLost, busVars, file, threads
<1>2. FileFacts'
  BY <1>1 DEF HubFacts, FileFacts, BusTypeOK, Alive
<1>3. mapped' \in {0} \cup Inodes /\ Mapping \in {0} \cup Inodes
  BY DEF HubFacts, HubTypeOK, BusTypeOK, Hub, Look, Poll, Recall, SourceLost, Mapping
<1>4. unseen' \subseteq Inodes /\ hub' \in {"enter", "bus", "own"}
  BY <1>3 DEF HubFacts, HubTypeOK, BusTypeOK, Hub, Look, Poll, Recall, SourceLost
<1>5. misses' \in 0..GiveUp /\ (misses' > 0 => hub' = "bus")
  BY HubConstants DEF HubFacts, HubTypeOK, Hub, Look, Poll, Recall, SourceLost, Missed
<1> QED
  BY <1>2, <1>3, <1>4, <1>5 DEF HubFacts, HubTypeOK, FileFacts

\* What is written while the hub looks away is new to it.
LEMMA OthersStep == ASSUME HubFacts, FileFacts', Others PROVE HubFacts'
<1>1. Stored \subseteq Inodes
  BY DEF Stored, HubFacts, FileFacts
<1>2. unseen' \subseteq Inodes
  BY <1>1 DEF Others, News, HubFacts, HubTypeOK
<1> QED
  BY <1>2 DEF Others, HubFacts, HubTypeOK, FileFacts

\* Among three inodes one is held neither by the hub nor by the producer.
LEMMA FreeInode ==
  ASSUME HubFacts, NEW p \in Producers, Alive(p), path = 0
  PROVE  \E i \in Inodes : i \notin Held({mapped})
<1>1. \A q \in Producers : map[q] \in {0, ino[p]} /\ ino[q] \in {0, ino[p]}
  BY DEF HubFacts, FileFacts, BusTypeOK
<1>2. Held({mapped}) \subseteq {0, mapped, ino[p]}
  BY <1>1 DEF Held
<1>3. \E i \in {1, 2, 3} : i \notin {0, mapped, ino[p]}
  OBVIOUS
<1> QED
  BY <1>2, <1>3, HubConstants

LEMMA CreateStep ==
  ASSUME HubFacts, NEW p \in Producers, Create(p, {mapped})
  PROVE  FileFacts'
<1>1. /\ Alive(p)
      /\ map' = [map EXCEPT ![p] = path'] /\ ino' = [ino EXCEPT ![p] = path']
      /\ pump' = [pump EXCEPT ![p] = "copy"]
      /\ written' = written \ {path'} /\ fresh' \subseteq fresh
      /\ UNCHANGED <<life, writes>>
  BY DEF Create
<1>2. path' \in Inodes
  <2>1. CASE path # 0
    BY <2>1 DEF Create, HubFacts, FileFacts, BusTypeOK
  <2>2. CASE path = 0
    <3>1. path' = CHOOSE i \in Inodes : i \notin Held({mapped})
      BY <2>2 DEF Create
    <3> QED
      BY <1>1, <2>2, <3>1, FreeInode
  <2> QED
    BY <2>1, <2>2
<1>3. BusTypeOK'
  BY <1>1, <1>2 DEF HubFacts, FileFacts, BusTypeOK, Alive
<1> QED
  BY <1>1, <1>2, <1>3 DEF HubFacts, FileFacts, Alive, Pumps

LEMMA PumpStep ==
  ASSUME HubFacts, NEW p \in Producers, Arrive(p) \/ Enter(p) \/ Copy(p)
  PROVE  FileFacts'
<1> USE DEF HubFacts, FileFacts, BusTypeOK, Alive, Pumps
<1>1. CASE Arrive(p)
  BY <1>1 DEF Arrive, file
<1>2. CASE Enter(p)
  <2>1. PICK m \in {0, map[p]} : map' = [map EXCEPT ![p] = m]
    BY <1>2 DEF Enter
  <2>2. PICK w \in Pumps : pump' = [pump EXCEPT ![p] = w]
    BY <1>2 DEF Enter
  <2>3. writes' = [writes EXCEPT ![p] = (writes[p] + 1) % Recheck] /\ (writes[p] + 1) % Recheck \in Nat
    BY <1>2, HubConstants DEF Enter
  <2>4. UNCHANGED <<path, written, fresh, life, ino>>
    BY <1>2 DEF Enter, file
  <2> QED
    BY <2>1, <2>2, <2>3, <2>4
<1>3. CASE Copy(p)
  BY <1>3 DEF Copy
<1> QED
  BY <1>1, <1>2, <1>3

LEMMA LifeStep ==
  ASSUME HubFacts, NEW p \in Producers, LaunchAlone(p) \/ Shutdown(p) \/ Kill(p)
  PROVE  FileFacts'
<1> USE DEF HubFacts, FileFacts, BusTypeOK, Alive, Pumps, Lives, file
<1>1. CASE LaunchAlone(p)
  BY <1>1 DEF LaunchAlone, Launch
<1>2. CASE CloseBus(p)
  BY <1>2 DEF CloseBus
<1>3. CASE UnlinkBus(p)
  BY <1>3 DEF UnlinkBus
<1>4. CASE PumpUnlink(p)
  BY <1>4 DEF PumpUnlink
<1>5. CASE Gone(p)
  BY <1>5 DEF Gone
<1> QED
  BY <1>1, <1>2, <1>3, <1>4, <1>5 DEF Shutdown, Exit, Kill

LEMMA TidyStep == ASSUME HubFacts, Tidy PROVE FileFacts'
  BY DEF HubFacts, FileFacts, BusTypeOK, Alive, Tidy, GrowOld, Remove, threads

LEMMA HubFactsKept == HubFacts /\ [HubNext]_hubVars => HubFacts'
<1> SUFFICES ASSUME HubFacts, [HubNext]_hubVars PROVE HubFacts'
  OBVIOUS
<1>1. CASE Tidy /\ Others
  BY <1>1, TidyStep, OthersStep
<1>2. ASSUME NEW p \in Producers, Stream(p) PROVE HubFacts'
  BY <1>2, CreateStep, PumpStep, OthersStep DEF Stream, Pump
<1>3. ASSUME NEW p \in Producers, (LaunchAlone(p) \/ Shutdown(p) \/ Kill(p)) /\ Others
      PROVE  HubFacts'
  BY <1>3, LifeStep, OthersStep
<1>4. CASE UNCHANGED hubVars
  BY <1>4 DEF hubVars, busVars, file, threads, hubState, HubFacts, FileFacts, BusTypeOK, Alive, HubTypeOK
<1> QED
  BY <1>1, <1>2, <1>3, <1>4, HubStep DEF HubNext

-----------------------------------------------------------------------------
(* The composition: each part keeps its own invariant and leaves the others.  *)

FrameVars == <<part, cameraVars, hubVars, shmVars>>

LEMMA PartSteps ==
  ASSUME [FrameBusNext]_FrameVars
  PROVE  [Camera!SourceNext]_cameraVars /\ [Shm!ShmNext]_shmVars /\ [HubNext]_hubVars
  BY DEF FrameBusNext, FrameVars

LEMMA SameShmVars == (UNCHANGED Shm!shmVars) <=> (UNCHANGED shmVars)
  BY DEF Shm!shmVars, Shm!memory, Shm!writing, Shm!reading, shmVars

LEMMA PartsTheorem == FrameBusSpec => [](SourceFacts /\ LockInv /\ HubFacts)
<1>1. FrameBusInit => SourceFacts /\ LockInv /\ HubFacts
  BY InitSource, InitLockInv, InitHub DEF FrameBusInit
<1>2. SourceFacts /\ LockInv /\ HubFacts /\ [FrameBusNext]_FrameVars
        => (SourceFacts /\ LockInv /\ HubFacts)'
  BY PartSteps, SourceFactsKept, LockInvKept, HubFactsKept
<1> QED
  BY <1>1, <1>2, PTL DEF FrameBusSpec, FrameVars

\* However the samples of a camera are bunched, and however its source is started
\* and stopped: the consumer has the newest sample kept or finds it next, and is
\* given none twice; the cap bounds the samples kept and costs a camera that
\* keeps its rate none; and stop() leaves the pipeline going down.
THEOREM CameraTheorem == FrameBusSpec => []CameraInv
<1>1. SourceFacts => CameraInv
  BY SourceFactsImply DEF CameraInv
<1> QED
  BY <1>1, PartsTheorem, PTL

\* No consumer ever gets half of one frame and half of another, or a frame under
\* the capture_ts of another; only the slot the writer is in is odd; and however
\* producers come and go, the hub counts misses only while it is on a bus and the
\* inodes it and the producers hold are files there are.
THEOREM FrameTheorem == FrameBusSpec => []FrameInv
<1>1. LockInv /\ HubFacts => FrameInv
  BY LockImplies DEF FrameInv, HubFacts
<1> QED
  BY <1>1, PartsTheorem, PTL

\* A call returns nothing older than what was published when it began, and it
\* returns nothing at all only if a frame was finished and the next one opened
\* since it read the header.
THEOREM CallTheorem == FrameBusSpec => CallAnswers
<1>1. LockInv /\ [FrameBusNext]_FrameVars
        => [reader.at = "check" /\ result' # result
              => result'.ts >= floor \/ result' = Shm!None]_(Shm!shmVars)
  BY PartSteps, AnswerFresh, SameShmVars
<1>2. LockInv /\ [FrameBusNext]_FrameVars
        => [reader.at # "idle" /\ reader'.at = "idle" /\ result' = Shm!None /\ floor > 0
              => frame >= floor + 2]_(Shm!shmVars)
  BY PartSteps, MissLapped, SameShmVars
<1> QED
  BY <1>1, <1>2, PartsTheorem, PTL
  DEF FrameBusSpec, FrameVars, CallAnswers, Shm!CallAnswers, Shm!FreshAsCall, Shm!MissMeansLapped
=============================================================================
