--------------------------- MODULE FrameSyncProofs ---------------------------
(***************************************************************************)
(* Theorems about what puts the frames of cameras together.                *)
(*                                                                         *)
(* The synchronizer, whatever its sources do, for any constants and for    *)
(* those of each rig of MCFrameSync: a buffer is a window of frames newer  *)
(* than any returned, nothing is returned twice, late or stale, and a      *)
(* degraded camera waits for the cameras before it only; two cameras that  *)
(* are alive, at the rates of LiveRates, are always paired; and two that   *)
(* were degraded, at the periods of PhaseAssumption, are paired again.     *)
(*                                                                         *)
(* The capture: files of equal number show one moment, and are counted.    *)
(***************************************************************************)
EXTENDS MCFrameSync, FiniteSetTheorems, SequenceTheorems, WellFoundedInduction, TLAPS

-----------------------------------------------------------------------------
(* The synchronizer.  The rigs of MCFrameSync run the one submit() of        *)
(* FrameSync, each with constants of its own: cameras ids, buffers of b      *)
(* frames, capture times up to m, and an age limit.                          *)

Members(ids) == {ids[i] : i \in DOMAIN ids}

\* A deque of b after an append, and after all older than t left it on the left.
Pushed(q, ts, b) == Append(IF Len(q) = b THEN Tail(q) ELSE q, ts)
Purged(q, t) ==
  LET stale == {i \in DOMAIN q : \A j \in 1..i : q[j] < t}
  IN  SubSeq(q, Cardinality(stale) + 1, Len(q))

\* A buffer q whose frames were captured after `out`, up to `in`, in order.
Span(q, out, in, b, m) ==
  /\ q \in Seq(0..m)
  /\ Len(q) <= b
  /\ \A i \in DOMAIN q :
       /\ out < q[i]
       /\ q[i] <= in
       /\ \A j \in 1..(i - 1) : q[j] < q[i]

\* A deque that drops its oldest element keeps the window property.
LEMMA PushSpan ==
  ASSUME NEW b \in Nat \ {0}, NEW m \in Nat, NEW q, NEW out \in 0..m, NEW in \in 0..m,
         Span(q, out, in, b, m), out <= in, NEW ts \in (in + 1)..m
  PROVE  Span(Pushed(q, ts, b), out, ts, b, m)
<1>1. ts \in 0..m
  OBVIOUS
<1>2. /\ q \in Seq(0..m)
      /\ Len(q) \in Nat
      /\ Len(q) <= b
      /\ DOMAIN q = 1..Len(q)
      /\ \A i \in 1..Len(q) : q[i] \in 0..m
  BY LenProperties, ElementOfSeq DEF Span
<1> DEFINE r == IF Len(q) = b THEN Tail(q) ELSE q
           d == IF Len(q) = b THEN 1 ELSE 0
<1>3. /\ r \in Seq(0..m)
      /\ Len(r) = Len(q) - d
      /\ \A i \in 1..Len(r) : r[i] = q[i + d]
  <2>1. CASE Len(q) = b
    <3>1. q # <<>>
      BY <2>1, <1>1, <1>2
    <3>2. QED
      BY <2>1, <3>1, <1>2, HeadTailProperties
  <2>2. CASE Len(q) # b
    <3>1. r = q /\ d = 0
      BY <2>2
    <3>2. \A i \in 1..Len(q) : i + 0 = i
      OBVIOUS
    <3>3. Len(q) = Len(q) - 0
      BY <1>2
    <3> HIDE DEF r, d
    <3>4. /\ r \in Seq(0..m) /\ Len(r) = Len(q) - d
      BY <3>1, <3>3, <1>2
    <3> QED
      BY <3>1, <3>2, <3>4
  <2>3. QED
    BY <2>1, <2>2
<1> HIDE DEF r
<1>4. /\ d \in {0, 1}
      /\ Len(r) + 1 <= b
      /\ Len(r) \in Nat
  <2>1. Len(r) \in Nat
    BY <1>3, LenProperties
  <2>2. /\ Len(r) = Len(q) - d
        /\ Len(q) \in Nat
        /\ Len(q) <= b
    BY <1>2, <1>3
  <2>3. QED
    BY <2>1, <2>2, <1>1
<1>5. /\ Append(r, ts) \in Seq(0..m)
      /\ Len(Append(r, ts)) = Len(r) + 1
      /\ DOMAIN Append(r, ts) = 1..(Len(r) + 1)
      /\ \A i \in 1..Len(r) : Append(r, ts)[i] = r[i]
      /\ Append(r, ts)[Len(r) + 1] = ts
  BY <1>1, <1>3
<1> HIDE DEF d
<1>6. \A i \in 1..Len(r) : /\ out < r[i]
                           /\ r[i] <= in
                           /\ \A j \in 1..(i - 1) : r[j] < r[i]
  <2> SUFFICES ASSUME NEW i \in 1..Len(r)
               PROVE  /\ out < r[i]
                      /\ r[i] <= in
                      /\ \A j \in 1..(i - 1) : r[j] < r[i]
    OBVIOUS
  <2>1. i + d \in 1..Len(q) /\ r[i] = q[i + d]
    BY <1>2, <1>3, <1>4
  <2>2. out < q[i + d] /\ q[i + d] <= in
    BY <2>1, <1>2 DEF Span
  <2>3. ASSUME NEW j \in 1..(i - 1) PROVE r[j] < r[i]
    <3>1. j \in 1..Len(r) /\ j + d \in 1..((i + d) - 1)
      BY <1>4
    <3>2. r[j] = q[j + d]
      BY <3>1, <1>3
    <3>3. QED
      BY <2>1, <3>1, <3>2, <1>2 DEF Span
  <2>4. QED
    BY <2>1, <2>2, <2>3
<1>7. \A i \in 1..Len(r) : r[i] \in 0..m
  BY <1>3, ElementOfSeq
<1>8. Pushed(q, ts, b) = Append(r, ts)
  BY DEF Pushed, r
<1>9. ASSUME NEW i \in 1..(Len(r) + 1)
      PROVE  /\ out < Append(r, ts)[i]
             /\ Append(r, ts)[i] <= ts
             /\ \A j \in 1..(i - 1) : Append(r, ts)[j] < Append(r, ts)[i]
  <2>1. CASE i \in 1..Len(r)
    BY <2>1, <1>1, <1>4, <1>5, <1>6, <1>7
  <2>2. CASE i = Len(r) + 1
    BY <2>2, <1>1, <1>4, <1>5, <1>6, <1>7
  <2>3. QED
    BY <2>1, <2>2, <1>4
<1>10. QED
  BY <1>4, <1>5, <1>8, <1>9 DEF Span

\* A purge keeps a suffix; what is in order to the left of a young frame may
\* leave, a young frame may not.
LEMMA PurgeSpan ==
  ASSUME NEW b \in Nat \ {0}, NEW m \in Nat, NEW q, NEW out \in 0..m, NEW in \in 0..m,
         Span(q, out, in, b, m), NEW t \in Int
  PROVE  /\ Span(Purged(q, t), out, in, b, m) /\ Len(Purged(q, t)) <= Len(q)
         /\ Purged(q, t) # <<>> =>
              /\ q # <<>> /\ Newest(Purged(q, t)) \in 0..m
              /\ out < Newest(Purged(q, t)) /\ Newest(Purged(q, t)) <= in
              /\ t <= Newest(Purged(q, t))
<1>1. PICK n \in Nat : n = Len(q)
  BY DEF Span
<1>2. /\ q \in Seq(0..m) /\ n <= b /\ DOMAIN q = 1..n
      /\ \A i \in 1..n : q[i] \in 0..m
      /\ \A i \in 1..n : out < q[i] /\ q[i] <= in /\ \A j \in 1..(i - 1) : q[j] < q[i]
  BY <1>1, LenProperties, ElementOfSeq DEF Span
<1> DEFINE stale == {i \in DOMAIN q : \A j \in 1..i : q[j] < t}
<1>3. IsFiniteSet(1..n) /\ Cardinality(1..n) = n /\ stale \in SUBSET (1..n)
  <2>1. 1 \in Int /\ n \in Int
    OBVIOUS
  <2>2. /\ IsFiniteSet(1..n)
        /\ Cardinality(1..n) = IF 1 > n THEN 0 ELSE n - 1 + 1
    BY <2>1, FS_Interval
  <2>3. Cardinality(1..n) = n
    BY <2>2
  <2> QED
    BY <1>2, <2>2, <2>3
<1> HIDE DEF stale
<1>4. IsFiniteSet(stale) /\ Cardinality(stale) <= n
  BY <1>3, FS_Subset
<1>5. PICK z \in Nat : z = Cardinality(stale) /\ z <= n
  BY <1>4, FS_CardinalityType
<1>5a. z \in 0..n /\ n \in Nat
  BY <1>5
<1>6. PICK p : p = Purged(q, t)
  OBVIOUS
<1>7. p = SubSeq(q, z + 1, n)
  BY <1>1, <1>5, <1>6 DEF Purged, stale
<1>8. /\ p \in Seq(0..m)
      /\ Len(p) = n - z
      /\ \A i \in 1..(n - z) : p[i] = q[z + i]
  <2>1. \A i \in (z + 1)..n : q[i] \in 0..m
    BY <1>2
  <2>2. z + 1 \in Int /\ n \in Int
    OBVIOUS
  <2>3. /\ SubSeq(q, z + 1, n) \in Seq(0..m)
        /\ Len(SubSeq(q, z + 1, n)) = IF z + 1 <= n THEN n - (z + 1) + 1 ELSE 0
        /\ \A i \in 1..(n - (z + 1) + 1) : SubSeq(q, z + 1, n)[i] = q[(z + 1) + i - 1]
    BY <2>1, <2>2, SubSeqProperties
  <2>4. n - (z + 1) + 1 = n - z /\ \A i \in 1..(n - z) : (z + 1) + i - 1 = z + i
    OBVIOUS
  <2>5. Len(p) = n - z
    BY <1>5, <1>7, <2>3
  <2> QED
    BY <1>7, <2>3, <2>4, <2>5
<1>9. DOMAIN p = 1..(n - z) /\ n - z \in Nat
  BY <1>5, <1>8, LenProperties
<1>10. ASSUME NEW i \in 1..(n - z)
       PROVE  out < p[i] /\ p[i] <= in /\ \A j \in 1..(i - 1) : p[j] < p[i]
  <2>1. z + i \in 1..n
    BY <1>5a
  <2>1a. p[i] = q[z + i]
    BY <1>8
  <2>2. ASSUME NEW j \in 1..(i - 1) PROVE p[j] < p[i]
    <3>1. j \in 1..(n - z) /\ z + j \in 1..((z + i) - 1)
      BY <1>5a
    <3>2. q[z + j] < q[z + i]
      BY <1>2, <2>1, <3>1
    <3>3. p[j] = q[z + j]
      BY <1>8, <3>1
    <3> QED
      BY <2>1a, <3>2, <3>3
  <2>3. out < q[z + i] /\ q[z + i] <= in
    BY <1>2, <2>1
  <2> QED
    BY <2>1a, <2>2, <2>3
<1>11. Span(p, out, in, b, m)
  BY <1>2, <1>5, <1>8, <1>9, <1>10 DEF Span
<1>12. ASSUME p # <<>>
       PROVE  q # <<>> /\ Newest(p) \in 0..m /\ out < Newest(p) /\ Newest(p) <= in /\ t <= Newest(p)
  <2>1. n - z # 0
    BY <1>8, <1>12, EmptySeq
  <2>2. n \in 1..n /\ n - z \in 1..(n - z) /\ z < n
    BY <1>5, <2>1
  <2>3. Newest(p) = q[n]
    BY <1>8, <2>2 DEF Newest
  <2>4. q # <<>>
    BY <1>1, <2>2
  <2>5. ~(q[n] < t)
    <3> SUFFICES ASSUME q[n] < t PROVE FALSE
      OBVIOUS
    <3>1. \A j \in 1..n : q[j] < t
      <4> SUFFICES ASSUME NEW j \in 1..n, j # n PROVE q[j] < t
        OBVIOUS
      <4>1. j \in 1..(n - 1)
        OBVIOUS
      <4>2. q[j] < q[n] /\ q[j] \in 0..m /\ q[n] \in 0..m
        BY <1>2, <2>2, <4>1
      <4> QED
        BY <4>2
    <3>2. \A i \in 1..n : i \in stale
      <4> SUFFICES ASSUME NEW i \in 1..n PROVE \A j \in 1..i : q[j] < t
        BY <1>2 DEF stale
      <4>1. \A j \in 1..i : j \in 1..n
        OBVIOUS
      <4> QED
        BY <3>1, <4>1
    <3>3. stale = 1..n
      BY <1>3, <3>2
    <3>4. z = n
      BY <1>3, <1>5, <3>3
    <3> QED
      BY <1>5a, <2>2, <3>4
  <2>6. q[n] \in 0..m /\ out < q[n] /\ q[n] <= in
    BY <1>2, <2>2
  <2> QED
    BY <2>3, <2>4, <2>5, <2>6
<1> QED
  BY <1>1, <1>5, <1>6, <1>8, <1>11, <1>12

-----------------------------------------------------------------------------
(* What submit() does, with the outcome of the probe left open.              *)

\* The configured cameras are distinct, and there is one.
Listed(ids) ==
  /\ ids \in Seq(Members(ids)) /\ ids # <<>>
  /\ \A i, j \in DOMAIN ids : ids[i] = ids[j] => i = j

Later(ts) == IF ts > latest THEN ts ELSE latest

\* The buffers once c's frame is in and every buffer is purged.
HeldAt(ids, c, ts, b, age) ==
  [k \in Members(ids) |->
     Purged(IF k = c THEN Pushed(buffers[k], ts, b) ELSE buffers[k], Later(ts) - age)]

\* The cameras S, which hold something, emit their newest frame and no older one.
Gives(ids, held, S) ==
  /\ S \subseteq Members(ids) /\ \A k \in S : held[k] # <<>>
  /\ pair' = [idx |-> pair.idx + 1, frames |-> [k \in S |-> Newest(held[k])]]
  /\ lastOut' = [k \in Members(ids) |-> IF k \in S THEN Newest(held[k]) ELSE lastOut[k]]
  /\ buffers' = [k \in Members(ids) |-> IF k \in S THEN <<>> ELSE held[k]]

Aligned(ids, held) ==
  /\ Gives(ids, held, Members(ids))
  /\ degraded' = [k \in Members(ids) |-> FALSE]

\* The cameras before the first one due hold nothing, or are not degraded.
Solo(ids, held, flags) ==
  \E i \in DOMAIN ids :
    /\ \A j \in 1..(i - 1) : flags[ids[j]] => held[ids[j]] = <<>>
    /\ Gives(ids, held, {ids[i]})
    /\ degraded' = [k \in Members(ids) |-> k = ids[i] \/ flags[k]]

Holds(ids, held, flags) ==
  /\ \A k \in Members(ids) : flags[k] => held[k] = <<>>
  /\ buffers' = held /\ degraded' = flags
  /\ UNCHANGED <<pair, lastOut>>

Outcome(ids, held) ==
  \/ Aligned(ids, held)
  \/ \E flags \in [Members(ids) -> BOOLEAN] :
       /\ \A k \in Members(ids) : flags[k] => degraded[k]
       /\ Solo(ids, held, flags) \/ Holds(ids, held, flags)

Submitted(ids, c, ts, b, age) ==
  /\ latest' = Later(ts)
  /\ lastIn' = [lastIn EXCEPT ![c] = ts]
  /\ lastProbe' \in {lastProbe, Later(ts)}
  /\ Outcome(ids, HeldAt(ids, c, ts, b, age))

-----------------------------------------------------------------------------
(* The invariant of a rig.                                                   *)

RigTypes(ids, m) ==
  /\ degraded \in [Members(ids) -> BOOLEAN]
  /\ latest \in 0..m /\ lastProbe \in 0..m
  /\ pair \in [idx : Nat, frames : UNION {[S -> 0..m] : S \in SUBSET Members(ids)}]
  /\ lastIn \in [Members(ids) -> 0..m] /\ lastOut \in [Members(ids) -> 0..m]

Spans(ids, b, m) ==
  /\ buffers \in [Members(ids) -> Seq(0..m)]
  /\ \A k \in Members(ids) : /\ lastOut[k] <= lastIn[k]
                             /\ Span(buffers[k], lastOut[k], lastIn[k], b, m)

\* Of the cameras before the i-th, those that hold a frame.
Waiting(ids, held, i) == {j \in 1..(i - 1) : held[ids[j]] # <<>>}

\* What a degraded camera holds, it holds because a camera before it went first
\* and has emptied its buffer since: each frame of it stands for an empty one.
Backlog(ids, held, flags) ==
  \A i \in DOMAIN ids :
    flags[ids[i]] => Len(held[ids[i]]) + Cardinality(Waiting(ids, held, i)) <= i - 1

RigFacts(ids, b, m) == RigTypes(ids, m) /\ Spans(ids, b, m) /\ Backlog(ids, buffers, degraded)

\* One purged buffer, with the new frame if it is the camera's.
LEMMA HeldSpan ==
  ASSUME NEW ids, NEW b \in Nat \ {0}, NEW m \in Nat, NEW age \in Int,
         RigTypes(ids, m), Spans(ids, b, m), NEW c \in Members(ids), NEW ts \in (lastIn[c] + 1)..m,
         NEW k \in Members(ids), NEW h, h = HeldAt(ids, c, ts, b, age)[k],
         NEW in, in = IF k = c THEN ts ELSE lastIn[k]
  PROVE  /\ in \in 0..m /\ lastOut[k] \in 0..m /\ lastOut[k] <= in
         /\ Span(h, lastOut[k], in, b, m)
         /\ h # <<>> => /\ Newest(h) \in 0..m /\ lastOut[k] < Newest(h) /\ Newest(h) <= in
                        /\ Later(ts) - age <= Newest(h)
         /\ k # c => Len(h) <= Len(buffers[k]) /\ (h # <<>> => buffers[k] # <<>>)
         /\ k = c => Len(h) <= Len(buffers[k]) + 1
<1> DEFINE q == buffers[k]
           p == IF k = c THEN Pushed(q, ts, b) ELSE q
           t == Later(ts) - age
<1>1. /\ lastOut[k] \in 0..m /\ lastIn[k] \in 0..m /\ lastOut[k] <= lastIn[k]
      /\ lastIn[c] \in 0..m /\ latest \in 0..m
      /\ Span(q, lastOut[k], lastIn[k], b, m)
  BY DEF RigTypes, Spans
<1>2. ts \in 0..m /\ lastIn[c] < ts
  BY <1>1
<1>3. in \in 0..m /\ lastOut[k] <= in
  BY <1>1, <1>2
<1>4. t \in Int
  BY <1>1, <1>2 DEF Later
<1>5. h = Purged(p, t)
  BY DEF HeldAt
<1>6. Span(p, lastOut[k], in, b, m)
  <2>1. CASE k = c
    <3>1. ts \in (lastIn[k] + 1)..m
      BY <2>1
    <3>2. Span(Pushed(q, ts, b), lastOut[k], ts, b, m)
      BY <1>1, <3>1, PushSpan
    <3> QED
      BY <2>1, <3>2
  <2>2. CASE k # c
    BY <2>2, <1>1
  <2> QED
    BY <2>1, <2>2
<1>7. /\ k # c => p = q
      /\ k = c => Len(p) \in Nat /\ Len(p) <= Len(q) + 1
  <2>1. q \in Seq(0..m) /\ Len(q) \in Nat
    BY <1>1 DEF Span
  <2>2. CASE k = c
    <3>1. p = Append(IF Len(q) = b THEN Tail(q) ELSE q, ts)
      BY <2>2 DEF Pushed
    <3>2. CASE Len(q) = b
      <4>1. q # <<>>
        BY <2>1, <3>2
      <4>2. Tail(q) \in Seq(0..m) /\ Len(Tail(q)) = Len(q) - 1
        BY <2>1, <4>1, HeadTailProperties
      <4>3. p = Append(Tail(q), ts)
        BY <3>1, <3>2
      <4> HIDE DEF p
      <4>4. Len(p) = Len(Tail(q)) + 1
        BY <1>2, <4>2, <4>3
      <4> QED
        BY <2>1, <2>2, <4>2, <4>4
    <3>3. CASE Len(q) # b
      <4>1. p = Append(q, ts)
        BY <3>1, <3>3
      <4> HIDE DEF p
      <4>2. Len(p) = Len(q) + 1
        BY <1>2, <2>1, <4>1
      <4> QED
        BY <2>1, <2>2, <4>2
    <3> QED
      BY <3>2, <3>3
  <2>3. CASE k # c
    BY <2>3
  <2> QED
    BY <2>2, <2>3
<1> HIDE DEF p, t, q
<1>8. /\ Span(h, lastOut[k], in, b, m) /\ Len(h) <= Len(p)
      /\ h # <<>> =>
           /\ p # <<>> /\ Newest(h) \in 0..m
           /\ lastOut[k] < Newest(h) /\ Newest(h) <= in
           /\ t <= Newest(h)
  <2> DEFINE g == Purged(p, t)
  <2>1. lastOut[k] \in 0..m /\ in \in 0..m /\ t \in Int /\ Span(p, lastOut[k], in, b, m)
    BY <1>1, <1>3, <1>4, <1>6
  <2>2. /\ Span(g, lastOut[k], in, b, m) /\ Len(g) <= Len(p)
        /\ g # <<>> =>
             /\ p # <<>> /\ Newest(g) \in 0..m
             /\ lastOut[k] < Newest(g) /\ Newest(g) <= in
             /\ t <= Newest(g)
    BY <2>1, PurgeSpan
  <2> QED
    BY <1>5, <2>2
<1>9. Len(h) \in Nat /\ Len(q) \in Nat
  BY <1>1, <1>8 DEF Span
<1> QED
  BY <1>1, <1>3, <1>7, <1>8, <1>9 DEF t, q

\* Whatever is emitted, by some cameras or by none, is the newest they hold.
LEMMA OutcomeOf ==
  ASSUME NEW ids, NEW m, RigTypes(ids, m), NEW held, held = [k \in Members(ids) |-> held[k]],
         Outcome(ids, held)
  PROVE  /\ degraded' \in [Members(ids) -> BOOLEAN]
         /\ \E S \in SUBSET Members(ids) :
              /\ \A k \in S : held[k] # <<>>
              /\ lastOut' = [k \in Members(ids) |-> IF k \in S THEN Newest(held[k]) ELSE lastOut[k]]
              /\ buffers' = [k \in Members(ids) |-> IF k \in S THEN <<>> ELSE held[k]]
              /\ \/ S = {} /\ pair' = pair
                 \/ pair' = [idx |-> pair.idx + 1, frames |-> [k \in S |-> Newest(held[k])]]
<1>1. lastOut = [k \in Members(ids) |-> lastOut[k]]
  BY DEF RigTypes
<1>2. ASSUME Aligned(ids, held)
      PROVE  /\ degraded' \in [Members(ids) -> BOOLEAN]
             /\ \E S \in SUBSET Members(ids) : Gives(ids, held, S)
  BY <1>2 DEF Aligned
<1>3. ASSUME NEW flags \in [Members(ids) -> BOOLEAN], Solo(ids, held, flags)
      PROVE  /\ degraded' \in [Members(ids) -> BOOLEAN]
             /\ \E S \in SUBSET Members(ids) : Gives(ids, held, S)
  <2>1. PICK i \in DOMAIN ids :
          /\ Gives(ids, held, {ids[i]})
          /\ degraded' = [k \in Members(ids) |-> k = ids[i] \/ flags[k]]
    BY <1>3 DEF Solo
  <2>2. {ids[i]} \in SUBSET Members(ids)
    BY <2>1 DEF Gives
  <2>3. \A k \in Members(ids) : (k = ids[i] \/ flags[k]) \in BOOLEAN
    OBVIOUS
  <2> QED
    BY <2>1, <2>2, <2>3
<1>4. ASSUME NEW flags \in [Members(ids) -> BOOLEAN], Holds(ids, held, flags)
      PROVE  /\ degraded' \in [Members(ids) -> BOOLEAN]
             /\ lastOut' = [k \in Members(ids) |-> IF k \in {} THEN Newest(held[k]) ELSE lastOut[k]]
             /\ buffers' = [k \in Members(ids) |-> IF k \in {} THEN <<>> ELSE held[k]]
             /\ pair' = pair
  <2>1. buffers' = held /\ degraded' = flags /\ lastOut' = lastOut /\ pair' = pair
    BY <1>4 DEF Holds
  <2>2. /\ lastOut = [k \in Members(ids) |-> IF k \in {} THEN Newest(held[k]) ELSE lastOut[k]]
        /\ held = [k \in Members(ids) |-> IF k \in {} THEN <<>> ELSE held[k]]
    BY <1>1, Zenon
  <2>3. degraded' \in [Members(ids) -> BOOLEAN]
    BY <2>1
  <2>4. lastOut' = [k \in Members(ids) |-> IF k \in {} THEN Newest(held[k]) ELSE lastOut[k]]
    BY <2>1, <2>2, Zenon
  <2>5. buffers' = [k \in Members(ids) |-> IF k \in {} THEN <<>> ELSE held[k]]
    BY <2>1, <2>2, Zenon
  <2> QED
    BY <2>1, <2>3, <2>4, <2>5, Zenon
<1>5. ASSUME NEW S \in SUBSET Members(ids), Gives(ids, held, S)
      PROVE  /\ \A k \in S : held[k] # <<>>
             /\ lastOut' = [k \in Members(ids) |-> IF k \in S THEN Newest(held[k]) ELSE lastOut[k]]
             /\ buffers' = [k \in Members(ids) |-> IF k \in S THEN <<>> ELSE held[k]]
             /\ pair' = [idx |-> pair.idx + 1, frames |-> [k \in S |-> Newest(held[k])]]
  BY <1>5 DEF Gives
<1>6. CASE /\ degraded' \in [Members(ids) -> BOOLEAN]
           /\ \E S \in SUBSET Members(ids) : Gives(ids, held, S)
  BY <1>5, <1>6
<1>7. CASE \E flags \in [Members(ids) -> BOOLEAN] : Holds(ids, held, flags)
  BY <1>4, <1>7
<1> QED
  BY <1>2, <1>3, <1>6, <1>7 DEF Outcome

LEMMA SpansKept ==
  ASSUME NEW ids, NEW b \in Nat \ {0}, NEW m \in Nat, NEW age \in Int,
         RigTypes(ids, m), Spans(ids, b, m), NEW c \in Members(ids), NEW ts \in (lastIn[c] + 1)..m,
         Submitted(ids, c, ts, b, age)
  PROVE  /\ RigTypes(ids, m)' /\ Spans(ids, b, m)'
         /\ pair'.idx # pair.idx =>
              \A k \in DOMAIN pair'.frames :
                pair'.frames[k] > lastOut[k] /\ latest' - pair'.frames[k] <= age
<1> DEFINE M == Members(ids)
           held == HeldAt(ids, c, ts, b, age)
<1>1. ts \in 0..m /\ latest' \in 0..m /\ lastProbe' \in 0..m /\ Later(ts) \in 0..m /\ latest' = Later(ts)
  <2>1. ts \in 0..m /\ latest \in 0..m /\ lastProbe \in 0..m
    BY DEF RigTypes
  <2> QED
    BY <2>1 DEF Submitted, Later
<1>2. lastIn' \in [M -> 0..m] /\ \A k \in M : lastIn'[k] = IF k = c THEN ts ELSE lastIn[k]
  BY <1>1 DEF Submitted, RigTypes
<1>3. ASSUME NEW k \in M
      PROVE  /\ lastIn'[k] \in 0..m /\ lastOut[k] \in 0..m /\ lastOut[k] <= lastIn'[k]
             /\ Span(held[k], lastOut[k], lastIn'[k], b, m)
             /\ held[k] # <<>> =>
                  /\ Newest(held[k]) \in 0..m /\ lastOut[k] < Newest(held[k])
                  /\ Newest(held[k]) <= lastIn'[k] /\ Later(ts) - age <= Newest(held[k])
  <2>1. PICK h : h = held[k]
    OBVIOUS
  <2>2. PICK last : last = IF k = c THEN ts ELSE lastIn[k]
    OBVIOUS
  <2>3. lastIn'[k] = last
    BY <1>2, <2>2
  <2>4. /\ last \in 0..m /\ lastOut[k] \in 0..m /\ lastOut[k] <= last
        /\ Span(h, lastOut[k], last, b, m)
        /\ h # <<>> => /\ Newest(h) \in 0..m /\ lastOut[k] < Newest(h) /\ Newest(h) <= last
                       /\ Later(ts) - age <= Newest(h)
    BY <2>1, <2>2, HeldSpan
  <2> QED
    BY <2>1, <2>3, <2>4
<1>4. held = [k \in M |-> held[k]]
  BY DEF HeldAt
<1>5. Outcome(ids, held)
  BY DEF Submitted
<1> HIDE DEF held, M
<1>6. /\ degraded' \in [M -> BOOLEAN]
      /\ \E S \in SUBSET M :
              /\ \A k \in S : held[k] # <<>>
              /\ lastOut' = [k \in M |-> IF k \in S THEN Newest(held[k]) ELSE lastOut[k]]
              /\ buffers' = [k \in M |-> IF k \in S THEN <<>> ELSE held[k]]
              /\ \/ S = {} /\ pair' = pair
                 \/ pair' = [idx |-> pair.idx + 1, frames |-> [k \in S |-> Newest(held[k])]]
  BY <1>4, <1>5, OutcomeOf DEF M
<1>7. PICK S \in SUBSET M :
        /\ \A k \in S : held[k] # <<>>
        /\ lastOut' = [k \in M |-> IF k \in S THEN Newest(held[k]) ELSE lastOut[k]]
        /\ buffers' = [k \in M |-> IF k \in S THEN <<>> ELSE held[k]]
        /\ \/ S = {} /\ pair' = pair
           \/ pair' = [idx |-> pair.idx + 1, frames |-> [k \in S |-> Newest(held[k])]]
  BY <1>6
<1>8. \A k \in M : /\ lastOut'[k] = (IF k \in S THEN Newest(held[k]) ELSE lastOut[k])
                   /\ buffers'[k] = (IF k \in S THEN <<>> ELSE held[k])
  BY <1>7
<1>9. \A k \in M : held[k] \in Seq(0..m) /\ (IF k \in S THEN Newest(held[k]) ELSE lastOut[k]) \in 0..m
  BY <1>3, <1>7 DEF Span
<1>10. lastOut' \in [M -> 0..m] /\ buffers' \in [M -> Seq(0..m)]
  <2>1. lastOut' \in [M -> 0..m]
    <3>1. \A k \in M : (IF k \in S THEN Newest(held[k]) ELSE lastOut[k]) \in 0..m
      BY <1>9
    <3>2. lastOut' = [k \in M |-> IF k \in S THEN Newest(held[k]) ELSE lastOut[k]]
      BY <1>7
    <3> QED
      BY <3>1, <3>2, Zenon
  <2>2. \A k \in M : (IF k \in S THEN <<>> ELSE held[k]) \in Seq(0..m)
    <3>1. <<>> \in Seq(0..m) /\ \A k \in M : held[k] \in Seq(0..m)
      BY <1>9
    <3> QED
      BY <3>1
  <2> QED
    BY <1>7, <2>1, <2>2
<1>11. pair \in [idx : Nat, frames : UNION {[T -> 0..m] : T \in SUBSET M}]
  BY DEF RigTypes, M
<1>12. pair' \in [idx : Nat, frames : UNION {[T -> 0..m] : T \in SUBSET M}]
  <2>1. [k \in S |-> Newest(held[k])] \in [S -> 0..m]
    BY <1>3, <1>7
  <2>2. [k \in S |-> Newest(held[k])] \in UNION {[T -> 0..m] : T \in SUBSET M}
    BY <2>1
  <2>3. pair.idx + 1 \in Nat
    BY <1>11
  <2> QED
    BY <1>7, <1>11, <2>2, <2>3
<1>13. ASSUME NEW k \in M PROVE lastOut'[k] <= lastIn'[k] /\ Span(buffers'[k], lastOut'[k], lastIn'[k], b, m)
  <2>1. CASE k \in S
    <3>1. buffers'[k] = <<>> /\ lastOut'[k] = Newest(held[k]) /\ held[k] # <<>>
      BY <1>7, <1>8, <2>1
    <3>2. Span(<<>>, lastOut'[k], lastIn'[k], b, m)
      BY DEF Span
    <3>3. lastOut'[k] <= lastIn'[k]
      BY <1>3, <3>1
    <3> QED
      BY <3>1, <3>2, <3>3
  <2>2. CASE k \notin S
    BY <1>3, <1>8, <2>2
  <2> QED
    BY <2>1, <2>2
<1>14. ASSUME pair'.idx # pair.idx, NEW k \in DOMAIN pair'.frames
       PROVE  pair'.frames[k] > lastOut[k] /\ latest' - pair'.frames[k] <= age
  <2>1. pair' = [idx |-> pair.idx + 1, frames |-> [j \in S |-> Newest(held[j])]]
    BY <1>7, <1>14
  <2>2. k \in S /\ k \in M /\ pair'.frames[k] = Newest(held[k]) /\ held[k] # <<>>
    BY <1>7, <1>14, <2>1
  <2>3. /\ Newest(held[k]) \in 0..m /\ lastOut[k] \in 0..m
        /\ lastOut[k] < Newest(held[k]) /\ Later(ts) - age <= Newest(held[k])
    BY <1>3, <2>2
  <2> QED
    BY <1>1, <2>2, <2>3
<1>15. RigTypes(ids, m)'
  BY <1>1, <1>2, <1>6, <1>10, <1>12 DEF RigTypes, M
<1>16. Spans(ids, b, m)'
  BY <1>10, <1>13 DEF Spans, M
<1> QED
  BY <1>14, <1>15, <1>16

\* How many cameras before the i-th there are at all.
LEMMA WaitingFacts ==
  ASSUME NEW ids, Listed(ids), NEW i \in DOMAIN ids, NEW held
  PROVE  /\ i \in Nat /\ i > 0 /\ i <= Len(ids) /\ ids[i] \in Members(ids)
         /\ Waiting(ids, held, i) \subseteq 1..(i - 1) /\ IsFiniteSet(Waiting(ids, held, i))
         /\ Cardinality(Waiting(ids, held, i)) \in 0..(i - 1)
<1>1. /\ DOMAIN ids = 1..Len(ids) /\ Len(ids) \in Nat /\ ids[i] \in Members(ids)
  BY DEF Listed, Members
<1>2. i \in Nat /\ i > 0 /\ i <= Len(ids) /\ 1 \in Int /\ i - 1 \in Int
  BY <1>1
<1>3. /\ IsFiniteSet(1..(i - 1))
      /\ Cardinality(1..(i - 1)) = IF 1 > i - 1 THEN 0 ELSE (i - 1) - 1 + 1
  BY <1>2, FS_Interval
<1>4. Cardinality(1..(i - 1)) = i - 1
  BY <1>2, <1>3
<1>5. Waiting(ids, held, i) \subseteq 1..(i - 1)
  BY DEF Waiting
<1>6. IsFiniteSet(Waiting(ids, held, i)) /\ Cardinality(Waiting(ids, held, i)) <= Cardinality(1..(i - 1))
  BY <1>3, <1>5, FS_Subset
<1>7. Cardinality(Waiting(ids, held, i)) \in Nat
  BY <1>6, FS_CardinalityType
<1> QED
  BY <1>1, <1>2, <1>4, <1>5, <1>6, <1>7

\* The first camera that is due, the n-th, goes instead of the i-th; it was waiting
\* already unless the frame that has just come in is its own.
LEMMA TurnTaken ==
  ASSUME NEW ids, Listed(ids), NEW i \in DOMAIN ids, NEW n \in 1..(i - 1), NEW c \in Members(ids),
         NEW old, NEW held, NEW new,
         \A j \in DOMAIN ids : ids[j] # c /\ held[ids[j]] # <<>> => old[ids[j]] # <<>>,
         held[ids[n]] # <<>>,
         \A j \in DOMAIN ids : new[ids[j]] = IF j = n THEN <<>> ELSE held[ids[j]]
  PROVE  /\ Cardinality(Waiting(ids, new, i)) <= Cardinality(Waiting(ids, old, i))
         /\ c = ids[i] => Cardinality(Waiting(ids, new, i)) + 1 <= Cardinality(Waiting(ids, old, i))
<1> DEFINE w == Waiting(ids, old, i)
           v == Waiting(ids, new, i)
<1>1. /\ DOMAIN ids = 1..Len(ids) /\ Len(ids) \in Nat /\ i \in 1..Len(ids) /\ 1..(i - 1) \subseteq DOMAIN ids
      /\ \A j, k \in DOMAIN ids : ids[j] = ids[k] => j = k
  BY DEF Listed
<1>2. /\ IsFiniteSet(w) /\ Cardinality(w) \in Nat /\ IsFiniteSet(v) /\ Cardinality(v) \in Nat
  BY WaitingFacts
<1>3. n \in DOMAIN ids /\ n \notin v
  BY <1>1 DEF Waiting
<1>4. PICK e \in DOMAIN ids : ids[e] = c
  BY DEF Members
<1>5. \A j \in v : j \in w \/ j = e
  BY <1>1, <1>4 DEF Waiting
<1>6. IsFiniteSet(w \ {n}) /\ n \in w => Cardinality(w \ {n}) = Cardinality(w) - 1
  BY <1>2, FS_RemoveElement
<1>7. n # e => n \in w
  BY <1>1, <1>3, <1>4 DEF Waiting
<1> HIDE DEF w, v
<1>8. CASE e = n
  <2>1. v \subseteq w
    BY <1>3, <1>5, <1>8
  <2>2. Cardinality(v) <= Cardinality(w)
    BY <1>2, <2>1, FS_Subset
  <2>3. c # ids[i]
    BY <1>1, <1>3, <1>4, <1>8
  <2> QED
    BY <2>2, <2>3 DEF v, w
<1>9. CASE e # n
  <2>1. n \in w /\ IsFiniteSet(w \ {n}) /\ Cardinality(w \ {n}) = Cardinality(w) - 1
    BY <1>2, <1>6, <1>7, <1>9, FS_RemoveElement
  <2>2. CASE c = ids[i]
    <3>1. e = i /\ e \notin v
      BY <1>1, <1>4, <2>2 DEF v, Waiting
    <3>2. v \subseteq w \ {n}
      BY <1>3, <1>5, <3>1
    <3>3. Cardinality(v) <= Cardinality(w \ {n})
      BY <2>1, <3>2, FS_Subset
    <3> QED
      BY <1>2, <2>1, <3>3 DEF v, w
  <2>3. CASE c # ids[i]
    <3>1. v \subseteq (w \ {n}) \cup {e}
      BY <1>3, <1>5
    <3>2. /\ IsFiniteSet((w \ {n}) \cup {e})
          /\ Cardinality((w \ {n}) \cup {e}) = Cardinality(w \ {n})
             \/ Cardinality((w \ {n}) \cup {e}) = Cardinality(w \ {n}) + 1
      BY <2>1, FS_AddElement
    <3>3. Cardinality(v) <= Cardinality((w \ {n}) \cup {e})
      BY <3>1, <3>2, FS_Subset
    <3>4. Cardinality(v) <= Cardinality(w)
      BY <1>2, <2>1, <3>2, <3>3
    <3> QED
      BY <2>3, <3>4 DEF v, w
  <2> QED
    BY <2>2, <2>3
<1> QED
  BY <1>8, <1>9

LEMMA BacklogKept ==
  ASSUME NEW ids, NEW b \in Nat \ {0}, NEW m \in Nat, NEW age \in Int, Listed(ids),
         RigFacts(ids, b, m), NEW c \in Members(ids), NEW ts \in (lastIn[c] + 1)..m,
         Submitted(ids, c, ts, b, age)
  PROVE  Backlog(ids, buffers', degraded')
<1> DEFINE held == HeldAt(ids, c, ts, b, age)
<1>1. \A k \in Members(ids) :
        /\ Len(held[k]) \in Nat /\ Len(buffers[k]) \in Nat
        /\ k # c => Len(held[k]) <= Len(buffers[k]) /\ (held[k] # <<>> => buffers[k] # <<>>)
        /\ k = c => Len(held[k]) <= Len(buffers[k]) + 1
  <2> SUFFICES ASSUME NEW k \in Members(ids)
               PROVE  /\ Len(held[k]) \in Nat /\ Len(buffers[k]) \in Nat
                      /\ k # c => Len(held[k]) <= Len(buffers[k]) /\ (held[k] # <<>> => buffers[k] # <<>>)
                      /\ k = c => Len(held[k]) <= Len(buffers[k]) + 1
    OBVIOUS
  <2>1. PICK h : h = held[k]
    OBVIOUS
  <2>2. PICK last : last = IF k = c THEN ts ELSE lastIn[k]
    OBVIOUS
  <2>3. /\ Span(h, lastOut[k], last, b, m)
        /\ k # c => Len(h) <= Len(buffers[k]) /\ (h # <<>> => buffers[k] # <<>>)
        /\ k = c => Len(h) <= Len(buffers[k]) + 1
    BY <2>1, <2>2, HeldSpan, SMTT(30) DEF RigFacts
  <2>4. Len(h) \in Nat /\ Len(buffers[k]) \in Nat
    BY <2>3 DEF Span, RigFacts, Spans
  <2> QED
    BY <2>1, <2>3, <2>4
<1>2. Outcome(ids, held)
  BY DEF Submitted
<1>3. Backlog(ids, buffers, degraded)
  BY DEF RigFacts
<1> HIDE DEF held
<1>4. ASSUME NEW i \in DOMAIN ids, NEW new, new[ids[i]] = <<>>
      PROVE  Len(new[ids[i]]) + Cardinality(Waiting(ids, new, i)) <= i - 1
  <2>1. i \in Nat /\ Cardinality(Waiting(ids, new, i)) \in 0..(i - 1)
    BY WaitingFacts
  <2>2. Len(new[ids[i]]) = 0
    BY <1>4
  <2> QED
    BY <2>1, <2>2
<1>5. CASE Aligned(ids, held)
  <2>1. \A i \in DOMAIN ids : ids[i] \in Members(ids)
    BY DEF Members
  <2>2. \A i \in DOMAIN ids : degraded'[ids[i]] = FALSE
    BY <1>5, <2>1 DEF Aligned
  <2> QED
    BY <2>2 DEF Backlog
<1>6. ASSUME NEW flags \in [Members(ids) -> BOOLEAN], Holds(ids, held, flags)
      PROVE  Backlog(ids, buffers', degraded')
  <2> SUFFICES ASSUME NEW i \in DOMAIN ids, flags[ids[i]]
               PROVE  Len(held[ids[i]]) + Cardinality(Waiting(ids, held, i)) <= i - 1
    BY <1>6 DEF Holds, Backlog
  <2>1. held[ids[i]] = <<>>
    BY <1>6 DEF Holds, Members
  <2> QED
    BY <1>4, <2>1
<1>7. ASSUME NEW flags \in [Members(ids) -> BOOLEAN], \A k \in Members(ids) : flags[k] => degraded[k],
             Solo(ids, held, flags)
      PROVE  Backlog(ids, buffers', degraded')
  <2>1. PICK n \in DOMAIN ids :
          /\ \A j \in 1..(n - 1) : flags[ids[j]] => held[ids[j]] = <<>>
          /\ Gives(ids, held, {ids[n]})
          /\ degraded' = [k \in Members(ids) |-> k = ids[n] \/ flags[k]]
    BY <1>7 DEF Solo
  <2>2. PICK new : new = buffers'
    OBVIOUS
  <2>3. /\ DOMAIN ids = 1..Len(ids) /\ Len(ids) \in Nat /\ \A j \in DOMAIN ids : ids[j] \in Members(ids)
        /\ \A j, k \in DOMAIN ids : ids[j] = ids[k] => j = k
    BY DEF Listed, Members
  <2>4. held[ids[n]] # <<>> /\ new = [k \in Members(ids) |-> IF k \in {ids[n]} THEN <<>> ELSE held[k]]
    BY <2>1, <2>2 DEF Gives
  <2>5. \A j \in DOMAIN ids : new[ids[j]] = IF j = n THEN <<>> ELSE held[ids[j]]
    BY <2>3, <2>4
  <2>6. \A i \in DOMAIN ids : degraded'[ids[i]] => i = n \/ flags[ids[i]]
    BY <2>1, <2>3
  <2>7. ASSUME NEW i \in DOMAIN ids, flags[ids[i]]
        PROVE  Len(new[ids[i]]) + Cardinality(Waiting(ids, new, i)) <= i - 1
    <3>1. CASE i = n
      BY <1>4, <2>5, <3>1
    <3>2. CASE i < n
      <4>1. i \in 1..(n - 1)
        BY <2>1, <2>3, <3>2
      <4>2. held[ids[i]] = <<>> /\ i # n
        BY <2>1, <2>7, <4>1, <3>2, <2>3
      <4> QED
        BY <1>4, <2>5, <4>2
    <3>3. CASE i > n
      <4>1. n \in 1..(i - 1) /\ i # n
        BY <2>1, <2>3, <3>3
      <4>2. \A j \in DOMAIN ids : ids[j] # c /\ held[ids[j]] # <<>> => buffers[ids[j]] # <<>>
        BY <1>1, <2>3
      <4>3. PICK old : old = buffers
        OBVIOUS
      <4>4. /\ Cardinality(Waiting(ids, new, i)) <= Cardinality(Waiting(ids, old, i))
            /\ c = ids[i] => Cardinality(Waiting(ids, new, i)) + 1 <= Cardinality(Waiting(ids, old, i))
        BY <2>4, <2>5, <4>1, <4>2, <4>3, TurnTaken
      <4>5. Len(old[ids[i]]) + Cardinality(Waiting(ids, old, i)) <= i - 1
        BY <1>3, <1>7, <2>3, <2>7, <4>3 DEF Backlog
      <4>6. /\ Len(held[ids[i]]) \in Nat /\ Len(old[ids[i]]) \in Nat
            /\ c # ids[i] => Len(held[ids[i]]) <= Len(old[ids[i]])
            /\ c = ids[i] => Len(held[ids[i]]) <= Len(old[ids[i]]) + 1
        BY <1>1, <2>3, <4>3
      <4>7. new[ids[i]] = held[ids[i]]
        BY <2>5, <4>1
      <4>8. /\ Cardinality(Waiting(ids, new, i)) \in 0..(i - 1) /\ i \in Nat
            /\ Cardinality(Waiting(ids, old, i)) \in 0..(i - 1)
        BY WaitingFacts
      <4> QED
        BY <4>4, <4>5, <4>6, <4>7, <4>8, SMTT(30)
    <3> QED
      BY <2>1, <2>3, <3>1, <3>2, <3>3
  <2>8. ASSUME NEW i \in DOMAIN ids, degraded'[ids[i]]
        PROVE  Len(new[ids[i]]) + Cardinality(Waiting(ids, new, i)) <= i - 1
    BY <1>4, <2>5, <2>6, <2>7, <2>8
  <2> QED
    BY <2>2, <2>8 DEF Backlog
<1> QED
  BY <1>2, <1>5, <1>6, <1>7 DEF Outcome

\* A submit keeps the invariant, and returns frames that are new and fresh.
LEMMA SubmittedStep ==
  ASSUME NEW ids, NEW b \in Nat \ {0}, NEW m \in Nat, NEW age \in Int, Listed(ids),
         RigFacts(ids, b, m), NEW c \in Members(ids), NEW ts \in (lastIn[c] + 1)..m,
         Submitted(ids, c, ts, b, age)
  PROVE  /\ RigFacts(ids, b, m)'
         /\ pair'.idx # pair.idx =>
              \A k \in DOMAIN pair'.frames :
                pair'.frames[k] > lastOut[k] /\ latest' - pair'.frames[k] <= age
<1>1. RigTypes(ids, m) /\ Spans(ids, b, m)
  BY DEF RigFacts
<1>2. /\ RigTypes(ids, m)' /\ Spans(ids, b, m)'
      /\ pair'.idx # pair.idx =>
           \A k \in DOMAIN pair'.frames :
             pair'.frames[k] > lastOut[k] /\ latest' - pair'.frames[k] <= age
  BY <1>1, SpansKept
<1>3. Backlog(ids, buffers', degraded')
  BY BacklogKept
<1>4. RigFacts(ids, b, m)'
  BY <1>2, <1>3 DEF RigFacts, Backlog, Waiting
<1> QED
  BY <1>2, <1>4

\* What the properties say of it.
LEMMA RigFactsSay ==
  ASSUME NEW ids, NEW b \in Nat \ {0}, NEW m \in Nat, Listed(ids), RigFacts(ids, b, m)
  PROVE  \A i \in DOMAIN ids : degraded[ids[i]] => Len(buffers[ids[i]]) <= i - 1
<1> SUFFICES ASSUME NEW i \in DOMAIN ids, degraded[ids[i]] PROVE Len(buffers[ids[i]]) <= i - 1
  OBVIOUS
<1>1. i \in Nat /\ ids[i] \in Members(ids) /\ Cardinality(Waiting(ids, buffers, i)) \in 0..(i - 1)
  BY WaitingFacts
<1>2. Len(buffers[ids[i]]) + Cardinality(Waiting(ids, buffers, i)) <= i - 1
  BY DEF RigFacts, Backlog
<1>3. Len(buffers[ids[i]]) \in Nat
  BY <1>1 DEF RigFacts, Spans
<1> QED
  BY <1>1, <1>2, <1>3

\* The outcomes as FrameSync writes them: `due` are the cameras that may emit solo,
\* `flags` is what the probe leaves of the degraded ones.
Returned(ids, frames) ==
  /\ pair' = [idx |-> pair.idx + 1, frames |-> frames]
  /\ lastOut' = [k \in Members(ids) |-> IF k \in DOMAIN frames THEN frames[k] ELSE lastOut[k]]

Written(ids, held, flags, due) ==
  \/ /\ \A k \in Members(ids) : held[k] # <<>>
     /\ Returned(ids, [k \in Members(ids) |-> Newest(held[k])])
     /\ buffers' = [k \in Members(ids) |-> <<>>]
     /\ degraded' = [k \in Members(ids) |-> FALSE]
  \/ \E i \in DOMAIN ids :
       /\ ids[i] \in due
       /\ \A j \in 1..(i - 1) : ids[j] \notin due
       /\ Returned(ids, [x \in {ids[i]} |-> Newest(held[ids[i]])])
       /\ buffers' = [held EXCEPT ![ids[i]] = <<>>]
       /\ degraded' = [flags EXCEPT ![ids[i]] = TRUE]
  \/ /\ due = {}
     /\ buffers' = held /\ degraded' = flags
     /\ UNCHANGED <<pair, lastOut>>

LEMMA WrittenOutcome ==
  ASSUME NEW ids, Listed(ids), NEW held, held = [k \in Members(ids) |-> held[k]],
         NEW flags \in [Members(ids) -> BOOLEAN], \A k \in Members(ids) : flags[k] => degraded[k],
         NEW due \in SUBSET Members(ids), \A k \in due : held[k] # <<>>,
         \A k \in Members(ids) : flags[k] /\ held[k] # <<>> => k \in due,
         Written(ids, held, flags, due)
  PROVE  Outcome(ids, held)
<1>1. CASE /\ \A k \in Members(ids) : held[k] # <<>>
           /\ Returned(ids, [k \in Members(ids) |-> Newest(held[k])])
           /\ buffers' = [k \in Members(ids) |-> <<>>]
           /\ degraded' = [k \in Members(ids) |-> FALSE]
  BY <1>1 DEF Returned, Outcome, Aligned, Gives
<1>2. ASSUME NEW i \in DOMAIN ids, ids[i] \in due, \A j \in 1..(i - 1) : ids[j] \notin due,
             Returned(ids, [x \in {ids[i]} |-> Newest(held[ids[i]])]),
             buffers' = [held EXCEPT ![ids[i]] = <<>>], degraded' = [flags EXCEPT ![ids[i]] = TRUE]
      PROVE  Solo(ids, held, flags)
  <2>1. \A j \in 1..(i - 1) : ids[j] \in Members(ids)
    BY DEF Listed, Members
  <2>2. \A j \in 1..(i - 1) : flags[ids[j]] => held[ids[j]] = <<>>
    BY <1>2, <2>1
  <2>3. buffers' = [k \in Members(ids) |-> IF k \in {ids[i]} THEN <<>> ELSE held[k]]
    BY <1>2
  <2>4. degraded' = [k \in Members(ids) |-> k = ids[i] \/ flags[k]]
    BY <1>2
  <2>5. Gives(ids, held, {ids[i]})
    BY <1>2, <2>3 DEF Returned, Gives
  <2> QED
    BY <2>2, <2>4, <2>5 DEF Solo
<1>3. CASE due = {} /\ buffers' = held /\ degraded' = flags /\ UNCHANGED <<pair, lastOut>>
  BY <1>3 DEF Outcome, Holds
<1> QED
  BY <1>1, <1>2, <1>3 DEF Written, Outcome

(* Each rig submits so.                                                      *)

LEMMA BaseSubmits ==
  ASSUME Listed(CameraIds), degraded \in [Members(CameraIds) -> BOOLEAN], NEW age, age = MaxAge,
         NEW c \in Members(CameraIds), NEW ts, Submit(c, ts)
  PROVE  Submitted(CameraIds, c, ts, BufferSize, age)
<1> DEFINE t == Reference(ts)
           held == Held(c, ts, t)
           flags == Probed(t)
           due == {k \in Members(CameraIds) : Due(k, held, t)}
<1>1. Members(CameraIds) = Cameras /\ t = Later(ts)
  BY DEF Members, Cameras, Reference, Later
<1>2. held = HeldAt(CameraIds, c, ts, BufferSize, age)
  BY <1>1 DEF Held, EvictStale, Push, HeldAt, Purged, Pushed
<1>3. held = [k \in Members(CameraIds) |-> held[k]]
  BY <1>2 DEF HeldAt
<1>4. /\ latest' = t /\ lastIn' = [lastIn EXCEPT ![c] = ts]
      /\ EmitAligned(held) \/ EmitSolo(held, t) \/ Hold(held, t)
  BY DEF Submit
<1>5. /\ flags \in [Members(CameraIds) -> BOOLEAN]
      /\ \A k \in Members(CameraIds) : flags[k] => degraded[k]
  BY <1>1 DEF Probed
<1> HIDE DEF t, held
<1>6. /\ \A k \in due : held[k] # <<>>
      /\ \A k \in Members(CameraIds) : flags[k] /\ held[k] # <<>> => k \in due
  BY DEF Due
<1>7. lastProbe' \in {lastProbe, t}
  BY <1>4 DEF EmitAligned, EmitSolo, Hold, Probe
<1>8. Written(CameraIds, held, flags, due)
  <2>1. CASE EmitAligned(held)
    BY <1>1, <2>1 DEF EmitAligned, CanAlign, Return, Newest, Written, Returned
  <2>2. CASE EmitSolo(held, t)
    <3>1. PICK i \in DOMAIN CameraIds :
            /\ Due(CameraIds[i], held, t)
            /\ \A j \in 1..(i - 1) : ~Due(CameraIds[j], held, t)
            /\ Return([x \in {CameraIds[i]} |-> Newest(held[CameraIds[i]])])
            /\ buffers' = [held EXCEPT ![CameraIds[i]] = <<>>]
            /\ degraded' = [flags EXCEPT ![CameraIds[i]] = TRUE]
      BY <2>2 DEF EmitSolo
    <3>2. CameraIds[i] \in due /\ \A j \in 1..(i - 1) : CameraIds[j] \notin due
      BY <3>1 DEF Members
    <3>3. Returned(CameraIds, [x \in {CameraIds[i]} |-> Newest(held[CameraIds[i]])])
      BY <1>1, <3>1 DEF Return, Newest, Returned
    <3> QED
      BY <3>1, <3>2, <3>3 DEF Written
  <2>3. CASE Hold(held, t)
    BY <1>1, <2>3 DEF Hold, Written
  <2> QED
    BY <1>4, <2>1, <2>2, <2>3
<1>9. Outcome(CameraIds, held)
  <2> HIDE DEF flags, due
  <2>1. due \in SUBSET Members(CameraIds)
    BY DEF due
  <2> QED
    BY <1>3, <1>5, <1>6, <1>8, <2>1, WrittenOutcome
<1> QED
  BY <1>1, <1>2, <1>4, <1>7, <1>9 DEF Submitted

LEMMA AnySubmits ==
  ASSUME Listed(CameraIds), degraded \in [Members(CameraIds) -> BOOLEAN], NEW age, age = 4,
         NEW c \in Members(CameraIds), NEW ts, Any!Submit(c, ts)
  PROVE  Submitted(CameraIds, c, ts, 2, age)
<1> DEFINE t == Any!Reference(ts)
           held == Any!Held(c, ts, t)
           flags == Any!Probed(t)
           due == {k \in Members(CameraIds) : Any!Due(k, held, t)}
<1>1. Members(CameraIds) = Any!Cameras /\ t = Later(ts)
  BY DEF Members, Any!Cameras, Any!Reference, Later
<1>2. held = HeldAt(CameraIds, c, ts, 2, age)
  BY <1>1 DEF Any!Held, Any!EvictStale, Any!Push, HeldAt, Purged, Pushed, Any!Cardinality, Cardinality
<1>3. held = [k \in Members(CameraIds) |-> held[k]]
  BY <1>2 DEF HeldAt
<1>4. /\ latest' = t /\ lastIn' = [lastIn EXCEPT ![c] = ts]
      /\ Any!EmitAligned(held) \/ Any!EmitSolo(held, t) \/ Any!Hold(held, t)
  BY DEF Any!Submit
<1>5. /\ flags \in [Members(CameraIds) -> BOOLEAN]
      /\ \A k \in Members(CameraIds) : flags[k] => degraded[k]
  BY <1>1 DEF Any!Probed
<1> HIDE DEF t, held
<1>6. /\ \A k \in due : held[k] # <<>>
      /\ \A k \in Members(CameraIds) : flags[k] /\ held[k] # <<>> => k \in due
  BY DEF Any!Due
<1>7. lastProbe' \in {lastProbe, t}
  BY <1>4 DEF Any!EmitAligned, Any!EmitSolo, Any!Hold, Any!Probe
<1>8. Written(CameraIds, held, flags, due)
  <2>1. CASE Any!EmitAligned(held)
    BY <1>1, <2>1 DEF Any!EmitAligned, Any!CanAlign, Any!Return, Any!Newest, Newest, Written, Returned
  <2>2. CASE Any!EmitSolo(held, t)
    <3>1. PICK i \in DOMAIN CameraIds :
            /\ Any!Due(CameraIds[i], held, t)
            /\ \A j \in 1..(i - 1) : ~Any!Due(CameraIds[j], held, t)
            /\ Any!Return([x \in {CameraIds[i]} |-> Any!Newest(held[CameraIds[i]])])
            /\ buffers' = [held EXCEPT ![CameraIds[i]] = <<>>]
            /\ degraded' = [flags EXCEPT ![CameraIds[i]] = TRUE]
      BY <2>2 DEF Any!EmitSolo
    <3>2. CameraIds[i] \in due /\ \A j \in 1..(i - 1) : CameraIds[j] \notin due
      BY <3>1 DEF Members
    <3>3. Returned(CameraIds, [x \in {CameraIds[i]} |-> Newest(held[CameraIds[i]])])
      BY <1>1, <3>1 DEF Any!Return, Any!Newest, Newest, Returned
    <3> QED
      BY <3>1, <3>2, <3>3 DEF Written
  <2>3. CASE Any!Hold(held, t)
    BY <1>1, <2>3 DEF Any!Hold, Written
  <2> QED
    BY <1>4, <2>1, <2>2, <2>3
<1>9. Outcome(CameraIds, held)
  <2> HIDE DEF flags, due
  <2>1. due \in SUBSET Members(CameraIds)
    BY DEF due
  <2> QED
    BY <1>3, <1>5, <1>6, <1>8, <2>1, WrittenOutcome
<1> QED
  BY <1>1, <1>2, <1>4, <1>7, <1>9 DEF Submitted

LEMMA ThreeSubmits ==
  ASSUME Listed(ThreeCameras), degraded \in [Members(ThreeCameras) -> BOOLEAN], NEW age, age = 3,
         NEW c \in Members(ThreeCameras), NEW ts, Three!Submit(c, ts)
  PROVE  Submitted(ThreeCameras, c, ts, 4, age)
<1> DEFINE t == Three!Reference(ts)
           held == Three!Held(c, ts, t)
           flags == Three!Probed(t)
           due == {k \in Members(ThreeCameras) : Three!Due(k, held, t)}
<1>1. Members(ThreeCameras) = Three!Cameras /\ t = Later(ts)
  BY DEF Members, Three!Cameras, Three!Reference, Later
<1>2. held = HeldAt(ThreeCameras, c, ts, 4, age)
  BY <1>1 DEF Three!Held, Three!EvictStale, Three!Push, HeldAt, Purged, Pushed, Three!Cardinality, Cardinality
<1>3. held = [k \in Members(ThreeCameras) |-> held[k]]
  BY <1>2 DEF HeldAt
<1>4. /\ latest' = t /\ lastIn' = [lastIn EXCEPT ![c] = ts]
      /\ Three!EmitAligned(held) \/ Three!EmitSolo(held, t) \/ Three!Hold(held, t)
  BY DEF Three!Submit
<1>5. /\ flags \in [Members(ThreeCameras) -> BOOLEAN]
      /\ \A k \in Members(ThreeCameras) : flags[k] => degraded[k]
  BY <1>1 DEF Three!Probed
<1> HIDE DEF t, held
<1>6. /\ \A k \in due : held[k] # <<>>
      /\ \A k \in Members(ThreeCameras) : flags[k] /\ held[k] # <<>> => k \in due
  BY DEF Three!Due
<1>7. lastProbe' \in {lastProbe, t}
  BY <1>4 DEF Three!EmitAligned, Three!EmitSolo, Three!Hold, Three!Probe
<1>8. Written(ThreeCameras, held, flags, due)
  <2>1. CASE Three!EmitAligned(held)
    BY <1>1, <2>1 DEF Three!EmitAligned, Three!CanAlign, Three!Return, Three!Newest, Newest, Written, Returned
  <2>2. CASE Three!EmitSolo(held, t)
    <3>1. PICK i \in DOMAIN ThreeCameras :
            /\ Three!Due(ThreeCameras[i], held, t)
            /\ \A j \in 1..(i - 1) : ~Three!Due(ThreeCameras[j], held, t)
            /\ Three!Return([x \in {ThreeCameras[i]} |-> Three!Newest(held[ThreeCameras[i]])])
            /\ buffers' = [held EXCEPT ![ThreeCameras[i]] = <<>>]
            /\ degraded' = [flags EXCEPT ![ThreeCameras[i]] = TRUE]
      BY <2>2 DEF Three!EmitSolo
    <3>2. ThreeCameras[i] \in due /\ \A j \in 1..(i - 1) : ThreeCameras[j] \notin due
      BY <3>1 DEF Members
    <3>3. Returned(ThreeCameras, [x \in {ThreeCameras[i]} |-> Newest(held[ThreeCameras[i]])])
      BY <1>1, <3>1 DEF Three!Return, Three!Newest, Newest, Returned
    <3> QED
      BY <3>1, <3>2, <3>3 DEF Written
  <2>3. CASE Three!Hold(held, t)
    BY <1>1, <2>3 DEF Three!Hold, Written
  <2> QED
    BY <1>4, <2>1, <2>2, <2>3
<1>9. Outcome(ThreeCameras, held)
  <2> HIDE DEF flags, due
  <2>1. due \in SUBSET Members(ThreeCameras)
    BY DEF due
  <2> QED
    BY <1>3, <1>5, <1>6, <1>8, <2>1, WrittenOutcome
<1> QED
  BY <1>1, <1>2, <1>4, <1>7, <1>9 DEF Submitted

LEMMA RecoveringSubmits ==
  ASSUME Listed(CameraIds), degraded \in [Members(CameraIds) -> BOOLEAN], NEW c \in Members(CameraIds), NEW ts, Recovering!Submit(c, ts)
  PROVE  Submitted(CameraIds, c, ts, BufferSize, AgeMs)
<1> DEFINE t == Recovering!Reference(ts)
           held == Recovering!Held(c, ts, t)
           flags == Recovering!Probed(t)
           due == {k \in Members(CameraIds) : Recovering!Due(k, held, t)}
<1>1. Members(CameraIds) = Recovering!Cameras /\ t = Later(ts)
  BY DEF Members, Recovering!Cameras, Recovering!Reference, Later
<1>2. held = HeldAt(CameraIds, c, ts, BufferSize, AgeMs)
  BY <1>1 DEF Recovering!Held, Recovering!EvictStale, Recovering!Push, HeldAt, Purged, Pushed, Recovering!Cardinality, Cardinality
<1>3. held = [k \in Members(CameraIds) |-> held[k]]
  BY <1>2 DEF HeldAt
<1>4. /\ latest' = t /\ lastIn' = [lastIn EXCEPT ![c] = ts]
      /\ Recovering!EmitAligned(held) \/ Recovering!EmitSolo(held, t) \/ Recovering!Hold(held, t)
  BY DEF Recovering!Submit
<1>5. /\ flags \in [Members(CameraIds) -> BOOLEAN]
      /\ \A k \in Members(CameraIds) : flags[k] => degraded[k]
  BY <1>1 DEF Recovering!Probed
<1> HIDE DEF t, held
<1>6. /\ \A k \in due : held[k] # <<>>
      /\ \A k \in Members(CameraIds) : flags[k] /\ held[k] # <<>> => k \in due
  BY DEF Recovering!Due
<1>7. lastProbe' \in {lastProbe, t}
  BY <1>4 DEF Recovering!EmitAligned, Recovering!EmitSolo, Recovering!Hold, Recovering!Probe
<1>8. Written(CameraIds, held, flags, due)
  <2>1. CASE Recovering!EmitAligned(held)
    BY <1>1, <2>1 DEF Recovering!EmitAligned, Recovering!CanAlign, Recovering!Return, Recovering!Newest, Newest, Written, Returned
  <2>2. CASE Recovering!EmitSolo(held, t)
    <3>1. PICK i \in DOMAIN CameraIds :
            /\ Recovering!Due(CameraIds[i], held, t)
            /\ \A j \in 1..(i - 1) : ~Recovering!Due(CameraIds[j], held, t)
            /\ Recovering!Return([x \in {CameraIds[i]} |-> Recovering!Newest(held[CameraIds[i]])])
            /\ buffers' = [held EXCEPT ![CameraIds[i]] = <<>>]
            /\ degraded' = [flags EXCEPT ![CameraIds[i]] = TRUE]
      BY <2>2 DEF Recovering!EmitSolo
    <3>2. CameraIds[i] \in due /\ \A j \in 1..(i - 1) : CameraIds[j] \notin due
      BY <3>1 DEF Members
    <3>3. Returned(CameraIds, [x \in {CameraIds[i]} |-> Newest(held[CameraIds[i]])])
      BY <1>1, <3>1 DEF Recovering!Return, Recovering!Newest, Newest, Returned
    <3> QED
      BY <3>1, <3>2, <3>3 DEF Written
  <2>3. CASE Recovering!Hold(held, t)
    BY <1>1, <2>3 DEF Recovering!Hold, Written
  <2> QED
    BY <1>4, <2>1, <2>2, <2>3
<1>9. Outcome(CameraIds, held)
  <2> HIDE DEF flags, due
  <2>1. due \in SUBSET Members(CameraIds)
    BY DEF due
  <2> QED
    BY <1>3, <1>5, <1>6, <1>8, <2>1, WrittenOutcome
<1> QED
  BY <1>1, <1>2, <1>4, <1>7, <1>9 DEF Submitted

-----------------------------------------------------------------------------
(* From the facts to the properties.                                         *)

LEMMA ListedIds == Listed(CameraIds) /\ Listed(ThreeCameras)
<1>1. Members(CameraIds) = Cameras
  BY DEF Members, Cameras
<1>2. Listed(CameraIds)
  BY <1>1, CameraAssumption DEF Listed
<1>3. /\ Len(ThreeCameras) = 3
      /\ ThreeCameras[1] = "cam_a" /\ ThreeCameras[2] = "cam_b" /\ ThreeCameras[3] = "cam_c"
  BY DEF ThreeCameras
<1>4. Members(ThreeCameras) = {"cam_a", "cam_b", "cam_c"}
  BY DEF Members, ThreeCameras
<1>5. ThreeCameras \in Seq(Members(ThreeCameras)) /\ ThreeCameras # <<>>
  BY <1>4 DEF ThreeCameras
<1>5a. DOMAIN ThreeCameras = 1..3
  BY <1>3, <1>5, LenProperties
<1>6. \A i, j \in 1..3 : ThreeCameras[i] = ThreeCameras[j] => i = j
  <2> SUFFICES ASSUME NEW i \in 1..3, NEW j \in 1..3, ThreeCameras[i] = ThreeCameras[j] PROVE i = j
    OBVIOUS
  <2>1. (i = 1 \/ i = 2 \/ i = 3) /\ (j = 1 \/ j = 2 \/ j = 3)
    OBVIOUS
  <2> QED
    BY <1>3, <2>1
<1>7. Listed(ThreeCameras)
  BY <1>5a, <1>5, <1>6 DEF Listed
<1> QED
  BY <1>2, <1>7

\* What a rig starts with.
LEMMA EmptyFacts ==
  ASSUME NEW ids, Listed(ids), NEW b \in Nat \ {0}, NEW m \in Nat,
         RigTypes(ids, m), lastOut = lastIn, buffers = [k \in Members(ids) |-> <<>>]
  PROVE  RigFacts(ids, b, m)
<1>1. \A k \in Members(ids) : buffers[k] = <<>> /\ lastOut[k] = lastIn[k] /\ lastIn[k] \in 0..m
  BY DEF RigTypes
<1>2. \A out, in : Span(<<>>, out, in, b, m)
  BY DEF Span
<1>3. Spans(ids, b, m)
  <2>1. buffers \in [Members(ids) -> Seq(0..m)]
    OBVIOUS
  <2>2. \A k \in Members(ids) : lastOut[k] <= lastIn[k] /\ Span(buffers[k], lastOut[k], lastIn[k], b, m)
    BY <1>1, <1>2
  <2> QED
    BY <2>1, <2>2 DEF Spans
<1>4. ASSUME NEW i \in DOMAIN ids
      PROVE  Len(buffers[ids[i]]) + Cardinality(Waiting(ids, buffers, i)) <= i - 1
  <2>1. i \in Nat /\ ids[i] \in Members(ids) /\ Cardinality(Waiting(ids, buffers, i)) \in 0..(i - 1)
    BY WaitingFacts
  <2>2. Len(buffers[ids[i]]) = 0
    BY <1>1, <2>1
  <2> QED
    BY <2>1, <2>2
<1> QED
  BY <1>3, <1>4 DEF RigFacts, Backlog

LEMMA FreshRig ==
  ASSUME NEW ids, Listed(ids), NEW b \in Nat \ {0}, NEW m \in Nat, NEW f \in BOOLEAN,
         buffers = [k \in Members(ids) |-> <<>>], degraded = [k \in Members(ids) |-> f],
         latest = 0, lastProbe = 0, pair = [idx |-> 0, frames |-> <<>>],
         lastIn = [k \in Members(ids) |-> 0], lastOut = [k \in Members(ids) |-> 0]
  PROVE  RigFacts(ids, b, m)
<1>1. 0 \in 0..m
  OBVIOUS
<1>2. <<>> \in [{} -> 0..m] /\ {} \in SUBSET Members(ids)
  OBVIOUS
<1>3. <<>> \in UNION {[S -> 0..m] : S \in SUBSET Members(ids)}
  BY <1>2
<1>4. degraded \in [Members(ids) -> BOOLEAN]
  BY Zenon
<1>5. RigTypes(ids, m)
  BY <1>1, <1>3, <1>4 DEF RigTypes
<1> QED
  BY <1>5, EmptyFacts

LEMMA FactsUnchanged ==
  ASSUME NEW ids, NEW b, NEW m, RigFacts(ids, b, m), UNCHANGED vars
  PROVE  RigFacts(ids, b, m)'
  BY DEF vars, RigFacts, RigTypes, Spans, Backlog, Waiting

\* FrameSync, for all values of its constants.
SyncFacts == RigFacts(CameraIds, BufferSize, MaxTs)

LEMMA SyncFactsInit == Init => SyncFacts
<1> SUFFICES ASSUME Init PROVE SyncFacts
  OBVIOUS
<1>1. BufferSize \in Nat \ {0} /\ MaxTs \in Nat /\ Listed(CameraIds) /\ (Len(CameraIds) = 1) \in BOOLEAN
  BY SyncAssumption, ListedIds
<1>2. Members(CameraIds) = Cameras
  BY DEF Members, Cameras
<1> QED
  BY <1>1, <1>2, FreshRig DEF Init, SyncFacts

LEMMA SyncFactsKept ==
  ASSUME SyncFacts, Next
  PROVE  /\ SyncFacts'
         /\ Emits => \A k \in DOMAIN pair'.frames :
                       pair'.frames[k] > lastOut[k] /\ latest' - pair'.frames[k] <= MaxAge
<1>1. BufferSize \in Nat \ {0} /\ MaxTs \in Nat /\ MaxAge \in Int /\ Listed(CameraIds)
  <2>1. BufferSize \in Nat \ {0} /\ MaxTs \in Nat /\ MaxAge \in Nat
    BY SyncAssumption
  <2>2. MaxAge \in Int
    BY <2>1
  <2> QED
    BY <2>1, <2>2, ListedIds
<1>2. PICK c \in Members(CameraIds) : \E ts \in (lastIn[c] + 1)..MaxTs : Submit(c, ts)
  BY DEF Next, Members, Cameras
<1>1a. PICK ts \in (lastIn[c] + 1)..MaxTs : Submit(c, ts)
  BY <1>2
<1>3. degraded \in [Members(CameraIds) -> BOOLEAN]
  BY DEF SyncFacts, RigFacts, RigTypes
<1>4. Submitted(CameraIds, c, ts, BufferSize, MaxAge)
  BY <1>1, <1>1a, <1>3, BaseSubmits
<1> QED
  BY <1>1, <1>4, SubmittedStep DEF SyncFacts, Emits

LEMMA SyncFactsSay == SyncFacts => TypeOK /\ BacklogIsNew /\ DegradedBacklogBounded
<1> SUFFICES ASSUME SyncFacts PROVE TypeOK /\ BacklogIsNew /\ DegradedBacklogBounded
  OBVIOUS
<1>1. BufferSize \in Nat \ {0} /\ MaxTs \in Nat /\ Listed(CameraIds) /\ Members(CameraIds) = Cameras
  BY SyncAssumption, ListedIds DEF Members, Cameras
<1>2. RigTypes(CameraIds, MaxTs) /\ Spans(CameraIds, BufferSize, MaxTs)
  BY DEF SyncFacts, RigFacts
<1>3. TypeOK
  BY <1>1, <1>2 DEF TypeOK, FrameSets, RigTypes, Spans, Span
<1>4. BacklogIsNew
  BY <1>1, <1>2 DEF BacklogIsNew, Spans, Span
<1>5. DegradedBacklogBounded
  BY <1>1, RigFactsSay DEF DegradedBacklogBounded, SyncFacts
<1> QED
  BY <1>3, <1>4, <1>5

\* Whatever the sources do: the types, which bound every buffer; no frame is ever left
\* behind that an emission could serve twice or late (BacklogIsNew); and a degraded
\* camera is kept waiting by the cameras before it only (DegradedBacklogBounded).
THEOREM BacklogTheorem == Spec => [](TypeOK /\ BacklogIsNew /\ DegradedBacklogBounded)
<1>1. SyncFacts /\ [Next]_vars => SyncFacts'
  <2> SUFFICES ASSUME SyncFacts, [Next]_vars PROVE SyncFacts'
    OBVIOUS
  <2>1. CASE Next
    BY <2>1, SyncFactsKept
  <2>2. CASE UNCHANGED vars
    BY <2>2, FactsUnchanged DEF SyncFacts
  <2> QED
    BY <2>1, <2>2
<1> QED
  BY <1>1, SyncFactsInit, SyncFactsSay, PTL DEF Spec

-----------------------------------------------------------------------------
(* The rigs of MCFrameSync.                                                  *)

RigInv ==
  /\ rig \in {"any", "three", "live", "capture", "recovering"}
  /\ rig = "any" => RigFacts(CameraIds, 2, 8)
  /\ rig = "three" => RigFacts(ThreeCameras, 4, 6)
  /\ rig \in {"live", "capture"} => SyncFacts
  /\ rig = "recovering" => period \in Periods /\ RigFacts(CameraIds, BufferSize, LastMs)

\* Constants of the rigs.
LEMMA RigNumbers ==
  /\ 2 \in Nat \ {0} /\ 4 \in Nat \ {0} /\ 6 \in Nat /\ 8 \in Nat /\ 4 \in Int /\ 3 \in Int
  OBVIOUS

LEMMA RecoveringNumbers ==
  /\ SkewMs \in Nat /\ AgeMs \in Nat /\ DegradedMs \in Nat /\ DegradedMs > 0
  /\ ProbeFactor \in Nat /\ ProbeFactor > 0 /\ BufferSize \in Nat \ {0} /\ LastMs \in Nat
  /\ Start \in Nat /\ DegradedMs <= Start /\ Start <= LastMs /\ Len(CameraIds) = 2
  /\ \A p \in Periods : p \in Nat /\ p > 0 /\ p < Start
  BY RecoveryConstants DEF Recovering!SyncAssumption, Recovering!RecoveryAssumption

LEMMA AnyInit == Any!Init => RigFacts(CameraIds, 2, 8)
<1> SUFFICES ASSUME Any!Init PROVE RigFacts(CameraIds, 2, 8)
  OBVIOUS
<1>1. PICK f \in BOOLEAN : f = (Len(CameraIds) = 1)
  OBVIOUS
<1>2. Members(CameraIds) = Any!Cameras
  BY DEF Members, Any!Cameras
<1>3. /\ buffers = [k \in Members(CameraIds) |-> <<>>] /\ degraded = [k \in Members(CameraIds) |-> f]
      /\ latest = 0 /\ lastProbe = 0 /\ pair = [idx |-> 0, frames |-> <<>>]
      /\ lastIn = [k \in Members(CameraIds) |-> 0] /\ lastOut = [k \in Members(CameraIds) |-> 0]
  BY <1>1, <1>2 DEF Any!Init
<1> QED
  BY <1>3, RigNumbers, ListedIds, FreshRig

LEMMA ThreeInit == Three!Init => RigFacts(ThreeCameras, 4, 6)
<1> SUFFICES ASSUME Three!Init PROVE RigFacts(ThreeCameras, 4, 6)
  OBVIOUS
<1>1. PICK f \in BOOLEAN : f = (Len(ThreeCameras) = 1)
  OBVIOUS
<1>2. Members(ThreeCameras) = Three!Cameras
  BY DEF Members, Three!Cameras
<1>3. /\ buffers = [k \in Members(ThreeCameras) |-> <<>>] /\ degraded = [k \in Members(ThreeCameras) |-> f]
      /\ latest = 0 /\ lastProbe = 0 /\ pair = [idx |-> 0, frames |-> <<>>]
      /\ lastIn = [k \in Members(ThreeCameras) |-> 0] /\ lastOut = [k \in Members(ThreeCameras) |-> 0]
  BY <1>1, <1>2 DEF Three!Init
<1> QED
  BY <1>3, RigNumbers, ListedIds, FreshRig

LEMMA RecoveringInit ==
  Recovering!RecoveryInit => period \in Periods /\ RigFacts(CameraIds, BufferSize, LastMs)
<1> SUFFICES ASSUME Recovering!RecoveryInit
             PROVE  period \in Periods /\ RigFacts(CameraIds, BufferSize, LastMs)
  OBVIOUS
<1>1. Members(CameraIds) = Recovering!Cameras
  BY DEF Members, Recovering!Cameras
<1>2. LastMs \in Nat
  BY RecoveringNumbers
<1>3. period \in Periods /\ period \in 1..Start /\ Start \in 0..LastMs
  BY <1>2, RecoveringNumbers DEF Recovering!RecoveryInit
<1>4. lastIn \in [Members(CameraIds) -> (Start - period + 1)..Start]
  BY <1>1 DEF Recovering!RecoveryInit, Recovering!InPhase
<1>5. (Start - period + 1)..Start \subseteq 0..LastMs /\ Start \in 0..LastMs /\ 0 \in 0..LastMs
  BY <1>2, <1>3
<1>6. lastIn \in [Members(CameraIds) -> 0..LastMs]
  BY <1>4, <1>5
<1>7. PICK k \in Members(CameraIds) : pair = [idx |-> 2, frames |-> [x \in {k} |-> Start]]
  BY <1>1 DEF Recovering!RecoveryInit
<1>8. [x \in {k} |-> Start] \in [{k} -> 0..LastMs] /\ {k} \in SUBSET Members(CameraIds)
  BY <1>5, <1>7
<1>9. [x \in {k} |-> Start] \in UNION {[S -> 0..LastMs] : S \in SUBSET Members(CameraIds)}
  BY <1>8
<1>10. pair \in [idx : Nat, frames : UNION {[S -> 0..LastMs] : S \in SUBSET Members(CameraIds)}]
  BY <1>7, <1>9
<1>11. /\ lastOut = lastIn /\ buffers = [j \in Members(CameraIds) |-> <<>>]
       /\ degraded = [j \in Members(CameraIds) |-> TRUE]
       /\ latest = Start /\ lastProbe = 0
  BY <1>1 DEF Recovering!RecoveryInit
<1>12. degraded \in [Members(CameraIds) -> BOOLEAN]
  BY <1>11, Zenon
<1>13. RigTypes(CameraIds, LastMs)
  BY <1>5, <1>6, <1>10, <1>11, <1>12 DEF RigTypes
<1>14. RigFacts(CameraIds, BufferSize, LastMs)
  BY <1>11, <1>13, RecoveringNumbers, ListedIds, EmptyFacts
<1> QED
  BY <1>3, <1>14

LEMMA RigInvInit == RigInit => RigInv
<1> SUFFICES ASSUME RigInit PROVE RigInv
  OBVIOUS
<1>1. CASE rig = "any" /\ Any!Init
  BY <1>1, AnyInit DEF RigInv
<1>2. CASE rig = "three" /\ Three!Init
  BY <1>2, ThreeInit DEF RigInv
<1>3. CASE rig \in {"live", "capture"} /\ Init
  BY <1>3, SyncFactsInit DEF RigInv
<1>4. CASE rig = "recovering" /\ Recovering!RecoveryInit
  BY <1>4, RecoveringInit DEF RigInv
<1> QED
  BY <1>1, <1>2, <1>3, <1>4 DEF RigInit, SyncInit

\* The step of a rig keeps the invariant and advances each camera's frames; on the rig
\* with frames at any time, whatever is emitted is at most 4 old.
Advances == Emits => \A k \in DOMAIN pair'.frames : pair'.frames[k] > lastOut[k]

LEMMA AnyStep ==
  ASSUME RigFacts(CameraIds, 2, 8), Any!Next
  PROVE  RigFacts(CameraIds, 2, 8)' /\ Advances /\ Any!FreshStep
<1>1. PICK c \in Members(CameraIds) : \E ts \in (lastIn[c] + 1)..8 : Any!Submit(c, ts)
  BY DEF Any!Next, Members, Any!Cameras
<1>1a. PICK ts \in (lastIn[c] + 1)..8 : Any!Submit(c, ts)
  BY <1>1
<1>2. degraded \in [Members(CameraIds) -> BOOLEAN]
  BY DEF RigFacts, RigTypes
<1>3. PICK age \in Int : age = 4
  OBVIOUS
<1>4. Submitted(CameraIds, c, ts, 2, age)
  BY <1>1a, <1>2, <1>3, ListedIds, AnySubmits
<1>5. /\ RigFacts(CameraIds, 2, 8)'
      /\ pair'.idx # pair.idx =>
           \A k \in DOMAIN pair'.frames :
             pair'.frames[k] > lastOut[k] /\ latest' - pair'.frames[k] <= age
  BY <1>4, RigNumbers, ListedIds, SubmittedStep
<1> QED
  BY <1>3, <1>5 DEF Advances, Emits, Any!FreshStep, Any!Emits

LEMMA ThreeStep ==
  ASSUME RigFacts(ThreeCameras, 4, 6), Three!Next
  PROVE  RigFacts(ThreeCameras, 4, 6)' /\ Advances
<1>1. PICK c \in Members(ThreeCameras) : \E ts \in (lastIn[c] + 1)..6 : Three!Submit(c, ts)
  BY DEF Three!Next, Members, Three!Cameras
<1>1a. PICK ts \in (lastIn[c] + 1)..6 : Three!Submit(c, ts)
  BY <1>1
<1>2. degraded \in [Members(ThreeCameras) -> BOOLEAN]
  BY DEF RigFacts, RigTypes
<1>3. PICK age \in Int : age = 3
  OBVIOUS
<1>4. Submitted(ThreeCameras, c, ts, 4, age)
  BY <1>1a, <1>2, <1>3, ListedIds, ThreeSubmits
<1>5. /\ RigFacts(ThreeCameras, 4, 6)'
      /\ pair'.idx # pair.idx =>
           \A k \in DOMAIN pair'.frames :
             pair'.frames[k] > lastOut[k] /\ latest' - pair'.frames[k] <= age
  BY <1>4, RigNumbers, ListedIds, SubmittedStep
<1> QED
  BY <1>5 DEF Advances, Emits

LEMMA RecoveringStep ==
  ASSUME period \in Periods, RigFacts(CameraIds, BufferSize, LastMs), Recovering!RecoveryNext
  PROVE  period' \in Periods /\ RigFacts(CameraIds, BufferSize, LastMs)' /\ Advances
<1>1. PICK c \in Members(CameraIds) : Recovering!Tick(c)
  BY DEF Recovering!RecoveryNext, Members, Recovering!Cameras
<1>2. PICK ts : ts = lastIn[c] + period
  OBVIOUS
<1>3. ts <= LastMs /\ Recovering!Submit(c, ts) /\ period' = period
  BY <1>1, <1>2 DEF Recovering!Tick
<1>4. degraded \in [Members(CameraIds) -> BOOLEAN] /\ lastIn[c] \in 0..LastMs
  BY SMTT(30) DEF RigFacts, RigTypes
<1>5. period \in Nat /\ period > 0
  BY RecoveringNumbers
<1>6. ts \in (lastIn[c] + 1)..LastMs
  BY <1>2, <1>3, <1>4, <1>5
<1>7. Submitted(CameraIds, c, ts, BufferSize, AgeMs)
  BY <1>3, <1>4, ListedIds, RecoveringSubmits
<1>8. /\ RigFacts(CameraIds, BufferSize, LastMs)'
      /\ pair'.idx # pair.idx =>
           \A k \in DOMAIN pair'.frames :
             pair'.frames[k] > lastOut[k] /\ latest' - pair'.frames[k] <= AgeMs
  BY <1>6, <1>7, RecoveringNumbers, ListedIds, SubmittedStep
<1> QED
  BY <1>3, <1>8 DEF Advances, Emits

LEMMA RigStep ==
  ASSUME RigInv, [RigNext]_<<vars, rig, period, shotsVars>>
  PROVE  RigInv' /\ Advances /\ (rig = "any" => Any!FreshStep)
<1>1. CASE rig = "any" /\ Any!Next /\ UNCHANGED rig
  BY <1>1, AnyStep DEF RigInv
<1>2. CASE rig = "three" /\ Three!Next /\ UNCHANGED rig
  BY <1>2, ThreeStep DEF RigInv
<1>3. CASE rig = "live" /\ LiveNext /\ UNCHANGED rig
  <2>1. Next
    BY <1>3 DEF LiveNext, LiveSubmit, Next
  <2>2. SyncFacts
    BY <1>3 DEF RigInv
  <2>3. SyncFacts' /\ Advances
    BY <2>1, <2>2, SyncFactsKept DEF Advances
  <2> QED
    BY <1>3, <2>3 DEF RigInv
<1>4. CASE rig = "recovering" /\ Recovering!RecoveryNext /\ UNCHANGED rig
  BY <1>4, RecoveringStep DEF RigInv
<1>5. CASE UNCHANGED <<vars, rig, period>>
  <2>1. ~Emits /\ ~Any!Emits
    BY <1>5 DEF vars, Emits, Any!Emits
  <2>2. RigInv'
    BY <1>5, FactsUnchanged DEF RigInv, SyncFacts
  <2> QED
    BY <2>1, <2>2 DEF Advances, Any!FreshStep
<1> QED
  BY <1>1, <1>2, <1>3, <1>4, <1>5 DEF RigNext, SyncNext

LEMMA RigInvSays == RigInv => SyncInv
<1> SUFFICES ASSUME RigInv PROVE SyncInv
  OBVIOUS
<1>1. rig = "any" => Any!TypeOK /\ Any!DegradedBacklogBounded
  <2> SUFFICES ASSUME rig = "any" PROVE Any!TypeOK /\ Any!DegradedBacklogBounded
    OBVIOUS
  <2>1. RigFacts(CameraIds, 2, 8) /\ Members(CameraIds) = Any!Cameras
    BY DEF RigInv, Members, Any!Cameras
  <2>2. Any!TypeOK
    <3>1. RigTypes(CameraIds, 8) /\ Spans(CameraIds, 2, 8)
      BY <2>1 DEF RigFacts
    <3>2. \A k \in Members(CameraIds) : Len(buffers[k]) <= 2
      BY <3>1 DEF Spans, Span
    <3>3. buffers \in [Members(CameraIds) -> Seq(0..8)]
      BY <3>1 DEF Spans
    <3>4. /\ degraded \in [Members(CameraIds) -> BOOLEAN]
          /\ lastIn \in [Members(CameraIds) -> 0..8] /\ lastOut \in [Members(CameraIds) -> 0..8]
      BY <3>1 DEF RigTypes
    <3>5. latest \in 0..8 /\ lastProbe \in 0..8
      BY <3>1 DEF RigTypes
    <3>6. pair \in [idx : Nat, frames : Any!FrameSets]
      BY <2>1, <3>1 DEF Any!FrameSets, RigTypes
    <3> QED
      BY <2>1, <3>2, <3>3, <3>4, <3>5, <3>6 DEF Any!TypeOK
  <2>3. Any!DegradedBacklogBounded
    <3>1. \A i \in DOMAIN CameraIds : degraded[CameraIds[i]] => Len(buffers[CameraIds[i]]) <= i - 1
      BY <2>1, RigNumbers, ListedIds, RigFactsSay
    <3> QED
      BY <3>1 DEF Any!DegradedBacklogBounded
  <2> QED
    BY <2>2, <2>3
<1>2. rig = "three" => Three!TypeOK /\ Three!DegradedBacklogBounded
  <2> SUFFICES ASSUME rig = "three" PROVE Three!TypeOK /\ Three!DegradedBacklogBounded
    OBVIOUS
  <2>1. RigFacts(ThreeCameras, 4, 6) /\ Members(ThreeCameras) = Three!Cameras
    BY DEF RigInv, Members, Three!Cameras
  <2>2. Three!TypeOK
    <3>1. RigTypes(ThreeCameras, 6) /\ Spans(ThreeCameras, 4, 6)
      BY <2>1 DEF RigFacts
    <3>2. \A k \in Members(ThreeCameras) : Len(buffers[k]) <= 4
      BY <3>1 DEF Spans, Span
    <3>3. buffers \in [Members(ThreeCameras) -> Seq(0..6)]
      BY <3>1 DEF Spans
    <3>4. /\ degraded \in [Members(ThreeCameras) -> BOOLEAN]
          /\ lastIn \in [Members(ThreeCameras) -> 0..6] /\ lastOut \in [Members(ThreeCameras) -> 0..6]
      BY <3>1 DEF RigTypes
    <3>5. latest \in 0..6 /\ lastProbe \in 0..6
      BY <3>1 DEF RigTypes
    <3>6. pair \in [idx : Nat, frames : Three!FrameSets]
      BY <2>1, <3>1 DEF Three!FrameSets, RigTypes
    <3> QED
      BY <2>1, <3>2, <3>3, <3>4, <3>5, <3>6 DEF Three!TypeOK
  <2>3. Three!DegradedBacklogBounded
    <3>1. \A i \in DOMAIN ThreeCameras : degraded[ThreeCameras[i]] => Len(buffers[ThreeCameras[i]]) <= i - 1
      BY <2>1, RigNumbers, ListedIds, RigFactsSay, SMTT(30)
    <3> QED
      BY <3>1 DEF Three!DegradedBacklogBounded
  <2> QED
    BY <2>2, <2>3
<1>3. rig \in {"live", "capture"} => DegradedBacklogBounded
  BY SyncFactsSay DEF RigInv
<1>4. rig = "recovering" => DegradedBacklogBounded
  BY RecoveringNumbers, ListedIds, RigFactsSay DEF RigInv, DegradedBacklogBounded
<1>5. rig = "any" => DegradedBacklogBounded
  BY <1>1 DEF Any!DegradedBacklogBounded, DegradedBacklogBounded
<1>6. rig \in {"any", "three", "live", "capture", "recovering"}
  BY DEF RigInv
<1>7. rig # "three" => DegradedBacklogBounded
  BY <1>3, <1>4, <1>5, <1>6
<1>8. rig # "three" => BacklogIsNew
  <2> SUFFICES ASSUME rig # "three" PROVE BacklogIsNew
    OBVIOUS
  <2>1. PICK b, m : RigFacts(CameraIds, b, m)
    BY <1>6 DEF RigInv, SyncFacts
  <2>2. Members(CameraIds) = Cameras
    BY DEF Members, Cameras
  <2> QED
    BY <2>1, <2>2 DEF BacklogIsNew, RigFacts, Spans, Span
<1>9. rig = "three" => Three!BacklogIsNew
  <2> SUFFICES ASSUME rig = "three" PROVE Three!BacklogIsNew
    OBVIOUS
  <2>1. Spans(ThreeCameras, 4, 6) /\ Members(ThreeCameras) = Three!Cameras
    BY DEF RigInv, RigFacts, Members, Three!Cameras
  <2> QED
    BY <2>1 DEF Three!BacklogIsNew, Spans, Span
<1> QED
  BY <1>1, <1>2, <1>7, <1>8, <1>9 DEF SyncInv, SyncTypeOK, BuffersNew, BacklogBounded

\* On every rig: a buffer is what was submitted since the last frame returned, in order, and
\* no more of it than fits, or is young enough; and a degraded camera is kept
\* waiting by the cameras before it only.
THEOREM RigTheorem == RigSpec => []SyncInv
<1>1. RigInv /\ [RigNext]_<<vars, rig, period, shotsVars>> => RigInv'
  BY RigStep
<1> QED
  BY <1>1, RigInvInit, RigInvSays, PTL DEF RigSpec

\* A camera's frames leave the synchronizer in strictly increasing capture order, through
\* aligned and solo pairs, degradation and recovery alike: on every rig ...
THEOREM RigsAdvanceTheorem == RigSpec => CaptureMonotone
<1>1. RigInv /\ [RigNext]_<<vars, rig, period, shotsVars>> => RigInv'
  BY RigStep
<1>2. RigInv /\ [RigNext]_<<vars, rig, period, shotsVars>> =>
        [Emits => \A k \in DOMAIN pair'.frames : pair'.frames[k] > lastOut[k]]_vars
  BY RigStep DEF Advances
<1> QED
  BY <1>1, <1>2, RigInvInit, PTL DEF RigSpec, CaptureMonotone

\* ... and with any constants, where what is returned is also young enough: a camera that
\* comes back is not paired with what its partner buffered before it went.
THEOREM CaptureMonotoneTheorem == Spec => CaptureMonotone /\ [][FreshStep]_vars
<1>1. SyncFacts /\ [Next]_vars => SyncFacts'
  BY SyncFactsKept, FactsUnchanged DEF SyncFacts
<1>2. SyncFacts /\ [Next]_vars =>
        [Emits => \A k \in DOMAIN pair'.frames : pair'.frames[k] > lastOut[k]]_vars
  BY SyncFactsKept
<1>3. SyncFacts /\ [Next]_vars => [FreshStep]_vars
  BY SyncFactsKept DEF FreshStep
<1> QED
  BY <1>1, <1>2, <1>3, SyncFactsInit, PTL DEF Spec, CaptureMonotone

\* FreshPairs, the same on the rig with frames at any time.
THEOREM FreshTheorem == RigSpec => FreshPairs
<1>1. RigInv /\ [RigNext]_<<vars, rig, period, shotsVars>> => RigInv'
  BY RigStep
<1>2. RigInv /\ [RigNext]_<<vars, rig, period, shotsVars>> => [rig = "any" => Any!FreshStep]_<<vars, rig>>
  BY RigStep
<1> QED
  BY <1>1, <1>2, RigInvInit, PTL DEF RigSpec, FreshPairs

-----------------------------------------------------------------------------
(* Two live cameras.                                                         *)

\* With two cameras that deliver within twice the tolerance nobody gets old before a
\* partner comes.  (33 ms, 66 ms and 100 ms are just within the third line.)
LiveRates ==
  /\ Len(CameraIds) = 2
  /\ MaxPeriod <= 2 * MaxSkew /\ MaxPeriod < DegradedAfter
  /\ 2 * MaxPeriod <= MaxSkew + DegradedAfter
  /\ DegradedAfter <= MaxAge

\* x is the one that is behind: its next frame will be within the tolerance of what y has.
Behind(x, y) ==
  /\ lastIn[x] + MaxSkew < Head(buffers[y])
  /\ lastIn[x] + MaxPeriod < Head(buffers[x]) + DegradedAfter

\* Of two cameras, what they hold: nothing, or frames of one of them, all captured after
\* the other's last one, or frames of both, of which one is behind.
Paired(x, y) ==
  /\ buffers[x] # <<>> /\ buffers[y] = <<>> => lastIn[y] <= Head(buffers[x])
  /\ buffers[x] # <<>> /\ buffers[y] # <<>> => Behind(x, y) \/ Behind(y, x)

LiveInv ==
  /\ SyncFacts
  /\ NeverSolo
  /\ \A k \in Cameras :
       /\ lastIn[k] <= latest /\ latest <= lastIn[k] + MaxPeriod
       /\ buffers[k] # <<>> => Newest(buffers[k]) = lastIn[k]
  /\ \A x, y \in Cameras : x # y => Paired(x, y)

\* A purge leaves alone what is young enough.
LEMMA PurgeNothing ==
  ASSUME NEW m \in Nat, NEW q \in Seq(0..m), NEW t \in Int, \A i \in DOMAIN q : t <= q[i]
  PROVE  Purged(q, t) = q
<1> DEFINE stale == {i \in DOMAIN q : \A j \in 1..i : q[j] < t}
<1>1. PICK n \in Nat : n = Len(q)
  OBVIOUS
<1>2. DOMAIN q = 1..n
  BY <1>1
<1>3. \A i \in 1..n : i \in 1..i /\ q[i] \in 0..m /\ ~(q[i] < t)
  BY <1>2
<1>4. stale = {}
  BY <1>2, <1>3
<1>5. Cardinality(stale) = 0
  BY <1>4, FS_EmptySet
<1>6. Purged(q, t) = SubSeq(q, Cardinality(stale) + 1, n)
  BY <1>1 DEF Purged
<1> HIDE DEF stale
<1>7. SubSeq(q, 1, n) = q
  BY <1>1, <1>2
<1> QED
  BY <1>5, <1>6, <1>7

\* The head of a deque of captures in order is its oldest, and gets younger only.
LEMMA HeadOfSpan ==
  ASSUME NEW b \in Nat \ {0}, NEW m \in Nat, NEW q, NEW out \in 0..m, NEW in \in 0..m,
         Span(q, out, in, b, m), q # <<>>
  PROVE  /\ Head(q) = q[1] /\ Head(q) \in 0..m /\ Newest(q) \in 0..m
         /\ \A i \in DOMAIN q : q[i] \in 0..m /\ Head(q) <= q[i]
         /\ Head(q) <= Newest(q)
<1>1. /\ q \in Seq(0..m) /\ Len(q) \in Nat /\ Len(q) > 0 /\ DOMAIN q = 1..Len(q)
      /\ \A i \in 1..Len(q) : q[i] \in 0..m /\ \A j \in 1..(i - 1) : q[j] < q[i]
  BY LenProperties, ElementOfSeq, EmptySeq DEF Span
<1>2. Head(q) = q[1]
  BY <1>1
<1>3. ASSUME NEW i \in 1..Len(q) PROVE q[1] <= q[i]
  <2>1. q[1] \in 0..m /\ q[i] \in 0..m /\ i \in Nat
    BY <1>1
  <2>2. CASE i = 1
    BY <2>1, <2>2
  <2>3. CASE i # 1
    <3>1. 1 \in 1..(i - 1)
      BY <2>1, <2>3
    <3> QED
      BY <1>1, <2>1, <3>1
  <2> QED
    BY <2>2, <2>3
<1>4. Len(q) \in 1..Len(q) /\ 1 \in 1..Len(q)
  BY <1>1
<1> QED
  BY <1>1, <1>2, <1>3, <1>4 DEF Newest

\* A purge leaves a buffer alone whose head is young enough.
LEMMA PurgeYoung ==
  ASSUME NEW b \in Nat \ {0}, NEW m \in Nat, NEW q, NEW out \in 0..m, NEW in \in 0..m,
         Span(q, out, in, b, m), NEW t \in Int, q # <<>> => t <= Head(q)
  PROVE  Purged(q, t) = q
<1>1. q # <<>> => Head(q) \in 0..m /\ \A i \in DOMAIN q : q[i] \in 0..m /\ Head(q) <= q[i]
  BY HeadOfSpan
<1>2. q = <<>> => DOMAIN q = {}
  OBVIOUS
<1>3. \A i \in DOMAIN q : t <= q[i]
  BY <1>1, <1>2
<1> QED
  BY <1>3, PurgeNothing DEF Span

LEMMA PushedHead ==
  ASSUME NEW b \in Nat \ {0}, NEW m \in Nat, NEW q, NEW out \in 0..m, NEW in \in 0..m,
         Span(q, out, in, b, m), out <= in, NEW ts \in (in + 1)..m
  PROVE  /\ Pushed(q, ts, b) # <<>> /\ Newest(Pushed(q, ts, b)) = ts
         /\ Head(Pushed(q, ts, b)) \in 0..m
         /\ q = <<>> => Head(Pushed(q, ts, b)) = ts
         /\ q # <<>> => Head(q) <= Head(Pushed(q, ts, b))
<1>1. ts \in 0..m
  OBVIOUS
<1>2. /\ q \in Seq(0..m) /\ Len(q) \in Nat /\ Len(q) <= b /\ DOMAIN q = 1..Len(q)
      /\ \A i \in 1..Len(q) : q[i] \in 0..m /\ q[i] <= in
  BY LenProperties, ElementOfSeq DEF Span
<1>3. PICK p : p = Pushed(q, ts, b)
  OBVIOUS
<1>4. Span(p, out, ts, b, m)
  BY <1>3, PushSpan
<1>5. CASE Len(q) = b
  <2>1. q # <<>>
    BY <1>2, <1>5
  <2>2. PICK r : r = Tail(q)
    OBVIOUS
  <2>3. /\ r \in Seq(0..m) /\ Len(r) = Len(q) - 1 /\ \A i \in 1..Len(r) : r[i] = q[i + 1]
    BY <1>2, <2>1, <2>2, HeadTailProperties
  <2>4. p = Append(r, ts)
    BY <1>3, <1>5, <2>2 DEF Pushed
  <2>5. Len(p) = Len(q) /\ p[Len(q)] = ts /\ p # <<>>
    <3>1. Len(r) \in Nat /\ Len(r) + 1 = Len(q)
      BY <1>2, <2>3
    <3>2. r \in Seq(0..m)
      BY <2>3
    <3>3. Len(p) = Len(r) + 1 /\ p[Len(r) + 1] = ts /\ p # <<>>
      BY <1>1, <2>4, <3>2, AppendProperties
    <3> QED
      BY <3>1, <3>3
  <2>6. Head(q) = q[1] /\ Head(q) \in 0..m /\ \A i \in DOMAIN q : q[i] \in 0..m /\ Head(q) <= q[i]
    BY <2>1, HeadOfSpan
  <2>7. Head(p) = p[1] /\ Head(p) \in 0..m
    BY <1>1, <1>4, <2>5, HeadOfSpan
  <2>8. CASE Len(q) = 1
    <3>1. p[1] = ts
      BY <2>5, <2>8
    <3>2. Head(q) <= ts
      BY <1>1, <1>2, <2>6, <2>8
    <3> QED
      BY <1>3, <2>1, <2>5, <2>7, <3>1, <3>2 DEF Newest
  <2>9. CASE Len(q) # 1
    <3>1. 1 \in 1..Len(r) /\ 2 \in 1..Len(q)
      BY <1>2, <2>1, <2>3, <2>9
    <3>2. p[1] = q[2]
      BY <1>1, <2>3, <2>4, <3>1
    <3>3. Head(q) <= q[2]
      BY <1>2, <2>6, <3>1
    <3> QED
      BY <1>3, <2>1, <2>5, <2>7, <3>2, <3>3 DEF Newest
  <2> QED
    BY <2>8, <2>9
<1>6. CASE Len(q) # b
  <2>1. p = Append(q, ts)
    BY <1>3, <1>6 DEF Pushed
  <2>2. Len(p) = Len(q) + 1 /\ p[Len(q) + 1] = ts /\ p # <<>>
    BY <1>1, <1>2, <2>1, SMTT(30)
  <2>3. Head(p) = p[1] /\ Head(p) \in 0..m
    BY <1>1, <1>4, <2>2, HeadOfSpan
  <2>4. CASE q = <<>>
    <3>1. Len(q) = 0
      BY <2>4
    <3> QED
      BY <1>3, <2>2, <2>3, <2>4, <3>1 DEF Newest
  <2>5. CASE q # <<>>
    <3>1. Head(q) = q[1] /\ Head(q) \in 0..m
      BY <2>5, HeadOfSpan
    <3>2. 1 \in 1..Len(q)
      BY <1>2, <2>5
    <3>3. p[1] = q[1]
      BY <1>1, <1>2, <2>1, <3>2
    <3> QED
      BY <1>3, <2>2, <2>3, <2>5, <3>1, <3>3 DEF Newest
  <2> QED
    BY <2>4, <2>5
<1> QED
  BY <1>5, <1>6

LEMMA LiveNumbers ==
  /\ MaxSkew \in Nat /\ MaxAge \in Nat /\ DegradedAfter \in Nat /\ DegradedAfter > 0
  /\ MaxPeriod \in Nat /\ MaxTs \in Nat /\ BufferSize \in Nat \ {0}
  BY SyncAssumption, PeriodAssumption

\* What the live sources submit: c its next frame, not before anybody's last one, and with
\* nobody overdue.  Of the other camera, o, nothing changes.
LEMMA HeadsYoung ==
  ASSUME LiveRates, LiveInv, NEW c \in Cameras, NEW o \in Cameras, o # c,
         NEW ts \in (lastIn[c] + 1)..MaxTs, LiveSubmit(c, ts),
         NEW p, p = Pushed(buffers[c], ts, BufferSize), NEW q, q = buffers[c], NEW r, r = buffers[o]
  PROVE  /\ lastIn[c] \in 0..MaxTs /\ lastIn[o] \in 0..MaxTs /\ latest \in 0..MaxTs
         /\ lastIn[c] <= latest /\ lastIn[o] <= latest /\ latest <= ts
         /\ ts <= lastIn[c] + MaxPeriod /\ ts <= lastIn[o] + MaxPeriod
         /\ p # <<>> /\ Newest(p) = ts /\ Head(p) \in 0..MaxTs
         /\ q = <<>> => Head(p) = ts
         /\ q # <<>> => Head(q) \in 0..MaxTs /\ Head(q) <= Head(p)
         /\ r # <<>> => Head(r) \in 0..MaxTs /\ Head(r) <= lastIn[o] /\ Newest(r) = lastIn[o]
         /\ ts < Head(p) + DegradedAfter
         /\ r # <<>> => ts < Head(r) + DegradedAfter
<1>1. Members(CameraIds) = Cameras
  BY DEF Members, Cameras
<1>2. /\ lastIn[c] \in 0..MaxTs /\ lastIn[o] \in 0..MaxTs /\ latest \in 0..MaxTs
      /\ lastOut[c] \in 0..MaxTs /\ lastOut[o] \in 0..MaxTs
      /\ lastOut[c] <= lastIn[c] /\ lastOut[o] <= lastIn[o]
      /\ Span(q, lastOut[c], lastIn[c], BufferSize, MaxTs)
      /\ Span(r, lastOut[o], lastIn[o], BufferSize, MaxTs)
  BY <1>1 DEF LiveInv, SyncFacts, RigFacts, RigTypes, Spans
<1>3. /\ lastIn[c] <= latest /\ lastIn[o] <= latest
      /\ r # <<>> => Newest(r) = lastIn[o]
  BY DEF LiveInv
<1>4. latest <= ts /\ ts <= lastIn[c] + MaxPeriod /\ ts <= lastIn[o] + MaxPeriod
  <2>1. ts >= latest
    BY DEF LiveSubmit
  <2>2. ts <= lastIn[c] + MaxPeriod /\ ts <= lastIn[o] + MaxPeriod
    BY DEF LiveSubmit
  <2> QED
    BY <1>2, <2>1, <2>2
<1>5. /\ p # <<>> /\ Newest(p) = ts /\ Head(p) \in 0..MaxTs
      /\ q = <<>> => Head(p) = ts
      /\ q # <<>> => Head(q) <= Head(p)
  <2>1. p = Pushed(q, ts, BufferSize)
    OBVIOUS
  <2>2. PICK out \in 0..MaxTs : out = lastOut[c]
    BY <1>2
  <2>3. PICK last \in 0..MaxTs : last = lastIn[c]
    BY <1>2
  <2>4. Span(q, out, last, BufferSize, MaxTs) /\ out <= last /\ ts \in (last + 1)..MaxTs
    BY <1>2, <2>2, <2>3
  <2> QED
    BY <2>1, <2>4, LiveNumbers, PushedHead, SMTT(30)
<1>6. q # <<>> => Head(q) \in 0..MaxTs
  BY <1>2, LiveNumbers, HeadOfSpan
<1>7. r # <<>> => Head(r) \in 0..MaxTs /\ Head(r) <= lastIn[o]
  BY <1>2, <1>3, LiveNumbers, HeadOfSpan
<1>8. /\ q # <<>> /\ r = <<>> => lastIn[o] <= Head(q)
      /\ r # <<>> /\ q = <<>> => lastIn[c] <= Head(r)
  <2>1. Paired(c, o) /\ Paired(o, c)
    BY DEF LiveInv
  <2> QED
    BY <2>1 DEF Paired
<1>9. q # <<>> /\ r # <<>> =>
        \/ lastIn[c] + MaxSkew < Head(r) /\ lastIn[c] + MaxPeriod < Head(q) + DegradedAfter
        \/ lastIn[o] + MaxSkew < Head(q) /\ lastIn[o] + MaxPeriod < Head(r) + DegradedAfter
  BY DEF LiveInv, Paired, Behind
<1>10. /\ MaxPeriod < DegradedAfter /\ MaxPeriod \in Nat /\ DegradedAfter \in Nat /\ MaxSkew \in Nat
       /\ ts \in Int
  BY LiveNumbers DEF LiveRates
<1>11. ts < Head(p) + DegradedAfter
  <2>1. CASE q = <<>>
    BY <2>1, <1>5, <1>10
  <2>2. CASE q # <<>>
    <3>1. Head(q) \in Int /\ Head(p) \in Int /\ Head(q) <= Head(p)
      BY <2>2, <1>5, <1>6
    <3>2. lastIn[c] \in Int /\ lastIn[o] \in Int /\ ts <= lastIn[c] + MaxPeriod /\ ts <= lastIn[o] + MaxPeriod
      BY <1>2, <1>4
    <3>3. CASE r = <<>>
      <4>1. lastIn[o] <= Head(q)
        BY <1>8, <2>2, <3>3
      <4> QED
        BY <1>10, <3>1, <3>2, <4>1
    <3>4. CASE r # <<>>
      <4>1. lastIn[c] + MaxPeriod < Head(q) + DegradedAfter \/ lastIn[o] + MaxSkew < Head(q)
        BY <1>9, <2>2, <3>4
      <4> QED
        BY <1>10, <3>1, <3>2, <4>1
    <3> QED
      BY <3>3, <3>4
  <2> QED
    BY <2>1, <2>2
<1>12. r # <<>> => ts < Head(r) + DegradedAfter
  <2> SUFFICES ASSUME r # <<>> PROVE ts < Head(r) + DegradedAfter
    OBVIOUS
  <2>1. CASE q = <<>>
    BY <2>1, <1>2, <1>4, <1>7, <1>8, <1>10
  <2>2. CASE q # <<>>
    <3>1. Head(r) \in Int /\ lastIn[c] \in Int /\ lastIn[o] \in Int
      BY <1>2, <1>7
    <3>2. ts <= lastIn[c] + MaxPeriod /\ ts <= lastIn[o] + MaxPeriod
      BY <1>4
    <3>3. lastIn[c] + MaxSkew < Head(r) \/ lastIn[o] + MaxPeriod < Head(r) + DegradedAfter
      BY <1>9, <2>2
    <3> QED
      BY <1>10, <3>1, <3>2, <3>3, SMTT(30)
  <2> QED
    BY <2>1, <2>2
<1> QED
  BY <1>2, <1>3, <1>4, <1>5, <1>6, <1>7, <1>11, <1>12

\* Nobody is due, so that a submit pairs or holds.
PairedOrHeld(c, o, ts, p, r) ==
  /\ latest' = ts /\ lastIn' = [lastIn EXCEPT ![c] = ts]
  /\ NeverSolo'
  /\ \/ buffers' = [k \in Cameras |-> <<>>]
     \/ /\ buffers' = [k \in Cameras |-> IF k = c THEN p ELSE r]
        /\ r # <<>> => ts - lastIn[o] > MaxSkew

LEMMA PairsOrHolds ==
  ASSUME LiveRates, LiveInv, NEW c \in Cameras, NEW o \in Cameras, o # c, Cameras = {c, o},
         NEW ts \in (lastIn[c] + 1)..MaxTs, LiveSubmit(c, ts),
         NEW p, p = Pushed(buffers[c], ts, BufferSize), NEW r, r = buffers[o]
  PROVE  PairedOrHeld(c, o, ts, p, r)
<1> DEFINE held == Held(c, ts, ts)
<1>1. PICK q : q = buffers[c]
  OBVIOUS
<1>2. /\ lastIn[c] \in 0..MaxTs /\ lastIn[o] \in 0..MaxTs /\ latest \in 0..MaxTs
      /\ lastIn[o] <= latest /\ latest <= ts
      /\ p # <<>> /\ Newest(p) = ts /\ Head(p) \in 0..MaxTs
      /\ r # <<>> => Head(r) \in 0..MaxTs /\ Newest(r) = lastIn[o]
      /\ ts < Head(p) + DegradedAfter
      /\ r # <<>> => ts < Head(r) + DegradedAfter
  BY <1>1, HeadsYoung
<1>3. Members(CameraIds) = Cameras /\ ts \in 0..MaxTs
  BY <1>2 DEF Members, Cameras
<1>4. Reference(ts) = ts
  BY <1>2, <1>3 DEF Reference
<1>5. /\ lastOut[c] \in 0..MaxTs /\ lastOut[o] \in 0..MaxTs
      /\ lastOut[c] <= lastIn[c] /\ lastOut[o] <= lastIn[o]
      /\ Span(q, lastOut[c], lastIn[c], BufferSize, MaxTs)
      /\ Span(r, lastOut[o], lastIn[o], BufferSize, MaxTs)
  BY <1>1, <1>3 DEF LiveInv, SyncFacts, RigFacts, RigTypes, Spans
<1>6. Span(p, lastOut[c], ts, BufferSize, MaxTs)
  BY <1>1, <1>2, <1>5, LiveNumbers, PushSpan
<1>7. ts - MaxAge \in Int /\ \A h \in 0..MaxTs : ts < h + DegradedAfter => ts - MaxAge <= h
  BY <1>3, LiveNumbers DEF LiveRates
<1>8. Purged(p, ts - MaxAge) = p
  <2>1. ts - MaxAge <= Head(p)
    BY <1>2, <1>7
  <2> QED
    BY <1>3, <1>5, <1>6, <1>7, <2>1, LiveNumbers, PurgeYoung
<1>9. Purged(r, ts - MaxAge) = r
  <2>1. r # <<>> => ts - MaxAge <= Head(r)
    BY <1>2, <1>7
  <2> QED
    BY <1>2, <1>5, <1>7, <2>1, LiveNumbers, PurgeYoung
<1>10. held = [k \in Cameras |-> IF k = c THEN p ELSE r]
  <2>1. p = Push(buffers[c], ts)
    BY DEF Push, Pushed
  <2>2. held = [k \in Cameras |-> Purged(IF k = c THEN p ELSE buffers[k], ts - MaxAge)]
    BY <2>1 DEF Held, EvictStale, Purged
  <2>3. \A k \in Cameras : Purged(IF k = c THEN p ELSE buffers[k], ts - MaxAge) = IF k = c THEN p ELSE r
    BY <1>8, <1>9
  <2> QED
    BY <2>2, <2>3
<1> HIDE DEF held
<1>11. held[c] = p /\ held[o] = r
  BY <1>10
<1>12. \A k \in Cameras : ~degraded[k]
  BY DEF LiveInv, NeverSolo
<1>13. \A k \in Cameras : ~Due(k, held, ts)
  <2>1. \A k \in Cameras : ~Probed(ts)[k]
    BY <1>12 DEF Probed
  <2>2. ~(ts - Head(p) >= DegradedAfter)
    BY <1>2, <1>3, LiveNumbers
  <2>3. r # <<>> => ~(ts - Head(r) >= DegradedAfter)
    BY <1>2, <1>3, LiveNumbers
  <2> QED
    BY <1>11, <2>1, <2>2, <2>3 DEF Due
<1>14. ~EmitSolo(held, ts)
  BY <1>13 DEF EmitSolo, Cameras
<1>15. /\ latest' = ts /\ lastIn' = [lastIn EXCEPT ![c] = ts]
       /\ EmitAligned(held) \/ Hold(held, ts)
  BY <1>4, <1>14 DEF LiveSubmit, Submit, held
<1>16. CASE EmitAligned(held)
  <2>1. pair' = [idx |-> pair.idx + 1, frames |-> [k \in Cameras |-> Newest(held[k])]]
    BY <1>16 DEF EmitAligned, Return
  <2>2. DOMAIN pair'.frames = Cameras
    BY <2>1
  <2>3. \A k \in Cameras : ~degraded'[k]
    BY <1>16 DEF EmitAligned
  <2>4. buffers' = [k \in Cameras |-> <<>>]
    BY <1>16 DEF EmitAligned
  <2> QED
    BY <1>15, <2>2, <2>3, <2>4 DEF NeverSolo, PairedOrHeld
<1>17. CASE Hold(held, ts)
  <2>1. buffers' = held /\ degraded' = Probed(ts) /\ pair' = pair /\ ~CanAlign(held)
    BY <1>17 DEF Hold
  <2>2. \A k \in Cameras : ~degraded'[k]
    BY <1>12, <2>1 DEF Probed
  <2>3. NeverSolo'
    BY <2>1, <2>2 DEF LiveInv, NeverSolo
  <2>4. ASSUME r # <<>> PROVE ts - lastIn[o] > MaxSkew
    <3>1. \A k \in Cameras : held[k] # <<>>
      BY <1>2, <1>11, <2>4
    <3>2. Len(CameraIds) >= 2
      BY DEF LiveRates
    <3>3. PICK j \in Cameras, k \in Cameras : ~(Newest(held[j]) - Newest(held[k]) <= MaxSkew)
      BY <2>1, <3>1, <3>2 DEF CanAlign
    <3>4. Newest(held[c]) = ts /\ Newest(held[o]) = lastIn[o]
      BY <1>2, <1>11, <2>4
    <3>5. (j = c \/ j = o) /\ (k = c \/ k = o)
      OBVIOUS
    <3> QED
      BY <1>2, <1>3, <3>3, <3>4, <3>5, LiveNumbers
  <2> QED
    BY <1>10, <1>15, <2>1, <2>3, <2>4 DEF PairedOrHeld
<1> QED
  BY <1>15, <1>16, <1>17

\* A frame at t beyond the tolerance of the other camera's frames, the first at h: the
\* next frame of that camera comes before h is too old.
LEMMA NextInTime ==
  ASSUME NEW last \in Int, NEW other \in Int, NEW h \in Int, NEW t \in Int,
         NEW skew \in Int, NEW gap \in Int, NEW limit \in Int,
         last <= h, t - other > skew, t <= last + gap, 2 * gap <= skew + limit
  PROVE  other + skew < t /\ other + gap < h + limit
OBVIOUS

\* What is left is in pairs again: a frame that does not match puts the other camera behind.
LEMMA PairedAgain ==
  ASSUME LiveRates, LiveInv, NEW c \in Cameras, NEW o \in Cameras, o # c,
         NEW ts \in (lastIn[c] + 1)..MaxTs, LiveSubmit(c, ts),
         NEW p, p = Pushed(buffers[c], ts, BufferSize), NEW r, r = buffers[o],
         buffers'[c] = p, buffers'[o] = r, lastIn'[c] = ts, lastIn'[o] = lastIn[o],
         r # <<>> => ts - lastIn[o] > MaxSkew
  PROVE  Paired(c, o)' /\ Paired(o, c)'
<1>1. PICK q : q = buffers[c]
  OBVIOUS
<1>2. /\ lastIn[c] \in Int /\ lastIn[o] \in Int /\ latest \in Int
      /\ lastIn[c] <= latest /\ lastIn[o] <= latest /\ latest <= ts
      /\ ts <= lastIn[c] + MaxPeriod /\ ts <= lastIn[o] + MaxPeriod
  BY <1>1, HeadsYoung
<1>3. /\ p # <<>> /\ Newest(p) = ts /\ Head(p) \in Int
      /\ q = <<>> => Head(p) = ts
      /\ q # <<>> => Head(q) \in Int /\ Head(q) <= Head(p)
      /\ r # <<>> => Head(r) \in Int /\ Head(r) <= lastIn[o]
  <2>1. /\ p # <<>> /\ Newest(p) = ts /\ Head(p) \in 0..MaxTs
        /\ q = <<>> => Head(p) = ts
        /\ q # <<>> => Head(q) \in 0..MaxTs /\ Head(q) <= Head(p)
        /\ r # <<>> => Head(r) \in 0..MaxTs /\ Head(r) <= lastIn[o]
    BY <1>1, HeadsYoung
  <2> QED
    BY <2>1
<1>4. /\ MaxSkew \in Nat /\ MaxPeriod \in Nat /\ DegradedAfter \in Nat
      /\ MaxPeriod <= 2 * MaxSkew /\ MaxPeriod < DegradedAfter
      /\ 2 * MaxPeriod <= MaxSkew + DegradedAfter
  BY LiveNumbers DEF LiveRates
<1>5. CASE r = <<>>
  <2>1. lastIn[o] <= Head(p)
    <3>1. CASE q = <<>>
      BY <1>2, <1>3, <3>1
    <3>2. CASE q # <<>>
      <4>1. lastIn[o] <= Head(q)
        BY <1>1, <1>5, <3>2 DEF LiveInv, Paired
      <4> QED
        BY <1>2, <1>3, <3>2, <4>1
    <3> QED
      BY <3>1, <3>2
  <2> QED
    BY <1>3, <1>5, <2>1 DEF Paired
<1>6. CASE r # <<>>
  <2>1. ts - lastIn[o] > MaxSkew /\ ts \in Int
    BY <1>6
  <2>2. Head(r) \in Int /\ Head(r) <= lastIn[o]
    BY <1>3, <1>6
  <2>3. lastIn[o] + MaxSkew < Head(p) /\ lastIn[o] + MaxPeriod < Head(r) + DegradedAfter
    <3>1. CASE q = <<>>
      <4>1. lastIn[c] <= Head(r)
        BY <1>1, <1>6, <3>1 DEF LiveInv, Paired
      <4>2. Head(p) = ts
        BY <1>3, <3>1
      <4>3. /\ lastIn[c] \in Int /\ lastIn[o] \in Int /\ ts <= lastIn[c] + MaxPeriod
            /\ MaxSkew \in Int /\ MaxPeriod \in Int /\ DegradedAfter \in Int
            /\ 2 * MaxPeriod <= MaxSkew + DegradedAfter
        BY <1>2, <1>4
      <4>4. lastIn[o] + MaxSkew < ts /\ lastIn[o] + MaxPeriod < Head(r) + DegradedAfter
        BY <2>1, <2>2, <4>1, <4>3, NextInTime
      <4> QED
        BY <4>2, <4>4
    <3>2. CASE q # <<>>
      <4>1. \/ lastIn[c] + MaxSkew < Head(r)
            \/ lastIn[o] + MaxSkew < Head(q) /\ lastIn[o] + MaxPeriod < Head(r) + DegradedAfter
        BY <1>1, <1>6, <3>2 DEF LiveInv, Paired, Behind
      <4>2. ~(lastIn[c] + MaxSkew < Head(r))
        <5>1. ts <= lastIn[c] + MaxPeriod /\ lastIn[c] \in Int /\ lastIn[o] \in Int
          BY <1>2
        <5>2. MaxPeriod <= 2 * MaxSkew /\ MaxPeriod \in Int /\ MaxSkew \in Int
          BY <1>4
        <5> QED
          BY <2>1, <2>2, <5>1, <5>2
      <4>3. Head(q) \in Int /\ Head(p) \in Int /\ Head(q) <= Head(p)
        BY <1>3, <3>2
      <4> QED
        <5>1. lastIn[o] + MaxSkew < Head(q) /\ lastIn[o] + MaxPeriod < Head(r) + DegradedAfter
          BY <4>1, <4>2
        <5>2. lastIn[o] + MaxSkew \in Int
          BY <1>2, <1>4
        <5> QED
          BY <4>3, <5>1, <5>2
    <3> QED
      BY <3>1, <3>2
  <2>4. Behind(o, c)'
    BY <2>3 DEF Behind
  <2> QED
    BY <1>3, <1>6, <2>4 DEF Paired
<1> QED
  BY <1>5, <1>6

LEMMA TwoCamerasOnly ==
  ASSUME LiveRates, NEW c \in Cameras
  PROVE  \E o \in Cameras : o # c /\ Cameras = {c, o}
<1>1. CameraIds \in Seq(Cameras) /\ \A i, j \in DOMAIN CameraIds : CameraIds[i] = CameraIds[j] => i = j
  BY CameraAssumption
<1>2. DOMAIN CameraIds = 1..2
  BY <1>1 DEF LiveRates
<1>3. DOMAIN CameraIds = {1, 2} /\ 1 # 2
  BY <1>2
<1>4. Cameras = {CameraIds[1], CameraIds[2]} /\ CameraIds[1] # CameraIds[2]
  BY <1>1, <1>3 DEF Cameras
<1> QED
  BY <1>4

LEMMA LiveInvInit == LiveRates /\ Init => LiveInv
<1> SUFFICES ASSUME LiveRates, Init PROVE LiveInv
  OBVIOUS
<1>1. SyncFacts
  BY SyncFactsInit
<1>2. \A k \in Cameras : buffers[k] = <<>> /\ lastIn[k] = 0 /\ latest = 0
  BY DEF Init
<1>3. NeverSolo
  <2>1. pair.idx = 0
    BY DEF Init
  <2>2. (Len(CameraIds) = 1) = FALSE
    BY DEF LiveRates
  <2>3. degraded = [k \in Cameras |-> FALSE]
    BY <2>2 DEF Init
  <2> QED
    BY <2>1, <2>3 DEF NeverSolo
<1>4. 0 <= 0 /\ 0 <= 0 + MaxPeriod
  BY LiveNumbers
<1> QED
  BY <1>1, <1>2, <1>3, <1>4 DEF LiveInv, Paired

LEMMA LiveInvKept == LiveRates /\ LiveInv /\ LiveNext => LiveInv'
<1> SUFFICES ASSUME LiveRates, LiveInv, LiveNext PROVE LiveInv'
  OBVIOUS
<1>1. PICK c \in Cameras : \E ts \in (lastIn[c] + 1)..MaxTs : LiveSubmit(c, ts)
  BY DEF LiveNext
<1>2. PICK ts \in (lastIn[c] + 1)..MaxTs : LiveSubmit(c, ts)
  BY <1>1
<1>3. PICK o \in Cameras : o # c /\ Cameras = {c, o}
  BY TwoCamerasOnly
<1>4. SyncFacts'
  <2>1. Next
    BY <1>2 DEF LiveSubmit, Next
  <2> QED
    BY <2>1, SyncFactsKept DEF LiveInv
<1>5. PICK p : p = Pushed(buffers[c], ts, BufferSize)
  OBVIOUS
<1>6. PICK r : r = buffers[o]
  OBVIOUS
<1>7. PICK q : q = buffers[c]
  OBVIOUS
<1>8. /\ lastIn[c] \in Int /\ lastIn[o] \in Int /\ latest \in Int
      /\ lastIn[o] <= latest /\ latest <= ts
      /\ ts <= lastIn[c] + MaxPeriod /\ ts <= lastIn[o] + MaxPeriod
      /\ p # <<>> /\ Newest(p) = ts
      /\ r # <<>> => Newest(r) = lastIn[o]
  BY <1>2, <1>3, <1>5, <1>6, <1>7, HeadsYoung
<1>9. /\ latest' = ts /\ lastIn' = [lastIn EXCEPT ![c] = ts]
      /\ NeverSolo'
      /\ \/ buffers' = [k \in Cameras |-> <<>>]
         \/ /\ buffers' = [k \in Cameras |-> IF k = c THEN p ELSE r]
            /\ r # <<>> => ts - lastIn[o] > MaxSkew
  <2>1. o # c /\ Cameras = {c, o} /\ LiveSubmit(c, ts)
    BY <1>2, <1>3
  <2>2. PairedOrHeld(c, o, ts, p, r)
    BY <2>1, <1>5, <1>6, PairsOrHolds
  <2> QED
    BY <2>2 DEF PairedOrHeld
<1>10. lastIn'[c] = ts /\ lastIn'[o] = lastIn[o]
  <2>1. lastIn \in [Cameras -> 0..MaxTs]
    BY DEF LiveInv, SyncFacts, RigFacts, RigTypes, Members, Cameras
  <2> QED
    BY <1>3, <1>9, <2>1
<1>11. \A k \in Cameras : lastIn'[k] <= latest' /\ latest' <= lastIn'[k] + MaxPeriod
  <2>1. /\ ts <= ts /\ ts <= ts + MaxPeriod /\ lastIn[o] <= ts
    BY <1>8, LiveNumbers
  <2> QED
    BY <1>3, <1>8, <1>9, <1>10, <2>1
<1>12. CASE buffers' = [k \in Cameras |-> <<>>]
  <2>1. \A k \in Cameras : buffers'[k] = <<>>
    BY <1>12
  <2> QED
    BY <1>4, <1>9, <1>11, <2>1 DEF LiveInv, Paired
<1>13. CASE /\ buffers' = [k \in Cameras |-> IF k = c THEN p ELSE r]
            /\ r # <<>> => ts - lastIn[o] > MaxSkew
  <2>1. buffers'[c] = p /\ buffers'[o] = r
    BY <1>3, <1>13
  <2>2. \A k \in Cameras : buffers'[k] # <<>> => Newest(buffers'[k]) = lastIn'[k]
    BY <1>3, <1>8, <1>10, <2>1
  <2>3. Paired(c, o)' /\ Paired(o, c)'
    BY <1>2, <1>3, <1>5, <1>6, <1>10, <1>13, <2>1, PairedAgain
  <2>4. \A x, y \in Cameras : x # y => Paired(x, y)'
    BY <1>3, <2>3
  <2>5. \A k \in Cameras : (buffers[k] # <<>> => Newest(buffers[k]) = lastIn[k])'
    BY <2>2 DEF Newest
  <2> QED
    BY <1>4, <1>9, <1>11, <2>4, <2>5 DEF LiveInv
<1> QED
  BY <1>9, <1>12, <1>13

LEMMA LiveInvUnchanged == LiveInv /\ UNCHANGED vars => LiveInv'
<1> SUFFICES ASSUME LiveInv, UNCHANGED vars PROVE LiveInv'
  OBVIOUS
<1>1. SyncFacts'
  BY FactsUnchanged DEF LiveInv, SyncFacts
<1> QED
  BY <1>1 DEF LiveInv, vars, NeverSolo, Paired, Behind, Newest

\* NeverSolo, what comment and test promise, is true of two cameras within these rates:
\* no solo pair, and no camera taken for lost.  In the units of the code the constants of
\* config/backbone.yaml (33, 100, 1000) are within them up to a period of 66.
THEOREM NeverSoloTheorem == ASSUME LiveRates PROVE LiveSpec => []NeverSolo
<1>1. LiveInv /\ [LiveNext]_vars => LiveInv'
  BY LiveInvKept, LiveInvUnchanged
<1>2. LiveInv => NeverSolo
  BY DEF LiveInv
<1>3. Init => LiveInv
  BY LiveInvInit
<1> QED
  BY <1>1, <1>2, <1>3, PTL DEF LiveSpec

\* The same on the rig "live".
THEOREM LivePairTheorem == ASSUME LiveRates PROVE RigSpec => []LiveNeverSolo
<1> DEFINE LiveRig == rig = "live" => LiveInv
<1>1. RigInit => LiveRig
  BY LiveInvInit DEF RigInit, SyncInit
<1>2. LiveRig /\ [RigNext]_<<vars, rig, period, shotsVars>> => LiveRig'
  <2> SUFFICES ASSUME LiveRig, [RigNext]_<<vars, rig, period, shotsVars>>, rig' = "live"
               PROVE  LiveInv'
    OBVIOUS
  <2>1. CASE UNCHANGED <<vars, rig>>
    BY <2>1, LiveInvUnchanged
  <2>2. CASE rig = "live" /\ LiveNext
    BY <2>2, LiveInvKept
  <2> QED
    BY <2>1, <2>2 DEF RigNext, SyncNext
<1>3. LiveRig => LiveNeverSolo
  BY DEF LiveInv, LiveNeverSolo
<1> HIDE DEF LiveRig
<1> QED
  BY <1>1, <1>2, <1>3, PTL DEF RigSpec

-----------------------------------------------------------------------------
(* Two degraded cameras that deliver again.                                  *)

First == CameraIds[1]
Second == CameraIds[2]

ByFirst == latest = lastIn[First]
BySecond == latest = lastIn[Second]

\* The probe comes no later than this, or with the first frame after it.
ProbeBy == Start + ProbeFactor * DegradedMs - DegradedMs

\* The second camera's frames come g after the first one's, and one or the other is next.
InStep(g) ==
  /\ g <= SkewMs \/ period - g <= SkewMs
  /\ \/ BySecond /\ lastIn[Second] = lastIn[First] + g
     \/ ByFirst /\ lastIn[First] = lastIn[Second] + period - g

Just(q, ts) == q # <<>> /\ Head(q) = ts /\ Newest(q) = ts

\* Both degraded: every frame is emitted at once, until a probe.
Waits ==
  /\ degraded[First] /\ degraded[Second]
  /\ buffers[First] = <<>> /\ buffers[Second] = <<>>
  /\ lastProbe = 0 /\ latest <= ProbeBy

\* The probe has un-degraded the first camera, which has no frame yet ...
Tried ==
  /\ ~degraded[First] /\ degraded[Second]
  /\ buffers[First] = <<>> /\ buffers[Second] = <<>>
  /\ BySecond /\ latest <= ProbeBy + period

\* ... or holds its last n + 1, of which the oldest is not overdue; the second camera's
\* frames were emitted if they were outside the tolerance.
Tries(g, n) ==
  /\ ~degraded[First] /\ degraded[Second]
  /\ buffers[First] # <<>> /\ buffers[Second] = <<>>
  /\ Len(buffers[First]) = n + 1 /\ Newest(buffers[First]) = lastIn[First]
  /\ Head(buffers[First]) + n * period = lastIn[First]
  /\ Head(buffers[First]) <= ProbeBy + 2 * period
  /\ n * period < DegradedMs
  /\ BySecond => g > SkewMs /\ n * period + g < DegradedMs

\* The oldest was overdue when the second camera's frame came, which is still held.
HandsOver(g) ==
  /\ degraded[First] /\ degraded[Second]
  /\ buffers[First] = <<>> /\ Just(buffers[Second], lastIn[Second])
  /\ BySecond /\ period - g <= SkewMs
  /\ lastIn[First] <= ProbeBy + 2 * period + DegradedMs

\* Aligned: the frame of one camera waits for that of the other one, d later.
Leads(x, y, d) ==
  /\ d <= SkewMs /\ buffers[y] = <<>>
  /\ \/ latest = lastIn[y] /\ buffers[x] = <<>>
     \/ latest = lastIn[x] /\ Just(buffers[x], lastIn[x])

IsBack(g) ==
  /\ ~degraded[First] /\ ~degraded[Second]
  /\ DOMAIN pair.frames = Cameras
  /\ Leads(First, Second, g) \/ Leads(Second, First, period - g)

Phases(g) ==
  \/ Waits \/ Tried \/ HandsOver(g) \/ IsBack(g)
  \/ \E n \in 0..(BufferSize - 1) : Tries(g, n)

RecoveringInv ==
  /\ period \in Periods /\ RigFacts(CameraIds, BufferSize, LastMs)
  /\ \E g \in 1..(period - 1) : InStep(g) /\ Phases(g)

LEMMA TheTwo == Cameras = {First, Second} /\ First # Second /\ Members(CameraIds) = Cameras
<1>1. CameraIds \in Seq(Cameras) /\ \A i, j \in DOMAIN CameraIds : CameraIds[i] = CameraIds[j] => i = j
  BY CameraAssumption
<1>2. DOMAIN CameraIds = 1..2
  BY <1>1, RecoveringNumbers
<1>3. DOMAIN CameraIds = {1, 2} /\ 1 # 2
  BY <1>2
<1> QED
  BY <1>1, <1>3 DEF Cameras, First, Second, Members

\* The products of the constants, as the provers see them.
LEMMA ProbeNumbers == ProbeBy \in Nat /\ ProbeFactor * DegradedMs \in Nat /\ DegradedMs <= ProbeFactor * DegradedMs
<1>1. PICK f \in Nat, d \in Nat : f = ProbeFactor /\ d = DegradedMs /\ f > 0
  BY RecoveringNumbers
<1>2. f * d \in Nat /\ d <= f * d
  BY <1>1
<1> QED
  BY <1>1, <1>2, RecoveringNumbers DEF ProbeBy

\* What is due when, at a multiple of the period.
LEMMA Multiples ==
  ASSUME NEW n \in Nat, NEW m \in Nat, NEW p \in Nat, NEW g \in Nat, NEW limit \in Nat,
         m * p < limit, limit <= m * p + g, n * p + g < limit
  PROVE  n + 1 <= m /\ (n + 1) * p < limit
<1>1. ~(m <= n)
  <2> SUFFICES ASSUME m <= n PROVE FALSE
    OBVIOUS
  <2>1. PICK k \in Nat : n = m + k
    <3>1. n - m \in Nat /\ n = m + (n - m)
      OBVIOUS
    <3> QED
      BY <3>1
  <2>2. n * p = m * p + k * p /\ k * p \in Nat /\ m * p \in Nat
    BY <2>1
  <2> QED
    BY <2>2
<1>2. PICK k \in Nat : m = n + 1 + k
  <2>1. m - (n + 1) \in Nat /\ m = n + 1 + (m - (n + 1))
    BY <1>1
  <2> QED
    BY <2>1
<1>3. m * p = (n + 1) * p + k * p /\ k * p \in Nat /\ (n + 1) * p \in Nat
  BY <1>2
<1> QED
  BY <1>2, <1>3

\* A deque with room keeps its head.
LEMMA PushedRoom ==
  ASSUME NEW b \in Nat \ {0}, NEW m \in Nat, NEW q, NEW out \in 0..m, NEW in \in 0..m,
         Span(q, out, in, b, m), NEW ts \in (in + 1)..m, Len(q) < b
  PROVE  /\ Len(Pushed(q, ts, b)) = Len(q) + 1
         /\ q # <<>> => Head(Pushed(q, ts, b)) = Head(q)
<1>1. ts \in 0..m /\ q \in Seq(0..m) /\ Len(q) \in Nat /\ Len(q) # b
  BY LenProperties DEF Span
<1>2. Pushed(q, ts, b) = Append(q, ts)
  BY <1>1 DEF Pushed
<1>3. Len(Append(q, ts)) = Len(q) + 1
  BY <1>1, AppendProperties
<1>4. q # <<>> => Head(Append(q, ts)) = Head(q)
  BY <1>1, HeadTailAppend
<1> QED
  BY <1>2, <1>3, <1>4

\* The buffers after c's frame: nobody's frames are old enough to be evicted.
LEMMA RecoveringHeld ==
  ASSUME RigFacts(CameraIds, BufferSize, LastMs), NEW c \in Cameras,
         NEW ts \in (lastIn[c] + 1)..LastMs, latest <= ts, NEW p, p = Pushed(buffers[c], ts, BufferSize),
         \A k \in Cameras : buffers[k] # <<>> => ts <= Head(buffers[k]) + AgeMs
  PROVE  /\ Recovering!Reference(ts) = ts
         /\ Recovering!Held(c, ts, ts) = [k \in Cameras |-> IF k = c THEN p ELSE buffers[k]]
<1>1. Members(CameraIds) = Cameras /\ Recovering!Cameras = Cameras
  BY DEF Members, Cameras, Recovering!Cameras
<1>2. /\ latest \in 0..LastMs /\ lastIn[c] \in 0..LastMs /\ lastOut[c] \in 0..LastMs
      /\ lastOut[c] <= lastIn[c] /\ Span(buffers[c], lastOut[c], lastIn[c], BufferSize, LastMs)
  BY <1>1 DEF RigFacts, RigTypes, Spans
<1>3. Recovering!Reference(ts) = ts /\ ts \in 0..LastMs
  BY <1>2 DEF Recovering!Reference
<1>4. ts - AgeMs \in Int /\ \A h \in 0..LastMs : ts <= h + AgeMs => ts - AgeMs <= h
  BY <1>3, RecoveringNumbers
<1>5. ASSUME NEW k \in Cameras PROVE Purged(buffers[k], ts - AgeMs) = buffers[k]
  <2>1. PICK out \in 0..LastMs : out = lastOut[k]
    BY <1>1 DEF RigFacts, RigTypes
  <2>2. PICK in \in 0..LastMs : in = lastIn[k]
    BY <1>1 DEF RigFacts, RigTypes
  <2>3. Span(buffers[k], out, in, BufferSize, LastMs)
    BY <1>1, <2>1, <2>2 DEF RigFacts, Spans
  <2>4. buffers[k] # <<>> => Head(buffers[k]) \in 0..LastMs
    BY <2>3, RecoveringNumbers, HeadOfSpan
  <2>5. buffers[k] # <<>> => ts - AgeMs <= Head(buffers[k])
    BY <1>4, <2>4
  <2> QED
    BY <1>4, <2>3, <2>5, RecoveringNumbers, PurgeYoung
<1>6. Purged(p, ts - AgeMs) = p
  <2>1. Span(p, lastOut[c], ts, BufferSize, LastMs)
    BY <1>2, RecoveringNumbers, PushSpan
  <2>2. /\ p # <<>> /\ Head(p) \in 0..LastMs
        /\ buffers[c] = <<>> => Head(p) = ts
        /\ buffers[c] # <<>> => Head(buffers[c]) <= Head(p)
    <3>1. PICK q : q = buffers[c]
      OBVIOUS
    <3>2. PICK out \in 0..LastMs : out = lastOut[c]
      BY <1>2
    <3>3. PICK in \in 0..LastMs : in = lastIn[c]
      BY <1>2
    <3>4. Span(q, out, in, BufferSize, LastMs) /\ out <= in /\ ts \in (in + 1)..LastMs
      BY <1>2, <3>1, <3>2, <3>3
    <3>5. p = Pushed(q, ts, BufferSize) /\ BufferSize \in Nat \ {0} /\ LastMs \in Nat
      BY <3>1, RecoveringNumbers
    <3>6. /\ p # <<>> /\ Head(p) \in 0..LastMs
          /\ q = <<>> => Head(p) = ts
          /\ q # <<>> => Head(q) <= Head(p)
      BY <3>4, <3>5, PushedHead, SMTT(30)
    <3> QED
      BY <3>1, <3>6
  <2>3. buffers[c] # <<>> => Head(buffers[c]) \in 0..LastMs
    BY <1>2, RecoveringNumbers, HeadOfSpan
  <2>4. ts - AgeMs <= Head(p)
    BY <1>3, <2>2, <2>3, RecoveringNumbers
  <2> QED
    BY <1>2, <1>3, <1>4, <2>1, <2>4, RecoveringNumbers, PurgeYoung
<1>7. Recovering!Held(c, ts, ts) =
        [k \in Cameras |-> Purged(IF k = c THEN p ELSE buffers[k], ts - AgeMs)]
  <2>1. p = Recovering!Push(buffers[c], ts)
    BY DEF Recovering!Push, Pushed
  <2>2. ASSUME NEW q PROVE Recovering!EvictStale(q, ts) = Purged(q, ts - AgeMs)
    BY DEF Recovering!EvictStale, Purged, Recovering!Cardinality, Cardinality
  <2>3. Recovering!Held(c, ts, ts) =
          [k \in Cameras |-> Recovering!EvictStale(IF k = c THEN p ELSE buffers[k], ts)]
    BY <1>1, <2>1 DEF Recovering!Held
  <2> QED
    BY <2>2, <2>3
<1>8. \A k \in Cameras : Purged(IF k = c THEN p ELSE buffers[k], ts - AgeMs) = IF k = c THEN p ELSE buffers[k]
  BY <1>5, <1>6
<1> QED
  BY <1>3, <1>7, <1>8

\* What a submit may come to, when the first camera holds h and the second one r.
Matches(h, r) ==
  /\ h # <<>> /\ r # <<>>
  /\ Newest(h) - Newest(r) <= SkewMs /\ Newest(r) - Newest(h) <= SkewMs

BothGo ==
  /\ buffers'[First] = <<>> /\ buffers'[Second] = <<>>
  /\ ~degraded'[First] /\ ~degraded'[Second]
  /\ DOMAIN pair'.frames = Cameras

FirstGoes(r) ==
  /\ buffers'[First] = <<>> /\ buffers'[Second] = r
  /\ degraded'[First] /\ (degraded'[Second] <=> degraded[Second])

SecondGoes(h, probed) ==
  /\ buffers'[First] = h /\ buffers'[Second] = <<>>
  /\ degraded'[Second] /\ (degraded'[First] <=> degraded[First] /\ ~probed)

NobodyGoes(h, r, probed) ==
  /\ buffers'[First] = h /\ buffers'[Second] = r
  /\ (degraded'[First] <=> degraded[First] /\ ~probed)
  /\ (degraded'[Second] <=> degraded[Second])
  /\ pair' = pair

FirstDue(h, ts, probed) == h # <<>> /\ ((degraded[First] /\ ~probed) \/ ts - Head(h) >= DegradedMs)
SecondDue(r, ts) == r # <<>> /\ (degraded[Second] \/ ts - Head(r) >= DegradedMs)

Comes(h, r, ts, probed) ==
  /\ Matches(h, r) => BothGo
  /\ ~Matches(h, r) => lastProbe' = IF probed THEN ts ELSE lastProbe
  /\ ~Matches(h, r) /\ FirstDue(h, ts, probed) => FirstGoes(r)
  /\ ~Matches(h, r) /\ ~FirstDue(h, ts, probed) /\ SecondDue(r, ts) => SecondGoes(h, probed)
  /\ ~Matches(h, r) /\ ~FirstDue(h, ts, probed) /\ ~SecondDue(r, ts) => NobodyGoes(h, r, probed)

LEMMA ProbeIsDue ==
  ASSUME NEW ts
  PROVE  Recovering!ProbeDue(ts) <=>
           degraded[First] /\ degraded[Second] /\ ts - lastProbe >= ProbeFactor * DegradedMs
<1>1. Recovering!Cameras = {First, Second} /\ Len(CameraIds) >= 2
  BY TheTwo, RecoveringNumbers DEF Recovering!Cameras, Cameras
<1> QED
  BY <1>1 DEF Recovering!ProbeDue

LEMMA WhatComes ==
  ASSUME NEW held, held = [k \in Cameras |-> held[k]], NEW ts,
         NEW h, h = held[First], NEW r, r = held[Second],
         h # <<>> => Newest(h) \in Int, r # <<>> => Newest(r) \in Int,
         degraded \in [Cameras -> BOOLEAN],
         NEW probed, probed = Recovering!ProbeDue(ts),
         \/ Recovering!EmitAligned(held)
         \/ Recovering!EmitSolo(held, ts)
         \/ Recovering!Hold(held, ts)
  PROVE  Comes(h, r, ts, probed)
<1>1. Recovering!Cameras = Cameras
  BY DEF Cameras, Recovering!Cameras
<1>2. /\ Cameras = {First, Second} /\ First # Second
      /\ CameraIds[1] = First /\ CameraIds[2] = Second
  BY TheTwo DEF First, Second
<1>3. DOMAIN CameraIds = 1..2 /\ Len(CameraIds) = 2
  BY CameraAssumption, RecoveringNumbers
<1>4. SkewMs \in Nat
  BY RecoveringNumbers
<1>5. Recovering!CanAlign(held) <=> Matches(h, r)
  <2>1. Recovering!CanAlign(held) <=>
          /\ held[First] # <<>> /\ held[Second] # <<>>
          /\ \A j, k \in Cameras : Newest(held[j]) - Newest(held[k]) <= SkewMs
    BY <1>1, <1>2, <1>3 DEF Recovering!CanAlign, Recovering!Newest, Newest
  <2>2. h # <<>> /\ r # <<>> =>
          Newest(h) - Newest(h) <= SkewMs /\ Newest(r) - Newest(r) <= SkewMs
    BY <1>4
  <2> QED
    BY <1>2, <2>1, <2>2 DEF Matches
<1>6. \A k \in Cameras : Recovering!Probed(ts)[k] <=> degraded[k] /\ ~(probed /\ k = First)
  BY <1>1, <1>2 DEF Recovering!Probed
<1>7. /\ Recovering!Due(First, held, ts) <=> FirstDue(h, ts, probed)
      /\ Recovering!Due(Second, held, ts) <=> SecondDue(r, ts)
  BY <1>2, <1>6 DEF Recovering!Due, FirstDue, SecondDue
<1>8. Recovering!Probed(ts) \in [Cameras -> BOOLEAN]
  BY <1>1 DEF Recovering!Probed
<1>9. CASE Recovering!EmitAligned(held)
  <2>1. /\ pair' = [idx |-> pair.idx + 1, frames |-> [k \in Cameras |-> Newest(held[k])]]
        /\ buffers' = [k \in Cameras |-> <<>>] /\ degraded' = [k \in Cameras |-> FALSE]
    BY <1>1, <1>9 DEF Recovering!EmitAligned, Recovering!Return, Recovering!Newest, Newest
  <2>2. BothGo
    BY <1>2, <2>1 DEF BothGo
  <2>3. Matches(h, r)
    BY <1>5, <1>9 DEF Recovering!EmitAligned
  <2> QED
    BY <2>2, <2>3 DEF Comes
<1>10. CASE Recovering!EmitSolo(held, ts)
  <2>1. ~Matches(h, r) /\ lastProbe' = IF probed THEN ts ELSE lastProbe
    BY <1>5, <1>10 DEF Recovering!EmitSolo, Recovering!Probe
  <2>2. PICK i \in 1..2 :
          /\ Recovering!Due(CameraIds[i], held, ts)
          /\ \A j \in 1..(i - 1) : ~Recovering!Due(CameraIds[j], held, ts)
          /\ buffers' = [held EXCEPT ![CameraIds[i]] = <<>>]
          /\ degraded' = [Recovering!Probed(ts) EXCEPT ![CameraIds[i]] = TRUE]
    BY <1>3, <1>10 DEF Recovering!EmitSolo
  <2>3. CASE i = 1
    <3>1. FirstDue(h, ts, probed)
      BY <1>2, <1>7, <2>2, <2>3
    <3>2. /\ buffers' = [held EXCEPT ![First] = <<>>]
          /\ degraded' = [Recovering!Probed(ts) EXCEPT ![First] = TRUE]
      BY <1>2, <2>2, <2>3
    <3>3. buffers'[First] = <<>> /\ buffers'[Second] = r
      BY <1>2, <3>2
    <3>4. degraded'[First] = TRUE /\ degraded'[Second] = Recovering!Probed(ts)[Second]
      BY <1>2, <1>8, <3>2
    <3>5. FirstGoes(r)
      BY <1>2, <1>6, <3>3, <3>4 DEF FirstGoes
    <3> QED
      BY <2>1, <3>1, <3>5 DEF Comes
  <2>4. CASE i = 2
    <3>1. SecondDue(r, ts) /\ ~FirstDue(h, ts, probed)
      <4>1. 1 \in 1..(i - 1)
        BY <2>4
      <4> QED
        BY <1>2, <1>7, <2>2, <2>4, <4>1
    <3>2. /\ buffers' = [held EXCEPT ![Second] = <<>>]
          /\ degraded' = [Recovering!Probed(ts) EXCEPT ![Second] = TRUE]
      BY <1>2, <2>2, <2>4
    <3>3. buffers'[First] = h /\ buffers'[Second] = <<>>
      BY <1>2, <3>2
    <3>4. degraded'[Second] = TRUE /\ degraded'[First] = Recovering!Probed(ts)[First]
      BY <1>2, <1>8, <3>2
    <3>5. SecondGoes(h, probed)
      BY <1>2, <1>6, <3>3, <3>4 DEF SecondGoes
    <3> QED
      BY <2>1, <3>1, <3>5 DEF Comes
  <2> QED
    BY <2>3, <2>4
<1>11. CASE Recovering!Hold(held, ts)
  <2>1. ~Matches(h, r) /\ lastProbe' = IF probed THEN ts ELSE lastProbe
    BY <1>5, <1>11 DEF Recovering!Hold, Recovering!Probe
  <2>2. ~FirstDue(h, ts, probed) /\ ~SecondDue(r, ts)
    BY <1>1, <1>2, <1>7, <1>11 DEF Recovering!Hold
  <2>3. buffers' = held /\ degraded' = Recovering!Probed(ts) /\ pair' = pair
    BY <1>11 DEF Recovering!Hold
  <2>4. NobodyGoes(h, r, probed)
    BY <1>2, <1>6, <2>3 DEF NobodyGoes
  <2> QED
    BY <2>1, <2>2, <2>4 DEF Comes
<1> QED
  BY <1>9, <1>10, <1>11

\* The frame ts of c, whose turn it is, d after the last one of o: then c holds p.
Turn(c, o, d, p, ts) ==
  /\ latest = lastIn[o] /\ ts = lastIn[c] + period /\ ts = lastIn[o] + d
  /\ latest' = ts /\ lastIn'[c] = ts /\ lastIn'[o] = lastIn[o] /\ period' = period
  /\ p # <<>> /\ Newest(p) = ts
  /\ buffers[c] = <<>> => Len(p) = 1 /\ Head(p) = ts
  /\ buffers[c] # <<>> /\ Len(buffers[c]) < BufferSize =>
       Len(p) = Len(buffers[c]) + 1 /\ Head(p) = Head(buffers[c])

FirstTurn(g, p, ts) ==
  /\ Turn(First, Second, period - g, p, ts)
  /\ Comes(p, buffers[Second], ts, Recovering!ProbeDue(ts))

SecondTurn(g, p, ts) ==
  /\ Turn(Second, First, g, p, ts)
  /\ Comes(buffers[First], p, ts, Recovering!ProbeDue(ts))

\* What the phases hold is never old enough to be evicted.
LEMMA PhasesYoung ==
  ASSUME RigFacts(CameraIds, BufferSize, LastMs), period \in Periods, NEW g \in 1..(period - 1), Phases(g),
         NEW ts \in Nat, \A k \in Cameras : ts <= lastIn[k] + period, NEW k \in Cameras, buffers[k] # <<>>
  PROVE  ts <= Head(buffers[k]) + AgeMs
<1>1. Cameras = {First, Second} /\ Members(CameraIds) = Cameras
  BY TheTwo
<1>2. ts <= lastIn[First] + period /\ ts <= lastIn[Second] + period
  BY <1>1
<1>3. lastIn[First] \in Nat /\ lastIn[Second] \in Nat
  BY <1>1 DEF RigFacts, RigTypes
<1>4. period \in Nat /\ DegradedMs \in Nat /\ AgeMs \in Nat /\ DegradedMs + period <= AgeMs
  BY RecoveringNumbers, RecoveryConstants DEF Recovering!PhaseAssumption
<1>5. /\ lastOut[k] \in 0..LastMs /\ lastIn[k] \in 0..LastMs
      /\ Span(buffers[k], lastOut[k], lastIn[k], BufferSize, LastMs)
  BY <1>1 DEF RigFacts, RigTypes, Spans
<1>6. Head(buffers[k]) \in Nat
  <2>1. Head(buffers[k]) \in 0..LastMs
    BY <1>5, RecoveringNumbers, HeadOfSpan
  <2> QED
    BY <2>1
<1>7. ~Waits /\ ~Tried
  BY <1>1 DEF Waits, Tried
<1>8. CASE HandsOver(g) \/ IsBack(g)
  <2>1. Head(buffers[k]) = lastIn[k]
    BY <1>1, <1>8 DEF HandsOver, IsBack, Leads, Just
  <2>2. lastIn[k] \in Nat /\ ts <= lastIn[k] + period
    BY <1>5
  <2> QED
    BY <1>4, <2>1, <2>2
<1>9. ASSUME NEW n \in 0..(BufferSize - 1), Tries(g, n)
      PROVE  ts <= Head(buffers[k]) + AgeMs
  <2>1. k = First
    BY <1>1, <1>9 DEF Tries
  <2>2. Head(buffers[k]) + n * period = lastIn[First] /\ n * period < DegradedMs
    BY <1>9, <2>1 DEF Tries
  <2>3. n * period \in Int
    BY <1>4
  <2> QED
    BY <1>2, <1>3, <1>4, <1>6, <2>2, <2>3
<1> QED
  BY <1>7, <1>8, <1>9 DEF Phases

\* The frame of c that is pushed and held.
LEMMA PushedTurn ==
  ASSUME RigFacts(CameraIds, BufferSize, LastMs), NEW c \in Cameras, NEW ts \in (lastIn[c] + 1)..LastMs,
         NEW p, p = Pushed(buffers[c], ts, BufferSize)
  PROVE  /\ p # <<>> /\ Newest(p) = ts
         /\ buffers[c] = <<>> => Len(p) = 1 /\ Head(p) = ts
         /\ buffers[c] # <<>> /\ Len(buffers[c]) < BufferSize =>
              Len(p) = Len(buffers[c]) + 1 /\ Head(p) = Head(buffers[c])
<1>1. Members(CameraIds) = Cameras
  BY TheTwo
<1>2. PICK out \in 0..LastMs : out = lastOut[c]
  BY <1>1 DEF RigFacts, RigTypes
<1>3. PICK in \in 0..LastMs : in = lastIn[c]
  BY <1>1 DEF RigFacts, RigTypes
<1> PICK q : q = buffers[c]
  OBVIOUS
<1>4. Span(q, out, in, BufferSize, LastMs) /\ out <= in /\ ts \in (in + 1)..LastMs
  BY <1>1, <1>2, <1>3 DEF RigFacts, Spans
<1>5. p # <<>> /\ Newest(p) = ts /\ (q = <<>> => Head(p) = ts)
  <2>1. p = Pushed(q, ts, BufferSize)
    OBVIOUS
  <2>2. BufferSize \in Nat \ {0} /\ LastMs \in Nat
    BY RecoveringNumbers
  <2> QED
    BY <1>4, <2>1, <2>2, PushedHead, SMTT(30)
<1>6. Len(q) < BufferSize => Len(p) = Len(q) + 1 /\ (q # <<>> => Head(p) = Head(q))
  <2> SUFFICES ASSUME Len(q) < BufferSize PROVE Len(p) = Len(q) + 1 /\ (q # <<>> => Head(p) = Head(q))
    OBVIOUS
  <2>1. /\ Len(Pushed(q, ts, BufferSize)) = Len(q) + 1
        /\ q # <<>> => Head(Pushed(q, ts, BufferSize)) = Head(q)
    BY <1>4, RecoveringNumbers, PushedRoom
  <2> QED
    BY <2>1
<1>7. CASE q = <<>>
  <2>1. Len(q) = 0 /\ Len(q) < BufferSize
    BY <1>7, RecoveringNumbers
  <2>2. Len(p) = 1
    BY <1>6, <2>1
  <2> QED
    BY <1>5, <1>7, <2>2
<1>8. CASE q # <<>>
  BY <1>5, <1>6, <1>8
<1> QED
  BY <1>7, <1>8

LEMMA RecoveringTick ==
  ASSUME RigFacts(CameraIds, BufferSize, LastMs), period \in Periods, NEW g \in 1..(period - 1), Phases(g),
         NEW c \in Cameras, Recovering!Tick(c), NEW ts, ts = lastIn[c] + period, latest <= ts,
         NEW p, p = Pushed(buffers[c], ts, BufferSize)
  PROVE  /\ ts \in (lastIn[c] + 1)..LastMs
         /\ latest' = ts /\ lastIn' = [lastIn EXCEPT ![c] = ts] /\ period' = period
         /\ Comes(IF c = First THEN p ELSE buffers[First], IF c = Second THEN p ELSE buffers[Second],
                  ts, Recovering!ProbeDue(ts))
<1>1. Cameras = {First, Second} /\ First # Second /\ Members(CameraIds) = Cameras
      /\ Recovering!Cameras = Cameras
  BY TheTwo DEF Recovering!Cameras, Cameras
<1>2. /\ ts <= LastMs /\ Recovering!Submit(c, ts) /\ period' = period
      /\ \A k \in Cameras : ts <= lastIn[k] + period
  BY <1>1 DEF Recovering!Tick
<1>3. period \in Nat /\ period > 0 /\ LastMs \in Nat
  BY RecoveringNumbers
<1>4. lastIn[c] \in 0..LastMs /\ degraded \in [Cameras -> BOOLEAN]
  BY <1>1 DEF RigFacts, RigTypes
<1>5. ts \in (lastIn[c] + 1)..LastMs /\ ts \in Nat
  BY <1>2, <1>3, <1>4
<1>6. \A k \in Cameras : buffers[k] # <<>> => ts <= Head(buffers[k]) + AgeMs
  BY <1>2, <1>5, PhasesYoung
<1>7. /\ Recovering!Reference(ts) = ts
      /\ Recovering!Held(c, ts, ts) = [k \in Cameras |-> IF k = c THEN p ELSE buffers[k]]
  BY <1>5, <1>6, RecoveringHeld
<1>8. PICK held : held = Recovering!Held(c, ts, ts)
  OBVIOUS
<1>9. /\ latest' = ts /\ lastIn' = [lastIn EXCEPT ![c] = ts]
      /\ Recovering!EmitAligned(held) \/ Recovering!EmitSolo(held, ts) \/ Recovering!Hold(held, ts)
  BY <1>2, <1>7, <1>8 DEF Recovering!Submit
<1>10. PICK h : h = IF c = First THEN p ELSE buffers[First]
  OBVIOUS
<1>11. PICK r : r = IF c = Second THEN p ELSE buffers[Second]
  OBVIOUS
<1>12. held[First] = h /\ held[Second] = r /\ held = [k \in Cameras |-> held[k]]
  BY <1>1, <1>7, <1>8, <1>10, <1>11
<1>13. p # <<>> /\ Newest(p) \in Int
  BY <1>5, PushedTurn
<1>14. ASSUME NEW k \in Cameras, buffers[k] # <<>> PROVE Newest(buffers[k]) \in Int
  <2>1. /\ lastOut[k] \in 0..LastMs /\ lastIn[k] \in 0..LastMs
        /\ Span(buffers[k], lastOut[k], lastIn[k], BufferSize, LastMs)
    BY <1>1 DEF RigFacts, RigTypes, Spans
  <2>2. Newest(buffers[k]) \in 0..LastMs
    BY <1>14, <2>1, RecoveringNumbers, HeadOfSpan
  <2> QED
    BY <2>2
<1>15. (h # <<>> => Newest(h) \in Int) /\ (r # <<>> => Newest(r) \in Int)
  BY <1>1, <1>10, <1>11, <1>13, <1>14
<1>16. Comes(h, r, ts, Recovering!ProbeDue(ts))
  BY <1>4, <1>9, <1>12, <1>15, WhatComes
<1> QED
  BY <1>2, <1>5, <1>9, <1>10, <1>11, <1>16

\* The camera that is behind submits, and it stays g ahead of the other one.
LEMMA TakesTurns ==
  ASSUME RigFacts(CameraIds, BufferSize, LastMs), period \in Periods, NEW g \in 1..(period - 1),
         InStep(g), Phases(g), Recovering!RecoveryNext
  PROVE  /\ InStep(g)'
         /\ \E p, ts : FirstTurn(g, p, ts) \/ SecondTurn(g, p, ts)
<1>1. /\ Cameras = {First, Second} /\ First # Second /\ Members(CameraIds) = Cameras
      /\ Recovering!Cameras = Cameras
  BY TheTwo DEF Recovering!Cameras, Cameras
<1>2. PICK c \in Cameras : Recovering!Tick(c)
  BY <1>1 DEF Recovering!RecoveryNext
<1>3. PICK ts : ts = lastIn[c] + period
  OBVIOUS
<1>4. PICK p : p = Pushed(buffers[c], ts, BufferSize)
  OBVIOUS
<1>5. /\ lastIn \in [Cameras -> 0..LastMs] /\ latest \in Nat
      /\ lastIn[First] \in Nat /\ lastIn[Second] \in Nat
  BY <1>1 DEF RigFacts, RigTypes
<1>6. period \in Nat /\ period > 0 /\ g \in Nat /\ g > 0 /\ g < period
  BY RecoveringNumbers
<1>7. ts <= lastIn[First] + period /\ ts <= lastIn[Second] + period
  BY <1>1, <1>2, <1>3 DEF Recovering!Tick
<1>8. \/ c = First /\ BySecond /\ lastIn[Second] = lastIn[First] + g
      \/ c = Second /\ ByFirst /\ lastIn[First] = lastIn[Second] + period - g
  <2>1. \/ BySecond /\ lastIn[Second] = lastIn[First] + g
        \/ ByFirst /\ lastIn[First] = lastIn[Second] + period - g
    BY DEF InStep
  <2>2. c = First \/ c = Second
    BY <1>1
  <2> QED
    BY <1>3, <1>5, <1>6, <1>7, <2>1, <2>2
<1>9. latest <= ts
  BY <1>3, <1>5, <1>6, <1>8 DEF ByFirst, BySecond
<1>10. /\ ts \in (lastIn[c] + 1)..LastMs
       /\ latest' = ts /\ lastIn' = [lastIn EXCEPT ![c] = ts] /\ period' = period
       /\ Comes(IF c = First THEN p ELSE buffers[First], IF c = Second THEN p ELSE buffers[Second],
                ts, Recovering!ProbeDue(ts))
  BY <1>2, <1>3, <1>4, <1>9, RecoveringTick
<1>11. /\ p # <<>> /\ Newest(p) = ts
       /\ buffers[c] = <<>> => Len(p) = 1 /\ Head(p) = ts
       /\ buffers[c] # <<>> /\ Len(buffers[c]) < BufferSize =>
            Len(p) = Len(buffers[c]) + 1 /\ Head(p) = Head(buffers[c])
  BY <1>4, <1>10, PushedTurn
<1>12. CASE c = First /\ BySecond /\ lastIn[Second] = lastIn[First] + g
  <2>1. lastIn'[First] = ts /\ lastIn'[Second] = lastIn[Second]
    BY <1>1, <1>5, <1>10, <1>12
  <2>2. ts = lastIn[First] + period /\ ts = lastIn[Second] + (period - g) /\ latest = lastIn[Second]
    BY <1>3, <1>5, <1>6, <1>12 DEF BySecond
  <2>3. Turn(First, Second, period - g, p, ts)
    BY <1>10, <1>11, <1>12, <2>1, <2>2 DEF Turn
  <2>4. Comes(p, buffers[Second], ts, Recovering!ProbeDue(ts))
    BY <1>1, <1>10, <1>12
  <2>5. InStep(g)'
    <3>1. latest' = lastIn'[First] /\ lastIn'[First] = lastIn'[Second] + period - g
      BY <1>5, <1>6, <1>10, <2>1, <2>2
    <3> QED
      BY <1>10, <3>1 DEF InStep, ByFirst, First, Second
  <2> QED
    BY <2>3, <2>4, <2>5 DEF FirstTurn
<1>13. CASE c = Second /\ ByFirst /\ lastIn[First] = lastIn[Second] + period - g
  <2>1. lastIn'[Second] = ts /\ lastIn'[First] = lastIn[First]
    BY <1>1, <1>5, <1>10, <1>13
  <2>2. ts = lastIn[Second] + period /\ ts = lastIn[First] + g /\ latest = lastIn[First]
    BY <1>3, <1>5, <1>6, <1>13 DEF ByFirst
  <2>3. Turn(Second, First, g, p, ts)
    BY <1>10, <1>11, <1>13, <2>1, <2>2 DEF Turn
  <2>4. Comes(buffers[First], p, ts, Recovering!ProbeDue(ts))
    BY <1>1, <1>10, <1>13
  <2>5. InStep(g)'
    <3>1. latest' = lastIn'[Second] /\ lastIn'[Second] = lastIn'[First] + g
      BY <1>10, <2>1, <2>2
    <3> QED
      BY <1>10, <3>1 DEF InStep, BySecond, First, Second
  <2> QED
    BY <2>3, <2>4, <2>5 DEF SecondTurn
<1> QED
  BY <1>8, <1>12, <1>13

\* The numbers of a step.
LEMMA StepNumbers ==
  ASSUME RigFacts(CameraIds, BufferSize, LastMs), period \in Periods, NEW g \in 1..(period - 1)
  PROVE  /\ lastIn[First] \in Nat /\ lastIn[Second] \in Nat /\ latest \in Nat
         /\ period \in Nat /\ period > 0 /\ g \in Nat /\ g > 0 /\ g < period
         /\ SkewMs \in Nat /\ DegradedMs \in Nat /\ DegradedMs > 0 /\ ProbeBy \in Nat
         /\ Cameras = {First, Second}
<1>1. Cameras = {First, Second} /\ Members(CameraIds) = Cameras
  BY TheTwo
<1>2. /\ lastIn[First] \in Nat /\ lastIn[Second] \in Nat /\ latest \in Nat
  BY <1>1 DEF RigFacts, RigTypes
<1> QED
  BY <1>1, <1>2, RecoveringNumbers, ProbeNumbers

\* A first frame of an un-degraded first camera is held, while the second one has none.
LEMMA FirstTry ==
  ASSUME RigFacts(CameraIds, BufferSize, LastMs), period \in Periods, NEW g \in 1..(period - 1),
         buffers[First] = <<>>, buffers[Second] = <<>>, degraded[Second],
         NEW p, NEW ts, FirstTurn(g, p, ts), ts <= ProbeBy + 2 * period,
         ~degraded[First] \/ Recovering!ProbeDue(ts)
  PROVE  Tries(g, 0)'
<1>1. /\ lastIn[First] \in Nat /\ lastIn[Second] \in Nat
      /\ period \in Nat /\ period > 0 /\ g \in Nat /\ g > 0 /\ g < period
      /\ DegradedMs \in Nat /\ DegradedMs > 0 /\ ProbeBy \in Nat
  BY StepNumbers
<1>2. /\ ts = lastIn[Second] + (period - g)
      /\ latest' = ts /\ lastIn'[First] = ts /\ lastIn'[Second] = lastIn[Second] /\ period' = period
      /\ p # <<>> /\ Newest(p) = ts /\ Len(p) = 1 /\ Head(p) = ts
      /\ Comes(p, buffers[Second], ts, Recovering!ProbeDue(ts))
  BY DEF FirstTurn, Turn
<1>3. ts \in Nat /\ ts # lastIn[Second]
  BY <1>1, <1>2
<1>4. ~Matches(p, buffers[Second])
  BY DEF Matches
<1>5. ~FirstDue(p, ts, Recovering!ProbeDue(ts))
  <2>1. ~(ts - Head(p) >= DegradedMs)
    BY <1>1, <1>2, <1>3
  <2> QED
    BY <2>1 DEF FirstDue
<1>6. ~SecondDue(buffers[Second], ts)
  BY DEF SecondDue
<1>7. NobodyGoes(p, buffers[Second], Recovering!ProbeDue(ts))
  BY <1>2, <1>4, <1>5, <1>6 DEF Comes
<1>8. /\ buffers'[First] = p /\ buffers'[Second] = <<>>
      /\ ~degraded'[First] /\ degraded'[Second]
  BY <1>7 DEF NobodyGoes
<1>9. latest' # lastIn'[Second]
  BY <1>2, <1>3
<1>10. Len(p) = 0 + 1 /\ Head(p) + 0 * period = ts /\ 0 * period < DegradedMs
  BY <1>1, <1>2, <1>3
<1>11. Head(p) <= ProbeBy + 2 * period
  BY <1>2
<1> QED
  BY <1>2, <1>8, <1>9, <1>10, <1>11 DEF Tries, BySecond, Newest, First, Second, ProbeBy

\* A phase that comes first or second, once the camera at hand is known.
LEMMA WaitsStep ==
  ASSUME RigFacts(CameraIds, BufferSize, LastMs), period \in Periods, NEW g \in 1..(period - 1),
         Waits, NEW p, NEW ts, FirstTurn(g, p, ts) \/ SecondTurn(g, p, ts)
  PROVE  Phases(g)'
<1> DEFINE probed == Recovering!ProbeDue(ts)
<1>1. /\ lastIn[First] \in Nat /\ lastIn[Second] \in Nat /\ latest \in Nat
      /\ period \in Nat /\ period > 0 /\ g \in Nat /\ g > 0 /\ g < period
      /\ DegradedMs \in Nat /\ DegradedMs > 0 /\ ProbeBy \in Nat
  BY StepNumbers
<1>2. /\ degraded[First] /\ degraded[Second]
      /\ buffers[First] = <<>> /\ buffers[Second] = <<>>
      /\ lastProbe = 0 /\ latest <= ProbeBy
  BY DEF Waits
<1>3. ts \in Nat /\ ts <= ProbeBy + period /\ latest' = ts
  <2>1. latest' = ts /\ (ts = latest + (period - g) \/ ts = latest + g)
    BY DEF FirstTurn, SecondTurn, Turn
  <2> QED
    BY <1>1, <1>2, <2>1
<1>4. ~probed => ts <= ProbeBy
  <2>1. probed <=> ts - 0 >= ProbeFactor * DegradedMs
    BY <1>2, ProbeIsDue
  <2>2. /\ ProbeFactor * DegradedMs \in Nat /\ Start \in Nat /\ DegradedMs <= Start
        /\ ProbeBy = Start + ProbeFactor * DegradedMs - DegradedMs
    BY ProbeNumbers, RecoveringNumbers DEF ProbeBy
  <2> QED
    BY <1>1, <1>3, <2>1, <2>2
<1>5. \A q : ~Matches(q, <<>>) /\ ~Matches(<<>>, q)
  BY DEF Matches
<1> HIDE DEF probed
<1>6. CASE FirstTurn(g, p, ts)
  <2>1. CASE probed
    <3>1. ts <= ProbeBy + 2 * period
      BY <1>1, <1>3
    <3>2. Tries(g, 0)'
      BY <1>2, <1>6, <2>1, <3>1, FirstTry DEF probed
    <3>3. 0 \in 0..(BufferSize - 1)
      BY RecoveringNumbers
    <3> QED
      BY <3>2, <3>3 DEF Phases
  <2>2. CASE ~probed
    <3>1. /\ Comes(p, <<>>, ts, probed) /\ p # <<>>
      BY <1>2, <1>6 DEF FirstTurn, Turn, probed
    <3>2. FirstGoes(<<>>) /\ lastProbe' = lastProbe
      BY <1>2, <1>5, <2>2, <3>1 DEF Comes, FirstDue
    <3>3. Waits'
      BY <1>2, <1>3, <1>4, <2>2, <3>2 DEF FirstGoes, Waits, First, Second, ProbeBy
    <3> QED
      BY <3>3 DEF Phases
  <2> QED
    BY <2>1, <2>2
<1>7. CASE SecondTurn(g, p, ts)
  <2>1. Comes(<<>>, p, ts, probed) /\ p # <<>> /\ lastIn'[Second] = ts /\ period' = period
    BY <1>2, <1>7 DEF SecondTurn, Turn, probed
  <2>2. SecondGoes(<<>>, probed) /\ lastProbe' = IF probed THEN ts ELSE lastProbe
    BY <1>2, <1>5, <2>1 DEF Comes, FirstDue, SecondDue
  <2>3. CASE probed
    <3>1. ts <= ProbeBy + period
      BY <1>3
    <3>2. Tried'
      BY <1>2, <1>3, <2>1, <2>2, <2>3, <3>1 DEF SecondGoes, Tried, BySecond, First, Second, ProbeBy
    <3> QED
      BY <3>2 DEF Phases
  <2>4. CASE ~probed
    <3>1. Waits'
      BY <1>2, <1>3, <1>4, <2>2, <2>4 DEF SecondGoes, Waits, First, Second, ProbeBy
    <3> QED
      BY <3>1 DEF Phases
  <2> QED
    BY <2>3, <2>4
<1> QED
  BY <1>6, <1>7

LEMMA TriedStep ==
  ASSUME RigFacts(CameraIds, BufferSize, LastMs), period \in Periods, NEW g \in 1..(period - 1),
         Tried, NEW p, NEW ts, FirstTurn(g, p, ts) \/ SecondTurn(g, p, ts), ByFirst => ~BySecond
  PROVE  Phases(g)'
<1>1. /\ lastIn[First] \in Nat /\ lastIn[Second] \in Nat /\ latest \in Nat
      /\ period \in Nat /\ period > 0 /\ g \in Nat /\ g > 0 /\ g < period /\ ProbeBy \in Nat
  BY StepNumbers
<1>2. /\ ~degraded[First] /\ degraded[Second]
      /\ buffers[First] = <<>> /\ buffers[Second] = <<>>
      /\ BySecond /\ latest <= ProbeBy + period
  BY DEF Tried
<1>3. FirstTurn(g, p, ts)
  BY <1>2 DEF SecondTurn, Turn, ByFirst
<1>4. ts <= ProbeBy + 2 * period
  <2>1. ts = latest + (period - g)
    BY <1>3 DEF FirstTurn, Turn
  <2> QED
    BY <1>1, <1>2, <2>1
<1>5. Tries(g, 0)'
  BY <1>2, <1>3, <1>4, FirstTry
<1>6. 0 \in 0..(BufferSize - 1)
  BY RecoveringNumbers
<1> QED
  BY <1>5, <1>6 DEF Phases

\* The first camera holds one frame more: its oldest is not overdue yet.
LEMMA TriesFirst ==
  ASSUME RigFacts(CameraIds, BufferSize, LastMs), period \in Periods, NEW g \in 1..(period - 1), InStep(g),
         NEW n \in 0..(BufferSize - 1), Tries(g, n), NEW p, NEW ts, FirstTurn(g, p, ts)
  PROVE  Phases(g)'
<1>1. /\ lastIn[First] \in Nat /\ lastIn[Second] \in Nat
      /\ period \in Nat /\ period > 0 /\ g \in Nat /\ g > 0 /\ g < period
      /\ DegradedMs \in Nat /\ DegradedMs > 0 /\ ProbeBy \in Nat
  BY StepNumbers
<1>2. /\ latest = lastIn[Second] /\ ts = lastIn[First] + period /\ ts = lastIn[Second] + (period - g)
      /\ latest' = ts /\ lastIn'[First] = ts /\ lastIn'[Second] = lastIn[Second] /\ period' = period
      /\ p # <<>> /\ Newest(p) = ts
      /\ buffers[First] # <<>> /\ Len(buffers[First]) < BufferSize =>
           Len(p) = Len(buffers[First]) + 1 /\ Head(p) = Head(buffers[First])
      /\ Comes(p, buffers[Second], ts, Recovering!ProbeDue(ts))
  BY DEF FirstTurn, Turn
<1>3. /\ ~degraded[First] /\ degraded[Second]
      /\ buffers[First] # <<>> /\ buffers[Second] = <<>>
      /\ Len(buffers[First]) = n + 1
      /\ Head(buffers[First]) + n * period = lastIn[First]
      /\ Head(buffers[First]) <= ProbeBy + 2 * period
      /\ g > SkewMs /\ n * period + g < DegradedMs
  BY <1>2 DEF Tries, BySecond
<1>4. PICK m \in 0..(BufferSize - 1) : m * period < DegradedMs /\ DegradedMs <= m * period + g
  <2>1. period - g <= SkewMs
    BY <1>1, <1>3, RecoveringNumbers DEF InStep
  <2>2. Recovering!Reforms(period)
    BY RecoveryConstants DEF Recovering!PhaseAssumption
  <2> QED
    BY <1>3, <2>1, <2>2 DEF Recovering!Reforms
<1>5. n \in Nat /\ m \in Nat /\ BufferSize \in Nat
  BY RecoveringNumbers
<1>6. n + 1 <= m /\ (n + 1) * period < DegradedMs
  BY <1>1, <1>3, <1>4, <1>5, Multiples
<1>7. n + 1 \in 0..(BufferSize - 1) /\ n + 1 < BufferSize
  BY <1>5, <1>6
<1>8. Len(p) = (n + 1) + 1 /\ Head(p) = Head(buffers[First])
  BY <1>2, <1>3, <1>7
<1>9. Head(p) \in Int /\ Head(p) + (n + 1) * period = ts /\ (n + 1) * period \in Nat
  <2>1. Head(p) \in Int
    <3>1. /\ lastOut[First] \in 0..LastMs /\ lastIn[First] \in 0..LastMs
          /\ Span(buffers[First], lastOut[First], lastIn[First], BufferSize, LastMs)
      BY TheTwo DEF RigFacts, RigTypes, Spans
    <3>2. Head(buffers[First]) \in 0..LastMs
      BY <1>3, <3>1, RecoveringNumbers, HeadOfSpan
    <3> QED
      BY <1>8, <3>2
  <2>2. (n + 1) * period = n * period + period /\ n * period \in Nat
    BY <1>1, <1>5
  <2> QED
    BY <1>1, <1>2, <1>3, <1>8, <2>1, <2>2, SMTT(30)
<1>10. ~Matches(p, buffers[Second]) /\ ~SecondDue(buffers[Second], ts)
  BY <1>3 DEF Matches, SecondDue
<1>11. ~FirstDue(p, ts, Recovering!ProbeDue(ts))
  <2>1. ~(ts - Head(p) >= DegradedMs)
    BY <1>1, <1>6, <1>9
  <2> QED
    BY <1>3, <2>1 DEF FirstDue
<1>12. NobodyGoes(p, buffers[Second], Recovering!ProbeDue(ts))
  BY <1>2, <1>10, <1>11 DEF Comes
<1>13. /\ buffers'[First] = p /\ buffers'[Second] = <<>>
       /\ ~degraded'[First] /\ degraded'[Second]
  BY <1>3, <1>12 DEF NobodyGoes
<1>14. latest' # lastIn'[Second]
  BY <1>1, <1>2
<1>15. Tries(g, n + 1)'
  BY <1>2, <1>3, <1>6, <1>8, <1>9, <1>13, <1>14 DEF Tries, BySecond, Newest, First, Second, ProbeBy
<1> QED
  BY <1>7, <1>15 DEF Phases

\* The second camera's frame matches, or finds the first camera's oldest overdue, or goes alone.
LEMMA TriesSecond ==
  ASSUME RigFacts(CameraIds, BufferSize, LastMs), period \in Periods, NEW g \in 1..(period - 1), InStep(g),
         NEW n \in 0..(BufferSize - 1), Tries(g, n), NEW p, NEW ts, SecondTurn(g, p, ts)
  PROVE  Phases(g)'
<1>1. /\ lastIn[First] \in Nat /\ lastIn[Second] \in Nat
      /\ period \in Nat /\ period > 0 /\ g \in Nat /\ g > 0 /\ g < period
      /\ SkewMs \in Nat /\ DegradedMs \in Nat /\ DegradedMs > 0 /\ ProbeBy \in Nat
  BY StepNumbers
<1>2. /\ ~degraded[First] /\ degraded[Second]
      /\ buffers[First] # <<>> /\ buffers[Second] = <<>>
      /\ Len(buffers[First]) = n + 1 /\ Newest(buffers[First]) = lastIn[First]
      /\ Head(buffers[First]) + n * period = lastIn[First]
      /\ Head(buffers[First]) <= ProbeBy + 2 * period /\ n * period < DegradedMs
  BY DEF Tries
<1>3. /\ latest = lastIn[First] /\ ts = lastIn[First] + g
      /\ latest' = ts /\ lastIn'[Second] = ts /\ lastIn'[First] = lastIn[First] /\ period' = period
      /\ p # <<>> /\ Newest(p) = ts /\ Head(p) = ts
      /\ Comes(buffers[First], p, ts, Recovering!ProbeDue(ts))
  BY <1>2 DEF SecondTurn, Turn
<1>4. ts \in Nat
  BY <1>1, <1>3
<1>5. CASE g <= SkewMs
  <2>1. lastIn[First] - ts <= SkewMs /\ ts - lastIn[First] <= SkewMs
    BY <1>1, <1>3, <1>5
  <2>2. Matches(buffers[First], p)
    BY <1>2, <1>3, <2>1 DEF Matches
  <2>3. BothGo
    BY <1>3, <2>2 DEF Comes
  <2>4. Leads(First, Second, g)'
    BY <1>3, <1>5, <2>3 DEF BothGo, Leads, First, Second
  <2>5. IsBack(g)'
    BY <2>3, <2>4 DEF BothGo, IsBack, First, Second, Cameras
  <2> QED
    BY <2>5 DEF Phases
<1>6. CASE ~(g <= SkewMs)
  <2>1. period - g <= SkewMs /\ g > SkewMs
    BY <1>1, <1>6 DEF InStep
  <2>2. ~(ts - lastIn[First] <= SkewMs)
    BY <1>1, <1>3, <1>6
  <2>3. ~Matches(buffers[First], p)
    BY <1>2, <1>3, <2>2 DEF Matches
  <2>4. PICK k \in Nat : k = n * period
    BY <1>1, RecoveringNumbers
  <2>5. PICK hd \in Int : hd = Head(buffers[First])
    <3>1. /\ lastOut[First] \in 0..LastMs /\ lastIn[First] \in 0..LastMs
          /\ Span(buffers[First], lastOut[First], lastIn[First], BufferSize, LastMs)
      BY TheTwo DEF RigFacts, RigTypes, Spans
    <3>2. Head(buffers[First]) \in 0..LastMs
      BY <1>2, <3>1, RecoveringNumbers, HeadOfSpan
    <3> QED
      BY <3>2
  <2>6. PICK last \in Nat : last = lastIn[First]
    BY <1>1
  <2>7. hd + k = last /\ hd <= ProbeBy + 2 * period /\ k < DegradedMs /\ ts = last + g
    BY <1>2, <1>3, <2>4, <2>5, <2>6
  <2>8. CASE ts - Head(buffers[First]) >= DegradedMs
    <3>1. FirstDue(buffers[First], ts, Recovering!ProbeDue(ts))
      BY <1>2, <2>8 DEF FirstDue
    <3>2. FirstGoes(p)
      BY <1>3, <2>3, <3>1 DEF Comes
    <3>3. lastIn'[First] <= ProbeBy + 2 * period + DegradedMs
      <4>1. last <= ProbeBy + 2 * period + DegradedMs
        BY <1>1, <2>7
      <4> QED
        BY <1>3, <2>6, <4>1
    <3>4. HandsOver(g)'
      BY <1>2, <1>3, <2>1, <3>2, <3>3 DEF FirstGoes, HandsOver, Just, BySecond, Newest, First, Second, ProbeBy
    <3> QED
      BY <3>4 DEF Phases
  <2>9. CASE ~(ts - Head(buffers[First]) >= DegradedMs)
    <3>1. ~FirstDue(buffers[First], ts, Recovering!ProbeDue(ts)) /\ SecondDue(p, ts)
      BY <1>2, <1>3, <2>9 DEF FirstDue, SecondDue
    <3>2. SecondGoes(buffers[First], Recovering!ProbeDue(ts))
      BY <1>3, <2>3, <3>1 DEF Comes
    <3>3. n * period + g < DegradedMs
      <4>1. ~(ts - hd >= DegradedMs)
        BY <2>5, <2>9
      <4>2. k + g < DegradedMs
        BY <1>1, <2>7, <4>1
      <4> QED
        BY <2>4, <4>2
    <3>4. /\ buffers'[First] = buffers[First] /\ buffers'[Second] = <<>>
          /\ ~degraded'[First] /\ degraded'[Second]
      BY <1>2, <3>2 DEF SecondGoes
    <3>5. Tries(g, n)'
      BY <1>2, <1>3, <2>1, <3>3, <3>4 DEF Tries, Newest, First, Second, ProbeBy
    <3> QED
      BY <3>5 DEF Phases
  <2> QED
    BY <2>8, <2>9
<1> QED
  BY <1>5, <1>6

LEMMA HandsOverStep ==
  ASSUME RigFacts(CameraIds, BufferSize, LastMs), period \in Periods, NEW g \in 1..(period - 1),
         HandsOver(g), NEW p, NEW ts, FirstTurn(g, p, ts)
  PROVE  Phases(g)'
<1>1. /\ lastIn[Second] \in Nat /\ period \in Nat /\ g \in Nat /\ g < period /\ SkewMs \in Nat
  BY StepNumbers
<1>2. /\ buffers[Second] # <<>> /\ Newest(buffers[Second]) = lastIn[Second] /\ period - g <= SkewMs
  BY DEF HandsOver, Just
<1>3. /\ ts = lastIn[Second] + (period - g)
      /\ latest' = ts /\ lastIn'[First] = ts /\ lastIn'[Second] = lastIn[Second] /\ period' = period
      /\ p # <<>> /\ Newest(p) = ts
      /\ Comes(p, buffers[Second], ts, Recovering!ProbeDue(ts))
  BY DEF FirstTurn, Turn
<1>4. ts - lastIn[Second] <= SkewMs /\ lastIn[Second] - ts <= SkewMs
  BY <1>1, <1>2, <1>3
<1>5. BothGo
  BY <1>2, <1>3, <1>4 DEF Matches, Comes
<1>6. Leads(Second, First, period - g)'
  BY <1>2, <1>3, <1>5 DEF BothGo, Leads, First, Second
<1>7. IsBack(g)'
  BY <1>5, <1>6 DEF BothGo, IsBack, First, Second, Cameras
<1> QED
  BY <1>7 DEF Phases

LEMMA IsBackStep ==
  ASSUME RigFacts(CameraIds, BufferSize, LastMs), period \in Periods, NEW g \in 1..(period - 1), InStep(g),
         IsBack(g), NEW p, NEW ts, FirstTurn(g, p, ts) \/ SecondTurn(g, p, ts)
  PROVE  Phases(g)'
<1> DEFINE probed == Recovering!ProbeDue(ts)
<1>1. /\ lastIn[First] \in Nat /\ lastIn[Second] \in Nat
      /\ period \in Nat /\ g \in Nat /\ g > 0 /\ g < period
      /\ SkewMs \in Nat /\ DegradedMs \in Nat /\ DegradedMs > 0
  BY StepNumbers
<1>2. ~degraded[First] /\ ~degraded[Second] /\ DOMAIN pair.frames = Cameras
  BY DEF IsBack
<1>3. lastIn[First] # lastIn[Second]
  BY <1>1 DEF InStep
<1>4. ~(ts - ts >= DegradedMs) /\ ts \in Nat
  <2>1. ts \in Nat
    BY <1>1 DEF FirstTurn, SecondTurn, Turn
  <2> QED
    BY <1>1, <2>1
<1>5. \A q : ~Matches(q, <<>>) /\ ~Matches(<<>>, q)
  BY DEF Matches
<1> HIDE DEF probed
<1>6. CASE FirstTurn(g, p, ts) /\ Leads(First, Second, g)
  <2>1. /\ buffers[First] = <<>> /\ buffers[Second] = <<>> /\ g <= SkewMs
        /\ latest' = ts /\ lastIn'[First] = ts /\ period' = period
        /\ p # <<>> /\ Newest(p) = ts /\ Head(p) = ts
        /\ Comes(p, <<>>, ts, probed)
    BY <1>3, <1>6 DEF FirstTurn, Turn, Leads, probed
  <2>2. NobodyGoes(p, <<>>, probed)
    BY <1>2, <1>4, <1>5, <2>1 DEF Comes, FirstDue, SecondDue
  <2>3. Leads(First, Second, g)'
    BY <2>1, <2>2 DEF NobodyGoes, Leads, Just, Newest, First, Second
  <2>4. IsBack(g)'
    BY <1>2, <2>2, <2>3 DEF NobodyGoes, IsBack, First, Second, Cameras
  <2> QED
    BY <2>4 DEF Phases
<1>7. CASE SecondTurn(g, p, ts) /\ Leads(First, Second, g)
  <2>1. /\ buffers[First] # <<>> /\ Newest(buffers[First]) = lastIn[First] /\ g <= SkewMs
        /\ ts = lastIn[First] + g
        /\ latest' = ts /\ lastIn'[Second] = ts /\ period' = period
        /\ p # <<>> /\ Newest(p) = ts
        /\ Comes(buffers[First], p, ts, probed)
    BY <1>3, <1>7 DEF SecondTurn, Turn, Leads, Just, probed
  <2>2. lastIn[First] - ts <= SkewMs /\ ts - lastIn[First] <= SkewMs
    BY <1>1, <2>1
  <2>3. BothGo
    BY <2>1, <2>2 DEF Matches, Comes
  <2>4. Leads(First, Second, g)'
    BY <2>1, <2>3 DEF BothGo, Leads, First, Second
  <2>5. IsBack(g)'
    BY <2>3, <2>4 DEF BothGo, IsBack, First, Second, Cameras
  <2> QED
    BY <2>5 DEF Phases
<1>8. CASE SecondTurn(g, p, ts) /\ Leads(Second, First, period - g)
  <2>1. /\ buffers[First] = <<>> /\ buffers[Second] = <<>> /\ period - g <= SkewMs
        /\ latest' = ts /\ lastIn'[Second] = ts /\ period' = period
        /\ p # <<>> /\ Newest(p) = ts /\ Head(p) = ts
        /\ Comes(<<>>, p, ts, probed)
    BY <1>3, <1>8 DEF SecondTurn, Turn, Leads, probed
  <2>2. NobodyGoes(<<>>, p, probed)
    BY <1>2, <1>4, <1>5, <2>1 DEF Comes, FirstDue, SecondDue
  <2>3. Leads(Second, First, period - g)'
    BY <2>1, <2>2 DEF NobodyGoes, Leads, Just, Newest, First, Second
  <2>4. IsBack(g)'
    BY <1>2, <2>2, <2>3 DEF NobodyGoes, IsBack, First, Second, Cameras
  <2> QED
    BY <2>4 DEF Phases
<1>9. CASE FirstTurn(g, p, ts) /\ Leads(Second, First, period - g)
  <2>1. /\ buffers[Second] # <<>> /\ Newest(buffers[Second]) = lastIn[Second] /\ period - g <= SkewMs
        /\ ts = lastIn[Second] + (period - g)
        /\ latest' = ts /\ lastIn'[First] = ts /\ period' = period
        /\ p # <<>> /\ Newest(p) = ts
        /\ Comes(p, buffers[Second], ts, probed)
    BY <1>3, <1>9 DEF FirstTurn, Turn, Leads, Just, probed
  <2>2. lastIn[Second] - ts <= SkewMs /\ ts - lastIn[Second] <= SkewMs
    BY <1>1, <2>1
  <2>3. BothGo
    BY <2>1, <2>2 DEF Matches, Comes
  <2>4. Leads(Second, First, period - g)'
    BY <2>1, <2>3 DEF BothGo, Leads, First, Second
  <2>5. IsBack(g)'
    BY <2>3, <2>4 DEF BothGo, IsBack, First, Second, Cameras
  <2> QED
    BY <2>5 DEF Phases
<1> QED
  BY <1>6, <1>7, <1>8, <1>9 DEF IsBack

LEMMA RecoveringPhasesKept ==
  ASSUME RecoveringInv, Recovering!RecoveryNext PROVE RecoveringInv'
<1>1. PICK g \in 1..(period - 1) : InStep(g) /\ Phases(g)
  BY DEF RecoveringInv
<1>2. RigFacts(CameraIds, BufferSize, LastMs) /\ period \in Periods
  BY DEF RecoveringInv
<1>3. InStep(g)' /\ \E p, ts : FirstTurn(g, p, ts) \/ SecondTurn(g, p, ts)
  BY <1>1, <1>2, TakesTurns
<1>4. PICK p : \E ts : FirstTurn(g, p, ts) \/ SecondTurn(g, p, ts)
  BY <1>3
<1>5. PICK ts : FirstTurn(g, p, ts) \/ SecondTurn(g, p, ts)
  BY <1>4
<1>6. ~(ByFirst /\ BySecond)
  BY <1>1, <1>2, StepNumbers DEF InStep, ByFirst, BySecond
<1>7. Phases(g)'
  <2>1. CASE Waits
    BY <1>2, <1>5, <2>1, WaitsStep
  <2>2. CASE Tried
    BY <1>2, <1>5, <1>6, <2>2, TriedStep
  <2>3. CASE HandsOver(g)
    <3>1. FirstTurn(g, p, ts)
      BY <1>5, <1>6, <2>3 DEF HandsOver, SecondTurn, Turn, ByFirst
    <3> QED
      BY <1>2, <2>3, <3>1, HandsOverStep
  <2>4. CASE IsBack(g)
    BY <1>1, <1>2, <1>5, <2>4, IsBackStep
  <2>5. ASSUME NEW n \in 0..(BufferSize - 1), Tries(g, n) PROVE Phases(g)'
    BY <1>1, <1>2, <1>5, <2>5, TriesFirst, TriesSecond
  <2> QED
    BY <1>1, <2>1, <2>2, <2>3, <2>4, <2>5 DEF Phases
<1>8. period' \in Periods /\ RigFacts(CameraIds, BufferSize, LastMs)'
  BY <1>2, RecoveringStep
<1>9. period' = period
  BY <1>5 DEF FirstTurn, SecondTurn, Turn
<1> QED
  BY <1>3, <1>7, <1>8, <1>9 DEF RecoveringInv

LEMMA RecoveringPhasesInit == Recovering!RecoveryInit => RecoveringInv
<1> SUFFICES ASSUME Recovering!RecoveryInit PROVE RecoveringInv
  OBVIOUS
<1>1. period \in Periods /\ RigFacts(CameraIds, BufferSize, LastMs)
  BY RecoveringInit
<1>2. Cameras = {First, Second} /\ First # Second /\ Recovering!Cameras = Cameras
  BY TheTwo DEF Recovering!Cameras, Cameras
<1>3. /\ lastIn \in [Cameras -> (Start - period + 1)..Start]
      /\ \E j, k \in Cameras :
           /\ lastIn[k] = Start /\ lastIn[j] < Start
           /\ Start - lastIn[j] <= SkewMs \/ lastIn[j] + period - Start <= SkewMs
  BY <1>2 DEF Recovering!RecoveryInit, Recovering!InPhase
<1>4. PICK k \in Cameras : \E j \in Cameras :
        /\ lastIn[k] = Start /\ lastIn[j] < Start
        /\ Start - lastIn[j] <= SkewMs \/ lastIn[j] + period - Start <= SkewMs
  BY <1>3
<1>5. PICK j \in Cameras :
        /\ lastIn[k] = Start /\ lastIn[j] < Start
        /\ Start - lastIn[j] <= SkewMs \/ lastIn[j] + period - Start <= SkewMs
  BY <1>4
<1>6. /\ Start \in Nat /\ period \in Nat /\ period > 0 /\ latest = Start
      /\ lastIn[j] \in (Start - period + 1)..Start
  BY <1>1, <1>3, RecoveringNumbers DEF Recovering!RecoveryInit
<1>7. Start <= ProbeBy
  BY ProbeNumbers, RecoveringNumbers DEF ProbeBy
<1>8. Waits
  BY <1>2, <1>6, <1>7 DEF Recovering!RecoveryInit, Waits
<1>9. j # k
  BY <1>5, <1>6
<1>10. CASE k = Second /\ j = First
  <2>1. PICK g \in 1..(period - 1) : g = Start - lastIn[First]
    BY <1>5, <1>6, <1>10
  <2>2. BySecond /\ lastIn[Second] = lastIn[First] + g /\ (g <= SkewMs \/ period - g <= SkewMs)
    BY <1>5, <1>6, <1>10, <2>1, RecoveringNumbers DEF BySecond
  <2> QED
    BY <1>1, <1>8, <2>2 DEF RecoveringInv, InStep, Phases
<1>11. CASE k = First /\ j = Second
  <2>1. PICK g \in 1..(period - 1) : g = period - (Start - lastIn[Second])
    BY <1>5, <1>6, <1>11
  <2>2. /\ ByFirst /\ lastIn[First] = lastIn[Second] + period - g
        /\ g <= SkewMs \/ period - g <= SkewMs
    BY <1>5, <1>6, <1>11, <2>1, RecoveringNumbers DEF ByFirst
  <2> QED
    BY <1>1, <1>8, <2>2 DEF RecoveringInv, InStep, Phases
<1> QED
  BY <1>2, <1>9, <1>10, <1>11

LEMMA PhasesUnchanged ==
  ASSUME RecoveringInv, UNCHANGED <<vars, period>> PROVE RecoveringInv'
<1>1. RigFacts(CameraIds, BufferSize, LastMs)'
  BY FactsUnchanged DEF RecoveringInv
<1>2. /\ buffers' = buffers /\ degraded' = degraded /\ latest' = latest /\ lastProbe' = lastProbe
      /\ pair' = pair /\ lastIn' = lastIn /\ period' = period
  BY DEF vars
<1>3. PICK g \in 1..(period - 1) : InStep(g) /\ Phases(g)
  BY DEF RecoveringInv
<1>4. InStep(g)'
  BY <1>2, <1>3 DEF InStep, ByFirst, BySecond, First, Second
<1>5. Phases(g)'
  BY <1>2, <1>3 DEF Phases, Waits, Tried, Tries, HandsOver, IsBack, Leads, Just, Newest, ByFirst, BySecond,
                    First, Second, ProbeBy, Cameras
<1> QED
  BY <1>1, <1>2, <1>3, <1>4, <1>5 DEF RecoveringInv

\* Before the pairs are aligned no more than a probe interval and three periods go by.
LEMMA PhasesInTime == RecoveringInv => Recovering!Recovered
<1> SUFFICES ASSUME RecoveringInv PROVE Recovering!Recovered
  OBVIOUS
<1>1. PICK g \in 1..(period - 1) : InStep(g) /\ Phases(g)
  BY DEF RecoveringInv
<1>2. RigFacts(CameraIds, BufferSize, LastMs) /\ period \in Periods
  BY DEF RecoveringInv
<1>3. /\ lastIn[First] \in Nat /\ lastIn[Second] \in Nat /\ latest \in Nat
      /\ period \in Nat /\ period > 0 /\ g \in Nat /\ g < period
      /\ DegradedMs \in Nat /\ ProbeBy \in Nat /\ Cameras = {First, Second}
  BY <1>2, StepNumbers
<1>4. PICK most \in Nat : most = ProbeFactor * DegradedMs
  BY ProbeNumbers
<1>5. ProbeBy + DegradedMs = Start + most /\ Start \in Nat
  BY <1>3, <1>4, RecoveringNumbers DEF ProbeBy
<1>6. latest <= lastIn[First] + period
  BY <1>1, <1>3 DEF InStep, ByFirst, BySecond
<1>7. IsBack(g) => DOMAIN pair.frames = Recovering!Cameras
  BY DEF IsBack, Recovering!Cameras, Cameras
<1>8. ~IsBack(g) => latest <= ProbeBy + DegradedMs + 3 * period
  <2>1. CASE Waits \/ Tried
    <3>1. latest <= ProbeBy \/ latest <= ProbeBy + period
      BY <2>1 DEF Waits, Tried
    <3> QED
      BY <1>3, <3>1
  <2>2. CASE HandsOver(g)
    <3>1. lastIn[First] <= ProbeBy + 2 * period + DegradedMs
      BY <2>2 DEF HandsOver
    <3> QED
      BY <1>3, <1>6, <3>1
  <2>3. ASSUME NEW n \in 0..(BufferSize - 1), Tries(g, n) PROVE latest <= ProbeBy + DegradedMs + 3 * period
    <3>1. PICK k \in Nat : k = n * period
      BY <1>3, RecoveringNumbers
    <3>2. PICK hd \in Nat : hd = Head(buffers[First])
      <4>1. /\ lastOut[First] \in 0..LastMs /\ lastIn[First] \in 0..LastMs
            /\ Span(buffers[First], lastOut[First], lastIn[First], BufferSize, LastMs)
        BY <1>2, TheTwo DEF RigFacts, RigTypes, Spans
      <4>2. Head(buffers[First]) \in 0..LastMs
        BY <2>3, <4>1, RecoveringNumbers, HeadOfSpan DEF Tries
      <4> QED
        BY <4>2
    <3>3. hd + k = lastIn[First] /\ hd <= ProbeBy + 2 * period /\ k < DegradedMs
      BY <2>3, <3>1, <3>2 DEF Tries
    <3> QED
      BY <1>3, <1>6, <3>3
  <2> QED
    BY <1>1, <2>1, <2>2, <2>3 DEF Phases
<1>9. PICK limit \in Nat : limit = Start + most + 3 * period
  BY <1>3, <1>5
<1>10. ~IsBack(g) => ~(latest > limit)
  BY <1>3, <1>5, <1>8, <1>9
<1> QED
  BY <1>4, <1>7, <1>9, <1>10 DEF Recovering!Recovered

\* Recovered, what the comment on the probe promises, on the rig "recovering", for any
\* constants and periods of RecoveryConstants: two cameras taken for lost that deliver
\* again, at one rate and within the tolerance, are paired after a probe interval and three
\* periods, and from then on.
THEOREM RecoveryTheorem == RigSpec => []AllAligned
<1> DEFINE RecoveringRig == rig = "recovering" => RecoveringInv
<1>1. RigInit => RecoveringRig
  BY RecoveringPhasesInit DEF RigInit, SyncInit
<1>2. RecoveringRig /\ [RigNext]_<<vars, rig, period, shotsVars>> => RecoveringRig'
  <2> SUFFICES ASSUME RecoveringRig, [RigNext]_<<vars, rig, period, shotsVars>>, rig' = "recovering"
               PROVE  RecoveringInv'
    OBVIOUS
  <2>1. CASE UNCHANGED <<vars, rig, period>>
    BY <2>1, PhasesUnchanged
  <2>2. CASE rig = "recovering" /\ Recovering!RecoveryNext
    BY <2>2, RecoveringPhasesKept
  <2> QED
    BY <2>1, <2>2 DEF RigNext, SyncNext
<1>3. RecoveringRig => AllAligned
  BY PhasesInTime DEF AllAligned
<1> HIDE DEF RecoveringRig
<1> QED
  BY <1>1, <1>2, <1>3, PTL DEF RigSpec

-----------------------------------------------------------------------------
(* The capture.                                                              *)

Sessions == 1..MaxSessions
Workers == Sessions \X Cameras
Places == {"none", "look", "seen", "try", "commit", "over"}
NoShot == [at |-> 0, shows |-> 0, by |-> 0]
Snapshots == [at : Nat, shows : Nat, by : Sessions] \cup {NoShot}
Errands == {"wipe", "count", "run"} \X Cameras

Files(c) == {i \in 0..Target : disk[c][i] # NoShot}

\* The cameras a request has yet to wipe, or to count.
Left(r, errand) == {c \in Cameras : \E i \in DOMAIN r : r[i] = <<errand, c>>}

\* The cameras a commit has yet to save.
Unsaved(s) == {saving[s][i] : i \in DOMAIN saving[s]}

Active(w) == place[w] \in {"seen", "try", "commit"}

\* A session whose workers may still save.
Live(s) == s = current \/ \E c \in Cameras : Active(<<s, c>>)

\* What a request does and in which order.
RouteShape(r) ==
  /\ r \in Seq(Errands)
  /\ \A i, j \in DOMAIN r : r[i] = r[j] => i = j
  /\ \A i, j \in DOMAIN r : i < j /\ r[j][1] = "wipe" => r[i][1] = "wipe"
  /\ \A i \in DOMAIN r : r[i][1] = "run" <=> i = Len(r)

CaptureTypes ==
  /\ phase \in {"intrinsic", "floor"} /\ now \in Nat /\ now > 0 /\ board \in Nat
  /\ made \in 0..MaxSessions /\ mishap \in BOOLEAN
  /\ place \in [Workers -> Places] /\ view \in [Workers -> Nat] /\ count \in [Workers -> Nat]
  /\ ready \in [Workers -> Snapshots] /\ kept \in [Workers -> SUBSET Nat]
  /\ saving \in [Sessions -> Seq(Cameras)]
  /\ pairs \in [Sessions -> Nat] /\ late \in [Sessions -> Nat]
  /\ disk \in [Cameras -> [0..Target -> Snapshots]]

\* The life of a session: made, run, told to stop.
SessionInv ==
  /\ current \in {0, made} /\ stopped \subseteq 1..made
  /\ current # 0 => route = <<>> /\ current \notin stopped
  /\ route # <<>> => RouteShape(route) /\ made > 0 /\ made \notin stopped
  /\ \A s \in 1..made : s \in stopped \/ s = current \/ (s = made /\ route # <<>>)
  /\ \A w \in Workers : place[w] # "none" => w[1] <= made /\ (w[1] = made => route = <<>>)
  /\ \A w \in Workers : place[w] = "none" => ready[w] = NoShot /\ kept[w] = {}

\* One worker of a session at a time commits, and only pairs; it takes its own shot too.
CommitInv ==
  /\ \A s \in Sessions : saving[s] # <<>> => phase = "floor" /\ \E c \in Cameras : place[<<s, c>>] = "commit"
  /\ \A s \in Sessions : \A c, d \in Cameras :
       place[<<s, c>>] = "commit" /\ place[<<s, d>>] = "commit" => c = d
  /\ \A s \in Sessions : \A c \in Cameras : place[<<s, c>>] = "commit" =>
       saving[s] # <<>> /\ (c \in Unsaved(s) \/ ready[<<s, c>>] = NoShot)
  /\ \A s \in Sessions : \A i, j \in DOMAIN saving[s] : saving[s][i] = saving[s][j] => i = j
  /\ phase = "intrinsic" => \A w \in Workers : place[w] \notin {"try", "commit"}

\* What bounds the shots.
LimitInv ==
  /\ \A w \in Workers : count[w] <= Target
  /\ \A c \in Cameras : Files(c) \subseteq 0..(Target - 1)
  /\ \A s \in Sessions : late[s] <= 1
  /\ phase = "intrinsic" => \A w \in Workers : place[w] = "seen" => count[w] < Target

\* The gate of a worker knows what it saved, and lets through what it does not know.
Gated(s, c) ==
  /\ place[<<s, c>>] = "seen" => view[<<s, c>>] \notin kept[<<s, c>>]
  /\ \A i \in Files(c) : disk[c][i].by = s =>
       /\ place[<<s, c>>] # "none"
       /\ place[<<s, c>>] # "over" => disk[c][i].shows \in kept[<<s, c>>]
  /\ \A i, j \in Files(c) :
       i # j /\ disk[c][i].by = s /\ disk[c][j].by = s => disk[c][i].shows # disk[c][j].shows

GateInv == phase = "intrinsic" => \A s \in Sessions : \A c \in Cameras : Gated(s, c)

\* A camera is missing for the next pair of s, and stays so if its worker wants no
\* further shot.
Spent(s) ==
  \E c \in Cameras :
    \/ place[<<s, c>>] \in {"look", "over"} /\ ready[<<s, c>>] = NoShot
    \/ place[<<s, c>>] = "commit"

\* The pair under way has been saved of c.
Ahead(c) == \E s \in Sessions : saving[s] # <<>> /\ c \notin Unsaved(s)
Level(n, c) == IF Ahead(c) THEN n + 1 ELSE n
Moment(n, s, c) == IF c \in Unsaved(s) THEN ready[<<s, c>>].at ELSE disk[c][n].at

\* There are n pairs on disk, or were before a wipe.  First the files, ...
FilesAt(n) ==
  \A c \in Cameras :
    Files(c) = IF Left(route, "wipe") = {} \/ c \in Left(route, "wipe") THEN 0..(Level(n, c) - 1) ELSE {}
\* ... what is counted of them by whom it concerns, ...
CountsAt(n) ==
  /\ \A s \in Sessions : Live(s) => \A c \in Cameras : count[<<s, c>>] = Level(n, c)
  /\ route # <<>> => \A c \in Cameras \ Left(route, "count") : count[<<made, c>>] = n
  /\ current # 0 => pairs[current] = n
\* ... that nobody can go on with the last one, ...
FullAt(n) == n = Target => \A s \in Sessions : Live(s) => saving[s] = <<>> /\ Spent(s)
\* ... the moments of the pairs, and that of the pair under way.
MomentsAt(n) ==
  /\ Left(route, "wipe") = {} =>
       \A c, d \in Cameras : \A i \in 0..(n - 1) : disk[c][i].at - disk[d][i].at <= Window
  /\ \A s \in Sessions : saving[s] # <<>> =>
       /\ \A c \in Unsaved(s) : ready[<<s, c>>] # NoShot
       /\ \A c, d \in Cameras : Moment(n, s, c) - Moment(n, s, d) <= Window
Lined(n) == FilesAt(n) /\ CountsAt(n) /\ FullAt(n) /\ MomentsAt(n)

\* A request finds the workers of the last session done before its first errand.
Settled ==
  /\ Left(route, "wipe") # {} => Left(route, "count") = Cameras
  /\ route # <<>> /\ (Left(route, "count") # Cameras \/ Left(route, "wipe") \notin {{}, Cameras}) =>
       \A w \in Workers : ~Active(w)

\* One session at a time saves, and one that was told to stop saves its last pair.
OneSaves ==
  /\ \A s, t \in Sessions : Live(s) /\ Live(t) => s = t
  /\ \A s \in Sessions : late[s] = 1 => s \in stopped /\ Spent(s)

PairsInv ==
  phase = "floor" /\ ~mishap => Settled /\ OneSaves /\ \E n \in 0..Target : Lined(n)

\* The inductive invariant.
ShotsInv == CaptureTypes /\ SessionInv /\ CommitInv /\ LimitInv /\ GateInv /\ PairsInv
-----------------------------------------------------------------------------
LEMMA ShotConstants ==
  /\ IsFiniteSet(Cameras) /\ Cardinality(Cameras) \in Nat /\ Cardinality(Cameras) > 1
  /\ Cameras # {}
  /\ Target \in Nat /\ Window \in Nat /\ MaxSessions \in Nat
<1>1. /\ Shots!IsFiniteSet(Cameras) /\ Shots!Cardinality(Cameras) > 1
      /\ Target \in Nat /\ Window \in Nat /\ MaxSessions \in Nat
  BY CaptureConstants DEF Shots!CaptureAssumption
<1>2. IsFiniteSet(Cameras)
  BY <1>1 DEF Shots!IsFiniteSet, IsFiniteSet
<1>3. Shots!Cardinality(Cameras) = Cardinality(Cameras)
  BY DEF Shots!Cardinality, Cardinality
<1>4. Cardinality(Cameras) \in Nat /\ Cardinality(Cameras) > 1
  BY <1>1, <1>2, <1>3, FS_CardinalityType
<1>5. Cameras # {}
  BY <1>4, FS_EmptySet
<1> QED
  BY <1>1, <1>2, <1>4, <1>5

LEMMA SameNames ==
  /\ Shots!Workers = Workers /\ Shots!Sessions = Sessions /\ Shots!NoShot = NoShot
  /\ \A s : Shots!Of(s) = {s} \X Cameras
  /\ \A w \in Workers : w = <<w[1], w[2]>> /\ w[1] \in Sessions /\ w[2] \in Cameras
  /\ \A s \in Sessions : \A c \in Cameras : <<s, c>> \in Workers /\ <<s, c>>[1] = s /\ <<s, c>>[2] = c
  BY DEF Shots!Workers, Workers, Shots!Sessions, Sessions, Shots!NoShot, NoShot, Shots!Of

\* A camera is in the order of the configuration once.
LEMMA OrderFacts ==
  /\ Shots!CameraOrder \in Seq(Cameras) /\ Shots!CameraOrder # <<>>
  /\ Len(Shots!CameraOrder) \in Nat /\ Len(Shots!CameraOrder) > 0
  /\ DOMAIN Shots!CameraOrder = 1..Len(Shots!CameraOrder)
  /\ \A i, j \in DOMAIN Shots!CameraOrder : Shots!CameraOrder[i] = Shots!CameraOrder[j] => i = j
  /\ \A c \in Cameras : \E i \in DOMAIN Shots!CameraOrder : Shots!CameraOrder[i] = c
<1> DEFINE n == Cardinality(Cameras)
           o == Shots!CameraOrder
<1>1. n \in Nat /\ n > 1
  BY ShotConstants
<1>2. PICK f : f \in Bijection(1..n, Cameras)
  BY ShotConstants, FS_CardinalityType DEF ExistsBijection
<1>3. f \in [1..n -> Cameras] /\ \A a, b \in DOMAIN f : f[a] = f[b] => a = b
  BY <1>2 DEF Bijection, Injection, IsInjective
<1>4. Shots!Cardinality(Cameras) = n
  BY DEF Shots!Cardinality, Cardinality
<1>5. o = CHOOSE g \in [1..n -> Cameras] : Shots!IsInjective(g)
  BY <1>4 DEF Shots!CameraOrder, Shots!SetToSeq
<1>6. \E g \in [1..n -> Cameras] : Shots!IsInjective(g)
  BY <1>3 DEF Shots!IsInjective
<1>7. o \in [1..n -> Cameras] /\ Shots!IsInjective(o)
  BY <1>5, <1>6
<1> HIDE DEF o, n
<1>8. o \in Seq(Cameras) /\ Len(o) = n /\ DOMAIN o = 1..n
  BY <1>1, <1>7
<1>9. \A i, j \in 1..n : o[i] = o[j] => i = j
  BY <1>7, <1>8 DEF Shots!IsInjective
<1>10. \A c \in Cameras : \E i \in 1..n : o[i] = c
  <2>1. o \in Injection(1..n, Cameras)
    BY <1>7, <1>8, <1>9 DEF Injection, IsInjective
  <2>2. IsFiniteSet(1..n) /\ Cardinality(1..n) = n
    BY <1>1, FS_Interval
  <2>3. o \in Surjection(1..n, Cameras)
    BY <2>1, <2>2, ShotConstants, FS_Injection DEF n
  <2> QED
    BY <2>3 DEF Surjection
<1> QED
  BY <1>1, <1>8, <1>9, <1>10 DEF o

-----------------------------------------------------------------------------
(* The errands of a request.                                                 *)

LEMMA EmptyRoute == Left(<<>>, "wipe") = {} /\ Left(<<>>, "count") = {}
  BY DEF Left

LEMMA NextErrand ==
  ASSUME NEW r, RouteShape(r), r # <<>>
  PROVE  /\ Head(r) \in Errands /\ RouteShape(Tail(r))
         /\ Head(r)[1] = "wipe" =>
              /\ Tail(r) # <<>> /\ Left(Tail(r), "count") = Left(r, "count")
              /\ Left(Tail(r), "wipe") = Left(r, "wipe") \ {Head(r)[2]} /\ Head(r)[2] \in Left(r, "wipe")
         /\ Head(r)[1] = "count" =>
              /\ Tail(r) # <<>> /\ Left(r, "wipe") = {} /\ Left(Tail(r), "wipe") = {}
              /\ Left(Tail(r), "count") = Left(r, "count") \ {Head(r)[2]}
         /\ Head(r)[1] = "run" => Tail(r) = <<>> /\ Left(r, "wipe") = {} /\ Left(r, "count") = {}
<1> DEFINE h == Head(r)
           t == Tail(r)
<1>1. r \in Seq(Errands) /\ Len(r) \in Nat /\ Len(r) > 0 /\ DOMAIN r = 1..Len(r)
  BY DEF RouteShape
<1>2. h = r[1] /\ h \in Errands
  BY <1>1
<1>3. t \in Seq(Errands) /\ Len(t) = Len(r) - 1 /\ DOMAIN t = 1..(Len(r) - 1)
  BY <1>1
<1>4. \A i \in DOMAIN t : t[i] = r[i + 1] /\ i + 1 \in DOMAIN r
  BY <1>1, <1>3
<1>5. \A i, j \in DOMAIN r : r[i] = r[j] => i = j
  BY DEF RouteShape
<1>6. \A i, j \in DOMAIN r : i < j /\ r[j][1] = "wipe" => r[i][1] = "wipe"
  BY DEF RouteShape
<1>7. \A i \in DOMAIN r : r[i][1] = "run" <=> i = Len(r)
  BY DEF RouteShape
<1>8. h[1] \in {"wipe", "count", "run"} /\ h[2] \in Cameras /\ h = <<h[1], h[2]>>
  BY <1>2 DEF Errands
<1> HIDE DEF h, t
<1>9. RouteShape(t)
  <2>1. \A i, j \in DOMAIN t : t[i] = t[j] => i = j
    <3> SUFFICES ASSUME NEW i \in DOMAIN t, NEW j \in DOMAIN t, t[i] = t[j] PROVE i = j
      OBVIOUS
    <3>1. i + 1 = j + 1 /\ i \in Int /\ j \in Int
      BY <1>3, <1>4, <1>5
    <3> QED
      BY <3>1
  <2>2. \A i, j \in DOMAIN t : i < j /\ t[j][1] = "wipe" => t[i][1] = "wipe"
    <3> SUFFICES ASSUME NEW i \in DOMAIN t, NEW j \in DOMAIN t, i < j, t[j][1] = "wipe" PROVE t[i][1] = "wipe"
      OBVIOUS
    <3>1. i \in Int /\ j \in Int /\ i + 1 < j + 1
      BY <1>3
    <3> QED
      BY <1>4, <1>6, <3>1
  <2>3. \A i \in DOMAIN t : t[i][1] = "run" <=> i = Len(t)
    <3> SUFFICES ASSUME NEW i \in DOMAIN t PROVE t[i][1] = "run" <=> i = Len(t)
      OBVIOUS
    <3>1. i \in Int /\ (i + 1 = Len(r) <=> i = Len(t))
      BY <1>1, <1>3
    <3> QED
      BY <1>4, <1>7, <3>1
  <2> QED
    BY <1>3, <2>1, <2>2, <2>3 DEF RouteShape
<1>10. \A i \in DOMAIN r : i = 1 \/ (i - 1 \in DOMAIN t /\ t[i - 1] = r[i])
  <2> SUFFICES ASSUME NEW i \in DOMAIN r, i # 1 PROVE i - 1 \in DOMAIN t /\ t[i - 1] = r[i]
    OBVIOUS
  <2>1. i \in Int /\ i - 1 \in DOMAIN t /\ (i - 1) + 1 = i
    BY <1>1, <1>3
  <2> QED
    BY <1>4, <2>1
<1>11. ASSUME NEW e \in {"wipe", "count"}, NEW c \in Cameras
       PROVE  /\ c \in Left(r, e) <=> h = <<e, c>> \/ c \in Left(t, e)
              /\ c \in Left(t, e) => h # <<e, c>>
  <2>1. \A i \in DOMAIN t : t[i] # h
    <3> SUFFICES ASSUME NEW i \in DOMAIN t, t[i] = h PROVE FALSE
      OBVIOUS
    <3>1. i \in Int /\ i >= 1 /\ 1 \in DOMAIN r
      BY <1>1, <1>3
    <3>2. i + 1 = 1
      BY <1>2, <1>4, <1>5, <3>1
    <3> QED
      BY <3>1, <3>2
  <2>2. 1 \in DOMAIN r
    BY <1>1
  <2> QED
    BY <1>2, <1>4, <1>10, <2>1, <2>2 DEF Left
<1>12. ASSUME h[1] # "run" PROVE t # <<>>
  <2>1. 1 # Len(r)
    BY <1>1, <1>2, <1>7, <1>12
  <2> QED
    BY <1>1, <1>3, <2>1
<1>13. ASSUME h[1] # "wipe" PROVE Left(r, "wipe") = {}
  <2> SUFFICES ASSUME NEW c \in Cameras, NEW i \in DOMAIN r, r[i] = <<"wipe", c>> PROVE FALSE
    BY DEF Left
  <2>1. r[i][1] = "wipe"
    OBVIOUS
  <2>2. i \in Int /\ i >= 1 /\ 1 \in DOMAIN r
    BY <1>1
  <2>3. i # 1
    BY <1>2, <1>13, <2>1
  <2> QED
    BY <1>2, <1>6, <1>13, <2>1, <2>2, <2>3
<1>14. ASSUME h[1] = "run" PROVE t = <<>> /\ Left(r, "count") = {}
  <2>1. 1 = Len(r)
    BY <1>1, <1>2, <1>7, <1>14
  <2>2. t = <<>>
    <3>1. Len(t) = 0 /\ t \in Seq(Errands)
      BY <1>1, <1>3, <2>1
    <3> QED
      BY <3>1, EmptySeq
  <2>3. \A c \in Cameras : c \notin Left(r, "count")
    BY <1>8, <1>11, <1>14, <2>2, EmptyRoute
  <2> QED
    BY <2>2, <2>3 DEF Left
<1>15. \A e \in {"wipe", "count"} : Left(r, e) \subseteq Cameras /\ Left(t, e) \subseteq Cameras
  BY DEF Left
<1>16. ASSUME NEW e \in {"wipe", "count"}, h[1] = e
       PROVE  Left(t, e) = Left(r, e) \ {h[2]} /\ h[2] \in Left(r, e)
  BY <1>8, <1>11, <1>15, <1>16
<1>17. ASSUME NEW e \in {"wipe", "count"}, h[1] # e
       PROVE  Left(t, e) = Left(r, e)
  <2>1. \A c \in Cameras : c \in Left(t, e) <=> c \in Left(r, e)
    BY <1>11, <1>17
  <2> QED
    BY <1>15, <2>1
<1> QED
  BY <1>2, <1>8, <1>9, <1>12, <1>13, <1>14, <1>16, <1>17 DEF h, t

\* What Request puts together.
Program(o, wipe) ==
  (IF wipe THEN [i \in DOMAIN o |-> <<"wipe", o[i]>>] ELSE <<>>)
    \o [i \in DOMAIN o |-> <<"count", o[i]>>]
    \o << <<"run", o[1]>> >>

LEMMA RequestRoute ==
  ASSUME NEW wipe \in {TRUE, FALSE}
  PROVE  LET r == Program(Shots!CameraOrder, wipe)
         IN  /\ RouteShape(r) /\ r # <<>>
             /\ Left(r, "count") = Cameras /\ Left(r, "wipe") \in {{}, Cameras}
<1>1. PICK o : o = Shots!CameraOrder
  OBVIOUS
<1>2. PICK n \in Nat : n = Len(o)
  BY <1>1, OrderFacts
<1>3. o \in Seq(Cameras) /\ n > 0 /\ DOMAIN o = 1..n
  BY <1>1, <1>2, OrderFacts
<1>4. /\ \A i, j \in 1..n : o[i] = o[j] => i = j
      /\ \A c \in Cameras : \E i \in 1..n : o[i] = c
  BY <1>1, <1>3, OrderFacts
<1>5. \A i \in 1..n : o[i] \in Cameras
  BY <1>3
<1> DEFINE A == IF wipe THEN [i \in 1..n |-> <<"wipe", o[i]>>] ELSE <<>>
           B == [i \in 1..n |-> <<"count", o[i]>>]
           C == << <<"run", o[1]>> >>
           k == IF wipe THEN n ELSE 0
           r == Program(o, wipe)
<1>6. A \in Seq(Errands) /\ Len(A) = k /\ k \in Nat
  BY <1>2, <1>5 DEF Errands
<1>7. B \in Seq(Errands) /\ Len(B) = n
  BY <1>2, <1>5 DEF Errands
<1>8. C \in Seq(Errands) /\ Len(C) = 1 /\ C[1] = <<"run", o[1]>>
  BY <1>3, <1>5 DEF Errands
<1>9. r = (A \o B) \o C
  BY <1>3 DEF Program
<1>10. \A i \in 1..k : A[i] = <<"wipe", o[i]>> /\ i \in 1..n
  BY <1>2, <1>6
<1>11. \A i \in 1..n : B[i] = <<"count", o[i]>>
  OBVIOUS
<1> HIDE DEF A, B, C, r, k
<1>12. A \o B \in Seq(Errands) /\ Len(A \o B) = k + n
  BY <1>2, <1>6, <1>7
<1>13. r \in Seq(Errands) /\ Len(r) = k + n + 1 /\ DOMAIN r = 1..(k + n + 1)
  <2>1. r \in Seq(Errands) /\ Len(r) = Len(A \o B) + Len(C)
    BY <1>8, <1>9, <1>12, ConcatProperties
  <2>2. Len(r) = k + n + 1
    BY <1>8, <1>12, <2>1
  <2> QED
    BY <2>1, <2>2
<1>14. \A i \in 1..(k + n + 1) : r[i] = IF i <= k + n THEN (A \o B)[i] ELSE C[i - (k + n)]
  <2>1. PICK d \in Seq(Errands), e \in Seq(Errands) :
          d = A \o B /\ Len(d) = k + n /\ e = C /\ Len(e) = 1 /\ r = d \o e
    BY <1>8, <1>9, <1>12
  <2>2. \A i \in 1..(Len(d) + Len(e)) : (d \o e)[i] = IF i <= Len(d) THEN d[i] ELSE e[i - Len(d)]
    BY ConcatProperties
  <2>3. Len(d) + Len(e) = k + n + 1
    BY <2>1
  <2> QED
    BY <2>1, <2>2, <2>3
<1>15. \A i \in 1..(k + n) : (A \o B)[i] = IF i <= k THEN A[i] ELSE B[i - k]
  BY <1>6, <1>7, ConcatProperties
<1>16. /\ \A i \in 1..k : r[i] = <<"wipe", o[i]>> /\ i \in 1..n
       /\ \A i \in 1..n : r[k + i] = <<"count", o[i]>>
       /\ r[k + n + 1] = <<"run", o[1]>>
  <2>1. ASSUME NEW i \in 1..k PROVE r[i] = <<"wipe", o[i]>> /\ i \in 1..n
    <3>1. i \in 1..(k + n + 1) /\ i \in 1..(k + n) /\ i <= k /\ i <= k + n
      BY <1>2, <1>6
    <3> QED
      BY <1>10, <1>14, <1>15, <3>1
  <2>2. ASSUME NEW i \in 1..n PROVE r[k + i] = <<"count", o[i]>>
    <3>1. k + i \in 1..(k + n + 1) /\ k + i \in 1..(k + n) /\ ~(k + i <= k) /\ k + i <= k + n /\ (k + i) - k = i
      BY <1>2, <1>6
    <3> QED
      BY <1>11, <1>14, <1>15, <3>1
  <2>3. r[k + n + 1] = <<"run", o[1]>>
    <3>1. k + n + 1 \in 1..(k + n + 1) /\ ~(k + n + 1 <= k + n) /\ (k + n + 1) - (k + n) = 1
      BY <1>2, <1>6
    <3> QED
      BY <1>8, <1>14, <3>1
  <2> QED
    BY <2>1, <2>2, <2>3
<1>17. ASSUME NEW i \in DOMAIN r
       PROVE  \/ i \in 1..k
              \/ \E a \in 1..n : i = k + a
              \/ i = k + n + 1
  <2>1. i \in Nat /\ i >= 1 /\ i <= k + n + 1
    BY <1>2, <1>6, <1>13
  <2>2. CASE i > k /\ i <= k + n
    <3>1. i - k \in 1..n /\ i = k + (i - k)
      BY <1>2, <1>6, <2>1, <2>2
    <3> QED
      BY <3>1
  <2> QED
    BY <1>2, <1>6, <2>1, <2>2, SMTT(30)
<1>18. \A i, j \in DOMAIN r : r[i] = r[j] => i = j
  <2> SUFFICES ASSUME NEW i \in DOMAIN r, NEW j \in DOMAIN r, r[i] = r[j] PROVE i = j
    OBVIOUS
  <2>1. CASE i \in 1..k
    BY <1>4, <1>16, <1>17, <2>1
  <2>2. ASSUME NEW a \in 1..n, i = k + a PROVE i = j
    BY <1>4, <1>16, <1>17, <2>2
  <2>3. CASE i = k + n + 1
    BY <1>16, <1>17, <2>3
  <2> QED
    BY <1>17, <2>1, <2>2, <2>3
<1>19. \A i, j \in DOMAIN r : i < j /\ r[j][1] = "wipe" => r[i][1] = "wipe"
  <2> SUFFICES ASSUME NEW i \in DOMAIN r, NEW j \in DOMAIN r, i < j, r[j][1] = "wipe" PROVE r[i][1] = "wipe"
    OBVIOUS
  <2>1. j \in 1..k
    BY <1>16, <1>17
  <2>2. i \in 1..k
    BY <1>6, <1>13, <2>1
  <2> QED
    BY <1>16, <2>2
<1>20. \A i \in DOMAIN r : r[i][1] = "run" <=> i = Len(r)
  <2> SUFFICES ASSUME NEW i \in DOMAIN r PROVE r[i][1] = "run" <=> i = k + n + 1
    BY <1>13
  <2>1. CASE i \in 1..k
    BY <1>2, <1>6, <1>16, <2>1
  <2>2. ASSUME NEW a \in 1..n, i = k + a PROVE r[i][1] = "run" <=> i = k + n + 1
    <3>1. r[i][1] = "count"
      BY <1>16, <2>2
    <3>2. i # k + n + 1
      BY <1>2, <1>6, <2>2
    <3> QED
      BY <3>1, <3>2
  <2>3. CASE i = k + n + 1
    BY <1>16, <2>3
  <2> QED
    BY <1>17, <2>1, <2>2, <2>3
<1>21. Left(r, "count") = Cameras
  <2> SUFFICES ASSUME NEW c \in Cameras PROVE \E i \in DOMAIN r : r[i] = <<"count", c>>
    BY DEF Left
  <2>1. PICK a \in 1..n : o[a] = c
    BY <1>4
  <2>2. k + a \in DOMAIN r
    BY <1>2, <1>6, <1>13
  <2> QED
    BY <1>16, <2>1, <2>2
<1>22. Left(r, "wipe") \in {{}, Cameras}
  <2>1. CASE wipe
    <3> SUFFICES ASSUME NEW c \in Cameras PROVE \E i \in DOMAIN r : r[i] = <<"wipe", c>>
      BY DEF Left
    <3>1. PICK a \in 1..n : o[a] = c
      BY <1>4
    <3>2. a \in 1..k /\ a \in DOMAIN r
      BY <1>2, <1>13, <2>1 DEF k
    <3> QED
      BY <1>16, <3>1, <3>2
  <2>2. CASE ~wipe
    <3>1. ~\E i : i \in 1..k
      BY <2>2 DEF k
    <3>2. \A i \in DOMAIN r : r[i][1] # "wipe"
      BY <1>16, <1>17, <3>1
    <3>3. \A c \in Cameras : \A i \in DOMAIN r : r[i] # <<"wipe", c>>
      BY <3>2
    <3> QED
      BY <3>3 DEF Left
  <2> QED
    BY <2>1, <2>2
<1>23. r # <<>>
  BY <1>2, <1>6, <1>13
<1> QED
  BY <1>1, <1>13, <1>18, <1>19, <1>20, <1>21, <1>22, <1>23 DEF RouteShape, r

-----------------------------------------------------------------------------
LEMMA InitShotsInv == Shots!CaptureInit => ShotsInv
<1> SUFFICES ASSUME Shots!CaptureInit PROVE ShotsInv
  OBVIOUS
<1>0. /\ phase \in {"intrinsic", "floor"} /\ now = 1 /\ board = 1 /\ mishap = FALSE
      /\ made = 0 /\ current = 0 /\ route = <<>> /\ stopped = {}
  BY Zenon DEF Shots!CaptureInit
<1>f. /\ place = [w \in Workers |-> "none"] /\ view = [w \in Workers |-> 0]
      /\ count = [w \in Workers |-> 0] /\ ready = [w \in Workers |-> NoShot]
      /\ kept = [w \in Workers |-> {}] /\ saving = [s \in Sessions |-> <<>>]
      /\ pairs = [s \in Sessions |-> 0] /\ late = [s \in Sessions |-> 0]
      /\ disk = [c \in Cameras |-> [i \in 0..Target |-> NoShot]]
  BY SameNames, Zenon DEF Shots!CaptureInit
<1>1. NoShot \in Snapshots
  BY DEF NoShot, Snapshots
<1>2. CaptureTypes
  <2>1. /\ phase \in {"intrinsic", "floor"} /\ now \in Nat /\ now > 0 /\ board \in Nat
        /\ mishap \in BOOLEAN
    <3>1. phase \in {"intrinsic", "floor"} /\ mishap \in BOOLEAN
      BY <1>0, Zenon
    <3>2. now \in Nat /\ now > 0 /\ board \in Nat
      BY <1>0
    <3> QED
      BY <3>1, <3>2
  <2>2. made \in 0..MaxSessions
    BY <1>0, ShotConstants
  <2>3. /\ place \in [Workers -> Places] /\ view \in [Workers -> Nat]
        /\ count \in [Workers -> Nat] /\ ready \in [Workers -> Snapshots]
        /\ kept \in [Workers -> SUBSET Nat]
        /\ pairs \in [Sessions -> Nat] /\ late \in [Sessions -> Nat]
    BY <1>f, <1>1 DEF Places
  <2>4. saving \in [Sessions -> Seq(Cameras)] /\ disk \in [Cameras -> [0..Target -> Snapshots]]
    BY <1>f, <1>1
  <2> QED
    BY <2>1, <2>2, <2>3, <2>4 DEF CaptureTypes
<1>3. \A c \in Cameras : Files(c) = {}
  BY <1>f DEF Files
<1>4. \A s \in Sessions : saving[s] = <<>> /\ late[s] = 0
  BY <1>f
<1>n. 0 \notin Sessions
  BY DEF Sessions
<1>5. \A w \in Workers : place[w] = "none" /\ ready[w] = NoShot /\ kept[w] = {} /\ count[w] = 0
  BY <1>f
<1>6. SessionInv /\ CommitInv /\ LimitInv /\ GateInv
  <2>1. made = 0 /\ current = 0 /\ route = <<>> /\ stopped = {}
    BY <1>0
  <2>2. SessionInv
    BY <1>5, <2>1 DEF SessionInv
  <2>3. CommitInv
    <3>1. /\ \A s \in Sessions : \A c \in Cameras : place[<<s, c>>] = "none"
          /\ \A w \in Workers : place[w] \notin {"try", "commit"}
          /\ \A s \in Sessions : ~\E i : i \in DOMAIN saving[s]
      BY <1>4, <1>5, SameNames
    <3> QED
      BY <1>4, <3>1, Zenon DEF CommitInv
  <2>4. LimitInv
    <3>1. /\ \A w \in Workers : count[w] <= Target /\ place[w] # "seen"
          /\ \A s \in Sessions : late[s] <= 1
      BY <1>4, <1>5, ShotConstants
    <3> QED
      BY <1>3, <3>1 DEF LimitInv
  <2>5. GateInv
    <3>1. \A s \in Sessions : \A c \in Cameras : place[<<s, c>>] = "none"
      BY <1>5, SameNames
    <3> QED
      BY <1>3, <3>1 DEF GateInv, Gated
  <2> QED
    BY <2>2, <2>3, <2>4, <2>5
<1>7. \A s \in Sessions : ~Live(s)
  <2>1. \A s \in Sessions : \A c \in Cameras : ~Active(<<s, c>>)
    BY <1>5, SameNames DEF Active
  <2>2. current = 0
    BY <1>0
  <2> QED
    BY <1>n, <2>1, <2>2 DEF Live
<1>8. Settled /\ OneSaves
  BY <1>0, <1>4, <1>7, EmptyRoute DEF Settled, OneSaves
<1>9. Lined(0)
  <2>1. \A c \in Cameras : Level(0, c) = 0
    BY <1>4 DEF Level, Ahead
  <2>2. FilesAt(0) /\ CountsAt(0) /\ FullAt(0) /\ MomentsAt(0)
    <3>1. route = <<>> /\ current = 0 /\ ~\E i : i \in 0..(0 - 1)
      BY <1>0
    <3>2. FilesAt(0)
      BY <1>3, <2>1, <3>1 DEF FilesAt
    <3>3. CountsAt(0) /\ FullAt(0)
      BY <1>7, <3>1 DEF CountsAt, FullAt
    <3>4. MomentsAt(0)
      BY <1>4, <3>1 DEF MomentsAt
    <3> QED
      BY <3>2, <3>3, <3>4
  <2> QED
    BY <2>2 DEF Lined
<1>10. PairsInv
  BY <1>8, <1>9, ShotConstants DEF PairsInv
<1> QED
  BY <1>2, <1>6, <1>10 DEF ShotsInv

\* A commit is the work of a session that may still save.
LEMMA SavingLive ==
  ASSUME CommitInv, NEW s \in Sessions, saving[s] # <<>>
  PROVE  Live(s)
  BY DEF CommitInv, Live, Active

LEMMA PairsSame ==
  ASSUME PairsInv, UNCHANGED <<phase, mishap, route, made, current, stopped, place, count, ready,
                               saving, pairs, late, disk>>
  PROVE  PairsInv'
<1>1. \A c : Files(c)' = Files(c)
  BY DEF Files
<1>2. \A s : Live(s)' = Live(s) /\ Spent(s)' = Spent(s)
  BY DEF Live, Active, Spent, Unsaved
<1>3. \A w : Active(w)' = Active(w)
  BY DEF Active
<1>4. \A s : Unsaved(s)' = Unsaved(s)
  BY DEF Unsaved
<1>5. \A n, c : Level(n, c)' = Level(n, c)
  BY DEF Level, Ahead, Unsaved
<1>6. \A n, s, c : Moment(n, s, c)' = Moment(n, s, c)
  BY <1>4 DEF Moment
<1>7. Settled' = Settled /\ OneSaves' = OneSaves
  BY <1>2, <1>3 DEF Settled, OneSaves
<1>8. ASSUME NEW n, Lined(n) PROVE Lined(n)'
  <2>1. FilesAt(n)'
    BY <1>1, <1>5, <1>8 DEF Lined, FilesAt
  <2>2. CountsAt(n)' /\ FullAt(n)'
    BY <1>2, <1>5, <1>8 DEF Lined, CountsAt, FullAt
  <2>3. MomentsAt(n)'
    BY <1>4, <1>6, <1>8 DEF Lined, MomentsAt
  <2> QED
    BY <2>1, <2>2, <2>3 DEF Lined
<1> QED
  BY <1>7, <1>8 DEF PairsInv

LEMMA CaptureSame ==
  ASSUME ShotsInv, UNCHANGED shotsVars
  PROVE  ShotsInv'
<1> USE DEF shotsVars
<1>1. PairsInv'
  BY PairsSame DEF ShotsInv
<1>2. CaptureTypes'
  BY DEF ShotsInv, CaptureTypes
<1>3. SessionInv'
  BY DEF ShotsInv, SessionInv
<1>4. CommitInv'
  <2>1. \A s : Unsaved(s)' = Unsaved(s)
    BY DEF Unsaved
  <2> QED
    BY <2>1 DEF ShotsInv, CommitInv
<1>5. LimitInv' /\ GateInv'
  <2>1. \A c : Files(c)' = Files(c)
    BY DEF Files
  <2> QED
    BY <2>1 DEF ShotsInv, LimitInv, GateInv, Gated
<1> QED
  BY <1>1, <1>2, <1>3, <1>4, <1>5 DEF ShotsInv

LEMMA TickStep == ASSUME ShotsInv, Shots!Tick PROVE ShotsInv'
<1>1. /\ UNCHANGED <<phase, made, current, route, stopped, place, view, count, ready, kept,
                     saving, pairs, late, disk, mishap>>
      /\ now' = now + 1 /\ board' \in {board, board + 1}
  BY DEF Shots!Tick, Shots!sessionVars, Shots!workerVars, Shots!pairVars
<1>2. CaptureTypes'
  BY <1>1 DEF ShotsInv, CaptureTypes
<1>3. SessionInv' /\ CommitInv'
  BY <1>1 DEF ShotsInv, SessionInv, CommitInv, Unsaved
<1>4. LimitInv' /\ GateInv'
  <2>1. \A c : Files(c)' = Files(c)
    BY <1>1 DEF Files
  <2> QED
    BY <1>1, <2>1 DEF ShotsInv, LimitInv, GateInv, Gated
<1>5. PairsInv'
  BY <1>1, PairsSame DEF ShotsInv
<1> QED
  BY <1>2, <1>3, <1>4, <1>5 DEF ShotsInv

-----------------------------------------------------------------------------
(* A worker without a shot.                                                  *)

\* A session that runs was not told to stop.
LEMMA RunningLive ==
  ASSUME SessionInv, NEW s \in Sessions, NEW c \in Cameras, place[<<s, c>>] # "none", s \notin stopped
  PROVE  s = current /\ route = <<>> /\ Live(s)
<1>1. <<s, c>> \in Workers /\ <<s, c>>[1] = s
  BY SameNames
<1>2. s <= made /\ (s = made => route = <<>>)
  BY <1>1 DEF SessionInv
<1>3. s \in 1..made
  <2>1. s \in Nat /\ s >= 1
    BY ShotConstants DEF Sessions
  <2> QED
    BY <1>2, <2>1
<1> QED
  BY <1>2, <1>3 DEF SessionInv, Live

\* The worker looks, and waits, ends or goes on with a placement that is new to it.
LEMMA LookedStep ==
  ASSUME ShotsInv, NEW s \in Sessions, NEW c \in Cameras, NEW p \in {"over", "seen"},
         place[<<s, c>>] = "look", place' = [place EXCEPT ![<<s, c>>] = p],
         view' = IF p = "seen" THEN [view EXCEPT ![<<s, c>>] = board] ELSE view,
         p = "seen" => s \notin stopped /\ count[<<s, c>>] < Target /\ board \notin kept[<<s, c>>],
         UNCHANGED <<phase, now, board, made, current, route, stopped, count, ready, kept,
                     saving, pairs, late, disk, mishap>>
  PROVE  ShotsInv'
<1> DEFINE w == <<s, c>>
<1>1. w \in Workers
  BY SameNames
<1>2. place \in [Workers -> Places] /\ view \in [Workers -> Nat]
  BY DEF ShotsInv, CaptureTypes
<1>3. \A v \in Workers : place'[v] = IF v = w THEN p ELSE place[v]
  BY <1>1, <1>2
<1>4. \A v \in Workers : view'[v] = IF v = w /\ p = "seen" THEN board ELSE view[v]
  BY <1>1, <1>2
<1>5. \A t \in Sessions : \A d \in Cameras : <<t, d>> \in Workers
  BY SameNames
<1> HIDE DEF w
<1>6. /\ \A x : Files(x)' = Files(x)
      /\ \A x : Unsaved(x)' = Unsaved(x)
      /\ \A n, x : Level(n, x)' = Level(n, x)
      /\ \A n, t, x : Moment(n, t, x)' = Moment(n, t, x)
  BY DEF Files, Unsaved, Level, Ahead, Moment
<1>7. CaptureTypes'
  <2>1. place' \in [Workers -> Places]
    BY <1>2 DEF Places
  <2>2. view' \in [Workers -> Nat]
    BY <1>2 DEF ShotsInv, CaptureTypes
  <2> QED
    BY <2>1, <2>2 DEF ShotsInv, CaptureTypes
<1>8. SessionInv'
  <2>1. \A v \in Workers : (place'[v] # "none" <=> place[v] # "none")
    BY <1>3 DEF w
  <2> QED
    BY <2>1, Zenon DEF ShotsInv, SessionInv
<1>9. CommitInv'
  <2>1. \A v \in Workers : /\ place'[v] = "commit" <=> place[v] = "commit"
                           /\ place'[v] = "try" <=> place[v] = "try"
    BY <1>3 DEF w
  <2> QED
    <3>1. \A t \in Sessions : \A d \in Cameras : place'[<<t, d>>] = "commit" <=> place[<<t, d>>] = "commit"
      BY <1>5, <2>1
    <3>2. phase' = "intrinsic" => \A v \in Workers : place'[v] \notin {"try", "commit"}
      BY <2>1 DEF ShotsInv, CommitInv
    <3> QED
      BY <1>6, <3>1, <3>2 DEF ShotsInv, CommitInv
<1>10. LimitInv'
  <2>1. \A v \in Workers : place'[v] = "seen" => place[v] = "seen" \/ count[v] < Target
    BY <1>3 DEF w
  <2> QED
    BY <1>6, <2>1 DEF ShotsInv, LimitInv
<1>11. GateInv'
  <2>1. \A v \in Workers : /\ place'[v] = "seen" => \/ place[v] = "seen" /\ view'[v] = view[v]
                                                   \/ view'[v] \notin kept[v]
                           /\ place'[v] = "none" => place[v] = "none"
                           /\ place'[v] # "over" => place[v] # "over"
    BY <1>3, <1>4 DEF w
  <2> QED
    <3> SUFFICES ASSUME phase = "intrinsic", NEW t \in Sessions, NEW d \in Cameras PROVE Gated(t, d)'
      BY DEF GateInv
    <3>1. Gated(t, d)
      BY DEF ShotsInv, GateInv
    <3>2. /\ place'[<<t, d>>] = "seen" => view'[<<t, d>>] \notin kept[<<t, d>>]
          /\ place[<<t, d>>] # "none" => place'[<<t, d>>] # "none"
          /\ place'[<<t, d>>] # "over" => place[<<t, d>>] # "over"
      BY <1>5, <2>1, <3>1 DEF Gated
    <3> QED
      BY <1>6, <3>1, <3>2 DEF Gated
<1>12. ASSUME p = "seen" PROVE s = current /\ route = <<>> /\ Live(s) /\ s \notin stopped
  BY <1>12, RunningLive DEF ShotsInv
<1>13. \A v \in Workers : v # w \/ p = "over" => (Active(v)' <=> Active(v))
  BY <1>3 DEF Active, w
<1>14. \A t \in Sessions : Live(t)' <=> Live(t)
  <2> SUFFICES ASSUME NEW t \in Sessions PROVE Live(t)' <=> Live(t)
    OBVIOUS
  <2>1. CASE t = s /\ p = "seen"
    BY <1>12, <2>1 DEF Live
  <2>2. CASE ~(t = s /\ p = "seen")
    <3>1. \A d \in Cameras : Active(<<t, d>>)' <=> Active(<<t, d>>)
      BY <1>5, <1>13, <2>2 DEF w
    <3> QED
      BY <3>1 DEF Live
  <2> QED
    BY <2>1, <2>2
<1>15. ASSUME NEW t \in Sessions, Spent(t), t # s \/ p = "over" PROVE Spent(t)'
  <2>1. \A d \in Cameras :  /\ place[<<t, d>>] \in {"look", "over"} => place'[<<t, d>>] \in {"look", "over"}
                            /\ place[<<t, d>>] = "commit" => place'[<<t, d>>] = "commit"
    BY <1>3, <1>5, <1>15 DEF w
  <2> QED
    BY <1>6, <1>15, <2>1 DEF Spent
<1>16. ASSUME phase = "floor", ~mishap PROVE PairsInv'
  <2>1. Settled /\ OneSaves
    BY <1>16 DEF ShotsInv, PairsInv
  <2>2. Settled'
    BY <1>12, <1>13, <2>1 DEF Settled
  <2>3. OneSaves'
    <3>1. ASSUME NEW t \in Sessions, late[t] = 1 PROVE t \in stopped /\ Spent(t)'
      <4>1. t \in stopped /\ Spent(t)
        BY <2>1, <3>1 DEF OneSaves
      <4> QED
        BY <1>12, <1>15, <4>1
    <3> QED
      BY <1>14, <2>1, <3>1 DEF OneSaves
  <2>4. PICK n \in 0..Target : Lined(n)
    BY <1>16 DEF ShotsInv, PairsInv
  <2>5. FilesAt(n)' /\ CountsAt(n)' /\ MomentsAt(n)'
    BY <1>6, <1>14, <2>4 DEF Lined, FilesAt, CountsAt, MomentsAt
  <2>6. FullAt(n)'
    <3> SUFFICES ASSUME n = Target, NEW t \in Sessions, Live(t) PROVE saving[t] = <<>> /\ Spent(t)'
      BY <1>14 DEF FullAt
    <3>1. \A x \in Sessions : Live(x) => saving[x] = <<>> /\ Spent(x)
      BY <2>4 DEF Lined, FullAt
    <3>2. p # "seen"
      <4> SUFFICES ASSUME p = "seen" PROVE FALSE
        OBVIOUS
      <4>1. \A x \in Sessions : saving[x] = <<>>
        BY <3>1, SavingLive DEF ShotsInv
      <4>2. Level(n, c) = n
        BY <4>1 DEF Level, Ahead
      <4>3. count[<<s, c>>] = n /\ count[<<s, c>>] < Target
        BY <1>12, <2>4, <4>2 DEF Lined, CountsAt
      <4> QED
        BY <4>3, ShotConstants
    <3> QED
      BY <1>15, <3>1, <3>2
  <2> QED
    BY <2>2, <2>3, <2>5, <2>6 DEF PairsInv, Lined
<1>17. PairsInv'
  BY <1>16 DEF PairsInv
<1> QED
  BY <1>7, <1>8, <1>9, <1>10, <1>11, <1>17 DEF ShotsInv

LEMMA SourceEndsStep ==
  ASSUME ShotsInv, NEW w \in Workers, Shots!SourceEnds(w)
  PROVE  ShotsInv'
<1>1. PICK s \in Sessions, c \in Cameras : w = <<s, c>>
  BY SameNames
<1>2. /\ place[<<s, c>>] = "look" /\ place' = [place EXCEPT ![<<s, c>>] = "over"]
      /\ UNCHANGED <<phase, now, board, made, current, route, stopped, view, count, ready, kept,
                     saving, pairs, late, disk, mishap>>
  BY <1>1 DEF Shots!SourceEnds, Shots!Goto, Shots!world, Shots!sessionVars, Shots!pairVars
<1> QED
  BY <1>2, LookedStep

LEMMA LookStep ==
  ASSUME ShotsInv, NEW w \in Workers, Shots!Look(w)
  PROVE  ShotsInv'
<1>1. PICK s \in Sessions, c \in Cameras : w = <<s, c>>
  BY SameNames
<1>2. UNCHANGED <<phase, now, board, made, current, route, stopped, count, ready, kept,
                  saving, pairs, late, disk, mishap>>
  BY DEF Shots!Look, Shots!world, Shots!sessionVars, Shots!pairVars
<1>3. CASE s \in stopped
  <2>1. place[<<s, c>>] = "look" /\ place' = [place EXCEPT ![<<s, c>>] = "over"] /\ view' = view
    BY <1>1, <1>3 DEF Shots!Look, Shots!Goto
  <2> QED
    BY <1>2, <2>1, LookedStep
<1>4. CASE s \notin stopped
  <2>1. /\ place[<<s, c>>] = "look" /\ place' = [place EXCEPT ![<<s, c>>] = "seen"]
        /\ view' = [view EXCEPT ![<<s, c>>] = board]
        /\ board \notin kept[<<s, c>>] /\ count[<<s, c>>] < Target
    BY <1>1, <1>4 DEF Shots!Look, Shots!Goto, Shots!Wanted
  <2> QED
    BY <1>2, <1>4, <2>1, LookedStep
<1> QED
  BY <1>3, <1>4

-----------------------------------------------------------------------------
(* A worker with a shot.                                                     *)

\* What _save leaves of the worker's camera.
SavedAs(s, c, shot) ==
  /\ disk' \in [Cameras -> [0..Target -> Snapshots]] /\ mishap' \in BOOLEAN
  /\ count' \in [Workers -> Nat] /\ kept' \in [Workers -> SUBSET Nat]
  /\ \A v \in Workers : /\ count'[v] = IF v = <<s, c>> THEN count[v] + 1 ELSE count[v]
                        /\ kept'[v] = IF v = <<s, c>> THEN Shots!Learned(v, shot) ELSE kept[v]
  /\ \/ /\ mishap' = mishap
        /\ \A d \in Cameras : \A i \in 0..Target :
             disk'[d][i] = IF d = c /\ i = count[<<s, c>>] THEN shot ELSE disk[d][i]
        /\ \A d \in Cameras :
             Files(d)' = IF d = c THEN Files(d) \cup {count[<<s, c>>]} ELSE Files(d)
     \/ mishap' = TRUE /\ disk' = disk

LEMMA SavedFacts ==
  ASSUME CaptureTypes, NEW s \in Sessions, NEW c \in Cameras, NEW shot \in Snapshots, shot # NoShot,
         Shots!Saved(<<s, c>>, shot), count[<<s, c>>] < Target
  PROVE  SavedAs(s, c, shot)
<1> DEFINE w == <<s, c>>
<1>1. w \in Workers /\ w[1] = s /\ w[2] = c
  BY SameNames
<1>2. PICK k \in 0..Target : k = count[w] /\ k < Target
  <2>1. count[w] \in Nat
    BY <1>1 DEF CaptureTypes
  <2> QED
    BY <2>1, ShotConstants
<1>3. /\ count' = [count EXCEPT ![w] = @ + 1]
      /\ kept' = [kept EXCEPT ![w] = Shots!Learned(w, shot)]
      /\ \/ disk' = [disk EXCEPT ![c][k] = shot] /\ mishap' = mishap
         \/ mishap' = TRUE /\ disk' = disk
  BY <1>1, <1>2 DEF Shots!Saved
<1>4. /\ disk \in [Cameras -> [0..Target -> Snapshots]] /\ mishap \in BOOLEAN
      /\ count \in [Workers -> Nat] /\ kept \in [Workers -> SUBSET Nat]
  BY DEF CaptureTypes
<1> HIDE DEF w
<1>5. Shots!Learned(w, shot) \subseteq Nat
  <2>1. kept[w] \subseteq Nat /\ shot.shows \in Nat
    BY <1>1, <1>4 DEF Snapshots
  <2> QED
    BY <2>1 DEF Shots!Learned
<1>6. /\ count' \in [Workers -> Nat] /\ kept' \in [Workers -> SUBSET Nat]
      /\ \A v \in Workers : /\ count'[v] = IF v = w THEN count[v] + 1 ELSE count[v]
                            /\ kept'[v] = IF v = w THEN Shots!Learned(v, shot) ELSE kept[v]
  BY <1>1, <1>3, <1>4, <1>5
<1>7. CASE disk' = [disk EXCEPT ![c][k] = shot] /\ mishap' = mishap
  <2>1. disk' \in [Cameras -> [0..Target -> Snapshots]]
    BY <1>4, <1>7
  <2>2. \A d \in Cameras : \A i \in 0..Target : disk'[d][i] = IF d = c /\ i = k THEN shot ELSE disk[d][i]
    BY <1>4, <1>7
  <2>3. \A d \in Cameras : Files(d)' = IF d = c THEN Files(d) \cup {k} ELSE Files(d)
    BY <2>2 DEF Files
  <2> QED
    BY <1>2, <1>4, <1>6, <1>7, <2>1, <2>2, <2>3 DEF w, SavedAs
<1>8. CASE mishap' = TRUE /\ disk' = disk
  BY <1>4, <1>6, <1>8 DEF w, SavedAs
<1> QED
  BY <1>3, <1>7, <1>8

LEMMA SavedLimits ==
  ASSUME ShotsInv, NEW s \in Sessions, NEW c \in Cameras, NEW shot \in Snapshots, shot # NoShot,
         Shots!Saved(<<s, c>>, shot), count[<<s, c>>] < Target
  PROVE  /\ \A w \in Workers : count'[w] <= Target
         /\ \A d \in Cameras : Files(d)' \subseteq 0..(Target - 1)
<1>1. CaptureTypes /\ <<s, c>> \in Workers
  BY SameNames DEF ShotsInv
<1>s. SavedAs(s, c, shot)
  BY <1>1, SavedFacts
<1>2. \A w \in Workers : count[w] \in Nat /\ count[w] <= Target
  BY <1>1 DEF ShotsInv, LimitInv, CaptureTypes
<1>3. \A w \in Workers : count'[w] <= Target
  <2>1. \A v \in Workers : count'[v] = IF v = <<s, c>> THEN count[v] + 1 ELSE count[v]
    BY <1>s DEF SavedAs
  <2> QED
    BY <1>1, <1>2, <2>1, ShotConstants
<1>4. \A d \in Cameras : Files(d) \subseteq 0..(Target - 1)
  BY DEF ShotsInv, LimitInv
<1>5. \A d \in Cameras : Files(d)' \subseteq Files(d) \cup {count[<<s, c>>]}
  <2>1. CASE disk' = disk
    BY <2>1 DEF Files
  <2>2. CASE disk' # disk
    BY <1>s, <2>2 DEF SavedAs
  <2> QED
    BY <2>1, <2>2
<1>6. count[<<s, c>>] \in 0..(Target - 1)
  BY <1>1, <1>2, ShotConstants
<1> QED
  BY <1>3, <1>4, <1>5, <1>6

\* An intrinsic shot: it is new to the gate, which learns it.
LEMMA SnapStep ==
  ASSUME ShotsInv, NEW w \in Workers, Shots!Snap(w)
  PROVE  ShotsInv'
<1>1. PICK s \in Sessions, c \in Cameras : w = <<s, c>>
  BY SameNames
<1>2. w[1] = s /\ w[2] = c
  BY <1>1
<1> DEFINE shot == Shots!Shot(w)
<1>3. /\ phase = "intrinsic" /\ place[w] = "seen" /\ place' = [place EXCEPT ![w] = "look"]
      /\ Shots!Saved(w, shot) /\ view' = [view EXCEPT ![w] = 0]
      /\ UNCHANGED <<phase, now, board, made, current, route, stopped, ready, saving, pairs, late>>
  BY DEF Shots!Snap, Shots!Goto, Shots!world, Shots!sessionVars, Shots!pairVars
<1>4. CaptureTypes /\ count[w] < Target /\ Gated(s, c)
  BY <1>1, <1>3 DEF ShotsInv, LimitInv, GateInv
<1>5. /\ place \in [Workers -> Places] /\ view \in [Workers -> Nat] /\ now \in Nat /\ now > 0
  BY <1>4 DEF CaptureTypes
<1>6. shot = [at |-> now, shows |-> view[w], by |-> s] /\ shot \in Snapshots /\ shot # NoShot
  <2>1. shot = [at |-> now, shows |-> view[w], by |-> s] /\ s \in Nat /\ view[w] \in Nat
    BY <1>2, <1>5 DEF Shots!Shot, Sessions
  <2>2. shot.at # NoShot.at
    BY <1>5, <2>1 DEF NoShot
  <2> QED
    BY <1>5, <2>1, <2>2 DEF Snapshots
<1>s. SavedAs(s, c, shot)
  BY <1>1, <1>3, <1>4, <1>6, SavedFacts
<1>7. /\ disk' \in [Cameras -> [0..Target -> Snapshots]] /\ mishap' \in BOOLEAN
      /\ count' \in [Workers -> Nat] /\ kept' \in [Workers -> SUBSET Nat]
      /\ \A v \in Workers : kept'[v] = IF v = w THEN Shots!Learned(v, shot) ELSE kept[v]
      /\ \/ /\ \A d \in Cameras : \A i \in 0..Target :
                 disk'[d][i] = IF d = c /\ i = count[w] THEN shot ELSE disk[d][i]
            /\ \A d \in Cameras : Files(d)' = IF d = c THEN Files(d) \cup {count[w]} ELSE Files(d)
         \/ disk' = disk
  BY <1>1, <1>s DEF SavedAs
<1>8. \A v \in Workers : place'[v] = IF v = w THEN "look" ELSE place[v]
  BY <1>3, <1>5
<1>9. \A v \in Workers : view'[v] = IF v = w THEN 0 ELSE view[v]
  BY <1>3, <1>5
<1>10. kept'[w] = kept[w] \cup {shot.shows} /\ \A v \in Workers : v # w => kept'[v] = kept[v]
  BY <1>3, <1>7 DEF Shots!Learned
<1>11. \A t \in Sessions : \A d \in Cameras : <<t, d>> \in Workers
  BY SameNames
<1> HIDE DEF shot
<1>12. CaptureTypes'
  <2>1. place' \in [Workers -> Places] /\ view' \in [Workers -> Nat]
    BY <1>3, <1>5 DEF Places
  <2> QED
    BY <1>3, <1>4, <1>7, <2>1 DEF CaptureTypes
<1>13. SessionInv'
  <2>1. \A v \in Workers : /\ place'[v] # "none" <=> place[v] # "none"
                           /\ place'[v] = "none" => kept'[v] = kept[v]
    BY <1>3, <1>8, <1>10
  <2>2. SessionInv
    BY DEF ShotsInv
  <2> QED
    BY <1>3, <2>1, <2>2 DEF SessionInv
<1>14. CommitInv'
  <2>1. \A v \in Workers : place'[v] \notin {"try", "commit"} /\ place[v] \notin {"try", "commit"}
    BY <1>3, <1>8 DEF ShotsInv, CommitInv
  <2> QED
    BY <1>3, <1>11, <2>1 DEF ShotsInv, CommitInv, Unsaved
<1>15. LimitInv'
  <2>1. \A v \in Workers : place'[v] = "seen" => count'[v] < Target
    <3>1. \A v \in Workers : count'[v] = IF v = w THEN count[v] + 1 ELSE count[v]
      BY <1>1, <1>s DEF SavedAs
    <3> QED
      BY <1>3, <1>8, <3>1 DEF ShotsInv, LimitInv
  <2> QED
    BY <1>1, <1>3, <1>4, <1>6, <2>1, SavedLimits DEF ShotsInv, LimitInv
<1>16. ASSUME NEW t \in Sessions, NEW d \in Cameras PROVE Gated(t, d)'
  <2>1. Gated(t, d) /\ \A i \in Files(d) : i \in 0..Target
    BY <1>3 DEF ShotsInv, GateInv, Files
  <2>2. /\ place'[<<t, d>>] = "seen" => view'[<<t, d>>] \notin kept'[<<t, d>>]
        /\ place[<<t, d>>] # "none" => place'[<<t, d>>] # "none"
        /\ place'[<<t, d>>] # "over" => place[<<t, d>>] # "over"
        /\ kept[<<t, d>>] \subseteq kept'[<<t, d>>]
    BY <1>3, <1>8, <1>9, <1>10, <1>11, <2>1 DEF Gated
  <2>3. CASE disk' = disk
    <3>1. Files(d)' = Files(d)
      BY <2>3 DEF Files
    <3> QED
      BY <2>1, <2>2, <2>3, <3>1 DEF Gated
  <2>4. CASE disk' # disk /\ d # c
    <3>1. Files(d)' = Files(d) /\ \A i \in Files(d) : disk'[d][i] = disk[d][i]
      BY <1>7, <2>1, <2>4
    <3> QED
      BY <2>1, <2>2, <3>1 DEF Gated
  <2>5. CASE disk' # disk /\ d = c
    <3>1. PICK k : k = count[w]
      OBVIOUS
    <3>2. /\ Files(c)' = Files(c) \cup {k} /\ k \in 0..Target
          /\ \A i \in 0..Target : disk'[c][i] = IF i = k THEN shot ELSE disk[c][i]
      <4>1. k \in 0..Target
        BY <1>4, <3>1, ShotConstants DEF CaptureTypes
      <4> QED
        BY <1>7, <2>5, <3>1, <4>1
    <3>3. shot.by = s /\ shot.shows = view[w] /\ shot.shows \notin kept[w] /\ shot.shows \in kept'[w]
      BY <1>1, <1>3, <1>4, <1>6, <1>10 DEF Gated
    <3>4. ASSUME NEW i \in Files(c)', disk'[c][i].by = t
          PROVE  /\ place'[<<t, c>>] # "none"
                 /\ place'[<<t, c>>] # "over" => disk'[c][i].shows \in kept'[<<t, c>>]
      <4>1. CASE i = k
        BY <1>1, <1>8, <3>2, <3>3, <3>4, <4>1
      <4>2. CASE i # k
        BY <2>1, <2>2, <2>5, <3>2, <3>4, <4>2 DEF Gated
      <4> QED
        BY <4>1, <4>2
    <3>5. ASSUME NEW i \in Files(c)', NEW j \in Files(c)', i # j, disk'[c][i].by = t, disk'[c][j].by = t
          PROVE  disk'[c][i].shows # disk'[c][j].shows
      <4>1. ASSUME NEW x \in Files(c), x # k, disk[c][x].by = s PROVE disk[c][x].shows # shot.shows
        BY <1>1, <1>3, <1>4, <3>3, <4>1 DEF Gated
      <4>2. CASE i # k /\ j # k
        BY <2>1, <2>5, <3>2, <3>5, <4>2 DEF Gated
      <4>3. CASE i = k \/ j = k
        BY <2>1, <2>5, <3>2, <3>3, <3>5, <4>1, <4>3
      <4> QED
        BY <4>2, <4>3
    <3> QED
      BY <2>2, <2>5, <3>4, <3>5 DEF Gated
  <2> QED
    BY <2>3, <2>4, <2>5
<1>17. GateInv' /\ PairsInv'
  BY <1>3, <1>16 DEF GateInv, PairsInv
<1> QED
  BY <1>12, <1>13, <1>14, <1>15, <1>17 DEF ShotsInv

\* A shot for a pair: its camera is not being saved.
LEMMA StageStep ==
  ASSUME ShotsInv, NEW w \in Workers, Shots!Stage(w)
  PROVE  ShotsInv'
<1>1. PICK s \in Sessions, c \in Cameras : w = <<s, c>>
  BY SameNames
<1>2. w[1] = s /\ w[2] = c
  BY <1>1
<1> DEFINE shot == Shots!Shot(w)
<1>3. /\ phase = "floor" /\ place[w] = "seen" /\ place' = [place EXCEPT ![w] = "try"]
      /\ ready' = [ready EXCEPT ![w] = shot] /\ view' = [view EXCEPT ![w] = 0]
      /\ mishap' = (mishap \/ c \in Shots!ToSet(saving[s]))
      /\ UNCHANGED <<phase, now, board, made, current, route, stopped, count, kept, saving, pairs, late, disk>>
  BY <1>2 DEF Shots!Stage, Shots!Goto, Shots!world, Shots!sessionVars, Shots!pairVars
<1>4. /\ place \in [Workers -> Places] /\ view \in [Workers -> Nat] /\ now \in Nat /\ now > 0
      /\ ready \in [Workers -> Snapshots]
  BY DEF ShotsInv, CaptureTypes
<1>5. shot \in Snapshots /\ shot # NoShot
  <2>1. shot = [at |-> now, shows |-> view[w], by |-> s] /\ s \in Nat /\ view[w] \in Nat
    BY <1>2, <1>4 DEF Shots!Shot, Sessions
  <2>2. shot.at # NoShot.at
    BY <1>4, <2>1 DEF NoShot
  <2> QED
    BY <1>4, <2>1, <2>2 DEF Snapshots
<1> HIDE DEF shot
<1>6. /\ \A v \in Workers : place'[v] = IF v = w THEN "try" ELSE place[v]
      /\ \A v \in Workers : ready'[v] = IF v = w THEN shot ELSE ready[v]
  BY <1>3, <1>4
<1>7. \A t \in Sessions : \A d \in Cameras : <<t, d>> \in Workers
  BY SameNames
<1>8. /\ \A x : Files(x)' = Files(x)
      /\ \A x : Unsaved(x)' = Unsaved(x)
      /\ \A n, x : Level(n, x)' = Level(n, x)
  BY <1>3 DEF Files, Unsaved, Level, Ahead
<1>9. CaptureTypes'
  <2>1. place' \in [Workers -> Places] /\ view' \in [Workers -> Nat] /\ ready' \in [Workers -> Snapshots]
    BY <1>3, <1>4, <1>5 DEF Places
  <2>2. mishap' \in BOOLEAN
    BY <1>3 DEF ShotsInv, CaptureTypes
  <2> QED
    BY <1>3, <2>1, <2>2 DEF ShotsInv, CaptureTypes
<1>10. SessionInv'
  <2>1. \A v \in Workers : /\ place'[v] # "none" <=> place[v] # "none"
                           /\ place'[v] = "none" => ready'[v] = ready[v]
    BY <1>3, <1>6
  <2>2. SessionInv
    BY DEF ShotsInv
  <2> QED
    BY <1>3, <2>1, <2>2 DEF SessionInv
<1>11. CommitInv'
  <2>1. \A t \in Sessions : \A d \in Cameras :
          /\ place'[<<t, d>>] = "commit" <=> place[<<t, d>>] = "commit"
          /\ place[<<t, d>>] = "commit" => ready'[<<t, d>>] = ready[<<t, d>>]
    <3> SUFFICES ASSUME NEW t \in Sessions, NEW d \in Cameras
                 PROVE  /\ place'[<<t, d>>] = "commit" <=> place[<<t, d>>] = "commit"
                        /\ place[<<t, d>>] = "commit" => ready'[<<t, d>>] = ready[<<t, d>>]
      OBVIOUS
    <3>1. PICK v \in Workers : v = <<t, d>>
      BY <1>7
    <3>2. /\ place'[v] = "commit" <=> place[v] = "commit"
          /\ place[v] = "commit" => ready'[v] = ready[v]
      BY <1>3, <1>6
    <3> QED
      BY <3>1, <3>2
  <2>2. \A t \in Sessions : \A d \in Cameras : place'[<<t, d>>] = "commit" =>
          saving'[t] # <<>> /\ (d \in Unsaved(t)' \/ ready'[<<t, d>>] = NoShot)
    <3> SUFFICES ASSUME NEW t \in Sessions, NEW d \in Cameras, place'[<<t, d>>] = "commit"
                 PROVE  saving'[t] # <<>> /\ (d \in Unsaved(t)' \/ ready'[<<t, d>>] = NoShot)
      OBVIOUS
    <3>1. place[<<t, d>>] = "commit" /\ ready'[<<t, d>>] = ready[<<t, d>>]
      BY <2>1
    <3>2. saving[t] # <<>> /\ (d \in Unsaved(t) \/ ready[<<t, d>>] = NoShot)
      BY <3>1 DEF ShotsInv, CommitInv
    <3>3. saving' = saving /\ Unsaved(t)' = Unsaved(t)
      BY <1>3, <1>8
    <3> QED
      BY <3>1, <3>2, <3>3
  <2>3. \A t \in Sessions : saving'[t] # <<>> => \E d \in Cameras : place'[<<t, d>>] = "commit"
    BY <1>3, <2>1 DEF ShotsInv, CommitInv
  <2>4. CommitInv
    BY DEF ShotsInv
  <2> QED
    BY <1>3, <2>1, <2>2, <2>3, <2>4 DEF CommitInv
<1>12. LimitInv' /\ GateInv'
  BY <1>3, <1>8 DEF ShotsInv, LimitInv, GateInv
<1>13. /\ \A v \in Workers : Active(v)' <=> Active(v)
       /\ \A t \in Sessions : Live(t)' <=> Live(t)
  <2>1. \A v \in Workers : Active(v)' <=> Active(v)
    BY <1>3, <1>6 DEF Active
  <2> QED
    BY <1>3, <1>7, <2>1 DEF Live
<1>14. ASSUME NEW t \in Sessions, Spent(t) PROVE Spent(t)'
  <2>1. \A d \in Cameras :
          place[<<t, d>>] \in {"look", "over", "commit"} =>
            place'[<<t, d>>] = place[<<t, d>>] /\ ready'[<<t, d>>] = ready[<<t, d>>]
    BY <1>3, <1>6, <1>7
  <2> QED
    BY <1>14, <2>1 DEF Spent
<1>15. ASSUME ~mishap' PROVE PairsInv'
  <2>1. ~mishap /\ c \notin Unsaved(s)
    BY <1>3, <1>15 DEF Unsaved, Shots!ToSet
  <2>2. Settled /\ OneSaves
    BY <1>3, <2>1 DEF ShotsInv, PairsInv
  <2>3. Settled' /\ OneSaves'
    BY <1>3, <1>13, <1>14, <2>2 DEF Settled, OneSaves
  <2>4. PICK n \in 0..Target : Lined(n)
    BY <1>3, <2>1 DEF ShotsInv, PairsInv
  <2>5. FilesAt(n)' /\ CountsAt(n)' /\ FullAt(n)'
    BY <1>3, <1>8, <1>13, <1>14, <2>4 DEF Lined, FilesAt, CountsAt, FullAt
  <2>6. \A t \in Sessions : \A d \in Unsaved(t) : ready'[<<t, d>>] = ready[<<t, d>>]
    <3>1. \A t \in Sessions : Unsaved(t) \subseteq Cameras
      BY DEF ShotsInv, CaptureTypes, Unsaved
    <3> QED
      BY <1>1, <1>6, <1>7, <2>1, <3>1
  <2>7. \A t \in Sessions : \A d \in Cameras : Moment(n, t, d)' = Moment(n, t, d)
    <3> SUFFICES ASSUME NEW t \in Sessions, NEW d \in Cameras PROVE Moment(n, t, d)' = Moment(n, t, d)
      OBVIOUS
    <3>1. CASE d \in Unsaved(t)
      BY <1>8, <2>6, <3>1 DEF Moment
    <3>2. CASE d \notin Unsaved(t)
      BY <1>3, <1>8, <3>2 DEF Moment
    <3> QED
      BY <3>1, <3>2
  <2>8. MomentsAt(n)'
    BY <1>3, <1>8, <2>4, <2>6, <2>7 DEF Lined, MomentsAt
  <2> QED
    BY <2>3, <2>5, <2>8 DEF PairsInv, Lined
<1>16. PairsInv'
  BY <1>15 DEF PairsInv
<1> QED
  BY <1>9, <1>10, <1>11, <1>12, <1>16 DEF ShotsInv

\* The lock is free: all cameras of the session are staged, or the worker looks again.
LEMMA TryStep ==
  ASSUME ShotsInv, phase = "floor" => ~mishap, NEW w \in Workers, Shots!Try(w)
  PROVE  ShotsInv'
<1>1. PICK s \in Sessions, c \in Cameras : w = <<s, c>>
  BY SameNames
<1>2. w[1] = s /\ w[2] = c
  BY <1>1
<1>3. /\ place[w] = "try" /\ saving[s] = <<>>
      /\ UNCHANGED <<phase, now, board, made, current, route, stopped, view, count, ready, kept, pairs,
                     disk, mishap>>
  BY <1>2 DEF Shots!Try, Shots!world, Shots!sessionVars
<1>4. phase = "floor" /\ ~mishap
  BY <1>3 DEF ShotsInv, CommitInv, CaptureTypes
<1>5. /\ place \in [Workers -> Places] /\ late \in [Sessions -> Nat]
      /\ saving \in [Sessions -> Seq(Cameras)] /\ ready \in [Workers -> Snapshots]
  BY DEF ShotsInv, CaptureTypes
<1>6. \A t \in Sessions : \A d \in Cameras : <<t, d>> \in Workers
  BY SameNames
<1>7. Settled /\ OneSaves
  BY <1>4 DEF ShotsInv, PairsInv
<1>8. PICK n \in 0..Target : Lined(n)
  BY <1>4 DEF ShotsInv, PairsInv
<1>9. \A x : Files(x)' = Files(x)
  BY <1>3 DEF Files
<1>10. \A d \in Cameras : place[<<s, d>>] # "commit"
  BY <1>3 DEF ShotsInv, CommitInv
<1>11. Live(s)
  BY <1>1, <1>3 DEF Live, Active
<1>12. ASSUME NEW p \in {"look", "commit"}, place' = [place EXCEPT ![w] = p]
       PROVE  /\ place' \in [Workers -> Places]
              /\ \A v \in Workers : place'[v] = IF v = w THEN p ELSE place[v]
              /\ SessionInv' /\ GateInv'
              /\ \A v \in Workers : Active(v)' => Active(v)
              /\ \A t \in Sessions : Live(t)' => Live(t)
              /\ \A t \in Sessions : Spent(t) => Spent(t)'
  <2>1. /\ place' \in [Workers -> Places]
        /\ \A v \in Workers : place'[v] = IF v = w THEN p ELSE place[v]
    BY <1>5, <1>12 DEF Places
  <2>2. SessionInv'
    <3>1. \A v \in Workers : place'[v] # "none" <=> place[v] # "none"
      BY <1>3, <2>1
    <3>2. SessionInv
      BY DEF ShotsInv
    <3> QED
      BY <1>3, <3>1, <3>2 DEF SessionInv
  <2>3. GateInv'
    BY <1>3, <1>4 DEF GateInv
  <2>4. \A v \in Workers : Active(v)' => Active(v)
    BY <1>3, <2>1 DEF Active
  <2>5. \A t \in Sessions : Live(t)' => Live(t)
    BY <1>3, <1>6, <2>4 DEF Live
  <2>6. ASSUME NEW t \in Sessions, Spent(t) PROVE Spent(t)'
    <3>1. \A d \in Cameras : place[<<t, d>>] \in {"look", "over", "commit"} => place'[<<t, d>>] = place[<<t, d>>]
      BY <1>3, <1>6, <2>1
    <3> QED
      BY <1>3, <2>6, <3>1 DEF Spent
  <2> QED
    BY <2>1, <2>2, <2>3, <2>4, <2>5, <2>6
<1>13. CASE ~Shots!InWindow(s)
  <2>1. place' = [place EXCEPT ![w] = "look"] /\ UNCHANGED <<saving, late>>
    BY <1>2, <1>13 DEF Shots!Try, Shots!Goto
  <2>2. /\ \A x : Unsaved(x)' = Unsaved(x)
        /\ \A m, x : Level(m, x)' = Level(m, x)
        /\ \A m, t, x : Moment(m, t, x)' = Moment(m, t, x)
    BY <1>3, <2>1 DEF Unsaved, Level, Ahead, Moment
  <2>3. CaptureTypes'
    BY <1>3, <1>12, <2>1 DEF ShotsInv, CaptureTypes
  <2>4. CommitInv'
    <3>1. \A t \in Sessions : \A d \in Cameras : place'[<<t, d>>] = "commit" <=> place[<<t, d>>] = "commit"
      BY <1>3, <1>6, <1>12, <2>1
    <3> QED
      BY <1>3, <1>4, <2>1, <2>2, <3>1 DEF ShotsInv, CommitInv
  <2>5. LimitInv'
    BY <1>3, <1>4, <1>9, <2>1 DEF ShotsInv, LimitInv
  <2>6. Settled' /\ OneSaves'
    BY <1>3, <1>7, <1>12, <2>1 DEF Settled, OneSaves
  <2>7. FilesAt(n)' /\ CountsAt(n)' /\ FullAt(n)'
    BY <1>3, <1>8, <1>9, <1>12, <2>1, <2>2 DEF Lined, FilesAt, CountsAt, FullAt
  <2>8. MomentsAt(n)'
    BY <1>3, <1>8, <2>1, <2>2 DEF Lined, MomentsAt
  <2>9. PairsInv'
    BY <2>6, <2>7, <2>8 DEF PairsInv, Lined
  <2> QED
    BY <1>12, <2>1, <2>3, <2>4, <2>5, <2>9 DEF ShotsInv
<1>14. CASE Shots!InWindow(s)
  <2>1. /\ place' = [place EXCEPT ![w] = "commit"]
        /\ saving' = [saving EXCEPT ![s] = Shots!CameraOrder]
        /\ late' = [late EXCEPT ![s] = @ + (IF s \in stopped THEN 1 ELSE 0)]
    BY <1>2, <1>14 DEF Shots!Try, Shots!Goto
  <2>2. /\ \A d \in Cameras : ready[<<s, d>>] # NoShot
        /\ \A d, e \in Cameras : ready[<<s, d>>].at - ready[<<s, e>>].at <= Window
    BY <1>14, SameNames DEF Shots!InWindow
  <2>3. ~Spent(s)
    BY <1>10, <2>2 DEF Spent
  <2>4. n < Target
    <3>1. n # Target
      BY <1>8, <1>11, <2>3 DEF Lined, FullAt
    <3> QED
      BY <3>1, ShotConstants
  <2>5. late[s] = 0
    <3>1. late[s] # 1 /\ late[s] \in Nat /\ late[s] <= 1
      BY <1>5, <1>7, <2>3 DEF OneSaves, ShotsInv, LimitInv
    <3> QED
      BY <3>1
  <2>6. /\ \A t \in Sessions : saving'[t] = IF t = s THEN Shots!CameraOrder ELSE saving[t]
        /\ \A t \in Sessions : late'[t] = IF t = s THEN IF s \in stopped THEN 1 ELSE 0 ELSE late[t]
    BY <1>5, <2>1, <2>5
  <2>7. \A t \in Sessions : Unsaved(t)' = IF t = s THEN Cameras ELSE Unsaved(t)
    BY <2>6, OrderFacts DEF Unsaved
  <2>8. \A d \in Cameras : Ahead(d)' <=> Ahead(d)
    BY <1>3, <2>6, <2>7 DEF Ahead
  <2>9. \A m : \A d \in Cameras : Level(m, d)' = Level(m, d)
    BY <2>8 DEF Level
  <2>10. CaptureTypes'
    <3>1. saving' \in [Sessions -> Seq(Cameras)]
      BY <1>5, <2>1, OrderFacts
    <3>2. late' \in [Sessions -> Nat]
      BY <1>5, <2>1, <2>5
    <3> QED
      BY <1>3, <1>12, <2>1, <3>1, <3>2 DEF ShotsInv, CaptureTypes
  <2>11. CommitInv'
    <3>1. \A t \in Sessions : \A d \in Cameras :
            place'[<<t, d>>] = "commit" <=> place[<<t, d>>] = "commit" \/ (t = s /\ d = c)
      BY <1>1, <1>6, <1>12, <2>1
    <3>2. \A t \in Sessions : saving'[t] # <<>> => \E d \in Cameras : place'[<<t, d>>] = "commit"
      BY <2>6, <3>1 DEF ShotsInv, CommitInv
    <3>3. \A t \in Sessions : \A d, e \in Cameras :
            place'[<<t, d>>] = "commit" /\ place'[<<t, e>>] = "commit" => d = e
      BY <1>10, <3>1 DEF ShotsInv, CommitInv
    <3>4. \A t \in Sessions : \A d \in Cameras : place'[<<t, d>>] = "commit" =>
            saving'[t] # <<>> /\ (d \in Unsaved(t)' \/ ready'[<<t, d>>] = NoShot)
      <4> SUFFICES ASSUME NEW t \in Sessions, NEW d \in Cameras, place'[<<t, d>>] = "commit"
                   PROVE  saving'[t] # <<>> /\ (d \in Unsaved(t)' \/ ready'[<<t, d>>] = NoShot)
        OBVIOUS
      <4>1. CASE t = s
        BY <2>6, <2>7, <4>1, OrderFacts
      <4>2. CASE t # s
        <5>1. saving'[t] = saving[t] /\ Unsaved(t)' = Unsaved(t) /\ place[<<t, d>>] = "commit"
          BY <2>6, <2>7, <3>1, <4>2
        <5> QED
          BY <1>3, <5>1 DEF ShotsInv, CommitInv
      <4> QED
        BY <4>1, <4>2
    <3>5. \A t \in Sessions : \A i, j \in DOMAIN saving'[t] : saving'[t][i] = saving'[t][j] => i = j
      BY <2>6, OrderFacts, SMTT(30) DEF ShotsInv, CommitInv
    <3> QED
      BY <1>3, <1>4, <3>2, <3>3, <3>4, <3>5 DEF CommitInv
  <2>12. LimitInv'
    <3>1. \A t \in Sessions : late'[t] <= 1
      BY <2>6 DEF ShotsInv, LimitInv
    <3> QED
      BY <1>3, <1>4, <1>9, <3>1 DEF ShotsInv, LimitInv
  <2>13. Settled'
    BY <1>3, <1>7, <1>12, <2>1 DEF Settled
  <2>14. OneSaves'
    <3>1. Spent(s)'
      BY <1>1, <1>6, <1>12, <2>1 DEF Spent
    <3>2. ASSUME NEW t \in Sessions, late'[t] = 1 PROVE t \in stopped /\ Spent(t)'
      BY <1>7, <1>12, <2>1, <2>6, <3>1, <3>2 DEF OneSaves
    <3> QED
      BY <1>3, <1>7, <1>12, <2>1, <3>2 DEF OneSaves
  <2>15. FilesAt(n)' /\ CountsAt(n)' /\ FullAt(n)'
    <3>1. FilesAt(n)'
      BY <1>3, <1>8, <1>9, <2>9 DEF Lined, FilesAt
    <3>2. CountsAt(n)'
      BY <1>3, <1>8, <1>12, <2>1, <2>9 DEF Lined, CountsAt
    <3>3. FullAt(n)'
      BY <2>4, ShotConstants DEF FullAt
    <3> QED
      BY <3>1, <3>2, <3>3
  <2>16. MomentsAt(n)'
    <3>1. \A t \in Sessions : \A d \in Cameras : t # s => Moment(n, t, d)' = Moment(n, t, d)
      BY <1>3, <2>7 DEF Moment
    <3>2. \A d \in Cameras : Moment(n, s, d)' = ready[<<s, d>>].at
      BY <1>3, <2>7 DEF Moment
    <3> QED
      BY <1>3, <1>8, <2>2, <2>6, <2>7, <3>1, <3>2, ZenonT(30) DEF Lined, MomentsAt
  <2>17. PairsInv'
    BY <2>13, <2>14, <2>15, <2>16 DEF PairsInv, Lined
  <2> QED
    BY <1>12, <2>1, <2>10, <2>11, <2>12, <2>17 DEF ShotsInv
<1> QED
  BY <1>13, <1>14

-----------------------------------------------------------------------------
(* A commit, one camera at a time.                                           *)

\* The camera whose turn it is: all its files are of the pairs before.
LEMMA TurnFacts ==
  ASSUME ShotsInv, phase = "floor", ~mishap, NEW s \in Sessions, saving[s] # <<>>,
         NEW n \in 0..Target, Lined(n)
  PROVE  /\ n < Target
         /\ \A t \in Sessions : t # s => saving[t] = <<>> /\ ~Live(t)
         /\ \A d \in Cameras : Ahead(d) <=> d \notin Unsaved(s)
         /\ \A d \in Cameras : count[<<s, d>>] = Level(n, d) /\ Files(d) = 0..(Level(n, d) - 1)
         /\ route # <<>> => Left(route, "count") = Cameras
         /\ Left(route, "wipe") \in {{}, Cameras}
         /\ current # 0 => current = s
<1>1. Settled /\ OneSaves
  BY DEF ShotsInv, PairsInv
<1>2. Live(s) /\ \E c \in Cameras : place[<<s, c>>] = "commit"
  BY SavingLive DEF ShotsInv, CommitInv
<1>3. PICK w \in Workers : Active(w)
  BY <1>2, SameNames DEF Active
<1>4. n < Target
  <2>1. n # Target
    BY <1>2 DEF Lined, FullAt
  <2> QED
    BY <2>1, ShotConstants
<1>5. \A t \in Sessions : t # s => saving[t] = <<>> /\ ~Live(t)
  BY <1>1, <1>2, SavingLive DEF OneSaves, ShotsInv
<1>6. \A d \in Cameras : Ahead(d) <=> d \notin Unsaved(s)
  BY <1>5 DEF Ahead
<1>7. /\ route # <<>> => Left(route, "count") = Cameras
      /\ route # <<>> => Left(route, "wipe") \in {{}, Cameras}
  BY <1>1, <1>3 DEF Settled
<1>8. Left(route, "wipe") \in {{}, Cameras}
  BY <1>7, EmptyRoute
<1>9. \A d \in Cameras : count[<<s, d>>] = Level(n, d) /\ Files(d) = 0..(Level(n, d) - 1)
  <2>1. \A d \in Cameras : count[<<s, d>>] = Level(n, d)
    BY <1>2 DEF Lined, CountsAt
  <2>2. \A d \in Cameras : Left(route, "wipe") = {} \/ d \in Left(route, "wipe")
    BY <1>8
  <2> QED
    BY <2>1, <2>2 DEF Lined, FilesAt
<1>10. ASSUME current # 0 PROVE current = s
  <2>1. current = made /\ current \in Sessions
    BY <1>10 DEF ShotsInv, SessionInv, CaptureTypes, Sessions
  <2> QED
    BY <1>1, <1>2, <2>1 DEF OneSaves, Live
<1> QED
  BY <1>4, <1>5, <1>6, <1>7, <1>8, <1>9, <1>10

\* What one turn of a commit does: v is the worker whose shot is saved.
LEMMA CommitStep ==
  ASSUME ShotsInv, phase = "floor" => ~mishap, NEW w \in Workers, Shots!Commit(w)
  PROVE  ShotsInv'
<1>1. PICK s \in Sessions, c \in Cameras : w = <<s, c>>
  BY SameNames
<1>2. w[1] = s /\ w[2] = c
  BY <1>1
<1>3. place[w] = "commit" /\ saving[s] # <<>> /\ (c \in Unsaved(s) \/ ready[w] = NoShot)
  BY <1>1, <1>2 DEF Shots!Commit, ShotsInv, CommitInv
<1>4. phase = "floor" /\ ~mishap
  BY <1>3 DEF ShotsInv, CommitInv
<1>5. PICK q \in Seq(Cameras) : q = saving[s] /\ q # <<>>
  BY <1>3 DEF ShotsInv, CaptureTypes
<1>6. PICK h \in Cameras, r \in Seq(Cameras) : h = Head(q) /\ r = Tail(q)
  <2>1. Head(q) \in Cameras /\ Tail(q) \in Seq(Cameras)
    BY <1>5, HeadTailProperties
  <2> QED
    BY <2>1, Zenon
<1>7. PICK v \in Workers : v = <<s, h>> /\ v[1] = s /\ v[2] = h
  BY SameNames
<1>8. PICK shot \in Snapshots : shot = ready[v]
  BY DEF ShotsInv, CaptureTypes
<1>9. /\ Shots!Saved(v, shot)
      /\ ready' = [ready EXCEPT ![v] = NoShot]
      /\ saving' = [saving EXCEPT ![s] = r]
      /\ IF r = <<>> THEN /\ pairs' = [pairs EXCEPT ![s] = @ + 1]
                          /\ place' = [place EXCEPT ![w] = "look"]
                     ELSE pairs' = pairs /\ place' = place
      /\ UNCHANGED <<phase, now, board, made, current, route, stopped, view, late>>
  BY <1>2, <1>5, <1>6, <1>7, <1>8, SameNames
     DEF Shots!Commit, Shots!Goto, Shots!world, Shots!sessionVars
<1>10. PICK n \in 0..Target : Lined(n)
  BY <1>4 DEF ShotsInv, PairsInv
<1>11. /\ n < Target
       /\ \A t \in Sessions : t # s => saving[t] = <<>> /\ ~Live(t)
       /\ \A d \in Cameras : Ahead(d) <=> d \notin Unsaved(s)
       /\ \A d \in Cameras : count[<<s, d>>] = Level(n, d) /\ Files(d) = 0..(Level(n, d) - 1)
       /\ route # <<>> => Left(route, "count") = Cameras
       /\ Left(route, "wipe") \in {{}, Cameras}
       /\ current # 0 => current = s
  BY <1>3, <1>4, <1>10, TurnFacts
<1>12. \A i, j \in DOMAIN q : q[i] = q[j] => i = j
  BY <1>5 DEF ShotsInv, CommitInv
<1>13. /\ h \in Unsaved(s) /\ Unsaved(s) \subseteq Cameras
       /\ {r[i] : i \in DOMAIN r} = Unsaved(s) \ {h}
       /\ \A i, j \in DOMAIN r : r[i] = r[j] => i = j
       /\ r = <<>> <=> Unsaved(s) = {h}
  <2>1. /\ Len(q) \in Nat /\ Len(q) > 0 /\ DOMAIN q = 1..Len(q) /\ h = q[1] /\ 1 \in DOMAIN q
        /\ Len(r) = Len(q) - 1 /\ DOMAIN r = 1..(Len(q) - 1)
    BY <1>5, <1>6
  <2>2. \A i \in DOMAIN r : r[i] = q[i + 1] /\ i + 1 \in DOMAIN q /\ i + 1 # 1
    BY <1>5, <1>6, <2>1
  <2>3. \A i \in DOMAIN q : i # 1 => i - 1 \in DOMAIN r /\ r[i - 1] = q[i]
    <3> SUFFICES ASSUME NEW i \in DOMAIN q, i # 1 PROVE i - 1 \in DOMAIN r /\ r[i - 1] = q[i]
      OBVIOUS
    <3>1. i - 1 \in DOMAIN r /\ (i - 1) + 1 = i
      BY <2>1
    <3> QED
      BY <2>2, <3>1
  <2>4. {r[i] : i \in DOMAIN r} = {q[i] : i \in DOMAIN q} \ {h}
    <3>1. \A i \in DOMAIN r : r[i] \in {q[j] : j \in DOMAIN q} /\ r[i] # h
      BY <1>12, <2>1, <2>2
    <3>2. \A i \in DOMAIN q : q[i] # h => q[i] \in {r[j] : j \in DOMAIN r}
      BY <2>1, <2>3
    <3> QED
      BY <3>1, <3>2
  <2>5. \A i, j \in DOMAIN r : r[i] = r[j] => i = j
    <3> SUFFICES ASSUME NEW i \in DOMAIN r, NEW j \in DOMAIN r, r[i] = r[j] PROVE i = j
      OBVIOUS
    <3>1. i + 1 = j + 1 /\ i \in Int /\ j \in Int
      BY <1>12, <2>1, <2>2
    <3> QED
      BY <3>1
  <2>6. Unsaved(s) = {q[i] : i \in DOMAIN q} /\ h \in Unsaved(s) /\ Unsaved(s) \subseteq Cameras
    BY <1>5, <2>1 DEF Unsaved
  <2>7. r = <<>> <=> {r[i] : i \in DOMAIN r} = {}
    <3>1. r # <<>> => 1 \in DOMAIN r
      BY <1>6
    <3> QED
      BY <3>1
  <2> QED
    BY <2>4, <2>5, <2>6, <2>7
<1>14. count[v] = n /\ n \in Nat /\ Files(h) = 0..(n - 1) /\ \A d \in Cameras : d \notin Unsaved(s) => Files(d) = 0..n
  <2>1. Level(n, h) = n /\ \A d \in Cameras : d \notin Unsaved(s) => Level(n, d) = n + 1
    BY <1>11, <1>13 DEF Level
  <2>2. (n + 1) - 1 = n
    BY <1>10
  <2>3. count[v] = n
    BY <1>7, <1>11, <2>1
  <2>4. Files(h) = 0..(n - 1)
    BY <1>11, <2>1
  <2>5. \A d \in Cameras : d \notin Unsaved(s) => Files(d) = 0..n
    BY <1>11, <2>1, <2>2
  <2> QED
    BY <2>3, <2>4, <2>5
<1>15. shot # NoShot
  BY <1>3, <1>7, <1>8, <1>10, <1>13 DEF Lined, MomentsAt
<1>16. SavedAs(s, h, shot)
  BY <1>7, <1>9, <1>11, <1>14, <1>15, SavedFacts DEF ShotsInv
<1>17. /\ saving \in [Sessions -> Seq(Cameras)] /\ ready \in [Workers -> Snapshots]
       /\ place \in [Workers -> Places] /\ pairs \in [Sessions -> Nat]
  BY DEF ShotsInv, CaptureTypes
<1>18. /\ \A t \in Sessions : saving'[t] = IF t = s THEN r ELSE <<>>
       /\ \A x \in Workers : ready'[x] = IF x = v THEN NoShot ELSE ready[x]
       /\ \A x \in Workers : place'[x] = IF x = w /\ r = <<>> THEN "look" ELSE place[x]
  <2>1. \A t \in Sessions : saving'[t] = IF t = s THEN r ELSE <<>>
    BY <1>9, <1>11, <1>17
  <2>2. \A x \in Workers : ready'[x] = IF x = v THEN NoShot ELSE ready[x]
    BY <1>9, <1>17
  <2>3. \A x \in Workers : place'[x] = IF x = w /\ r = <<>> THEN "look" ELSE place[x]
    <3>1. CASE r = <<>>
      <4>1. place' = [place EXCEPT ![w] = "look"]
        BY <1>9, <3>1
      <4> QED
        BY <1>17, <3>1, <4>1
    <3>2. CASE r # <<>>
      BY <1>9, <3>2
    <3> QED
      BY <3>1, <3>2
  <2> QED
    BY <2>1, <2>2, <2>3
<1>19. \A t \in Sessions : Unsaved(t)' = IF t = s THEN Unsaved(s) \ {h} ELSE {}
  <2> SUFFICES ASSUME NEW t \in Sessions PROVE Unsaved(t)' = IF t = s THEN Unsaved(s) \ {h} ELSE {}
    OBVIOUS
  <2>1. CASE t = s
    <3>1. saving'[t] = r
      BY <1>18, <2>1
    <3>2. Unsaved(t)' = {r[i] : i \in DOMAIN r}
      BY <3>1 DEF Unsaved
    <3> QED
      BY <1>13, <2>1, <3>2
  <2>2. CASE t # s
    <3>1. saving'[t] = <<>> /\ ~\E i : i \in DOMAIN saving'[t]
      BY <1>18, <2>2
    <3> QED
      BY <2>2, <3>1 DEF Unsaved
  <2> QED
    BY <2>1, <2>2
<1>20. \A t \in Sessions : \A d \in Cameras : <<t, d>> \in Workers
  BY SameNames
<1>21. CaptureTypes'
  <2>1. ready' \in [Workers -> Snapshots]
    <3>1. NoShot \in Snapshots
      BY DEF NoShot, Snapshots
    <3> QED
      BY <1>9, <1>17, <3>1
  <2>2. saving' \in [Sessions -> Seq(Cameras)]
    BY <1>9, <1>17
  <2>3. place' \in [Workers -> Places] /\ pairs' \in [Sessions -> Nat]
    <3>1. CASE r = <<>>
      <4>1. place' = [place EXCEPT ![w] = "look"] /\ "look" \in Places
        BY <1>9, <3>1 DEF Places
      <4>2. pairs' = [pairs EXCEPT ![s] = @ + 1]
        BY <1>9, <3>1
      <4> QED
        BY <1>17, <4>1, <4>2
    <3>2. CASE r # <<>>
      BY <1>9, <1>17, <3>2
    <3> QED
      BY <3>1, <3>2
  <2>4. /\ disk' \in [Cameras -> [0..Target -> Snapshots]] /\ mishap' \in BOOLEAN
        /\ count' \in [Workers -> Nat] /\ kept' \in [Workers -> SUBSET Nat]
    BY <1>16 DEF SavedAs
  <2>5. CaptureTypes
    BY DEF ShotsInv
  <2> QED
    BY <1>9, <2>1, <2>2, <2>3, <2>4, <2>5 DEF CaptureTypes
<1>22. SessionInv'
  <2>1. SessionInv
    BY DEF ShotsInv
  <2>2. ASSUME NEW x \in Workers
        PROVE  /\ place'[x] # "none" <=> place[x] # "none"
               /\ place[x] = "none" => ready'[x] = NoShot /\ kept'[x] = {}
    <3>1. place'[x] # "none" <=> place[x] # "none"
      BY <1>3, <1>18
    <3>2. ASSUME place[x] = "none" PROVE x # v /\ ready[x] = NoShot /\ kept[x] = {}
      BY <1>8, <1>15, <2>1, <3>2 DEF SessionInv
    <3>3. x # v => kept'[x] = kept[x] /\ ready'[x] = ready[x]
      BY <1>7, <1>16, <1>18 DEF SavedAs
    <3> QED
      BY <3>1, <3>2, <3>3
  <2> QED
    BY <1>9, <2>1, <2>2 DEF SessionInv
<1>23. \A t \in Sessions : \A d \in Cameras :
         place'[<<t, d>>] = "commit" <=> place[<<t, d>>] = "commit" /\ (r = <<>> => <<t, d>> # w)
  BY <1>3, <1>18, <1>20
<1>24. \A d \in Cameras : place[<<s, d>>] = "commit" <=> d = c
  BY <1>1, <1>3 DEF ShotsInv, CommitInv
<1>25. \A t \in Sessions : \A d \in Cameras : place[<<t, d>>] = "commit" => t = s
  BY <1>11 DEF ShotsInv, CommitInv
<1>26. \A t \in Sessions : \A d \in Cameras :
         place'[<<t, d>>] = "commit" <=> t = s /\ d = c /\ r # <<>>
  BY <1>1, <1>23, <1>24, <1>25
<1>27. ready'[w] = NoShot \/ c \in Unsaved(s) \ {h}
  <2>1. CASE c = h
    BY <1>1, <1>7, <1>18, <2>1
  <2>2. CASE c # h
    BY <1>3, <1>18, <2>2
  <2> QED
    BY <2>1, <2>2
<1>28. CommitInv'
  <2>1. \A t \in Sessions : saving'[t] # <<>> => \E d \in Cameras : place'[<<t, d>>] = "commit"
    BY <1>18, <1>26
  <2>2. \A t \in Sessions : \A d \in Cameras : place'[<<t, d>>] = "commit" =>
          saving'[t] # <<>> /\ (d \in Unsaved(t)' \/ ready'[<<t, d>>] = NoShot)
    BY <1>1, <1>18, <1>19, <1>26, <1>27
  <2>3. \A t \in Sessions : \A i, j \in DOMAIN saving'[t] : saving'[t][i] = saving'[t][j] => i = j
    BY <1>13, <1>18
  <2> QED
    BY <1>4, <1>9, <1>26, <2>1, <2>2, <2>3, ZenonT(30) DEF CommitInv
<1>29. LimitInv'
  <2>1. count[<<s, h>>] < Target /\ Shots!Saved(<<s, h>>, shot)
    BY <1>7, <1>9, <1>11, <1>14
  <2>2. /\ \A x \in Workers : count'[x] <= Target
        /\ \A d \in Cameras : Files(d)' \subseteq 0..(Target - 1)
    BY <1>15, <2>1, SavedLimits
  <2> QED
    BY <1>4, <1>9, <2>2 DEF ShotsInv, LimitInv
<1>30. GateInv'
  BY <1>4, <1>9 DEF GateInv
<1>31. /\ \A x \in Workers : Active(x)' => Active(x)
       /\ \A t \in Sessions : Live(t)' => Live(t)
  <2>1. \A x \in Workers : Active(x)' => Active(x)
    BY <1>18 DEF Active
  <2> QED
    BY <1>9, <1>20, <2>1 DEF Live
<1>32. ASSUME ~mishap' PROVE PairsInv'
  <2>1. Settled /\ OneSaves
    BY <1>4 DEF ShotsInv, PairsInv
  <2>2. /\ \A d \in Cameras : \A i \in 0..Target :
             disk'[d][i] = IF d = h /\ i = n THEN shot ELSE disk[d][i]
        /\ \A d \in Cameras : Files(d)' = IF d = h THEN Files(d) \cup {n} ELSE Files(d)
    BY <1>7, <1>14, <1>16, <1>32 DEF SavedAs
  <2>3. \A x \in Workers : count'[x] = IF x = v THEN n + 1 ELSE count[x]
    BY <1>7, <1>14, <1>16 DEF SavedAs
  <2>4. /\ Files(h)' = 0..n /\ count'[<<s, h>>] = n + 1
        /\ \A d \in Cameras : d \notin Unsaved(s) => Files(d)' = 0..n /\ count'[<<s, d>>] = n + 1
        /\ \A d \in Unsaved(s) \ {h} : Files(d)' = 0..(n - 1) /\ count'[<<s, d>>] = n
    <3>1. 0..(n - 1) \cup {n} = 0..n
      BY <1>14
    <3>2. \A d \in Cameras : d # h => Files(d)' = Files(d) /\ count'[<<s, d>>] = count[<<s, d>>]
      BY <1>7, <1>20, <2>2, <2>3
    <3>3. \A d \in Unsaved(s) : Level(n, d) = n
      BY <1>11, <1>13 DEF Level
    <3>4. \A d \in Cameras : d \notin Unsaved(s) => Level(n, d) = n + 1
      BY <1>11 DEF Level
    <3>5. Files(h)' = 0..n /\ count'[<<s, h>>] = n + 1
      BY <1>7, <1>14, <2>2, <2>3, <3>1
    <3>6. ASSUME NEW d \in Cameras, d \notin Unsaved(s) PROVE Files(d)' = 0..n /\ count'[<<s, d>>] = n + 1
      BY <1>11, <1>13, <1>14, <3>2, <3>4, <3>6
    <3>7. ASSUME NEW d \in Unsaved(s) \ {h} PROVE Files(d)' = 0..(n - 1) /\ count'[<<s, d>>] = n
      BY <1>11, <1>13, <3>2, <3>3, <3>7
    <3> QED
      BY <3>5, <3>6, <3>7
  <2>5. /\ \A d \in Cameras : \A i \in 0..(n - 1) : disk'[d][i] = disk[d][i]
        /\ \A d \in Cameras : d \notin Unsaved(s) \ {h} => disk'[d][n].at = Moment(n, s, d)
    <3>1. \A i \in 0..(n - 1) : i \in 0..Target /\ i # n
      BY <1>14, ShotConstants
    <3>2. shot.at = Moment(n, s, h)
      BY <1>7, <1>8, <1>13 DEF Moment
    <3>3. \A d \in Cameras : d \notin Unsaved(s) => Moment(n, s, d) = disk[d][n].at
      BY DEF Moment
    <3> QED
      BY <1>13, <2>2, <3>1, <3>2, <3>3
  <2>6. /\ Left(route, "wipe") = {} =>
             \A d, e \in Cameras : \A i \in 0..(n - 1) : disk[d][i].at - disk[e][i].at <= Window
        /\ \A d \in Unsaved(s) : ready[<<s, d>>] # NoShot
        /\ \A d, e \in Cameras : Moment(n, s, d) - Moment(n, s, e) <= Window
    BY <1>3, <1>10 DEF Lined, MomentsAt
  <2>7. \A t \in Sessions : Live(t)' => t = s
    BY <1>11, <1>31
  <2>8. \A t \in Sessions : saving'[t] # <<>> => t = s /\ r # <<>>
    BY <1>18
  <2>9. Settled'
    BY <1>9, <1>31, <2>1 DEF Settled
  <2>10. Spent(s)'
    <3>1. CASE r # <<>>
      BY <1>26, <3>1 DEF Spent
    <3>2. CASE r = <<>>
      <4>1. place'[<<s, c>>] = "look" /\ ready'[<<s, c>>] = NoShot
        BY <1>1, <1>13, <1>18, <1>27, <3>2
      <4> QED
        BY <4>1 DEF Spent
    <3> QED
      BY <3>1, <3>2
  <2>11. OneSaves'
    <3>1. ASSUME NEW t \in Sessions, late[t] = 1 PROVE t \in stopped /\ Spent(t)'
      <4>1. t \in stopped /\ Spent(t)
        BY <2>1, <3>1 DEF OneSaves
      <4>2. CASE t # s
        <5>1. \A d \in Cameras : place'[<<t, d>>] = place[<<t, d>>] /\ ready'[<<t, d>>] = ready[<<t, d>>]
          BY <1>1, <1>7, <1>18, <1>20, <4>2
        <5> QED
          BY <4>1, <5>1 DEF Spent
      <4> QED
        BY <2>10, <4>1, <4>2
    <3> QED
      BY <1>9, <1>31, <2>1, <3>1 DEF OneSaves
  <2>12. CASE r # <<>>
    <3>1. \A d \in Cameras : Ahead(d)' <=> d \notin Unsaved(s) \ {h}
      BY <1>18, <1>19, <2>8, <2>12 DEF Ahead
    <3>2. /\ \A d \in Unsaved(s) \ {h} : Level(n, d)' = n
          /\ \A d \in Cameras : d \notin Unsaved(s) \ {h} => Level(n, d)' = n + 1
      BY <1>13, <3>1 DEF Level
    <3>3. \A d \in Cameras : Files(d)' = 0..(Level(n, d)' - 1) /\ count'[<<s, d>>] = Level(n, d)'
      <4>1. (n + 1) - 1 = n
        BY <1>14
      <4> QED
        BY <2>4, <3>2, <4>1
    <3>4. FilesAt(n)'
      BY <1>9, <1>11, <3>3 DEF FilesAt
    <3>5. CountsAt(n)'
      <4>1. pairs' = pairs
        BY <1>9, <2>12
      <4>2. current' # 0 => pairs'[current'] = n
        BY <1>9, <1>10, <4>1 DEF Lined, CountsAt
      <4>3. route' # <<>> => Left(route, "count")' = Cameras
        BY <1>9, <1>11
      <4> QED
        BY <2>7, <3>3, <4>2, <4>3 DEF CountsAt
    <3>6. FullAt(n)'
      BY <1>11, <1>14, ShotConstants DEF FullAt
    <3>7. \A d \in Cameras : Moment(n, s, d)' = Moment(n, s, d)
      <4>1. ASSUME NEW d \in Unsaved(s) \ {h} PROVE Moment(n, s, d)' = Moment(n, s, d)
        BY <1>7, <1>13, <1>18, <1>19, <1>20, <4>1 DEF Moment
      <4>2. ASSUME NEW d \in Cameras, d \notin Unsaved(s) \ {h} PROVE Moment(n, s, d)' = Moment(n, s, d)
        <5>1. Moment(n, s, d)' = disk'[d][n].at
          BY <1>19, <4>2 DEF Moment
        <5> QED
          BY <2>5, <4>2, <5>1
      <4> QED
        BY <1>13, <4>1, <4>2
    <3>8. MomentsAt(n)'
      <4>1. Left(route, "wipe")' = {} =>
              \A d, e \in Cameras : \A i \in 0..(n - 1) : disk'[d][i].at - disk'[e][i].at <= Window
        BY <1>9, <2>5, <2>6
      <4>2. \A d \in Unsaved(s)' : ready'[<<s, d>>] # NoShot
        BY <1>7, <1>13, <1>18, <1>19, <1>20, <2>6
      <4>3. \A d, e \in Cameras : Moment(n, s, d)' - Moment(n, s, e)' <= Window
        BY <2>6, <3>7
      <4> QED
        BY <2>8, <4>1, <4>2, <4>3 DEF MomentsAt
    <3> QED
      BY <2>9, <2>11, <3>4, <3>5, <3>6, <3>8 DEF PairsInv, Lined
  <2>13. CASE r = <<>>
    <3> DEFINE m == n + 1
    <3>1. m \in 0..Target /\ m - 1 = n
      BY <1>11, <1>14, ShotConstants
    <3>2. Unsaved(s) = {h} /\ \A t \in Sessions : saving'[t] = <<>>
      BY <1>13, <2>8, <2>13
    <3>3. \A d \in Cameras : Level(m, d)' = m
      BY <3>2 DEF Level, Ahead
    <3>4. \A d \in Cameras : Files(d)' = 0..n /\ count'[<<s, d>>] = m
      BY <2>4, <3>2
    <3> HIDE DEF m
    <3>6. FilesAt(m)'
      BY <1>9, <1>11, <3>1, <3>3, <3>4 DEF FilesAt
    <3>7. CountsAt(m)'
      <4>1. \A t \in Sessions : Live(t)' => \A d \in Cameras : count'[<<t, d>>] = Level(m, d)'
        BY <2>7, <3>3, <3>4
      <4>2. current' # 0 => pairs'[current'] = m
        <5> SUFFICES ASSUME current # 0 PROVE pairs'[current] = m
          BY <1>9
        <5>1. current = s /\ pairs[s] = n
          BY <1>10, <1>11 DEF Lined, CountsAt
        <5>2. pairs' = [pairs EXCEPT ![s] = @ + 1]
          BY <1>9, <2>13
        <5> QED
          BY <1>17, <5>1, <5>2 DEF m
      <4>3. route' # <<>> => Left(route, "count")' = Cameras
        BY <1>9, <1>11
      <4> QED
        BY <4>1, <4>2, <4>3 DEF CountsAt
    <3>8. FullAt(m)'
      BY <2>7, <2>10, <3>2 DEF FullAt
    <3>9. MomentsAt(m)'
      <4>1. \A d \in Cameras : disk'[d][n].at = Moment(n, s, d)
        BY <2>5, <3>2
      <4>2. ASSUME Left(route, "wipe") = {}, NEW d \in Cameras, NEW e \in Cameras, NEW i \in 0..(m - 1)
            PROVE  disk'[d][i].at - disk'[e][i].at <= Window
        <5>1. CASE i = n
          BY <2>6, <4>1, <5>1
        <5>2. CASE i # n
          <6>1. i \in 0..(n - 1)
            BY <1>14, <3>1, <5>2
          <6> QED
            BY <2>5, <2>6, <4>2, <6>1
        <5> QED
          BY <5>1, <5>2
      <4> QED
        BY <1>9, <3>2, <4>2 DEF MomentsAt
    <3> QED
      BY <2>9, <2>11, <3>1, <3>6, <3>7, <3>8, <3>9 DEF PairsInv, Lined
  <2> QED
    BY <2>12, <2>13
<1>33. PairsInv'
  BY <1>32 DEF PairsInv
<1> QED
  BY <1>21, <1>22, <1>28, <1>29, <1>30, <1>33 DEF ShotsInv

-----------------------------------------------------------------------------
(* The requests.                                                             *)

\* Between two sessions nobody saves if nobody is busy.
LEMMA NobodyLive ==
  ASSUME ShotsInv, current = 0, \A w \in Workers : ~Active(w)
  PROVE  /\ \A s \in Sessions : ~Live(s) /\ saving[s] = <<>>
         /\ \A n : \A c \in Cameras : Level(n, c) = n
<1>1. \A s \in Sessions : ~Live(s)
  <2>1. \A s \in Sessions : \A c \in Cameras : ~Active(<<s, c>>)
    BY SameNames
  <2>2. 0 \notin Sessions
    BY DEF Sessions
  <2> QED
    BY <2>1, <2>2 DEF Live
<1>2. \A s \in Sessions : saving[s] = <<>>
  BY <1>1, SavingLive DEF ShotsInv
<1>3. \A n : \A c \in Cameras : Level(n, c) = n
  BY <1>2 DEF Level, Ahead
<1> QED
  BY <1>1, <1>2, <1>3

\* A start, a stop, a restart: from here on the session in progress is told to stop.
LEMMA RequestStep ==
  ASSUME ShotsInv, phase = "floor" => ~mishap, Shots!Request
  PROVE  ShotsInv'
<1>1. /\ route = <<>> /\ stopped' = stopped \cup ({current} \ {0}) /\ current' = 0
      /\ UNCHANGED <<phase, now, board, place, view, count, ready, kept, saving, pairs, late, disk, mishap>>
  BY DEF Shots!Request, Shots!world, Shots!workerVars, Shots!pairVars
<1>2. \/ current # 0 /\ made' = made /\ route' = <<>>
      \/ /\ made < MaxSessions /\ made' = made + 1
         /\ \E wipe \in {TRUE, FALSE} : route' = Program(Shots!CameraOrder, wipe)
  <2>1. CASE current # 0 /\ UNCHANGED <<made, route>>
    BY <1>1, <2>1
  <2>2. CASE ~(current # 0 /\ UNCHANGED <<made, route>>)
    BY <2>2 DEF Shots!Request, Program
  <2> QED
    BY <2>1, <2>2
<1>3. made \in Nat /\ MaxSessions \in Nat /\ current \in {0, made} /\ stopped \subseteq 1..made
  BY ShotConstants DEF ShotsInv, CaptureTypes, SessionInv
<1>4. route' # <<>> => /\ made < MaxSessions /\ made' = made + 1
                       /\ RouteShape(route') /\ Left(route', "count") = Cameras
  BY <1>2, RequestRoute
<1>5. Left(route', "wipe") \in {{}, Cameras}
  BY <1>2, RequestRoute, EmptyRoute
<1>6. made' \in 0..MaxSessions /\ made <= made'
  <2>1. made' = made \/ (made < MaxSessions /\ made' = made + 1)
    BY <1>2
  <2> QED
    BY <1>3, <2>1 DEF ShotsInv, CaptureTypes
<1>7. \A x : Files(x)' = Files(x) /\ Unsaved(x)' = Unsaved(x)
  BY <1>1 DEF Files, Unsaved
<1>8. CaptureTypes'
  BY <1>1, <1>6 DEF ShotsInv, CaptureTypes
<1>9. SessionInv'
  <2>1. stopped' \subseteq 1..made /\ stopped' \subseteq 1..made'
    BY <1>1, <1>3, <1>6
  <2>2. route' # <<>> => RouteShape(route') /\ made' > 0 /\ made' \notin stopped'
    BY <1>3, <1>4, <2>1
  <2>3. ASSUME NEW s \in 1..made' PROVE s \in stopped' \/ (s = made' /\ route' # <<>>)
    <3>1. CASE s \in 1..made
      BY <1>1, <1>3, <3>1 DEF ShotsInv, SessionInv
    <3>2. CASE s \notin 1..made
      <4>1. made' = made + 1 /\ s = made' /\ route' # <<>>
        <5>1. made' = made \/ (made' = made + 1 /\ route' # <<>>)
          BY <1>2, RequestRoute
        <5> QED
          BY <1>3, <3>2, <5>1
      <4> QED
        BY <4>1
    <3> QED
      BY <3>1, <3>2
  <2>4. ASSUME NEW w \in Workers, place[w] # "none"
        PROVE  w[1] <= made' /\ (w[1] = made' => route' = <<>>)
    <3>1. w[1] <= made /\ w[1] \in Nat
      BY <2>4, SameNames DEF ShotsInv, SessionInv, Sessions
    <3> QED
      BY <1>3, <1>4, <1>6, <3>1
  <2>5. \A w \in Workers : place[w] = "none" => ready[w] = NoShot /\ kept[w] = {}
    BY DEF ShotsInv, SessionInv
  <2> QED
    BY <1>1, <2>1, <2>2, <2>3, <2>4, <2>5 DEF SessionInv
<1>10. CommitInv' /\ LimitInv'
  BY <1>1, <1>7 DEF ShotsInv, CommitInv, LimitInv
<1>11. GateInv'
  <2> SUFFICES ASSUME phase = "intrinsic", NEW t \in Sessions, NEW d \in Cameras PROVE Gated(t, d)'
    BY <1>1 DEF GateInv
  <2>1. Gated(t, d)
    BY DEF ShotsInv, GateInv
  <2> QED
    BY <1>1, <1>7, <2>1 DEF Gated
<1>12. ASSUME phase = "floor" PROVE PairsInv'
  <2>1. Settled /\ OneSaves
    BY <1>1, <1>12 DEF ShotsInv, PairsInv
  <2>2. PICK n \in 0..Target : Lined(n)
    BY <1>12 DEF ShotsInv, PairsInv
  <2>3. /\ \A x : Level(n, x)' = Level(n, x)
        /\ \A t, x : Moment(n, t, x)' = Moment(n, t, x)
        /\ \A w : Active(w)' = Active(w)
        /\ \A t : Spent(t)' = Spent(t)
    BY <1>1, <1>7 DEF Level, Ahead, Moment, Active, Spent
  <2>4. \A t \in Sessions : Live(t)' => Live(t)
    <3>1. 0 \notin Sessions
      BY DEF Sessions
    <3> QED
      BY <1>1, <2>3, <3>1 DEF Live
  <2>5. Settled'
    BY <1>4, <1>5, EmptyRoute DEF Settled
  <2>6. OneSaves'
    BY <1>1, <2>1, <2>3, <2>4 DEF OneSaves
  <2>7. FilesAt(n)'
    <3>1. Left(route, "wipe") = {}
      BY <1>1, EmptyRoute
    <3> QED
      BY <1>5, <1>7, <2>2, <2>3, <3>1 DEF Lined, FilesAt
  <2>8. CountsAt(n)'
    BY <1>1, <1>4, <2>2, <2>3, <2>4 DEF Lined, CountsAt
  <2>9. FullAt(n)'
    BY <1>1, <2>2, <2>3, <2>4 DEF Lined, FullAt
  <2>10. MomentsAt(n)'
    <3>1. Left(route, "wipe") = {}
      BY <1>1, EmptyRoute
    <3> QED
      BY <1>1, <1>7, <2>2, <2>3, <3>1 DEF Lined, MomentsAt
  <2> QED
    BY <2>5, <2>6, <2>7, <2>8, <2>9, <2>10 DEF PairsInv, Lined
<1>13. PairsInv'
  BY <1>1, <1>12 DEF PairsInv
<1> QED
  BY <1>8, <1>9, <1>10, <1>11, <1>13 DEF ShotsInv

\* The next errand of a request.
LEMMA ErrandStep ==
  ASSUME ShotsInv, route # <<>>, route' = Tail(route), Tail(route) # <<>>,
         UNCHANGED <<phase, now, board, made, current, stopped, place, view, ready, kept, saving, pairs, late>>
  PROVE  /\ SessionInv' /\ CommitInv' /\ current = 0
         /\ made \in Sessions
         /\ \A c \in Cameras : place[<<made, c>>] = "none"
         /\ (\A x : Unsaved(x)' = Unsaved(x)) /\ (\A w : Active(w)' = Active(w))
         /\ (\A s : Spent(s)' = Spent(s)) /\ (\A s : Live(s)' = Live(s))
         /\ \A n, c : Level(n, c)' = Level(n, c)
<1>1. \A x : Unsaved(x)' = Unsaved(x)
  BY DEF Unsaved
<1>2. RouteShape(Tail(route)) /\ current = 0
  BY NextErrand DEF ShotsInv, SessionInv
<1>3. SessionInv'
  BY <1>2 DEF ShotsInv, SessionInv
<1>4. CommitInv'
  BY <1>1 DEF ShotsInv, CommitInv
<1>5. made \in Sessions
  BY ShotConstants DEF ShotsInv, CaptureTypes, SessionInv, Sessions
<1>6. \A c \in Cameras : place[<<made, c>>] = "none"
  BY <1>5, SameNames DEF ShotsInv, SessionInv
<1>7. \A w : Active(w)' = Active(w)
  BY DEF Active
<1>8. \A s : Spent(s)' = Spent(s)
  BY DEF Spent
<1>9. \A s : Live(s)' = Live(s)
  BY <1>7 DEF Live
<1>10. \A n, c : Level(n, c)' = Level(n, c)
  BY <1>1 DEF Level, Ahead
<1> QED
  BY <1>1, <1>2, <1>3, <1>4, <1>5, <1>6, <1>7, <1>8, <1>9, <1>10

\* One camera is wiped.
LEMMA WipeStep ==
  ASSUME ShotsInv, phase = "floor" => ~mishap, Shots!Wipe
  PROVE  ShotsInv'
<1>1. /\ route # <<>> /\ Head(route)[1] = "wipe" /\ route' = Tail(route)
      /\ UNCHANGED <<phase, now, board, made, current, stopped, place, view, count, ready, kept,
                     saving, pairs, late>>
  BY DEF Shots!Wipe, Shots!world, Shots!workerVars, Shots!pairVars
<1>2. RouteShape(route)
  BY <1>1 DEF ShotsInv, SessionInv
<1>3. PICK c \in Cameras : c = Head(route)[2]
  BY <1>1, <1>2, NextErrand DEF Errands
<1>4. /\ disk' = [disk EXCEPT ![c] = [i \in DOMAIN @ |-> NoShot]]
      /\ mishap' = (mishap \/ Shots!Busy # {})
  BY <1>3, SameNames DEF Shots!Wipe
<1>5. /\ Tail(route) # <<>> /\ Left(route', "count") = Left(route, "count")
      /\ Left(route', "wipe") = Left(route, "wipe") \ {c} /\ c \in Left(route, "wipe")
  BY <1>1, <1>2, <1>3, NextErrand
<1>6. /\ SessionInv' /\ CommitInv' /\ current = 0
      /\ \A x : Unsaved(x)' = Unsaved(x)
      /\ \A w : Active(w)' = Active(w)
      /\ \A s : Spent(s)' = Spent(s)
      /\ \A s : Live(s)' = Live(s)
  BY <1>1, <1>5, ErrandStep
<1>7. disk \in [Cameras -> [0..Target -> Snapshots]]
  BY DEF ShotsInv, CaptureTypes
<1>8. \A d \in Cameras : \A i \in 0..Target : disk'[d][i] = IF d = c THEN NoShot ELSE disk[d][i]
  BY <1>4, <1>7
<1>9. \A d \in Cameras : Files(d)' = IF d = c THEN {} ELSE Files(d)
  BY <1>8 DEF Files
<1>10. CaptureTypes'
  <2>1. disk' \in [Cameras -> [0..Target -> Snapshots]]
    <3>1. NoShot \in Snapshots
      BY DEF NoShot, Snapshots
    <3>2. disk' = [disk EXCEPT ![c] = [i \in 0..Target |-> NoShot]]
      BY <1>4, <1>7
    <3> QED
      BY <1>7, <3>1, <3>2
  <2>2. mishap' \in BOOLEAN
    BY <1>4 DEF ShotsInv, CaptureTypes
  <2> QED
    BY <1>1, <2>1, <2>2 DEF ShotsInv, CaptureTypes
<1>11. LimitInv'
  BY <1>1, <1>9 DEF ShotsInv, LimitInv
<1>12. GateInv'
  <2> SUFFICES ASSUME phase = "intrinsic", NEW t \in Sessions, NEW d \in Cameras PROVE Gated(t, d)'
    BY <1>1 DEF GateInv
  <2>1. Gated(t, d) /\ Files(d) \subseteq 0..Target
    BY DEF ShotsInv, GateInv, Files
  <2>2. Files(d)' \subseteq Files(d) /\ \A i \in Files(d)' : disk'[d][i] = disk[d][i]
    BY <1>8, <1>9, <2>1
  <2> QED
    BY <1>1, <2>1, <2>2 DEF Gated
<1>13. ASSUME phase = "floor", ~mishap' PROVE PairsInv'
  <2>1. ~mishap /\ \A w \in Workers : ~Active(w)
    BY <1>4, <1>13, SameNames DEF Shots!Busy, Active
  <2>2. Settled /\ OneSaves
    BY <1>13, <2>1 DEF ShotsInv, PairsInv
  <2>3. /\ \A s \in Sessions : ~Live(s) /\ saving[s] = <<>>
        /\ \A n : \A d \in Cameras : Level(n, d) = n
    BY <1>6, <2>1, NobodyLive
  <2>4. Left(route, "count") = Cameras
    BY <1>5, <2>2 DEF Settled
  <2>5. Settled'
    BY <1>5, <1>6, <2>1, <2>4 DEF Settled
  <2>6. OneSaves'
    BY <1>1, <1>6, <2>2 DEF OneSaves
  <2>7. PICK n \in 0..Target : Lined(n)
    BY <1>13, <2>1 DEF ShotsInv, PairsInv
  <2>8. \A d \in Cameras : Files(d) = IF d \in Left(route, "wipe") THEN 0..(n - 1) ELSE {}
    BY <1>5, <2>3, <2>7 DEF Lined, FilesAt
  <2>9. \A m : /\ \A d \in Cameras : Level(m, d)' = m
               /\ CountsAt(m)' /\ FullAt(m)'
    <3>1. \A m : \A d \in Cameras : Level(m, d)' = m
      BY <1>1, <2>3 DEF Level, Ahead
    <3>2. \A m : CountsAt(m)'
      BY <1>1, <1>5, <1>6, <2>3, <2>4 DEF CountsAt
    <3>3. \A m : FullAt(m)'
      BY <1>6, <2>3 DEF FullAt
    <3> QED
      BY <3>1, <3>2, <3>3
  <2>10. CASE Left(route', "wipe") = {}
    <3>1. \A d \in Cameras : Files(d)' = {}
      BY <1>5, <1>9, <2>8, <2>10
    <3>2. FilesAt(0)'
      BY <2>9, <3>1 DEF FilesAt
    <3>3. MomentsAt(0)'
      BY <1>1, <2>3 DEF MomentsAt
    <3>4. 0 \in 0..Target
      BY ShotConstants
    <3> QED
      BY <2>5, <2>6, <2>9, <3>2, <3>3, <3>4 DEF PairsInv, Lined
  <2>11. CASE Left(route', "wipe") # {}
    <3>1. FilesAt(n)'
      BY <1>5, <1>9, <2>8, <2>9, <2>11 DEF FilesAt
    <3>2. MomentsAt(n)'
      BY <1>1, <2>3, <2>11 DEF MomentsAt
    <3> QED
      BY <2>5, <2>6, <2>7, <2>9, <3>1, <3>2 DEF PairsInv, Lined
  <2> QED
    BY <2>10, <2>11
<1>14. PairsInv'
  BY <1>1, <1>13 DEF PairsInv
<1> QED
  BY <1>6, <1>10, <1>11, <1>12, <1>14 DEF ShotsInv

\* A new worker counts the files of its camera.
LEMMA CountFilesStep ==
  ASSUME ShotsInv, phase = "floor" => ~mishap, Shots!CountFiles
  PROVE  ShotsInv'
<1>1. /\ route # <<>> /\ Head(route)[1] = "count" /\ route' = Tail(route)
      /\ UNCHANGED <<phase, now, board, made, current, stopped, place, view, ready, kept,
                     saving, pairs, late, disk>>
  BY DEF Shots!CountFiles, Shots!world, Shots!pairVars
<1>2. RouteShape(route)
  BY <1>1 DEF ShotsInv, SessionInv
<1>3. PICK c \in Cameras : c = Head(route)[2]
  BY <1>1, <1>2, NextErrand DEF Errands
<1>4. /\ Tail(route) # <<>> /\ Left(route, "wipe") = {} /\ Left(route', "wipe") = {}
      /\ Left(route', "count") = Left(route, "count") \ {c}
  BY <1>1, <1>2, <1>3, NextErrand
<1>5. /\ SessionInv' /\ CommitInv' /\ current = 0 /\ made \in Sessions
      /\ \A d \in Cameras : place[<<made, d>>] = "none"
      /\ \A x : Unsaved(x)' = Unsaved(x)
      /\ \A w : Active(w)' = Active(w)
      /\ \A s : Spent(s)' = Spent(s)
      /\ \A s : Live(s)' = Live(s)
      /\ \A n, d : Level(n, d)' = Level(n, d)
  BY <1>1, <1>4, ErrandStep
<1>6. /\ count' = [count EXCEPT ![<<made, c>>] = Cardinality(Files(c))]
      /\ mishap' = (mishap \/ Shots!Busy # {})
  <2>1. DOMAIN disk[c] = 0..Target
    BY DEF ShotsInv, CaptureTypes
  <2>2. Shots!Files(c) = Files(c)
    BY <2>1, SameNames DEF Shots!Files, Files
  <2>3. Shots!Counted(c) = Cardinality(Files(c))
    BY <2>2 DEF Shots!Counted, Shots!Cardinality, Cardinality
  <2> QED
    BY <1>3, <2>3 DEF Shots!CountFiles
<1>7. PICK k \in Nat : k = Cardinality(Files(c)) /\ k <= Target
  <2>1. Files(c) \in SUBSET (0..(Target - 1))
    BY DEF ShotsInv, LimitInv
  <2>2. /\ IsFiniteSet(0..(Target - 1))
        /\ Cardinality(0..(Target - 1)) = IF 0 > Target - 1 THEN 0 ELSE (Target - 1) - 0 + 1
    <3>1. 0 \in Int /\ Target - 1 \in Int
      BY ShotConstants
    <3> QED
      BY <3>1, FS_Interval
  <2>3. Cardinality(0..(Target - 1)) = Target
    BY <2>2, ShotConstants
  <2>4. IsFiniteSet(Files(c)) /\ Cardinality(Files(c)) <= Target
    BY <2>1, <2>2, <2>3, FS_Subset
  <2> QED
    BY <2>4, FS_CardinalityType
<1>8. <<made, c>> \in Workers /\ count \in [Workers -> Nat]
  BY <1>5, SameNames DEF ShotsInv, CaptureTypes
<1>9. /\ count' \in [Workers -> Nat]
      /\ \A w \in Workers : count'[w] = IF w = <<made, c>> THEN k ELSE count[w]
  BY <1>6, <1>7, <1>8
<1>10. \A x : Files(x)' = Files(x)
  BY <1>1 DEF Files
<1>11. CaptureTypes'
  <2>1. mishap' \in BOOLEAN
    BY <1>6 DEF ShotsInv, CaptureTypes
  <2> QED
    BY <1>1, <1>9, <2>1 DEF ShotsInv, CaptureTypes
<1>12. LimitInv'
  <2>1. \A w \in Workers : count'[w] <= Target /\ (place[w] = "seen" => count'[w] = count[w])
    BY <1>5, <1>7, <1>9 DEF ShotsInv, LimitInv
  <2> QED
    BY <1>1, <1>10, <2>1 DEF ShotsInv, LimitInv
<1>13. GateInv'
  <2> SUFFICES ASSUME phase = "intrinsic", NEW t \in Sessions, NEW d \in Cameras PROVE Gated(t, d)'
    BY <1>1 DEF GateInv
  <2>1. Gated(t, d)
    BY DEF ShotsInv, GateInv
  <2> QED
    BY <1>1, <1>10, <2>1 DEF Gated
<1>14. ASSUME phase = "floor", ~mishap' PROVE PairsInv'
  <2>1. ~mishap /\ \A w \in Workers : ~Active(w)
    BY <1>6, <1>14, SameNames DEF Shots!Busy, Active
  <2>2. Settled /\ OneSaves
    BY <1>14, <2>1 DEF ShotsInv, PairsInv
  <2>3. /\ \A s \in Sessions : ~Live(s) /\ saving[s] = <<>>
        /\ \A n : \A d \in Cameras : Level(n, d) = n
    BY <1>5, <2>1, NobodyLive
  <2>4. Settled'
    BY <1>4, <1>5, <2>1 DEF Settled
  <2>5. OneSaves'
    BY <1>1, <1>5, <2>2 DEF OneSaves
  <2>6. PICK n \in 0..Target : Lined(n)
    BY <1>14, <2>1 DEF ShotsInv, PairsInv
  <2>7. \A d \in Cameras : Files(d) = 0..(n - 1)
    BY <1>4, <2>3, <2>6 DEF Lined, FilesAt
  <2>8. k = n
    <3>1. n \in Nat /\ 0 \in Int /\ n - 1 \in Int
      BY ShotConstants
    <3>2. Cardinality(0..(n - 1)) = IF 0 > n - 1 THEN 0 ELSE (n - 1) - 0 + 1
      BY <3>1, FS_Interval
    <3> QED
      BY <1>7, <2>7, <3>1, <3>2
  <2>9. FilesAt(n)'
    BY <1>4, <1>5, <1>10, <2>3, <2>7 DEF FilesAt
  <2>10. CountsAt(n)'
    <3>1. route # <<>> => \A d \in Cameras \ Left(route, "count") : count[<<made, d>>] = n
      BY <2>6 DEF Lined, CountsAt
    <3>2. \A d \in Cameras \ Left(route', "count") : count'[<<made, d>>] = n
      BY <1>1, <1>4, <1>5, <1>9, <2>8, <3>1, SameNames
    <3> QED
      BY <1>1, <1>5, <2>3, <3>2 DEF CountsAt
  <2>11. FullAt(n)'
    BY <1>5, <2>3 DEF FullAt
  <2>12. MomentsAt(n)'
    BY <1>1, <1>4, <2>3, <2>6 DEF Lined, MomentsAt
  <2> QED
    BY <2>4, <2>5, <2>9, <2>10, <2>11, <2>12 DEF PairsInv, Lined
<1>15. PairsInv'
  BY <1>1, <1>14 DEF PairsInv
<1> QED
  BY <1>5, <1>11, <1>12, <1>13, <1>15 DEF ShotsInv

\* Every set of naturals has a least element.
LEMMA LeastOf ==
  ASSUME NEW T, T \subseteq Nat, T # {}
  PROVE  \E x \in T : \A y \in T : x <= y
<1>1. IsWellFoundedOn(OpToRel(<, Nat), Nat)
  BY NatLessThanWellFounded
<1>2. PICK x \in T : \A y \in T : ~(<<y, x>> \in OpToRel(<, Nat))
  BY <1>1, WFMin
<1>3. ASSUME NEW y \in T PROVE x <= y
  <2>1. ~(<<y, x>> \in {r \in Nat \X Nat : r[1] < r[2]})
    BY <1>2 DEF OpToRel
  <2>2. <<y, x>> \in Nat \X Nat /\ <<y, x>>[1] = y /\ <<y, x>>[2] = x
    OBVIOUS
  <2>3. ~(y < x)
    BY <2>1, <2>2
  <2> QED
    BY <2>3
<1> QED
  BY <1>3

\* The workers of a session run.
LEMMA RunStep ==
  ASSUME ShotsInv, phase = "floor" => ~mishap, Shots!Run
  PROVE  ShotsInv'
<1>1. /\ route # <<>> /\ Head(route)[1] = "run" /\ route' = <<>> /\ current' = made
      /\ UNCHANGED <<phase, now, board, made, stopped, view, count, ready, kept, saving, late, disk, mishap>>
  BY DEF Shots!Run, Shots!world
<1>2. RouteShape(route) /\ current = 0 /\ made > 0 /\ made \notin stopped
  BY <1>1 DEF ShotsInv, SessionInv
<1>3. Left(route, "wipe") = {} /\ Left(route, "count") = {}
  BY <1>1, <1>2, NextErrand
<1>4. made \in Sessions
  BY <1>2, ShotConstants DEF ShotsInv, CaptureTypes, Sessions
<1>5. \A t \in Sessions : \A d \in Cameras : <<t, d>> \in Workers /\ <<t, d>>[1] = t
  BY SameNames
<1>6. \A w \in Workers : w[1] = made => place[w] = "none" /\ ready[w] = NoShot /\ kept[w] = {}
  BY <1>1 DEF ShotsInv, SessionInv
<1>7. /\ place' = [w \in Workers |-> IF w \in Shots!Of(made) THEN "look" ELSE place[w]]
      /\ pairs' = [pairs EXCEPT ![made] = Shots!SmallestCount(made)]
  BY SameNames DEF Shots!Run
<1>8. \A w \in Workers : place'[w] = IF w[1] = made THEN "look" ELSE place[w]
  <2>1. \A w \in Workers : w \in Shots!Of(made) <=> w[1] = made
    BY SameNames
  <2> QED
    BY <1>7, <2>1
<1>9. \A d \in Cameras : /\ place'[<<made, d>>] = "look" /\ place[<<made, d>>] = "none"
                         /\ ready[<<made, d>>] = NoShot
  BY <1>4, <1>5, <1>6, <1>8
<1>10. \A t \in Sessions : \A d \in Cameras : t # made => place'[<<t, d>>] = place[<<t, d>>]
  BY <1>5, <1>8
<1>11. PICK k \in Nat : k = Shots!SmallestCount(made) /\ \E d \in Cameras : k = count[<<made, d>>]
  <2> DEFINE T == {count[w] : w \in Shots!Of(made)}
  <2>1. \A w \in Shots!Of(made) : w \in Workers /\ \E d \in Cameras : w = <<made, d>>
    BY <1>4, SameNames
  <2>2. \A w \in Workers : count[w] \in Nat
    BY DEF ShotsInv, CaptureTypes
  <2>3. T \subseteq Nat
    BY <2>1, <2>2
  <2>4. T # {}
    <3>1. PICK d : d \in Cameras
      BY ShotConstants
    <3>2. <<made, d>> \in Shots!Of(made)
      BY <3>1, SameNames
    <3> QED
      BY <3>2
  <2>5. \E x \in T : \A y \in T : x <= y
    BY <2>3, <2>4, LeastOf
  <2>6. \E x \in T : \A w \in Shots!Of(made) : x <= count[w]
    BY <2>5
  <2>7. Shots!SmallestCount(made) \in T
    BY <2>6 DEF Shots!SmallestCount
  <2> QED
    BY <2>1, <2>3, <2>7
<1>12. \A x : Files(x)' = Files(x) /\ Unsaved(x)' = Unsaved(x)
  BY <1>1 DEF Files, Unsaved
<1>13. CaptureTypes'
  <2>1. place \in [Workers -> Places] /\ pairs \in [Sessions -> Nat]
    BY DEF ShotsInv, CaptureTypes
  <2>2. place' \in [Workers -> Places]
    BY <1>7, <2>1 DEF Places
  <2>3. pairs' \in [Sessions -> Nat]
    BY <1>7, <1>11, <2>1
  <2> QED
    BY <1>1, <2>2, <2>3 DEF ShotsInv, CaptureTypes
<1>14. SessionInv'
  <2>1. \A s \in 1..made : s \in stopped \/ s = made
    BY <1>2 DEF ShotsInv, SessionInv
  <2>2. \A w \in Workers : place'[w] # "none" => w[1] <= made
    <3>1. made \in Nat
      BY DEF ShotsInv, CaptureTypes
    <3> QED
      BY <1>8, <3>1 DEF ShotsInv, SessionInv
  <2>3. \A w \in Workers : place'[w] = "none" => ready[w] = NoShot /\ kept[w] = {}
    BY <1>8 DEF ShotsInv, SessionInv
  <2>4. stopped \subseteq 1..made
    BY DEF ShotsInv, SessionInv
  <2> QED
    BY <1>1, <1>2, <2>1, <2>2, <2>3, <2>4 DEF SessionInv
<1>15. \A t \in Sessions : \A d \in Cameras : /\ place'[<<t, d>>] = "commit" <=> place[<<t, d>>] = "commit"
                                              /\ Active(<<t, d>>)' <=> Active(<<t, d>>)
  BY <1>9, <1>10 DEF Active
<1>16. CommitInv'
  <2>1. phase' = "intrinsic" => \A w \in Workers : place'[w] \notin {"try", "commit"}
    BY <1>1, <1>8 DEF ShotsInv, CommitInv
  <2> QED
    BY <1>1, <1>12, <1>15, <2>1 DEF ShotsInv, CommitInv
<1>17. LimitInv'
  <2>1. \A w \in Workers : place'[w] = "seen" => place[w] = "seen"
    BY <1>8
  <2> QED
    BY <1>1, <1>12, <2>1 DEF ShotsInv, LimitInv
<1>18. GateInv'
  <2> SUFFICES ASSUME phase = "intrinsic", NEW t \in Sessions, NEW d \in Cameras PROVE Gated(t, d)'
    BY <1>1 DEF GateInv
  <2>1. Gated(t, d)
    BY DEF ShotsInv, GateInv
  <2>2. CASE t = made
    <3>1. place[<<t, d>>] = "none" /\ place'[<<t, d>>] = "look"
      BY <1>9, <2>2
    <3> QED
      BY <1>1, <1>12, <2>1, <3>1 DEF Gated
  <2>3. CASE t # made
    <3>1. place'[<<t, d>>] = place[<<t, d>>]
      BY <1>10, <2>3
    <3> QED
      BY <1>1, <1>12, <2>1, <3>1 DEF Gated
  <2> QED
    BY <2>2, <2>3
<1>19. ASSUME phase = "floor" PROVE PairsInv'
  <2>1. Settled /\ OneSaves
    BY <1>1, <1>19 DEF ShotsInv, PairsInv
  <2>2. \A w \in Workers : ~Active(w)
    BY <1>1, <1>3, <2>1, ShotConstants DEF Settled
  <2>3. /\ \A s \in Sessions : ~Live(s) /\ saving[s] = <<>>
        /\ \A n : \A d \in Cameras : Level(n, d) = n
    BY <1>2, <2>2, NobodyLive
  <2>4. \A t \in Sessions : Live(t)' => t = made
    BY <1>1, <1>5, <1>15, <2>2 DEF Live
  <2>5. Settled'
    BY <1>1, EmptyRoute DEF Settled
  <2>6. OneSaves'
    <3>1. ASSUME NEW t \in Sessions, late[t] = 1 PROVE t \in stopped /\ Spent(t)'
      <4>1. t \in stopped /\ Spent(t) /\ t # made
        BY <1>2, <2>1, <3>1 DEF OneSaves
      <4> QED
        BY <1>1, <1>10, <4>1 DEF Spent
    <3> QED
      BY <1>1, <2>4, <3>1 DEF OneSaves
  <2>7. PICK n \in 0..Target : Lined(n)
    BY <1>1, <1>19 DEF ShotsInv, PairsInv
  <2>8. \A d \in Cameras : Level(n, d)' = n
    BY <1>1, <2>3 DEF Level, Ahead
  <2>9. FilesAt(n)'
    <3>1. \A d \in Cameras : Files(d) = 0..(n - 1)
      BY <1>3, <2>3, <2>7 DEF Lined, FilesAt
    <3> QED
      BY <1>1, <1>12, <2>8, <3>1, EmptyRoute DEF FilesAt
  <2>10. CountsAt(n)'
    <3>1. \A d \in Cameras : count[<<made, d>>] = n
      BY <1>1, <1>3, <2>7 DEF Lined, CountsAt
    <3>2. k = n
      BY <1>11, <3>1
    <3>3. pairs'[made] = n
      BY <1>4, <1>7, <1>11, <3>2 DEF ShotsInv, CaptureTypes
    <3> QED
      BY <1>1, <2>4, <2>8, <3>1, <3>3 DEF CountsAt
  <2>11. FullAt(n)'
    <3>1. Spent(made)'
      BY <1>1, <1>9, ShotConstants DEF Spent
    <3> QED
      BY <1>1, <2>3, <2>4, <3>1 DEF FullAt
  <2>12. MomentsAt(n)'
    BY <1>1, <1>3, <2>3, <2>7 DEF Lined, MomentsAt
  <2> QED
    BY <2>5, <2>6, <2>9, <2>10, <2>11, <2>12 DEF PairsInv, Lined
<1>20. PairsInv'
  BY <1>1, <1>19 DEF PairsInv
<1> QED
  BY <1>13, <1>14, <1>16, <1>17, <1>18, <1>20 DEF ShotsInv

\* Nothing is left but the files, of which no pair is cut.
LEMMA KillStep ==
  ASSUME ShotsInv, phase = "floor" => ~mishap, Shots!Kill
  PROVE  ShotsInv'
<1>1. /\ current' = 0 /\ route' = <<>> /\ stopped' = 1..made
      /\ UNCHANGED <<phase, now, board, made, count, pairs, late, disk>>
  BY DEF Shots!Kill, Shots!world
<1>2. /\ place' = [w \in Workers |-> IF place[w] = "none" THEN "none" ELSE "over"]
      /\ saving' = [s \in Sessions |-> <<>>] /\ view' = [w \in Workers |-> 0]
      /\ ready' = [w \in Workers |-> NoShot] /\ kept' = [w \in Workers |-> {}]
  BY SameNames DEF Shots!Kill
<1>3. mishap' = (mishap \/ route # <<>> \/ \E s \in Sessions : saving[s] \notin {<<>>, Shots!CameraOrder})
  BY SameNames DEF Shots!Kill
<1>4. \A w \in Workers : /\ place'[w] = IF place[w] = "none" THEN "none" ELSE "over"
                         /\ ready'[w] = NoShot /\ kept'[w] = {}
  BY <1>2
<1>5. \A t \in Sessions : \A d \in Cameras : <<t, d>> \in Workers
  BY SameNames
<1>6. \A t \in Sessions : saving'[t] = <<>>
  BY <1>2
<1>7. \A x : Files(x)' = Files(x)
  BY <1>1 DEF Files
<1>8. CaptureTypes'
  <2>1. place' \in [Workers -> Places]
    BY <1>2 DEF Places
  <2>2. view' \in [Workers -> Nat] /\ kept' \in [Workers -> SUBSET Nat]
    BY <1>2
  <2>3. ready' \in [Workers -> Snapshots]
    <3>1. NoShot \in Snapshots
      BY DEF NoShot, Snapshots
    <3> QED
      BY <1>2, <3>1
  <2>4. saving' \in [Sessions -> Seq(Cameras)]
    BY <1>2
  <2>5. mishap' \in BOOLEAN
    BY <1>3 DEF ShotsInv, CaptureTypes
  <2> QED
    BY <1>1, <2>1, <2>2, <2>3, <2>4, <2>5 DEF ShotsInv, CaptureTypes
<1>9. SessionInv'
  <2>1. \A w \in Workers : place'[w] # "none" => w[1] <= made
    BY <1>4 DEF ShotsInv, SessionInv
  <2> QED
    BY <1>1, <1>4, <2>1 DEF SessionInv
<1>10. \A t \in Sessions : \A d \in Cameras :
         place'[<<t, d>>] \in {"none", "over"} /\ (place[<<t, d>>] # "none" => place'[<<t, d>>] = "over")
  BY <1>4, <1>5
<1>11. CommitInv'
  <2>1. \A t \in Sessions : ~\E i : i \in DOMAIN saving'[t]
    BY <1>6
  <2>2. \A w \in Workers : place'[w] \notin {"try", "commit"}
    BY <1>4
  <2> QED
    BY <1>6, <1>10, <2>1, <2>2 DEF CommitInv
<1>12. LimitInv'
  <2>1. \A w \in Workers : place'[w] # "seen"
    BY <1>4
  <2> QED
    BY <1>1, <1>7, <2>1 DEF ShotsInv, LimitInv
<1>13. GateInv'
  <2> SUFFICES ASSUME phase = "intrinsic", NEW t \in Sessions, NEW d \in Cameras PROVE Gated(t, d)'
    BY <1>1 DEF GateInv
  <2>1. Gated(t, d)
    BY DEF ShotsInv, GateInv
  <2>2. /\ place'[<<t, d>>] # "seen"
        /\ place[<<t, d>>] # "none" => place'[<<t, d>>] = "over"
    BY <1>10
  <2> QED
    BY <1>1, <1>7, <2>1, <2>2 DEF Gated
<1>14. ASSUME phase = "floor", ~mishap' PROVE PairsInv'
  <2>1. /\ ~mishap /\ route = <<>>
        /\ \A s \in Sessions : saving[s] = <<>> \/ saving[s] = Shots!CameraOrder
    BY <1>3, <1>14
  <2>2. OneSaves
    BY <1>14, <2>1 DEF ShotsInv, PairsInv
  <2>3. \A t \in Sessions : ~Live(t)'
    <3>1. 0 \notin Sessions
      BY DEF Sessions
    <3> QED
      BY <1>1, <1>10, <3>1 DEF Live, Active
  <2>4. Settled'
    BY <1>1, EmptyRoute DEF Settled
  <2>5. OneSaves'
    <3>1. ASSUME NEW t \in Sessions, late[t] = 1 PROVE t \in stopped' /\ Spent(t)'
      <4>1. t \in stopped /\ Spent(t) /\ stopped \subseteq 1..made
        BY <2>2, <3>1 DEF OneSaves, ShotsInv, SessionInv
      <4>2. PICK d \in Cameras : place[<<t, d>>] # "none"
        BY <4>1 DEF Spent
      <4>3. place'[<<t, d>>] = "over" /\ ready'[<<t, d>>] = NoShot
        BY <1>4, <1>5, <4>2
      <4> QED
        BY <1>1, <4>1, <4>3 DEF Spent
    <3> QED
      BY <1>1, <2>3, <3>1 DEF OneSaves
  <2>6. PICK n \in 0..Target : Lined(n)
    BY <1>14, <2>1 DEF ShotsInv, PairsInv
  <2>7. \A d \in Cameras : ~Ahead(d)
    <3>1. \A s \in Sessions : saving[s] # <<>> => Unsaved(s) = Cameras
      BY <2>1, OrderFacts DEF Unsaved
    <3> QED
      BY <3>1 DEF Ahead
  <2>8. \A d \in Cameras : Level(n, d) = n /\ Level(n, d)' = n
    BY <1>6, <2>7 DEF Level, Ahead
  <2>9. FilesAt(n)'
    BY <1>1, <1>7, <2>1, <2>6, <2>8 DEF Lined, FilesAt
  <2>10. CountsAt(n)' /\ FullAt(n)'
    BY <1>1, <2>3 DEF CountsAt, FullAt
  <2>11. MomentsAt(n)'
    BY <1>1, <1>6, <2>1, <2>6 DEF Lined, MomentsAt
  <2> QED
    BY <2>4, <2>5, <2>6, <2>9, <2>10, <2>11 DEF PairsInv, Lined
<1>15. PairsInv'
  BY <1>1, <1>14 DEF PairsInv
<1> QED
  BY <1>8, <1>9, <1>11, <1>12, <1>13, <1>15 DEF ShotsInv

-----------------------------------------------------------------------------
(* The capture, all in all.                                                  *)

\* Whoever starts, stops and restarts the capture, ShotsInv is kept.
LEMMA ShotsInvKept ==
  ASSUME ShotsInv, Shots!CaptureNext
  PROVE  ShotsInv'
<1>1. /\ phase = "floor" => ~mishap
      /\ \/ Shots!Tick \/ Shots!Request \/ Shots!Wipe \/ Shots!CountFiles \/ Shots!Run \/ Shots!Kill
         \/ \E w \in Workers : \/ Shots!SourceEnds(w) \/ Shots!Look(w) \/ Shots!Snap(w)
                              \/ Shots!Stage(w) \/ Shots!Try(w) \/ Shots!Commit(w)
  BY SameNames, Zenon DEF Shots!CaptureNext
<1>2. CASE Shots!Tick
  BY <1>2, TickStep
<1>3. CASE Shots!Request
  BY <1>1, <1>3, RequestStep
<1>4. CASE Shots!Wipe
  BY <1>1, <1>4, WipeStep
<1>5. CASE Shots!CountFiles
  BY <1>1, <1>5, CountFilesStep
<1>6. CASE Shots!Run
  BY <1>1, <1>6, RunStep
<1>7. CASE Shots!Kill
  BY <1>1, <1>7, KillStep
<1>8. ASSUME NEW w \in Workers, Shots!SourceEnds(w) PROVE ShotsInv'
  BY <1>8, SourceEndsStep
<1>9. ASSUME NEW w \in Workers, Shots!Look(w) PROVE ShotsInv'
  BY <1>9, LookStep
<1>10. ASSUME NEW w \in Workers, Shots!Snap(w) PROVE ShotsInv'
  BY <1>10, SnapStep
<1>11. ASSUME NEW w \in Workers, Shots!Stage(w) PROVE ShotsInv'
  BY <1>11, StageStep
<1>12. ASSUME NEW w \in Workers, Shots!Try(w) PROVE ShotsInv'
  BY <1>1, <1>12, TryStep
<1>13. ASSUME NEW w \in Workers, Shots!Commit(w) PROVE ShotsInv'
  BY <1>1, <1>13, CommitStep
<1> QED
  BY <1>1, <1>2, <1>3, <1>4, <1>5, <1>6, <1>7, <1>8, <1>9, <1>10, <1>11, <1>12, <1>13

\* ShotsInv says what CaptureInv promises.
LEMMA ShotsInvSuffices ==
  ASSUME ShotsInv
  PROVE  CaptureInv
<1>1. \A c \in Cameras : Shots!Files(c) = Files(c)
  <2>1. \A c \in Cameras : DOMAIN disk[c] = 0..Target
    BY DEF ShotsInv, CaptureTypes
  <2> QED
    BY <2>1, SameNames DEF Shots!Files, Files
<1>2. \A s \in Sessions : \A w : w \in Shots!Of(s) <=> \E c \in Cameras : w = <<s, c>>
  BY SameNames
<1>3. Shots!CaptureTypeOK
  <2>1. /\ current \in {0, made} /\ stopped \subseteq 1..made
        /\ \A w \in Workers : place[w] = "none" => ready[w] = NoShot /\ kept[w] = {}
    BY DEF ShotsInv, SessionInv
  <2>2. \A s \in Sessions : saving[s] # <<>> <=> \E w \in Shots!Of(s) : place[w] = "commit"
    <3>1. ASSUME NEW s \in Sessions, saving[s] # <<>> PROVE \E w \in Shots!Of(s) : place[w] = "commit"
      <4>1. PICK c \in Cameras : place[<<s, c>>] = "commit"
        BY <3>1 DEF ShotsInv, CommitInv
      <4>2. <<s, c>> \in Shots!Of(s)
        BY <1>2
      <4> QED
        BY <4>1, <4>2
    <3>2. ASSUME NEW s \in Sessions, NEW w \in Shots!Of(s), place[w] = "commit" PROVE saving[s] # <<>>
      <4>1. PICK c \in Cameras : w = <<s, c>>
        BY <1>2
      <4> QED
        BY <3>2, <4>1 DEF ShotsInv, CommitInv
    <3> QED
      BY <3>1, <3>2
  <2>3. ASSUME NEW s \in Sessions
        PROVE  Cardinality({w \in Shots!Of(s) : place[w] = "commit"}) <= 1
    <3> DEFINE W == {w \in Shots!Of(s) : place[w] = "commit"}
    <3>1. \A v, w \in W : v = w
      BY <1>2 DEF ShotsInv, CommitInv
    <3>2. CASE W = {}
      BY <3>2, FS_EmptySet
    <3>3. CASE W # {}
      <4>1. PICK w : W = {w}
        BY <3>1, <3>3
      <4>2. Cardinality({w}) = 1
        BY FS_Singleton
      <4> QED
        BY <4>1, <4>2
    <3> QED
      BY <3>2, <3>3
  <2>4. \A S : Shots!Cardinality(S) = Cardinality(S)
    BY DEF Shots!Cardinality, Cardinality
  <2> QED
    BY <2>1, <2>2, <2>3, <2>4, SameNames DEF Shots!CaptureTypeOK
<1>4. Shots!NoOvershoot /\ Shots!LastPair
  BY SameNames DEF ShotsInv, LimitInv, Shots!NoOvershoot, Shots!LastPair
<1>5. Shots!PairsLineUp
  <2> SUFFICES ASSUME phase = "floor", ~mishap, route = <<>>, \A s \in Sessions : saving[s] = <<>>,
                      NEW c \in Cameras, NEW d \in Cameras
               PROVE  /\ Files(c) = Files(d)
                      /\ \A i \in Files(c) : disk[c][i].at - disk[d][i].at <= Window
    BY <1>1, SameNames DEF Shots!PairsLineUp
  <2>1. PICK n \in 0..Target : Lined(n)
    BY DEF ShotsInv, PairsInv
  <2>2. \A x \in Cameras : Level(n, x) = n
    BY DEF Level, Ahead
  <2>3. Left(route, "wipe") = {}
    BY EmptyRoute
  <2>4. \A x \in Cameras : Files(x) = 0..(n - 1)
    BY <2>1, <2>2, <2>3 DEF Lined, FilesAt
  <2> QED
    BY <2>1, <2>3, <2>4 DEF Lined, MomentsAt
<1>6. Shots!PairsCounted
  <2> SUFFICES ASSUME NEW s \in Sessions, phase = "floor", ~mishap, s = current, saving[s] = <<>>,
                      NEW c \in Cameras
               PROVE  pairs[s] = Cardinality(Files(c))
    <3>1. \A S : Shots!Cardinality(S) = Cardinality(S)
      BY DEF Shots!Cardinality, Cardinality
    <3> QED
      BY <1>1, <3>1, SameNames DEF Shots!PairsCounted
  <2>1. OneSaves
    BY DEF ShotsInv, PairsInv
  <2>2. PICK n \in 0..Target : Lined(n)
    BY DEF ShotsInv, PairsInv
  <2>3. current # 0 /\ route = <<>>
    BY DEF Sessions, ShotsInv, SessionInv
  <2>4. \A t \in Sessions : saving[t] = <<>>
    BY <2>1, SavingLive DEF OneSaves, Live, ShotsInv
  <2>5. Level(n, c) = n
    BY <2>4 DEF Level, Ahead
  <2>6. Files(c) = 0..(n - 1)
    BY <2>2, <2>3, <2>5, EmptyRoute DEF Lined, FilesAt
  <2>7. pairs[s] = n
    BY <2>2, <2>3 DEF Lined, CountsAt
  <2>8. Cardinality(0..(n - 1)) = n
    <3>1. n \in Nat /\ 0 \in Int /\ n - 1 \in Int
      BY ShotConstants
    <3>2. Cardinality(0..(n - 1)) = IF 0 > n - 1 THEN 0 ELSE (n - 1) - 0 + 1
      BY <3>1, FS_Interval
    <3> QED
      BY <3>1, <3>2
  <2> QED
    BY <2>6, <2>7, <2>8
<1>7. ASSUME phase = "intrinsic" PROVE Shots!PlacementsDistinct
  <2> SUFFICES ASSUME NEW c \in Cameras, NEW i \in Files(c), NEW j \in Files(c), i # j,
                      disk[c][i].by = disk[c][j].by
               PROVE  disk[c][i].shows # disk[c][j].shows
    BY <1>1 DEF Shots!PlacementsDistinct
  <2>1. PICK s \in Sessions : s = disk[c][i].by
    <3>1. disk[c][i] \in Snapshots /\ disk[c][i] # NoShot
      BY DEF ShotsInv, CaptureTypes, Files
    <3> QED
      BY <3>1 DEF Snapshots
  <2> QED
    BY <1>7, <2>1 DEF ShotsInv, GateInv, Gated
<1> QED
  BY <1>3, <1>4, <1>5, <1>6, <1>7 DEF CaptureInv, Shots!CaptureInv

\* CaptureInv of Capture, for any number of cameras, shots, sessions and ticks: files of
\* equal number show one moment and are counted, no camera gets more shots than asked
\* for, a session told to stop commits one more pair at most, and the shots a session
\* takes of a camera show different placements.
THEOREM CaptureTheorem == RigSpec => []CaptureInv
<1>1. RigInit => ShotsInv
  BY InitShotsInv DEF RigInit
<1>2. ShotsInv /\ [RigNext]_<<vars, rig, period, shotsVars>> => ShotsInv'
  <2> SUFFICES ASSUME ShotsInv, [RigNext]_<<vars, rig, period, shotsVars>> PROVE ShotsInv'
    OBVIOUS
  <2>1. CASE UNCHANGED shotsVars
    BY <2>1, CaptureSame
  <2>2. CASE Shots!CaptureNext
    BY <2>2, ShotsInvKept
  <2> QED
    BY <2>1, <2>2 DEF RigNext
<1>3. ShotsInv => CaptureInv
  BY ShotsInvSuffices
<1> QED
  BY <1>1, <1>2, <1>3, PTL DEF RigSpec
=============================================================================
