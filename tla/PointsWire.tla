------------------------------- MODULE PointsWire -------------------------------
(***************************************************************************)
(* The points wire: the perception producer sends one detection set per    *)
(* camera and tick, numbered per camera, as one datagram or, above the     *)
(* size limit, as the fragments of a group; DetectionIngest puts them      *)
(* together again in a FragmentBuffer, counts the gaps in the numbers and  *)
(* hands each set to the synchronizer.  Datagrams are lost, on the way or  *)
(* because the send failed, and keep their order otherwise: one thread     *)
(* sends them through one socket to one listener on the same host.  The    *)
(* producer may be restarted, which numbers its sets from 0 again.         *)
(***************************************************************************)
EXTENDS Integers, Sequences, SequencesExt, FiniteSetsExt

CONSTANTS
  Cameras,
  Sizes,          \* the numbers of fragments a set may need, 1 for none
  MaxGroups,      \* max_groups of the FragmentBuffer
  MaxTs,          \* model bound on the sets of a camera, by capture time
  MaxWire,        \* model bound on the datagrams waiting when a set is sent
  MaxLives        \* model bound on the starts of the producer

\* A set is one datagram or more, and the table has room for the group under
\* way next to one that waits in vain.
PointsAssumption ==
  /\ Sizes \subseteq Nat \ {0}
  /\ MaxGroups \in Nat /\ MaxGroups >= 2
  /\ {MaxTs, MaxWire, MaxLives} \subseteq Nat

VARIABLES
  seq,            \* [camera -> number of the producer's next set]
  life,           \* how often the producer has been started
  sent,           \* [camera -> the sets sent: [ts, seq, life]], a history variable
  wire,           \* the datagrams in the listener's socket, oldest first
  groups,         \* the FragmentBuffer: incomplete groups in insertion order
  lastSeq,        \* [camera -> _last_seq, -1 if none]
  gaps,           \* [camera -> seq_gaps_by_camera]
  arrived,        \* [camera -> sets of which every datagram came in], history
  handed          \* [camera -> sets given to on_set, in order], history

producerVars == <<seq, life, sent>>
ingestVars == <<groups, lastSeq, gaps, handed>>
pointsVars == <<producerVars, wire, ingestVars, arrived>>

Newest(c) == Max({s.ts : s \in sent[c]} \cup {0})

\* Of n fragments those that arrive, in the order in which they are sent.
Fragments(n) ==
  UNION {{parts \in [1..m -> 1..n] : \A j, k \in 1..m : j < k => parts[j] < parts[k]} :
           m \in 0..n}

\* send_json_datagram for the set of one camera in IsistreamCore.tick: `parts`
\* are the fragments that arrive.  The number is used up all the same.
Send(c, n, parts) ==
  LET s == [cam |-> c, ts |-> Newest(c) + 1, seq |-> seq[c], life |-> life]
  IN  /\ s.ts <= MaxTs /\ Len(wire) <= MaxWire
      /\ seq' = [seq EXCEPT ![c] = @ + 1]
      /\ sent' = [sent EXCEPT ![c] = @ \cup {s}]
      /\ wire' = wire \o [k \in DOMAIN parts |-> [set |-> s, i |-> parts[k], n |-> n]]
      /\ arrived' = [arrived EXCEPT ![c] = IF ToSet(parts) = 1..n THEN @ \cup {s} ELSE @]
      /\ UNCHANGED <<life, ingestVars>>

\* A new producer process: _seq starts at 0 again.
RestartProducer ==
  /\ life < MaxLives
  /\ life' = life + 1
  /\ seq' = [c \in Cameras |-> 0]
  /\ UNCHANGED <<sent, wire, ingestVars, arrived>>

-----------------------------------------------------------------------------
\* FragmentBuffer._prune: the oldest `aged` groups are past max_age_s; then the
\* table makes room for one more.
PruneNewest(aged) ==
  LET q == SubSeq(groups, aged + 1, Len(groups))
  IN  IF Len(q) >= MaxGroups THEN SubSeq(q, 1, MaxGroups - 1) ELSE q
Prune(aged) ==
  LET q == SubSeq(groups, aged + 1, Len(groups))
  IN  SubSeq(q, Max({1, Len(q) - MaxGroups + 2}), Len(q))

\* The group of a fragment with the fragment in it, in its place or new at the end.
GroupAt(q, d) == {k \in DOMAIN q : q[k].set = d.set}
Parts(q, d) == {d.i} \cup UNION {q[k].parts : k \in GroupAt(q, d)}
Without(q, d) ==
  IF GroupAt(q, d) = {} THEN q ELSE RemoveAt(q, CHOOSE k \in GroupAt(q, d) : TRUE)
With(q, d) ==
  LET g == [set |-> d.set, parts |-> Parts(q, d)]
  IN  IF GroupAt(q, d) = {} THEN Append(q, g)
      ELSE [k \in DOMAIN q |-> IF k \in GroupAt(q, d) THEN g ELSE q[k]]

CompleteEarly(q, d) == Cardinality(Parts(q, d)) >= d.n - 1
Complete(q, d) == Cardinality(Parts(q, d)) = d.n

\* FragmentBuffer.add.  The fragments of a set come back to back: what has aged
\* is older than the group of this one.
AddFragment(d, aged) ==
  LET q == Prune(aged)
  IN  /\ aged \in 0..Len(groups)
      /\ \A k \in GroupAt(groups, d) : aged < k
      /\ groups' = IF Complete(q, d) THEN Without(q, d) ELSE With(q, d)

\* The accounting of _handle_payload, and on_set.
CountedAlways(s) == s.seq - lastSeq[s.cam] - 1
Counted(s) ==
  IF lastSeq[s.cam] # -1 /\ s.seq > lastSeq[s.cam] + 1 THEN s.seq - lastSeq[s.cam] - 1 ELSE 0

HandOver(s) ==
  /\ gaps' = [gaps EXCEPT ![s.cam] = @ + Counted(s)]
  /\ lastSeq' = [lastSeq EXCEPT ![s.cam] = s.seq]
  /\ handed' = [handed EXCEPT ![s.cam] = Append(@, s)]

Receive ==
  /\ wire # <<>>
  /\ wire' = Tail(wire)
  /\ LET d == Head(wire)
     IN  \/ d.n = 1 /\ HandOver(d.set) /\ UNCHANGED groups
         \/ /\ d.n > 1
            /\ \E aged \in 0..Len(groups) :
                 /\ AddFragment(d, aged)
                 /\ IF Complete(Prune(aged), d)
                    THEN HandOver(d.set)
                    ELSE UNCHANGED <<gaps, lastSeq, handed>>
  /\ UNCHANGED <<producerVars, arrived>>

-----------------------------------------------------------------------------
PointsInit ==
  /\ seq = [c \in Cameras |-> 0] /\ life = 1
  /\ sent = [c \in Cameras |-> {}] /\ arrived = [c \in Cameras |-> {}]
  /\ wire = <<>> /\ groups = <<>>
  /\ lastSeq = [c \in Cameras |-> -1]
  /\ gaps = [c \in Cameras |-> 0]
  /\ handed = [c \in Cameras |-> <<>>]

Tick == \E c \in Cameras, n \in Sizes : \E parts \in Fragments(n) : Send(c, n, parts)

PointsNext == Tick \/ RestartProducer \/ Receive
PointsSpec == PointsInit /\ [][PointsNext]_pointsVars

-----------------------------------------------------------------------------
\* The table is within its bound and holds no complete group and no group twice.
PointsTypeOK ==
  /\ Len(groups) <= MaxGroups
  /\ \A k, l \in DOMAIN groups : groups[k].set = groups[l].set => k = l
  /\ \A c \in Cameras : lastSeq[c] \in -1..MaxTs /\ gaps[c] \in Nat

OnWire(c) == {wire[k].set : k \in {k \in DOMAIN wire : wire[k].set.cam = c}}

\* "add() returns the complete original JSON text once every fragment of a
\* group has arrived": whatever was lost before and fills the table, a set is
\* handed over exactly when all of its datagrams have come in.
WholeSetsOnly ==
  \A c \in Cameras :
    /\ ToSet(handed[c]) = arrived[c] \ OnWire(c)
    /\ Cardinality(ToSet(handed[c])) = Len(handed[c])

\* The sets that are lost for good, and those of them between two sets handed
\* over in one life of the producer.
Lost(c) == {s \in sent[c] \ arrived[c] : \A t \in OnWire(c) : s # t}
Between(c) ==
  {s \in Lost(c) : \E k, l \in DOMAIN handed[c] :
     /\ handed[c][k].life = s.life /\ handed[c][l].life = s.life
     /\ handed[c][k].seq < s.seq /\ s.seq < handed[c][l].seq}

\* "gaps = UDP loss, visible in diagnostics instead of silent": the counter
\* misses no set lost between two that arrived, and it never counts more than
\* what was lost, though the numbers start over with the producer.
GapsAreLosses ==
  \A c \in Cameras :
    /\ Cardinality(Between(c)) <= gaps[c]
    /\ gaps[c] <= Cardinality({s \in Lost(c) : \E k \in DOMAIN handed[c] : s.ts < handed[c][k].ts})

PointsInv == PointsTypeOK /\ WholeSetsOnly /\ GapsAreLosses

Stream == INSTANCE SetStream WITH
  newest <- [c \in Cameras |-> IF handed[c] = <<>> THEN 0 ELSE Last(handed[c]).ts],
  count <- [c \in Cameras |-> Len(handed[c])]

\* What FrameSync takes for granted of its input: the sets of one camera come
\* in the order of their capture, with gaps but without repetitions.
ImplementsStream == Stream!Spec

-----------------------------------------------------------------------------
(* An expectation the code does not meet.                                    *)

\* The gap counter is the number of sets lost up to the last one handed over.
\* The first sets of a new producer are compared with the numbers of the old.
GapsAreExact ==
  \A c \in Cameras : handed[c] # <<>> =>
    gaps[c] = Cardinality({s \in Lost(c) : s.ts < Last(handed[c]).ts})
=============================================================================
