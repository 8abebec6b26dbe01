------------------------------ MODULE ZonesProofs ------------------------------
(***************************************************************************)
(* Theorems about what is known and published of a zone: ZoneWire for any  *)
(* zones, tracks and verdicts and any refresh interval, Tracks for any     *)
(* thresholds and any number of tracks, the two as parts of MCZones, the   *)
(* bins of a rack, the vote over any window and how often it flips, and    *)
(* the decision on a pallet for any cameras, loads and thresholds.         *)
(***************************************************************************)
EXTENDS MCZones, Integers, Sequences, FiniteSetTheorems, WellFoundedInduction, TLAPS

(* The retained state of a zone.                                             *)

\* Before the first pair, what the tracker remembers of the zones seeded so far
\* is a signature that no step produces.
Seeding ==
  ts = 0 =>
    /\ pending = {}
    /\ starter = "seed" => \A z \in Zones \ toSeed : prevSig[z].dec = Empty
    /\ starter # "seed" => \A z \in Zones : prevSig[z].dec = Empty

\* As long as the start is quiet, no pair comes before the seeding is over.
QuietStart == quiet /\ ts > 0 => starter = "done"

\* The tracker remembers what it gave out last: that of this step, on its way or
\* on the topic.
SignatureKept ==
  quiet /\ ts > 0 =>
    \A z \in Zones :
      /\ prevSig[z] = current[z]
      /\ z \notin pending => retained[z] = current[z]

\* An occupied zone was published less than a refresh interval ago.
Refreshed ==
  ts > 0 => \A z \in Zones : current[z].occ = {} \/ ts - lastPub[z] < Refresh

Consistent(sig) == ~({"full", "empty"} \subseteq {o[2] : o \in sig.occ})

WireTypes ==
  /\ WireTypeOK
  /\ current \in [Zones -> Signatures] /\ quiet \in BOOLEAN /\ lastPub \in [Zones -> Nat]
  /\ \A z \in Zones : Consistent(current[z])

\* The inductive invariant.
TruthInv == WireTypes /\ Seeding /\ QuietStart /\ SignatureKept /\ Refreshed

LEMMA TruthInvImplies == TruthInv => WireInv /\ RetainedIsTruth
  BY DEF TruthInv, WireTypes, WireInv, OccupiedHeals, Refreshed, RetainedIsTruth, SignatureKept, Idle

-----------------------------------------------------------------------------
(* Signatures.                                                               *)

\* With a loaded pallet in a zone the empty ones go.
LEMMA ResolvedConsistent ==
  ASSUME NEW occ, NEW dec PROVE Consistent(Signature(Resolved(occ), dec))
<1> DEFINE sig == Signature(Resolved(occ), dec)
<1>1. sig.occ = Resolved(occ)
  BY DEF Signature
<1>2. CASE \E o \in occ : o[2] = "full"
  <2>1. \A o \in Resolved(occ) : o[2] # "empty"
    BY <1>2 DEF Resolved
  <2> QED
    BY <1>1, <2>1 DEF Consistent
<1>3. CASE ~\E o \in occ : o[2] = "full"
  <2>1. \A o \in Resolved(occ) : o[2] # "full"
    BY <1>3 DEF Resolved
  <2> QED
    BY <1>1, <2>1 DEF Consistent
<1> QED
  BY <1>2, <1>3

LEMMA SeedSignature ==
  ASSUME NEW dec \in {NoData, Unset, Empty}
  PROVE  Signature({}, dec) \in Signatures /\ Consistent(Signature({}, dec))
<1>1. Resolved({}) = {} /\ {} \in SUBSET (Tracks \X Readings)
  BY DEF Resolved
<1>2. {} \in Occupancies
  BY <1>1 DEF Occupancies
<1>3. Signature({}, dec) \in Signatures
  BY <1>2 DEF Signature, Signatures
<1> QED
  BY <1>1, <1>3, ResolvedConsistent

LEMMA StepSignature ==
  ASSUME NEW frame \in Frames, NEW z \in Zones, NEW dec \in Decisions
  PROVE  /\ Signature(Occupants(frame, z), dec) \in Signatures
         /\ Consistent(Signature(Occupants(frame, z), dec))
         /\ Signature(Occupants(frame, z), dec).dec = dec
<1> DEFINE seen == {<<t, frame[t].reading>> : t \in {u \in Tracks : z \in frame[u].zones}}
<1>1. seen \in SUBSET (Tracks \X Readings)
  BY DEF Frames
<1>2. Occupants(frame, z) = Resolved(seen)
  BY DEF Occupants
<1> HIDE DEF seen
<1>3. Resolved(seen) \in Occupancies
  BY <1>1 DEF Occupancies
<1>4. Signature(Resolved(seen), dec) \in Signatures /\ Signature(Resolved(seen), dec).dec = dec
  BY <1>3 DEF Signature, Signatures
<1> QED
  BY <1>2, <1>4, ResolvedConsistent

-----------------------------------------------------------------------------
LEMMA InitTruthInv == WireInit => TruthInv
<1> SUFFICES ASSUME WireInit PROVE TruthInv
  OBVIOUS
<1> USE DEF WireInit
<1>1. /\ Signature({}, Unset) \in Signatures /\ Consistent(Signature({}, Unset))
      /\ Signature({}, NoData) \in Signatures /\ Consistent(Signature({}, NoData))
  BY SeedSignature
<1>2. WireTypeOK
  <2>1. prevSig \in [Zones -> Signatures] /\ retained \in [Zones -> Signatures]
    BY <1>1
  <2>2. \A z \in Zones : Consistent(retained[z]) /\ lastPub[z] <= ts
    BY <1>1
  <2>3. ts \in 0..MaxTs /\ starter = "seed" /\ toSeed = Zones /\ pending = {}
    BY WireAssumption
  <2> QED
    BY <2>1, <2>2, <2>3 DEF WireTypeOK, Consistent
<1>3. WireTypes
  <2>1. current \in [Zones -> Signatures] /\ lastPub \in [Zones -> Nat]
    BY <1>1
  <2>2. \A z \in Zones : Consistent(current[z])
    BY <1>1
  <2>3. quiet \in BOOLEAN
    OBVIOUS
  <2> QED
    BY <1>2, <2>1, <2>2, <2>3 DEF WireTypes
<1>4. starter = "seed" /\ toSeed = Zones /\ pending = {} /\ ts = 0
  OBVIOUS
<1>5. Seeding /\ QuietStart /\ SignatureKept /\ Refreshed
  BY <1>4 DEF Seeding, QuietStart, SignatureKept, Refreshed
<1> QED
  BY <1>3, <1>5 DEF TruthInv

\* run() seeds a zone: while the start is quiet there is no state to forget.
LEMMA SeedStep == ASSUME TruthInv, NEW z \in Zones, Seed(z) PROVE TruthInv'
<1> USE DEF Seed
<1>1. /\ Signature({}, Empty) \in Signatures /\ Signature({}, Empty).dec = Empty
  BY SeedSignature DEF Signature
<1>2. /\ prevSig' \in [Zones -> Signatures] /\ lastPub' \in [Zones -> Nat]
      /\ prevSig'[z].dec = Empty /\ lastPub'[z] = ts
      /\ \A y \in Zones \ {z} : prevSig'[y] = prevSig[y] /\ lastPub'[y] = lastPub[y]
  BY <1>1, WireAssumption DEF TruthInv, WireTypes, WireTypeOK
<1>3. starter' \in {"seed", "publish"} /\ toSeed' \subseteq Zones
  BY DEF TruthInv, WireTypes, WireTypeOK
<1>4. \A y \in Zones : lastPub'[y] <= ts
  BY <1>2, WireAssumption DEF TruthInv, WireTypes, WireTypeOK
<1>5. WireTypes'
  BY <1>2, <1>3, <1>4 DEF TruthInv, WireTypes, WireTypeOK
<1>6. starter' = "seed" => toSeed' = toSeed \ {z}
  OBVIOUS
<1>7. starter' = "publish" => toSeed = {z}
  OBVIOUS
<1>8. \A y \in Zones : ts = 0 /\ starter' = "publish" => prevSig'[y].dec = Empty
  BY <1>2, <1>7 DEF TruthInv, Seeding
<1>9. Seeding'
  BY <1>2, <1>3, <1>6, <1>8 DEF TruthInv, Seeding
<1>10. quiet => ts = 0
  BY WireAssumption DEF TruthInv, QuietStart, WireTypes, WireTypeOK
<1>11. QuietStart' /\ SignatureKept'
  BY <1>3, <1>10 DEF TruthInv, QuietStart, SignatureKept
<1>12. Refreshed'
  <2>1. ts \in Nat /\ Refresh > 0 /\ ts - ts = 0
    BY WireAssumption DEF TruthInv, WireTypes, WireTypeOK
  <2> QED
    BY <1>2, <2>1, WireAssumption DEF TruthInv, Refreshed
<1> QED
  BY <1>5, <1>9, <1>11, <1>12 DEF TruthInv

LEMMA PublishSeedStep == ASSUME TruthInv, NEW z \in Zones, PublishSeed(z) PROVE TruthInv'
<1> USE DEF PublishSeed
<1>1. Signature({}, NoData) \in Signatures /\ Consistent(Signature({}, NoData))
  BY SeedSignature
<1>2. /\ retained' \in [Zones -> Signatures] /\ \A y \in Zones : Consistent(retained'[y])
  BY <1>1 DEF TruthInv, WireTypes, WireTypeOK, Consistent
<1>3. starter' \in {"publish", "done"} /\ toSeed' \subseteq Zones
  BY DEF TruthInv, WireTypes, WireTypeOK
<1>4. WireTypes'
  BY <1>2, <1>3 DEF TruthInv, WireTypes, WireTypeOK, Consistent
<1>5. Seeding'
  BY <1>3 DEF TruthInv, Seeding
<1>6. quiet => ts = 0
  BY WireAssumption DEF TruthInv, QuietStart, WireTypes, WireTypeOK
<1>7. QuietStart' /\ SignatureKept' /\ Refreshed'
  BY <1>3, <1>6 DEF TruthInv, QuietStart, SignatureKept, Refreshed
<1> QED
  BY <1>4, <1>5, <1>7 DEF TruthInv

\* A step: the zones it does not give out are those whose signature it gave out
\* the last time, and none on the first.
LEMMA UpdateStep ==
  ASSUME TruthInv, NEW frame \in Frames, NEW dec \in [Zones -> Decisions],
         NEW t \in (ts + 1)..MaxTs, Update(frame, dec, t)
  PROVE  TruthInv'
<1> DEFINE sig(z) == Signature(Occupants(frame, z), dec[z])
           out == {z \in Zones : Changed(z, sig(z)) \/ RefreshDue(z, sig(z), t)}
<1>1. /\ pending = {} /\ pending' = out /\ ts' = t
      /\ prevSig' = [z \in Zones |-> IF z \in out THEN sig(z) ELSE prevSig[z]]
      /\ lastPub' = [z \in Zones |-> IF z \in out THEN t ELSE lastPub[z]]
      /\ current' = [z \in Zones |-> sig(z)]
      /\ quiet' = (quiet /\ starter = "done")
      /\ UNCHANGED <<starter, toSeed, retained>>
  BY DEF Update
<1>2. \A z \in Zones : sig(z) \in Signatures /\ Consistent(sig(z)) /\ sig(z).dec \in Decisions
  BY StepSignature
<1>3. \A z \in Zones : z \notin out => sig(z) = prevSig[z]
  BY DEF Changed
<1>4. \A z \in Zones : z \notin out => sig(z).occ = {} \/ ~(t - lastPub[z] >= Refresh)
  BY DEF RefreshDue
<1>5. out \subseteq Zones
  OBVIOUS
<1> HIDE DEF sig, out
<1>6. t \in 0..MaxTs /\ t > 0 /\ ts < t /\ ts \in Nat /\ t \in Nat
  BY WireAssumption DEF TruthInv, WireTypes, WireTypeOK
<1>7. WireTypes'
  <2>1. prevSig' \in [Zones -> Signatures] /\ current' \in [Zones -> Signatures]
    BY <1>1, <1>2 DEF TruthInv, WireTypes, WireTypeOK
  <2>2. \A z \in Zones : Consistent(current'[z])
    BY <1>1, <1>2
  <2>3. lastPub' \in [Zones -> Nat] /\ \A z \in Zones : lastPub'[z] <= t
    BY <1>1, <1>6 DEF TruthInv, WireTypes, WireTypeOK
  <2>4. quiet' \in BOOLEAN
    BY <1>1 DEF TruthInv, WireTypes
  <2> QED
    BY <1>1, <1>5, <1>6, <2>1, <2>2, <2>3, <2>4 DEF TruthInv, WireTypes, WireTypeOK
<1>8. Seeding' /\ QuietStart'
  <2>1. ts' # 0
    BY <1>1, <1>6
  <2>2. quiet' => starter' = "done"
    BY <1>1
  <2> QED
    BY <2>1, <2>2 DEF Seeding, QuietStart
<1>9. SignatureKept'
  <2> SUFFICES ASSUME quiet', NEW z \in Zones
               PROVE  prevSig'[z] = current'[z] /\ (z \notin pending' => retained'[z] = current'[z])
    BY DEF SignatureKept
  <2>1. quiet /\ starter = "done"
    BY <1>1
  <2>2. prevSig'[z] = current'[z]
    BY <1>1, <1>3
  <2>3. CASE ts = 0
    <3>1. prevSig[z].dec = Empty
      BY <2>1, <2>3 DEF TruthInv, Seeding
    <3>2. z \in out
      BY <1>2, <1>3, <3>1, WireAssumption
    <3> QED
      BY <1>1, <2>2, <3>2
  <2>4. CASE ts > 0
    <3>1. prevSig[z] = current[z] /\ retained[z] = current[z]
      BY <1>1, <2>1, <2>4 DEF TruthInv, SignatureKept
    <3> QED
      BY <1>1, <1>3, <2>2, <3>1
  <2> QED
    BY <1>6, <2>3, <2>4
<1>10. Refreshed'
  <2> SUFFICES ASSUME NEW z \in Zones
               PROVE  current'[z].occ = {} \/ t - lastPub'[z] < Refresh
    BY <1>1 DEF Refreshed
  <2>1. CASE z \in out
    <3>1. lastPub'[z] = t /\ t - t = 0
      BY <1>1, <1>6, <2>1
    <3> QED
      BY <3>1, WireAssumption
  <2>2. CASE z \notin out
    <3>1. current'[z] = sig(z) /\ lastPub'[z] = lastPub[z] /\ lastPub[z] \in Nat
      BY <1>1, <2>2 DEF TruthInv, WireTypes
    <3> QED
      BY <1>4, <1>6, <2>2, <3>1, WireAssumption
  <2> QED
    BY <2>1, <2>2
<1> QED
  BY <1>7, <1>8, <1>9, <1>10 DEF TruthInv

LEMMA PublishStateStep == ASSUME TruthInv, NEW z \in Zones, PublishState(z) PROVE TruthInv'
<1> USE DEF PublishState
<1>1. /\ retained' \in [Zones -> Signatures] /\ retained'[z] = current[z]
      /\ \A y \in Zones \ {z} : retained'[y] = retained[y]
  BY DEF TruthInv, WireTypes, WireTypeOK
<1>2. \A y \in Zones : Consistent(retained'[y])
  BY <1>1 DEF TruthInv, WireTypes, WireTypeOK, Consistent
<1>3. WireTypes'
  BY <1>1, <1>2 DEF TruthInv, WireTypes, WireTypeOK, Consistent
<1>4. SignatureKept'
  BY <1>1 DEF TruthInv, SignatureKept
<1>5. Seeding' /\ QuietStart' /\ Refreshed'
  BY DEF TruthInv, Seeding, QuietStart, Refreshed
<1> QED
  BY <1>3, <1>4, <1>5 DEF TruthInv

-----------------------------------------------------------------------------
LEMMA TruthInvKept == TruthInv /\ [WireNext]_wireVars => TruthInv'
<1> SUFFICES ASSUME TruthInv, [WireNext]_wireVars PROVE TruthInv'
  OBVIOUS
<1>1. CASE Run
  BY <1>1, SeedStep, PublishSeedStep DEF Run
<1>2. CASE Pipeline
  BY <1>2, UpdateStep, PublishStateStep DEF Pipeline
<1>3. CASE UNCHANGED wireVars
  BY <1>3 DEF wireVars, TruthInv, WireTypes, WireTypeOK, Consistent, Seeding, QuietStart, SignatureKept, Refreshed
<1> QED
  BY <1>1, <1>2, <1>3 DEF WireNext

\* After a quiet start the retained topic of a zone is the truth between steps,
\* though most steps publish nothing: the tracker's memory, the topic and the
\* step agree.
THEOREM RetainedTheorem == WireSpec => []RetainedIsTruth
  BY TruthInvImplies, InitTruthInv, TruthInvKept, PTL DEF WireSpec

\* No consumer ever sees a loaded and an empty pallet in one zone, and whatever
\* the start did to the topic of an occupied zone is over within a refresh interval.
THEOREM WireTheorem == WireSpec => []WireInv
  BY TruthInvImplies, InitTruthInv, TruthInvKept, PTL DEF WireSpec

-----------------------------------------------------------------------------
(* The tracks in a zone and their passings.                                  *)

\* The hysteresis and the detector forget the same tracks, so that they agree on
\* who is in the zone, and out of sight is out of both.
Forgotten ==
  /\ member = prev
  /\ Ids \ Published \subseteq broken

\* The inductive invariant.
TrackInv == TracksInv /\ Forgotten

LEMMA InitTrackInv == TracksInit => TrackInv
<1> SUFFICES ASSUME TracksInit PROVE TrackInv
  OBVIOUS
<1> USE TracksAssumption DEF TracksInit
<1>1. Published = {}
  BY DEF Published
<1>2. TracksTypeOK
  BY DEF TracksTypeOK, States
<1>3. ListAgreesWithPassings /\ Forgotten
  BY <1>1 DEF ListAgreesWithPassings, Forgotten
<1> QED
  BY <1>2, <1>3 DEF TrackInv, TracksInv

-----------------------------------------------------------------------------
(* What the parts of a step do.                                              *)

\* The tracker: the counters of a track fit its state.
LEMMA FollowStep ==
  ASSUME TracksTypeOK,
         NEW seen \in [Ids -> Places \cup {Missed}], NEW spawned \in SUBSET Unused,
         Follow(seen, spawned)
  PROVE  /\ state' \in [Ids -> States] /\ hits' \in [Ids -> 0..MinHits] /\ lost' \in [Ids -> Nat]
         /\ \A i \in Ids :
              /\ state'[i] = "new" => hits'[i] \in 1..MinHits /\ lost'[i] = 0
              /\ state'[i] = "tracked" => hits'[i] > 0 /\ lost'[i] = 0
              /\ state'[i] = "lost" => lost'[i] \in 1..MaxLost
<1> USE TracksAssumption DEF Follow
<1> DEFINE S(i) == IF i \in spawned THEN Created
                   ELSE IF i \notin Active THEN state[i]
                   ELSE IF i \in Matched(seen) THEN Updated(i) ELSE MarkedMissed(i)
           H(i) == IF i \in spawned THEN 1
                   ELSE IF i \notin Active THEN hits[i]
                   ELSE IF i \in Matched(seen) /\ hits[i] < MinHits THEN hits[i] + 1
                   ELSE IF i \in Matched(seen) THEN hits[i] ELSE 0
           L(i) == IF i \notin Active \/ i \in Matched(seen) THEN 0 ELSE lost[i] + 1
<1>1. state' = [i \in Ids |-> S(i)] /\ hits' = [i \in Ids |-> H(i)] /\ lost' = [i \in Ids |-> L(i)]
  OBVIOUS
<1>2. ASSUME NEW i \in Ids
      PROVE  /\ S(i) \in States /\ H(i) \in 0..MinHits /\ L(i) \in Nat
             /\ S(i) = "new" => H(i) \in 1..MinHits /\ L(i) = 0
             /\ S(i) = "tracked" => H(i) > 0 /\ L(i) = 0
             /\ S(i) = "lost" => L(i) \in 1..MaxLost
  <2>1. state[i] \in States /\ hits[i] \in 0..MinHits /\ lost[i] \in Nat
    BY DEF TracksTypeOK
  <2>2. i \in Active <=> state[i] \in {"new", "tracked", "lost"}
    BY DEF Active
  <2>3. Matched(seen) \subseteq Active /\ (i \in spawned => state[i] = "none")
    BY DEF Matched, Unused
  <2>4. CASE i \in spawned
    BY <2>2, <2>3, <2>4 DEF Created, States
  <2>5. CASE i \notin spawned /\ i \notin Active
    BY <2>1, <2>2, <2>3, <2>5 DEF States
  <2>6. CASE i \notin spawned /\ i \in Matched(seen)
    BY <2>1, <2>2, <2>3, <2>6 DEF Updated, States, TracksTypeOK
  <2>7. CASE i \notin spawned /\ i \in Active /\ i \notin Matched(seen)
    BY <2>1, <2>2, <2>3, <2>7 DEF MarkedMissed, GivenUp, States, TracksTypeOK
  <2> QED
    BY <2>4, <2>5, <2>6, <2>7, <2>3
<1> HIDE DEF S, H, L
<1> QED
  BY <1>1, <1>2

\* The hysteresis: streaks stay below their thresholds, and nobody who is not
\* published is a member.
LEMMA DebounceStep ==
  ASSUME TracksTypeOK, NEW seen \in [Ids -> Places \cup {Missed}], NEW live \in SUBSET Ids,
         Debounce(seen, live)
  PROVE  /\ member' \subseteq live
         /\ inStreak' \in [Ids -> 0..EnterAfter] /\ outStreak' \in [Ids -> 0..ExitAfter]
<1>1. member' \subseteq live
  BY DEF Debounce, Kept
<1>2. inStreak' \in [Ids -> 0..EnterAfter]
  BY TracksAssumption DEF Debounce, Enters, InRun, TracksTypeOK
<1>3. outStreak' \in [Ids -> 0..ExitAfter]
  BY TracksAssumption DEF Debounce, Leaves, OutRun, TracksTypeOK
<1> QED
  BY <1>1, <1>2, <1>3

\* The detector: what was announced last of a track in sight is whether it is
\* in the zone.
LEMMA TransitionsStep ==
  ASSUME TracksTypeOK, ListAgreesWithPassings, Forgotten,
         NEW live \in SUBSET Ids, member' \subseteq live,
         Transitions(live)
  PROVE  /\ prev' = member' /\ broken' \subseteq Ids /\ Ids \ live \subseteq broken'
         /\ event' \in [Ids -> {"none", "enter", "leave"}]
         /\ member' = {i \in live : event'[i] = "enter" /\ i \notin broken'}
         /\ \A i \in Ids :
              /\ event'[i] = "leave" /\ event[i] # "leave" => event[i] = "enter" /\ i \notin broken
              /\ i \in prev' \ prev => event[i] # "enter" \/ i \in broken
<1> DEFINE enters == (member' \cap live) \ prev
           leaves == (prev \cap live) \ member'
<1>1. prev' = member'
  BY DEF Transitions, Remembered
<1>2. broken' = (broken \ (enters \cup leaves)) \cup (Ids \ live)
  BY DEF Transitions
<1>3. event' = [i \in Ids |-> IF i \in enters THEN "enter"
                              ELSE IF i \in leaves THEN "leave" ELSE event[i]]
  BY DEF Transitions
<1>4. \A i \in Ids : i \in prev <=> event[i] = "enter" /\ i \notin broken
  BY DEF ListAgreesWithPassings, Forgotten, Published
<1>5. event' \in [Ids -> {"none", "enter", "leave"}]
  BY <1>3 DEF TracksTypeOK
<1>6. member' = {i \in live : event'[i] = "enter" /\ i \notin broken'}
  BY <1>2, <1>3, <1>4
<1>7. ASSUME NEW i \in Ids
      PROVE  /\ event'[i] = "leave" /\ event[i] # "leave" => event[i] = "enter" /\ i \notin broken
             /\ i \in prev' \ prev => event[i] # "enter" \/ i \in broken
  BY <1>1, <1>3, <1>4
<1> QED
  BY <1>1, <1>2, <1>5, <1>6, <1>7 DEF TracksTypeOK

-----------------------------------------------------------------------------
\* One step of the pipeline keeps the invariant, and its passings are justified.
PassingsStep ==
  \A i \in Ids :
    /\ event'[i] = "leave" /\ event[i] # "leave" => event[i] = "enter" /\ i \notin broken
    /\ i \in prev' \ prev => event[i] # "enter" \/ i \in broken

LEMMA TrackInvKept == ASSUME TrackInv, TracksNext PROVE TrackInv' /\ PassingsStep
<1>1. PICK seen \in [Ids -> Places \cup {Missed}], spawned \in NextIds : Step(seen, spawned)
  BY DEF TracksNext
<1>2. spawned \in SUBSET Unused
  BY DEF NextIds
<1>3. Published' \in SUBSET Ids
  BY DEF Published
<1> USE DEF TrackInv, TracksInv
<1>4. /\ state' \in [Ids -> States] /\ hits' \in [Ids -> 0..MinHits] /\ lost' \in [Ids -> Nat]
      /\ \A i \in Ids :
           /\ state'[i] = "new" => hits'[i] \in 1..MinHits /\ lost'[i] = 0
           /\ state'[i] = "tracked" => hits'[i] > 0 /\ lost'[i] = 0
           /\ state'[i] = "lost" => lost'[i] \in 1..MaxLost
  BY <1>1, <1>2, FollowStep DEF Step
<1>5. /\ member' \subseteq Published'
      /\ inStreak' \in [Ids -> 0..EnterAfter] /\ outStreak' \in [Ids -> 0..ExitAfter]
  BY <1>1, <1>3, DebounceStep DEF Step
<1>6. Transitions(Published')
  BY <1>1 DEF Step
<1>7. /\ prev' = member' /\ broken' \subseteq Ids /\ Ids \ Published' \subseteq broken'
      /\ event' \in [Ids -> {"none", "enter", "leave"}]
      /\ member' = {i \in Published' : event'[i] = "enter" /\ i \notin broken'}
      /\ PassingsStep
  BY <1>3, <1>5, <1>6, TransitionsStep DEF PassingsStep
<1>8. TracksTypeOK'
  BY <1>3, <1>4, <1>5, <1>7 DEF TracksTypeOK
<1>9. ListAgreesWithPassings' /\ Forgotten'
  BY <1>7 DEF ListAgreesWithPassings, Forgotten
<1> QED
  BY <1>7, <1>8, <1>9

LEMMA TrackInvInductive == TrackInv /\ [TracksNext]_tracksVars => TrackInv'
<1> SUFFICES ASSUME TrackInv, UNCHANGED tracksVars PROVE TrackInv'
  BY TrackInvKept
<1> QED
  BY DEF TrackInv, TracksInv, TracksTypeOK, ListAgreesWithPassings, Forgotten, Published,
         tracksVars, trackVars, zoneVars

\* The object list of a zone and its passings tell one story, and the counters
\* of every track fit its state.
THEOREM TracksTheorem == TracksSpec => []TracksInv
<1>1. TrackInv => TracksInv
  BY DEF TrackInv
<1> QED
  BY <1>1, InitTrackInv, TrackInvInductive, PTL DEF TracksSpec

\* Nobody leaves a zone who has not been announced in it, and nobody enters it
\* twice without having been out of sight.
THEOREM PassingsTheorem == TracksSpec => PassingsJustified
<1>1. TrackInv /\ [TracksNext]_tracksVars => [PassingsStep]_tracksVars
  BY TrackInvKept
<1> QED
  BY <1>1, InitTrackInv, TrackInvInductive, PTL DEF TracksSpec, PassingsJustified, PassingsStep

-----------------------------------------------------------------------------
\* Both in the composed specification.
THEOREM ZonesTheorem == ZonesSpec => [](WireInv /\ RetainedIsTruth /\ TracksInv)
<1>1. ZonesInit => TruthInv /\ TrackInv
  BY InitTruthInv, InitTrackInv DEF ZonesInit
<1>2. TruthInv /\ TrackInv /\ [ZonesNext]_zonesVars => TruthInv' /\ TrackInv'
  <2> SUFFICES ASSUME TruthInv, TrackInv, [ZonesNext]_zonesVars
               PROVE  [WireNext]_wireVars /\ [TracksNext]_tracksVars
    BY TruthInvKept, TrackInvInductive
  <2> QED
    BY DEF ZonesNext, zonesVars
<1>3. TruthInv /\ TrackInv => WireInv /\ RetainedIsTruth /\ TracksInv
  BY TruthInvImplies DEF TrackInv
<1> QED
  BY <1>1, <1>2, <1>3, PTL DEF ZonesSpec

-----------------------------------------------------------------------------
(* The bins of a rack.                                                       *)

LEMMA RackConstants ==
  /\ Window \in Nat /\ Window > 0
  /\ UnknownAfter \in Nat /\ Heartbeat \in Nat /\ Heartbeat > 0 /\ MaxTime \in Nat
  BY ZonesConstants DEF Rack!VoteAssumption, Rack!RackAssumption

LEMMA InitRackInv == Rack!EtagereInit => RackInv
<1> SUFFICES ASSUME Rack!EtagereInit PROVE RackInv
  OBVIOUS
<1> USE RackConstants DEF Rack!EtagereInit, Rack!UnknownCell, Rack!Voting, Rack!CellStates
<1>1. Rack!EtagereTypeOK
  <2>1. /\ held \in [Cells -> Rack!CellStates]
        /\ lastGrid \in [Cells -> Rack!CellStates \cup {"none"}]
    BY DEF Rack!NoGrid
  <2>2. now \in 0..MaxTime /\ updated \in 0..now /\ lastEmit \in (-1)..updated
    BY DEF Rack!None
  <2>3. ASSUME NEW c \in Cells
        PROVE  /\ hist[c] \in Seq(Rack!Voting)
               /\ Len(hist[c]) = IF held[c] \in Rack!Voting THEN Window ELSE 0
               /\ lastVote[c] \in 0..updated
    OBVIOUS
  <2> QED
    BY <2>1, <2>2, <2>3 DEF Rack!EtagereTypeOK
<1>2. Rack!FailsHonestly
  BY DEF Rack!FailsHonestly
<1>3. Rack!GridInv
  BY DEF Rack!GridInv, Rack!RetainedGridCurrent, Rack!HeartbeatKept
<1> QED
  BY <1>1, <1>2, <1>3 DEF RackInv, Rack!CellInv

\* What one bin is after an observation: a full window behind a held state, whose
\* last vote is recent.
Held(h, s, t, last) ==
  /\ h \in Seq(Rack!Voting) /\ s \in Rack!CellStates
  /\ Len(h) = IF s \in Rack!Voting THEN Window ELSE 0
  /\ s \in Rack!Voting => t - last <= UnknownAfter

\* Why a bin changes.
Justified(c, h, s, t) ==
  held[c] \in Rack!Voting =>
    /\ s = Rack!Other(held[c]) => Rack!Count(h, {s}) >= Rack!Need(Window)
    /\ s = Rack!UnknownCell => t - lastVote[c] > UnknownAfter

LEMMA VoteFacts ==
  ASSUME RackInv, NEW c \in Cells, NEW s \in Rack!CellStates, NEW t \in Nat
  PROVE  /\ Held(Rack!Vote(c, s, t).hist, Rack!Vote(c, s, t).held, t, Rack!VoteTime(c, s, t))
         /\ Justified(c, Rack!Vote(c, s, t).hist, Rack!Vote(c, s, t).held, t)
         /\ updated <= t => Rack!VoteTime(c, s, t) \in 0..t
<1> DEFINE v == Rack!Vote(c, s, t)
<1> USE RackConstants
<1>1. /\ hist[c] \in Seq(Rack!Voting) /\ held[c] \in Rack!CellStates
      /\ Len(hist[c]) = IF held[c] \in Rack!Voting THEN Window ELSE 0
      /\ lastVote[c] \in 0..updated /\ updated \in Nat
  BY DEF RackInv, Rack!CellInv, Rack!EtagereTypeOK
<1>2. updated <= t => Rack!VoteTime(c, s, t) \in 0..t
  BY <1>1 DEF Rack!VoteTime
<1>3. \A x \in Rack!Voting : Rack!Other(x) \in Rack!Voting /\ Rack!Other(x) # x /\ x # Rack!UnknownCell
  BY DEF Rack!Other, Rack!Voting, Rack!UnknownCell
<1>4. CASE s \notin Rack!Voting
  <2>1. v = Rack!Hold(c, t) /\ Rack!VoteTime(c, s, t) = lastVote[c]
    BY <1>4 DEF Rack!Vote, Rack!VoteTime
  <2>2. CASE held[c] \in Rack!Voting /\ ~Rack!Stale(c, t)
    <3>1. v.hist = hist[c] /\ v.held = held[c] /\ t - lastVote[c] <= UnknownAfter
      BY <1>1, <2>1, <2>2 DEF Rack!Hold, Rack!Stale
    <3> QED
      BY <1>1, <1>2, <1>3, <2>1, <2>2, <3>1 DEF Held, Justified
  <2>3. CASE ~(held[c] \in Rack!Voting /\ ~Rack!Stale(c, t))
    <3>1. v.hist = <<>> /\ v.held = Rack!UnknownCell
      BY <2>1, <2>3 DEF Rack!Hold
    <3>2. held[c] \in Rack!Voting => t - lastVote[c] > UnknownAfter
      BY <2>3 DEF Rack!Stale
    <3>3. Rack!UnknownCell \in Rack!CellStates /\ Rack!UnknownCell \notin Rack!Voting
      BY <1>3 DEF Rack!CellStates
    <3> QED
      BY <1>2, <1>3, <3>1, <3>2, <3>3 DEF Held, Justified
  <2> QED
    BY <2>2, <2>3
<1>5. CASE s \in Rack!Voting /\ held[c] \notin Rack!Voting
  <2>1. v = Rack!Establish(s) /\ Rack!VoteTime(c, s, t) = t
    BY <1>5 DEF Rack!Vote, Rack!VoteTime
  <2>2. v.hist = [i \in 1..Window |-> s] /\ v.held = s
    BY <2>1 DEF Rack!Establish, Rack!Seeded
  <2>3. v.hist \in Seq(Rack!Voting) /\ Len(v.hist) = Window
    BY <1>5, <2>2
  <2> QED
    BY <1>2, <1>5, <2>1, <2>2, <2>3 DEF Held, Justified
<1>6. CASE s \in Rack!Voting /\ held[c] \in Rack!Voting
  <2> DEFINE h == Rack!Record(hist[c], s)
             other == Rack!Other(held[c])
  <2>1. v = Rack!Challenge(c, s) /\ Rack!VoteTime(c, s, t) = t
    BY <1>6 DEF Rack!Vote, Rack!VoteTime
  <2>2. /\ v.hist = h
        /\ v.held = IF Rack!Count(h, {other}) >= Rack!Need(Len(h)) THEN other ELSE held[c]
    BY <2>1 DEF Rack!Challenge
  <2>3. h \in Seq(Rack!Voting) /\ Len(h) = Window
    <3>1. Len(hist[c]) = Window /\ hist[c] # <<>>
      BY <1>1, <1>6
    <3>2. h = Append(Tail(hist[c]), s)
      BY <3>1 DEF Rack!Record
    <3> QED
      BY <1>1, <1>6, <3>1, <3>2
  <2>4. other \in Rack!Voting /\ other # held[c] /\ v.held \in Rack!Voting
    BY <1>3, <1>6, <2>2
  <2>5. v.held = other => Rack!Count(h, {v.held}) >= Rack!Need(Window)
    BY <2>2, <2>3, <2>4
  <2>6. v.held \in Rack!CellStates /\ v.held # Rack!UnknownCell
    BY <1>3, <2>4 DEF Rack!CellStates
  <2> HIDE DEF h, v, other
  <2>7. Held(v.hist, v.held, t, t)
    BY <2>2, <2>3, <2>4, <2>6 DEF Held
  <2>8. Justified(c, v.hist, v.held, t)
    BY <2>2, <2>5, <2>6 DEF Justified, other
  <2> QED
    BY <1>2, <2>1, <2>7, <2>8 DEF v
<1> QED
  BY <1>4, <1>5, <1>6

\* What update() does with one bin: the step of CellSteps.
CellStep ==
  \A c \in Cells :
    held[c] \in Rack!Voting =>
      /\ held'[c] = Rack!Other(held[c]) =>
           Cardinality({i \in DOMAIN hist'[c] : hist'[c][i] = held'[c]}) >= Rack!Need(Window)
      /\ held'[c] = Rack!UnknownCell => now' - lastVote[c] > UnknownAfter

LEMMA UpdateRack ==
  ASSUME RackInv, NEW t \in (now + 1)..MaxTime, NEW seen \in [Cells -> Rack!CellStates],
         Rack!Update(seen, t)
  PROVE  RackInv' /\ CellStep
<1> USE RackConstants
<1>1. t \in Nat /\ t > 0 /\ updated <= t /\ t <= MaxTime /\ updated \in Nat
  BY DEF RackInv, Rack!CellInv, Rack!EtagereTypeOK
<1>2. PICK grid : grid = [c \in Cells |-> Rack!Vote(c, seen[c], t).held]
  OBVIOUS
<1>3. /\ now' = t /\ updated' = t /\ held' = grid
      /\ hist' = [c \in Cells |-> Rack!Vote(c, seen[c], t).hist]
      /\ lastVote' = [c \in Cells |-> Rack!VoteTime(c, seen[c], t)]
      /\ lastEmit' = IF Rack!Emitted(grid, t) THEN t ELSE lastEmit
      /\ lastGrid' = IF Rack!Emitted(grid, t) THEN grid ELSE lastGrid
  BY <1>2 DEF Rack!Update
<1>4. ASSUME NEW c \in Cells
      PROVE  /\ Held(hist'[c], held'[c], t, lastVote'[c])
             /\ Justified(c, hist'[c], held'[c], t)
             /\ lastVote'[c] \in 0..t
  <2>1. seen[c] \in Rack!CellStates
    OBVIOUS
  <2>2. /\ hist'[c] = Rack!Vote(c, seen[c], t).hist /\ held'[c] = Rack!Vote(c, seen[c], t).held
        /\ lastVote'[c] = Rack!VoteTime(c, seen[c], t)
    BY <1>2, <1>3
  <2> QED
    BY <1>1, <2>1, <2>2, VoteFacts
<1>5. grid \in [Cells -> Rack!CellStates]
  BY <1>2, <1>3, <1>4 DEF Held
<1>6. lastEmit' \in (-1)..t /\ lastGrid' \in [Cells -> Rack!CellStates \cup {"none"}]
  BY <1>1, <1>3, <1>5 DEF RackInv, Rack!CellInv, Rack!EtagereTypeOK
<1>7. Rack!EtagereTypeOK'
  BY <1>1, <1>3, <1>4, <1>5, <1>6 DEF Rack!EtagereTypeOK, Held
<1>8. Rack!FailsHonestly'
  BY <1>3, <1>4 DEF Rack!FailsHonestly, Held
<1>9. Rack!GridInv'
  <2>1. CASE Rack!Emitted(grid, t)
    BY <1>1, <1>3, <2>1 DEF Rack!GridInv, Rack!RetainedGridCurrent, Rack!HeartbeatKept
  <2>2. CASE ~Rack!Emitted(grid, t)
    BY <1>1, <1>3, <2>2
       DEF Rack!GridInv, Rack!RetainedGridCurrent, Rack!HeartbeatKept, Rack!Emitted
  <2> QED
    BY <2>1, <2>2
<1>10. CellStep
  <2> SUFFICES ASSUME NEW c \in Cells, held[c] \in Rack!Voting
               PROVE  /\ held'[c] = Rack!Other(held[c]) =>
                           Cardinality({i \in DOMAIN hist'[c] : hist'[c][i] = held'[c]})
                             >= Rack!Need(Window)
                      /\ held'[c] = Rack!UnknownCell => now' - lastVote[c] > UnknownAfter
    BY DEF CellStep
  <2>1. Justified(c, hist'[c], held'[c], t)
    BY <1>4
  <2>2. Rack!Count(hist'[c], {held'[c]}) = Cardinality({i \in DOMAIN hist'[c] : hist'[c][i] = held'[c]})
    <3>1. \A i : hist'[c][i] \in {held'[c]} <=> hist'[c][i] = held'[c]
      OBVIOUS
    <3>2. {i \in DOMAIN hist'[c] : hist'[c][i] \in {held'[c]}}
            = {i \in DOMAIN hist'[c] : hist'[c][i] = held'[c]}
      BY <3>1
    <3> QED
      BY <3>2, Zenon DEF Rack!Count, Rack!Cardinality, Cardinality
  <2> QED
    BY <1>3, <2>1, <2>2 DEF Justified
<1> QED
  BY <1>7, <1>8, <1>9, <1>10 DEF RackInv, Rack!CellInv

LEMMA RackInvKept ==
  ASSUME RackInv, [Rack!EtagereNext]_rackVars
  PROVE  RackInv' /\ [CellStep]_rackVars
<1>1. CASE UNCHANGED rackVars
  BY <1>1 DEF rackVars, RackInv, Rack!CellInv, Rack!EtagereTypeOK, Rack!FailsHonestly, Rack!GridInv,
              Rack!RetainedGridCurrent, Rack!HeartbeatKept
<1>2. ASSUME NEW t \in (now + 1)..MaxTime, NEW seen \in [Cells -> Rack!CellStates], Rack!Update(seen, t)
      PROVE  RackInv' /\ CellStep
  BY <1>2, UpdateRack
<1>3. ASSUME NEW t \in (now + 1)..MaxTime, Rack!Silence(t)
      PROVE  RackInv' /\ CellStep
  <2>1. t \in 0..MaxTime /\ updated \in 0..t
    BY RackConstants DEF RackInv, Rack!CellInv, Rack!EtagereTypeOK
  <2>2. now' = t /\ UNCHANGED <<hist, held, lastVote, lastEmit, lastGrid, updated>>
    BY <1>3 DEF Rack!Silence, Rack!cellVars, Rack!emitVars
  <2>3. RackInv'
    BY <2>1, <2>2 DEF RackInv, Rack!CellInv, Rack!EtagereTypeOK, Rack!FailsHonestly, Rack!GridInv,
              Rack!RetainedGridCurrent, Rack!HeartbeatKept
  <2>4. CellStep
    BY <2>2 DEF CellStep, Rack!Other, Rack!Voting, Rack!UnknownCell
  <2> QED
    BY <2>3, <2>4
<1> QED
  BY <1>1, <1>2, <1>3 DEF Rack!EtagereNext

\* A bin is held on a full window of votes of which the last is recent, and the
\* retained grid, never older than a heartbeat while updates come, is what is held.
THEOREM RackTheorem == ZonesSpec => []RackInv
<1>1. ZonesInit => RackInv
  BY InitRackInv DEF ZonesInit
<1>2. RackInv /\ [ZonesNext]_zonesVars => RackInv'
  <2> SUFFICES ASSUME [ZonesNext]_zonesVars PROVE [Rack!EtagereNext]_rackVars
    BY RackInvKept
  <2> QED
    BY DEF ZonesNext, zonesVars
<1> QED
  BY <1>1, <1>2, PTL DEF ZonesSpec

\* A bin flips only for a supermajority of a full window, and is blanked only
\* after unknown_after_s without a vote: a hand over it does neither.
THEOREM CellsTheorem == ZonesSpec => Rack!CellSteps
<1>1. ZonesInit => RackInv
  BY InitRackInv DEF ZonesInit
<1>2. RackInv /\ [ZonesNext]_zonesVars => RackInv' /\ [CellStep]_rackVars
  <2> SUFFICES ASSUME [ZonesNext]_zonesVars PROVE [Rack!EtagereNext]_rackVars
    BY RackInvKept
  <2> QED
    BY DEF ZonesNext, zonesVars
<1>3. [CellStep]_rackVars =>
        /\ [\A c \in Cells : held[c] \in Rack!Voting /\ held'[c] = Rack!Other(held[c]) =>
              Rack!Cardinality({i \in DOMAIN hist'[c] : hist'[c][i] = held'[c]})
                >= Rack!Need(Window)]_(Rack!etagereVars)
        /\ [\A c \in Cells : held[c] \in Rack!Voting /\ held'[c] = Rack!UnknownCell =>
              now' - lastVote[c] > UnknownAfter]_(Rack!etagereVars)
  <2>2. UNCHANGED rackVars => UNCHANGED Rack!etagereVars
    BY DEF rackVars, Rack!etagereVars, Rack!cellVars, Rack!emitVars
  <2> QED
    BY <2>2 DEF CellStep, Rack!Cardinality, Cardinality
<1> QED
  BY <1>1, <1>2, <1>3, PTL DEF ZonesSpec, Rack!CellSteps, Rack!FlipNeedsSupermajority, Rack!BlankedOnlyWhenStale
-----------------------------------------------------------------------------
(* Votes.  What pallets and racks share, for any window w.                   *)

\* Every set of naturals has a least element: what stands here for induction.
LEMMA Least ==
  ASSUME NEW T, T \subseteq Nat, T # {}
  PROVE  \E x \in T : \A y \in T : x <= y
<1>1. IsWellFoundedOn(OpToRel(<, Nat), Nat)
  BY NatLessThanWellFounded
<1>2. PICK x \in T : \A y \in T : ~(<<y, x>> \in OpToRel(<, Nat))
  BY <1>1, WFMin
<1>3. ASSUME NEW y \in T PROVE x <= y
  <2>1. ~(<<y, x>> \in OpToRel(<, Nat))
    BY <1>2
  <2>2. ~(<<y, x>> \in {r \in Nat \X Nat : r[1] < r[2]})
    BY <2>1 DEF OpToRel
  <2>3. <<y, x>> \in Nat \X Nat /\ <<y, x>>[1] = y /\ <<y, x>>[2] = x
    OBVIOUS
  <2>4. ~(y < x)
    BY <2>2, <2>3
  <2> QED
    BY <2>4
<1> QED
  BY <1>3

Ballots == Loads \cup {Empty}
Quorum(n) == (FlipNum * n + FlipDen - 1) \div FlipDen
Tally(h, S) == Cardinality({i \in DOMAIN h : h[i] \in S})
Pushed(h, v, w) == IF Len(h) < w THEN Append(h, v) ELSE Append(Tail(h), v)

\* The last m votes are in S.
RunOf(h, S, m) == \A i \in DOMAIN h : Len(h) - i < m => h[i] \in S

LEMMA VoteConstants ==
  /\ FlipNum \in Nat /\ FlipDen \in Nat /\ FlipDen > 0 /\ FlipDen < 2 * FlipNum /\ FlipNum <= FlipDen
  /\ LongWindow \in Nat /\ LongWindow > 0 /\ PalletWindow \in Nat /\ PalletWindow > 0
  /\ Empty \notin Loads /\ Unknown \notin Ballots /\ "full" # Empty /\ "full" # Unknown
  BY ZonesConstants DEF Long!VoteAssumption, Pallet!VoteAssumption, Rack!VoteAssumption,
     Long!LoadAssumption, Long!Full, Ballots

LEMMA Times ==
  ASSUME NEW c \in Nat, NEW x \in Int, NEW y \in Int, x <= y
  PROVE  c * x <= c * y
<1>1. PICK d \in Nat : d = y - x
  OBVIOUS
<1>2. c * d \in Nat
  OBVIOUS
<1>3. c * y = c * x + c * d
  BY <1>1
<1> QED
  BY <1>2, <1>3

\* What rounding up does.
LEMMA Rounded ==
  ASSUME NEW a \in Nat, NEW d \in Nat, d > 0, NEW q, q = (a + d - 1) \div d
  PROVE  q \in Nat /\ a <= d * q /\ d * q < a + d
<1>1. q \in Int /\ d * q <= a + d - 1 /\ a + d - 1 < d * q + d
  OBVIOUS
<1>2. q >= 0
  <2> SUFFICES ASSUME q <= -1 PROVE FALSE
    BY <1>1
  <2>1. d * q <= d * (-1)
    BY <1>1, Times
  <2>2. d * (-1) = -d
    OBVIOUS
  <2> QED
    BY <1>1, <2>1, <2>2
<1> QED
  BY <1>1, <1>2

LEMMA Quota ==
  ASSUME NEW num \in Nat, NEW den \in Nat, den < 2 * num, num <= den,
         NEW n \in Nat, NEW q \in Nat, num * n <= den * q, den * q < num * n + den
  PROVE  q <= n /\ (n > 0 => 2 * q > n)
<1>1. PICK a \in Nat, b \in Nat, c \in Nat : a = num * n /\ b = den * q /\ c = den * n
  OBVIOUS
<1>2. a <= b /\ b < a + den
  BY <1>1
<1>3. a <= c
  <2>1. n * num <= n * den
    BY Times
  <2> QED
    BY <1>1, <2>1
<1>4. ASSUME q >= n + 1 PROVE FALSE
  <2>1. n + 1 \in Int /\ n + 1 <= q
    BY <1>4
  <2>2. den * (n + 1) <= den * q
    BY <2>1, Times
  <2>3. den * (n + 1) = c + den
    BY <1>1
  <2>4. c + den <= b
    BY <1>1, <2>2, <2>3
  <2> QED
    BY <1>2, <1>3, <2>4
<1>5. ASSUME n > 0, 2 * q <= n PROVE FALSE
  <2>1. den * (2 * q) <= den * n
    BY <1>5, Times
  <2>2. den * (2 * q) = 2 * b
    BY <1>1
  <2>3. n * (den + 1) <= n * (2 * num)
    BY Times
  <2>4. n * (den + 1) = c + n /\ n * (2 * num) = 2 * a
    BY <1>1
  <2>5. 2 * b <= c /\ c + n <= 2 * a
    BY <1>1, <2>1, <2>2, <2>3, <2>4
  <2> QED
    BY <1>2, <1>5, <2>5
<1> QED
  BY <1>4, <1>5

LEMMA QuotaGrows ==
  ASSUME NEW num \in Nat, NEW den \in Nat, NEW m \in Nat, NEW n \in Nat, m <= n,
         NEW p \in Nat, NEW q \in Nat, den * p < num * m + den, num * n <= den * q
  PROVE  p <= q
<1> SUFFICES ASSUME q + 1 <= p PROVE FALSE
  OBVIOUS
<1>1. PICK a \in Nat, b \in Nat, c \in Nat, d \in Nat :
        a = num * m /\ b = num * n /\ c = den * p /\ d = den * q
  OBVIOUS
<1>2. a <= b
  BY <1>1, Times
<1>3. den * (q + 1) <= den * p
  BY Times
<1>4. den * (q + 1) = d + den
  BY <1>1
<1>5. d + den <= c /\ c < a + den /\ b <= d
  BY <1>1, <1>3, <1>4
<1> QED
  BY <1>2, <1>5

\* A quorum is more than half and at most all of the votes, and grows with them.
LEMMA QuorumFacts ==
  ASSUME NEW n \in Nat
  PROVE  /\ Quorum(n) \in Nat /\ Quorum(n) <= n
         /\ n > 0 => 2 * Quorum(n) > n
         /\ \A m \in Nat : m <= n => Quorum(m) <= Quorum(n)
<1>1. ASSUME NEW k \in Nat
      PROVE  /\ Quorum(k) \in Nat
             /\ FlipNum * k <= FlipDen * Quorum(k) /\ FlipDen * Quorum(k) < FlipNum * k + FlipDen
  <2>1. FlipNum * k \in Nat /\ FlipDen \in Nat /\ FlipDen > 0
    BY VoteConstants
  <2>2. Quorum(k) = (FlipNum * k + FlipDen - 1) \div FlipDen
    BY DEF Quorum
  <2> QED
    BY <2>1, <2>2, Rounded
<1>2. Quorum(n) <= n /\ (n > 0 => 2 * Quorum(n) > n)
  BY <1>1, Quota, VoteConstants
<1>3. ASSUME NEW m \in Nat, m <= n PROVE Quorum(m) <= Quorum(n)
  BY <1>1, <1>3, QuotaGrows, VoteConstants
<1> QED
  BY <1>1, <1>2, <1>3

\* Loads and empty votes are all the votes there are.
LEMMA TallyFacts ==
  ASSUME NEW h \in Seq(Ballots)
  PROVE  /\ Tally(h, Loads) \in Nat /\ Tally(h, {Empty}) \in Nat
         /\ Tally(h, Loads) + Tally(h, {Empty}) = Len(h)
<1> DEFINE L == {i \in DOMAIN h : h[i] \in Loads}
           E == {i \in DOMAIN h : h[i] \in {Empty}}
<1>1. DOMAIN h = 1..Len(h) /\ Len(h) \in Nat
  OBVIOUS
<1>2. IsFiniteSet(DOMAIN h) /\ Cardinality(DOMAIN h) = Len(h)
  BY <1>1, FS_Interval, SMTT(30)
<1>3. IsFiniteSet(L) /\ IsFiniteSet(E)
  BY <1>2, FS_Subset
<1>4. L \cup E = DOMAIN h /\ L \cap E = {}
  <2>1. \A i \in DOMAIN h : h[i] \in Loads \/ h[i] = Empty
    BY <1>1 DEF Ballots
  <2>2. Empty \notin Loads
    BY VoteConstants
  <2> QED
    BY <2>1, <2>2
<1>5. Cardinality(L \cup E) = Cardinality(L) + Cardinality(E) - Cardinality(L \cap E)
  BY <1>3, FS_Union
<1>6. Cardinality(L) \in Nat /\ Cardinality(E) \in Nat /\ Cardinality(L \cap E) = 0
  BY <1>3, <1>4, FS_CardinalityType, FS_EmptySet
<1>7. Tally(h, Loads) = Cardinality(L) /\ Tally(h, {Empty}) = Cardinality(E)
  BY DEF Tally
<1> HIDE DEF L, E
<1>8. Cardinality(L) + Cardinality(E) = Len(h)
  BY <1>2, <1>4, <1>5, <1>6
<1> QED
  BY <1>6, <1>7, <1>8

LEMMA TallyNonzero ==
  ASSUME NEW h \in Seq(Ballots)
  PROVE  Tally(h, Loads) > 0 <=> \E i \in DOMAIN h : h[i] \in Loads
<1> DEFINE L == {i \in DOMAIN h : h[i] \in Loads}
<1>1. IsFiniteSet(DOMAIN h)
  <2>1. DOMAIN h = 1..Len(h) /\ Len(h) \in Nat
    OBVIOUS
  <2> QED
    BY <2>1, FS_Interval
<1>2. IsFiniteSet(L)
  BY <1>1, FS_Subset
<1>3. Cardinality(L) \in Nat /\ (Cardinality(L) = 0 <=> L = {})
  BY <1>2, FS_CardinalityType, FS_EmptySet
<1> QED
  BY <1>3 DEF Tally

\* A run of votes counts.
LEMMA RunTally ==
  ASSUME NEW h \in Seq(Ballots), NEW S, NEW m \in Nat, m <= Len(h), RunOf(h, S, m)
  PROVE  Tally(h, S) >= m
<1> DEFINE I == (Len(h) - m + 1)..Len(h)
           V == {i \in DOMAIN h : h[i] \in S}
<1>1. DOMAIN h = 1..Len(h) /\ Len(h) \in Nat
  OBVIOUS
<1>2. IsFiniteSet(DOMAIN h)
  BY <1>1, FS_Interval
<1>3. I \subseteq V
  BY <1>1 DEF RunOf
<1>4. Cardinality(I) = m
  <2>1. PICK b \in Int : b = Len(h)
    OBVIOUS
  <2>2. PICK a \in Int : a = b - m + 1
    OBVIOUS
  <2>3. Cardinality(a..b) = IF a > b THEN 0 ELSE b - a + 1
    BY FS_Interval
  <2>4. (IF a > b THEN 0 ELSE b - a + 1) = m
    BY <2>2
  <2>5. I = a..b
    BY <2>1, <2>2
  <2> QED
    BY <2>3, <2>4, <2>5
<1>5. IsFiniteSet(V)
  BY <1>2, FS_Subset
<1>6. Cardinality(I) <= Cardinality(V)
  BY <1>3, <1>5, FS_Subset
<1> QED
  BY <1>4, <1>6 DEF Tally

\* A vote on a deque of length w.
LEMMA PushFacts ==
  ASSUME NEW V, NEW h \in Seq(V), NEW v \in V, NEW w \in Nat, w > 0, Len(h) <= w
  PROVE  /\ Pushed(h, v, w) \in Seq(V)
         /\ Len(Pushed(h, v, w)) <= w /\ Len(Pushed(h, v, w)) > 0
         /\ Pushed(h, v, w)[Len(Pushed(h, v, w))] = v
         /\ h = <<>> => Len(Pushed(h, v, w)) = 1
         /\ \A i \in DOMAIN Pushed(h, v, w) :
              \/ i = Len(Pushed(h, v, w))
              \/ \E j \in DOMAIN h :
                   Pushed(h, v, w)[i] = h[j] /\ Len(h) - j = Len(Pushed(h, v, w)) - i - 1
<1>1. Len(h) \in Nat /\ DOMAIN h = 1..Len(h)
  OBVIOUS
<1>2. CASE Len(h) < w
  <2>1. PICK p : p = Pushed(h, v, w)
    OBVIOUS
  <2>2. p = Append(h, v)
    BY <1>2, <2>1 DEF Pushed
  <2>3. p \in Seq(V) /\ Len(p) = Len(h) + 1 /\ p[Len(h) + 1] = v /\ DOMAIN p = 1..(Len(h) + 1)
    BY <1>1, <2>2
  <2>4. \A i \in 1..Len(h) : p[i] = h[i]
    BY <1>1, <2>2
  <2> QED
    BY <1>1, <1>2, <2>1, <2>3, <2>4
<1>3. CASE ~(Len(h) < w)
  <2>1. PICK p : p = Pushed(h, v, w)
    OBVIOUS
  <2>2. p = Append(Tail(h), v) /\ h # <<>> /\ Len(h) = w
    <3>1. Len(h) = w
      BY <1>3
    <3>2. h # <<>>
      BY <3>1
    <3>3. p = Append(Tail(h), v)
      BY <1>3, <2>1 DEF Pushed
    <3> QED
      BY <3>1, <3>2, <3>3
  <2>3. Tail(h) \in Seq(V) /\ Len(Tail(h)) = Len(h) - 1 /\ \A i \in 1..(Len(h) - 1) : Tail(h)[i] = h[i + 1]
    BY <1>1, <2>2
  <2>4. p \in Seq(V) /\ Len(p) = Len(h) /\ p[Len(h)] = v /\ DOMAIN p = 1..Len(h)
    BY <1>1, <2>2, <2>3
  <2>5. \A i \in 1..(Len(h) - 1) : p[i] = h[i + 1]
    BY <1>1, <2>2, <2>3
  <2>6. \A i \in DOMAIN p : i = Len(p) \/ \E j \in DOMAIN h : p[i] = h[j] /\ Len(h) - j = Len(p) - i - 1
    <3> SUFFICES ASSUME NEW i \in DOMAIN p, i # Len(p)
                 PROVE  i + 1 \in DOMAIN h /\ p[i] = h[i + 1] /\ Len(h) - (i + 1) = Len(p) - i - 1
      BY Zenon
    <3>1. i \in 1..(Len(h) - 1)
      BY <1>1, <2>4
    <3> QED
      BY <1>1, <2>4, <2>5, <3>1
  <2> QED
    BY <1>1, <1>3, <2>1, <2>2, <2>4, <2>6
<1> QED
  BY <1>2, <1>3

LEMMA RunPush ==
  ASSUME NEW V, NEW h \in Seq(V), NEW v \in V, NEW w \in Nat, w > 0, Len(h) <= w,
         NEW S, NEW m \in Nat, NEW r \in Nat, v \in S, r <= m + 1, r <= 1 \/ RunOf(h, S, m)
  PROVE  RunOf(Pushed(h, v, w), S, r)
<1>1. PICK p : p = Pushed(h, v, w)
  OBVIOUS
<1>2. /\ p \in Seq(V) /\ p[Len(p)] = v
      /\ \A i \in DOMAIN p : i = Len(p) \/ \E j \in DOMAIN h : p[i] = h[j] /\ Len(h) - j = Len(p) - i - 1
  BY <1>1, PushFacts
<1>3. ASSUME NEW i \in DOMAIN p, Len(p) - i < r PROVE p[i] \in S
  <2>1. CASE i = Len(p)
    BY <1>2, <2>1
  <2>2. CASE i # Len(p)
    <3>1. i \in Nat /\ Len(p) \in Nat /\ i < Len(p)
      BY <1>2, <2>2
    <3>2. PICK j \in DOMAIN h : p[i] = h[j] /\ Len(h) - j = Len(p) - i - 1
      BY <1>2, <2>2
    <3>3. j \in Nat /\ Len(h) \in Nat
      OBVIOUS
    <3>4. Len(h) - j < m /\ r > 1
      BY <1>3, <3>1, <3>2, <3>3
    <3> QED
      BY <3>2, <3>4 DEF RunOf
  <2> QED
    BY <2>1, <2>2
<1> QED
  BY <1>1, <1>3 DEF RunOf
\* What a window says when s is held: VotedState of both instances.
State(h, s) ==
  IF s = Unknown
  THEN IF \/ Tally(h, Loads) > Tally(h, {Empty})
          \/ Tally(h, Loads) = Tally(h, {Empty}) /\ h[1] # Empty
       THEN "full" ELSE Empty
  ELSE IF s = "full"
  THEN IF Tally(h, {Empty}) >= Quorum(Len(h)) THEN Empty ELSE "full"
  ELSE IF Tally(h, Loads) >= Quorum(Len(h)) THEN "full" ELSE Empty

LEMMA SameVote ==
  ASSUME NEW h, NEW s \in {Unknown, "full", Empty}
  PROVE  /\ Long!VotedState(h, s) = State(h, s) /\ Pallet!VotedState(h, s) = State(h, s)
         /\ \A v : /\ Long!Record(h, v) = Pushed(h, v, LongWindow)
                   /\ Pallet!Record(h, v) = Pushed(h, v, PalletWindow)
<1>1. \A S : Long!Count(h, S) = Tally(h, S) /\ Pallet!Count(h, S) = Tally(h, S)
  BY DEF Long!Count, Pallet!Count, Long!Cardinality, Pallet!Cardinality, Cardinality, Tally
<1>2. Long!Need(Len(h)) = Quorum(Len(h)) /\ Pallet!Need(Len(h)) = Quorum(Len(h))
  BY DEF Long!Need, Pallet!Need, Quorum
<1>3. Unknown # "full" /\ Unknown # Empty /\ Empty # "full"
  BY VoteConstants DEF Ballots
<1>4. Long!VotedState(h, s) = State(h, s)
  BY <1>1, <1>2, <1>3 DEF Long!VotedState, Long!Full, State
<1>5. Pallet!VotedState(h, s) = State(h, s)
  BY <1>1, <1>2, <1>3 DEF Pallet!VotedState, Pallet!Full, State
<1> QED
  BY <1>4, <1>5 DEF Long!Record, Pallet!Record, Pushed

\* What a vote over h leaves is stable, has loads behind it when it is "full", and
\* is what a quorum says.
Settled(h, s) ==
  /\ State(h, s) \in {"full", Empty}
  /\ State(h, s) = "full" => Tally(h, Loads) > 0
  /\ (s = Unknown => Len(h) = 1) =>
       /\ State(h, State(h, s)) = State(h, s)
       /\ Tally(h, Loads) >= Quorum(Len(h)) => State(h, s) = "full"
       /\ Tally(h, {Empty}) >= Quorum(Len(h)) => State(h, s) = Empty

LEMMA StateFacts ==
  ASSUME NEW h \in Seq(Ballots), h # <<>>, NEW s \in {Unknown, "full", Empty}
  PROVE  Settled(h, s)
<1>1. PICK n \in Nat : n = Len(h) /\ n > 0
  OBVIOUS
<1>2. PICK l \in Nat : l = Tally(h, Loads)
  BY TallyFacts
<1>3. PICK e \in Nat : e = Tally(h, {Empty})
  BY TallyFacts
<1>4. PICK q \in Nat : q = Quorum(n)
  BY QuorumFacts
<1>5. l + e = n /\ q <= n /\ 2 * q > n
  BY <1>1, <1>2, <1>3, <1>4, QuorumFacts, TallyFacts
<1>6. Unknown # "full" /\ Unknown # Empty /\ Empty # "full"
  BY VoteConstants DEF Ballots
<1>7. \A x : State(h, x) =
        IF x = Unknown THEN IF l > e \/ (l = e /\ h[1] # Empty) THEN "full" ELSE Empty
        ELSE IF x = "full" THEN IF e >= q THEN Empty ELSE "full"
        ELSE IF l >= q THEN "full" ELSE Empty
  BY <1>1, <1>2, <1>3, <1>4 DEF State
<1>8. PICK x : x = State(h, s)
  OBVIOUS
<1>9. PICK y : y = State(h, x)
  OBVIOUS
<1>10. /\ x \in {"full", Empty}
       /\ x = "full" => l > 0
       /\ (s = Unknown => n = 1) =>
            /\ y = x
            /\ l >= q => x = "full"
            /\ e >= q => x = Empty
  <2>1. CASE s = Unknown
    <3>1. x = IF l > e \/ (l = e /\ h[1] # Empty) THEN "full" ELSE Empty
      BY <1>7, <1>8, <2>1
    <3>2. CASE x = "full"
      <4>1. y = IF e >= q THEN Empty ELSE "full"
        BY <1>6, <1>7, <1>9, <3>2
      <4> QED
        BY <1>1, <1>5, <1>6, <3>1, <3>2, <4>1
    <3>3. CASE x # "full"
      <4>1. x = Empty /\ y = IF l >= q THEN "full" ELSE Empty
        BY <1>6, <1>7, <1>9, <3>1, <3>3
      <4> QED
        BY <1>1, <1>5, <1>6, <3>1, <3>3, <4>1
    <3> QED
      BY <3>2, <3>3
  <2>2. CASE s = "full"
    <3>1. x = IF e >= q THEN Empty ELSE "full"
      BY <1>6, <1>7, <1>8, <2>2
    <3>2. CASE e >= q
      <4>1. x = Empty /\ y = IF l >= q THEN "full" ELSE Empty
        BY <1>6, <1>7, <1>9, <3>1, <3>2
      <4> QED
        BY <1>5, <1>6, <3>2, <4>1
    <3>3. CASE ~(e >= q)
      <4>1. x = "full" /\ y = "full"
        BY <1>6, <1>7, <1>9, <3>1, <3>3
      <4> QED
        BY <1>5, <1>6, <3>3, <4>1
    <3> QED
      BY <3>2, <3>3
  <2>3. CASE s = Empty
    <3>1. x = IF l >= q THEN "full" ELSE Empty
      BY <1>6, <1>7, <1>8, <2>3
    <3>2. CASE l >= q
      <4>1. x = "full" /\ y = IF e >= q THEN Empty ELSE "full"
        BY <1>6, <1>7, <1>9, <3>1, <3>2
      <4> QED
        BY <1>5, <1>6, <3>2, <4>1
    <3>3. CASE ~(l >= q)
      <4>1. x = Empty /\ y = Empty
        BY <1>6, <1>7, <1>9, <3>1, <3>3
      <4> QED
        BY <1>5, <1>6, <3>3, <4>1
    <3> QED
      BY <3>2, <3>3
  <2> QED
    BY <2>1, <2>2, <2>3
<1> QED
  BY <1>1, <1>2, <1>3, <1>4, <1>8, <1>9, <1>10 DEF Settled

\* Among finitely many votes some content is the most common, and one of it the first.
LEMMA MostCommon ==
  ASSUME NEW L, L \subseteq Nat, L # {}, NEW n \in Nat, NEW f \in [L -> 0..n]
  PROVE  \E i \in L : \A j \in L : f[j] < f[i] \/ (f[j] = f[i] /\ i <= j)
<1> DEFINE T == {b \in Nat : \A j \in L : f[j] <= b}
<1>1. n \in T
  OBVIOUS
<1>2. PICK m \in T : \A b \in T : m <= b
  BY <1>1, Least
<1> DEFINE K == {j \in L : f[j] = m}
<1>3. K # {}
  <2> SUFFICES ASSUME \A j \in L : f[j] # m PROVE FALSE
    OBVIOUS
  <2>1. \A j \in L : f[j] \in Nat /\ f[j] < m
    BY <1>2
  <2>2. m \in Nat /\ m > 0
    <3>1. m \in Nat
      OBVIOUS
    <3>2. PICK j \in L : f[j] \in Nat /\ f[j] < m
      BY <2>1
    <3> QED
      BY <3>1, <3>2
  <2>3. m - 1 \in Nat /\ \A j \in L : f[j] <= m - 1
    BY <2>1, <2>2
  <2>4. m - 1 \in T /\ m - 1 < m
    BY <2>2, <2>3
  <2> HIDE DEF T
  <2> QED
    BY <1>2, <2>2, <2>4
<1>4. PICK i \in K : \A j \in K : i <= j
  BY <1>3, Least
<1> QED
  BY <1>2, <1>4, SMTT(30)

LEMMA ContentFacts ==
  ASSUME NEW h \in Seq(Ballots), Tally(h, Loads) > 0
  PROVE  Long!Content(h) \in Loads /\ Pallet!Content(h) \in Loads
<1> DEFINE L == {i \in DOMAIN h : h[i] \in Loads}
           f == [i \in L |-> Tally(h, {h[i]})]
<1>1. DOMAIN h = 1..Len(h)
  OBVIOUS
<1>2. Len(h) \in Nat
  OBVIOUS
<1>3. L \subseteq Nat /\ L # {}
  BY <1>1, <1>2, TallyNonzero
<1>4. ASSUME NEW i \in L PROVE Tally(h, {h[i]}) \in 0..Len(h)
  <2>1. IsFiniteSet(DOMAIN h) /\ Cardinality(DOMAIN h) = Len(h)
    <3>1. DOMAIN h = 1..Len(h) /\ Len(h) \in Nat
      OBVIOUS
    <3> HIDE DEF L, f
    <3>2. PICK k \in Nat : k = Len(h) /\ DOMAIN h = 1..k
      BY <3>1
    <3>3. IsFiniteSet(1..k) /\ Cardinality(1..k) = IF 1 > k THEN 0 ELSE k - 1 + 1
      <4>1. 1 \in Int /\ k \in Int
        OBVIOUS
      <4> QED
        BY <4>1, FS_Interval, ZenonT(30)
    <3>4. Cardinality(1..k) = k
      BY <3>3
    <3> QED
      BY <3>2, <3>3, <3>4
  <2>2. PICK S : S = {k \in DOMAIN h : h[k] \in {h[i]}}
    OBVIOUS
  <2>3. S \subseteq DOMAIN h /\ Tally(h, {h[i]}) = Cardinality(S)
    BY <2>2 DEF Tally
  <2>4. IsFiniteSet(S) /\ Cardinality(S) <= Cardinality(DOMAIN h)
    BY <2>1, <2>3, FS_Subset
  <2>5. Cardinality(S) \in Nat
    BY <2>4, FS_CardinalityType
  <2> QED
    BY <1>2, <2>1, <2>3, <2>4, <2>5
<1>5. f \in [L -> 0..Len(h)]
  BY <1>4
<1>6. PICK i \in L : \A j \in L : f[j] < f[i] \/ (f[j] = f[i] /\ i <= j)
  <2> HIDE DEF L, f
  <2> QED
    BY <1>2, <1>3, <1>5, MostCommon
<1>7. \A k \in L : f[k] = Tally(h, {h[k]})
  OBVIOUS
<1>8. \A S : Long!Count(h, S) = Tally(h, S) /\ Pallet!Count(h, S) = Tally(h, S)
  BY DEF Long!Count, Pallet!Count, Long!Cardinality, Pallet!Cardinality, Cardinality, Tally
<1>9. Long!Content(h) \in Loads
  <2> DEFINE Best(k) == \A j \in L : \/ Long!Count(h, {h[j]}) < Long!Count(h, {h[k]})
                                     \/ Long!Count(h, {h[j]}) = Long!Count(h, {h[k]}) /\ k <= j
  <2>1. Best(i)
    BY <1>6, <1>7, <1>8
  <2>2. (CHOOSE k \in L : Best(k)) \in L
    <3> HIDE DEF Best
    <3> QED
      BY <2>1, Zenon
  <2>3. Long!Content(h) = h[CHOOSE k \in L : Best(k)]
    BY Zenon DEF Long!Content
  <2> HIDE DEF Best
  <2> QED
    BY <2>2, <2>3
<1>10. Pallet!Content(h) \in Loads
  <2> DEFINE Best(k) == \A j \in L : \/ Pallet!Count(h, {h[j]}) < Pallet!Count(h, {h[k]})
                                     \/ Pallet!Count(h, {h[j]}) = Pallet!Count(h, {h[k]}) /\ k <= j
  <2>1. Best(i)
    BY <1>6, <1>7, <1>8
  <2>2. (CHOOSE k \in L : Best(k)) \in L
    <3> HIDE DEF Best
    <3> QED
      BY <2>1, Zenon
  <2>3. Pallet!Content(h) = h[CHOOSE k \in L : Best(k)]
    BY Zenon DEF Pallet!Content
  <2> HIDE DEF Best
  <2> QED
    BY <2>2, <2>3
<1> QED
  BY <1>9, <1>10

-----------------------------------------------------------------------------
(* The vote over the window of a track.                                      *)

KindOf(v) == IF v = Empty THEN {Empty} ELSE Loads

\* The last votes for the state of the last one are in a row.
AgreeingRun ==
  \A k \in PalletZones : votes[k] # <<>> =>
    RunOf(votes[k], KindOf(votes[k][Len(votes[k])]), votedAlike[k])

\* The inductive invariant.
LongInv ==
  /\ Long!VoteTypeOK /\ AgreeingRun
  /\ \A k \in PalletZones : voted[k] # Unknown => State(votes[k], voted[k]) = voted[k]
  /\ \A k \in PalletZones : votes[k] = <<>> => votedAlike[k] = 0

LEMMA LongTypes ==
  ASSUME Long!VoteTypeOK, NEW k \in PalletZones
  PROVE  /\ votes[k] \in Seq(Ballots) /\ Len(votes[k]) <= LongWindow
         /\ voted[k] \in {Unknown, "full", Empty} /\ (voted[k] = Unknown <=> votes[k] = <<>>)
         /\ votedFor[k] \in 0..LongWindow /\ votedAlike[k] \in 0..LongWindow
  BY DEF Long!VoteTypeOK, Long!Verdicts, Long!Full, Ballots

LEMMA LongInvImplies == LongInv => Long!VoteInv
<1> SUFFICES ASSUME LongInv PROVE Long!VoteInv
  OBVIOUS
<1>1. ASSUME NEW k \in PalletZones, voted[k] # Unknown
      PROVE  /\ Long!VotedState(votes[k], voted[k]) = voted[k]
             /\ voted[k] = "full" => Long!Last(k) \in Loads
  <2>1. PICK h \in Seq(Ballots) : h = votes[k] /\ h # <<>>
    BY <1>1, LongTypes DEF LongInv
  <2>2. PICK s \in {"full", Empty} : s = voted[k]
    BY <1>1, LongTypes DEF LongInv
  <2>3. Long!VotedState(h, s) = s /\ State(h, s) = s
    BY <1>1, <2>1, <2>2, SameVote DEF LongInv
  <2>4. s = "full" => Tally(h, Loads) > 0
    BY <2>1, <2>2, <2>3, StateFacts DEF Settled
  <2>5. s = "full" => Long!Voted(h, s) \in Loads
    BY <2>3, <2>4, ContentFacts DEF Long!Voted, Long!Full
  <2> QED
    BY <2>1, <2>2, <2>3, <2>5 DEF Long!Last
<1>2. ASSUME NEW k \in PalletZones, votedAlike[k] >= Long!Need(LongWindow)
      PROVE  voted[k] = Long!Kind(votes[k][Len(votes[k])])
  <2>1. votes[k] \in Seq(Ballots) /\ Len(votes[k]) <= LongWindow /\ votedAlike[k] \in Nat
    BY <1>2, LongTypes DEF LongInv
  <2>2. PICK a \in Nat : a = votedAlike[k] /\ a >= Quorum(LongWindow) /\ a > 0
    <3>1. Long!Need(LongWindow) = Quorum(LongWindow)
      BY DEF Long!Need, Quorum
    <3>2. Quorum(LongWindow) \in Nat /\ 2 * Quorum(LongWindow) > LongWindow
      BY QuorumFacts, VoteConstants
    <3> QED
      BY <1>2, <2>1, <3>1, <3>2, VoteConstants
  <2>3. PICK h \in Seq(Ballots) : h = votes[k] /\ h # <<>>
    BY <2>1, <2>2 DEF LongInv
  <2>4. PICK n \in Nat : n = Len(h) /\ n > 0 /\ n <= LongWindow
    BY <2>1, <2>3
  <2>5. PICK v \in Ballots : v = h[n]
    BY <2>4
  <2>6. RunOf(h, KindOf(v), a)
    BY <2>2, <2>3, <2>4, <2>5 DEF LongInv, AgreeingRun
  <2>7. PICK q \in Nat : q = Quorum(n) /\ q <= n /\ q <= Quorum(LongWindow)
    BY <2>4, QuorumFacts, VoteConstants
  <2>8. RunOf(h, KindOf(v), q)
    <3>1. Quorum(LongWindow) \in Nat
      BY QuorumFacts, VoteConstants
    <3>2. q <= a
      BY <2>2, <2>7, <3>1
    <3> QED
      BY <2>4, <2>6, <3>2 DEF RunOf
  <2>9. Tally(h, KindOf(v)) >= q
    BY <2>4, <2>7, <2>8, RunTally
  <2>10. PICK s \in {"full", Empty} : s = voted[k] /\ State(h, s) = s
    BY <2>3, LongTypes DEF LongInv
  <2>11. s # Unknown /\ Settled(h, s)
    BY <2>3, <2>10, StateFacts, VoteConstants DEF Ballots
  <2>12. CASE v = Empty
    <3>1. Tally(h, {Empty}) >= Quorum(Len(h))
      BY <2>4, <2>7, <2>9, <2>12 DEF KindOf
    <3>2. s = Empty
      BY <2>10, <2>11, <3>1 DEF Settled
    <3> QED
      BY <2>3, <2>4, <2>5, <2>10, <2>12, <3>2 DEF Long!Kind
  <2>13. CASE v # Empty
    <3>1. Tally(h, Loads) >= Quorum(Len(h))
      BY <2>4, <2>7, <2>9, <2>13 DEF KindOf
    <3>2. s = "full"
      BY <2>10, <2>11, <3>1 DEF Settled
    <3> QED
      BY <2>3, <2>4, <2>5, <2>10, <2>13, <3>2 DEF Long!Kind, Long!Full
  <2> QED
    BY <2>12, <2>13
<1>3. Long!LastAgrees
  BY <1>1 DEF Long!LastAgrees, Long!Full
<1>4. Long!SustainedVerdictShows
  BY <1>2 DEF Long!SustainedVerdictShows
<1> QED
  BY <1>3, <1>4 DEF Long!VoteInv, LongInv

LEMMA InitLong == Long!VoteInit => LongInv
<1> SUFFICES ASSUME Long!VoteInit PROVE LongInv
  OBVIOUS
<1>1. /\ votes = [k \in PalletZones |-> <<>>] /\ voted = [k \in PalletZones |-> Unknown]
      /\ votedFor = [k \in PalletZones |-> LongWindow] /\ votedAlike = [k \in PalletZones |-> 0]
  BY DEF Long!VoteInit
<1>2. Long!VoteTypeOK
  BY <1>1, VoteConstants DEF Long!VoteTypeOK, Long!Full
<1> QED
  BY <1>1, <1>2 DEF LongInv, AgreeingRun

LEMMA VoteStep ==
  ASSUME LongInv, NEW k \in PalletZones, NEW v \in Long!Verdicts, Long!Vote(k, v)
  PROVE  LongInv'
<1>1. PICK g \in Seq(Ballots) : g = votes[k] /\ Len(g) <= LongWindow
  BY LongTypes DEF LongInv
<1>2. PICK s \in {Unknown, "full", Empty} : s = voted[k] /\ (s = Unknown <=> g = <<>>)
  BY <1>1, LongTypes DEF LongInv
<1>3. PICK h : h = Pushed(g, v, LongWindow)
  OBVIOUS
<1>4. v \in Ballots
  BY DEF Long!Verdicts, Ballots
<1>5. /\ h \in Seq(Ballots) /\ Len(h) <= LongWindow /\ Len(h) > 0 /\ h[Len(h)] = v
      /\ g = <<>> => Len(h) = 1
  BY <1>1, <1>3, <1>4, PushFacts, VoteConstants
<1>6. PICK t : t = State(h, s)
  OBVIOUS
<1>7. t \in {"full", Empty} /\ State(h, t) = t
  <2>1. h # <<>>
    BY <1>5
  <2> QED
    BY <1>2, <1>5, <1>6, <2>1, StateFacts DEF Settled
<1>8. /\ votes' = [votes EXCEPT ![k] = h] /\ voted' = [voted EXCEPT ![k] = t]
      /\ votedFor' = [votedFor EXCEPT ![k] =
                        IF t = s THEN IF @ < LongWindow THEN @ + 1 ELSE @
                        ELSE IF s = Unknown THEN LongWindow ELSE 0]
      /\ votedAlike' = [votedAlike EXCEPT ![k] =
                          IF g = <<>> \/ Long!Kind(v) # Long!Kind(g[Len(g)])
                          THEN 1 ELSE IF @ < LongWindow THEN @ + 1 ELSE @]
  BY <1>1, <1>2, <1>3, <1>6, SameVote DEF Long!Vote
<1>9. /\ votes \in [PalletZones -> Seq(Ballots)] /\ voted \in [PalletZones -> {Unknown, "full", Empty}]
      /\ votedFor \in [PalletZones -> 0..LongWindow] /\ votedAlike \in [PalletZones -> 0..LongWindow]
  BY DEF LongInv, Long!VoteTypeOK, Long!Verdicts, Long!Full, Ballots
<1>10. t # Unknown /\ h # <<>>
  BY <1>5, <1>7, VoteConstants DEF Ballots
<1>11. /\ votes' \in [PalletZones -> Seq(Ballots)] /\ votes'[k] = h
       /\ voted' \in [PalletZones -> {Unknown, "full", Empty}] /\ voted'[k] = t
       /\ \A j \in PalletZones \ {k} :
            votes'[j] = votes[j] /\ voted'[j] = voted[j] /\ votedAlike'[j] = votedAlike[j]
  BY <1>5, <1>7, <1>8, <1>9
<1>12. votedFor' \in [PalletZones -> 0..LongWindow]
  BY <1>8, <1>9, VoteConstants
<1>13. votedAlike' \in [PalletZones -> 0..LongWindow]
  BY <1>8, <1>9, VoteConstants
<1>14. Long!VoteTypeOK'
  <2>1. \A j \in PalletZones : Len(votes'[j]) <= LongWindow /\ (voted'[j] = Unknown <=> votes'[j] = <<>>)
    BY <1>5, <1>10, <1>11, LongTypes DEF LongInv
  <2> QED
    BY <1>11, <1>12, <1>13, <2>1 DEF Long!VoteTypeOK, Long!Verdicts, Long!Full, Ballots
<1>15. RunOf(h, KindOf(v), votedAlike'[k])
  <2>1. v \in KindOf(v)
    BY <1>4 DEF KindOf, Ballots
  <2>2. PICK m \in Nat : m = votedAlike[k]
    BY <1>9
  <2>3. CASE g = <<>> \/ Long!Kind(v) # Long!Kind(g[Len(g)])
    <3>1. votedAlike'[k] = 1
      BY <1>8, <1>9, <2>3
    <3>2. RunOf(Pushed(g, v, LongWindow), KindOf(v), 1)
      <4>1. 1 \in Nat /\ 1 <= m + 1
        BY <2>2
      <4> QED
        BY <1>1, <1>4, <2>1, <2>2, <4>1, RunPush, VoteConstants, SMTT(30)
    <3> QED
      BY <1>3, <3>1, <3>2
  <2>4. CASE ~(g = <<>> \/ Long!Kind(v) # Long!Kind(g[Len(g)]))
    <3>1. KindOf(g[Len(g)]) = KindOf(v)
      BY <2>4, VoteConstants DEF KindOf, Long!Kind, Long!Full
    <3>2. RunOf(g, KindOf(v), m)
      BY <1>1, <2>2, <2>4, <3>1 DEF LongInv, AgreeingRun
    <3>3. PICK r \in Nat : r = votedAlike'[k] /\ r <= m + 1
      BY <1>8, <1>9, <2>2, <2>4
    <3>4. RunOf(Pushed(g, v, LongWindow), KindOf(v), r)
      BY <1>1, <1>4, <2>1, <2>2, <3>2, <3>3, RunPush, VoteConstants
    <3> QED
      BY <1>3, <3>3, <3>4
  <2> QED
    BY <2>3, <2>4
<1>16. AgreeingRun'
  <2> SUFFICES ASSUME NEW j \in PalletZones, votes'[j] # <<>>
               PROVE  RunOf(votes'[j], KindOf(votes'[j][Len(votes'[j])]), votedAlike'[j])
    BY DEF AgreeingRun
  <2>1. CASE j = k
    BY <1>5, <1>11, <1>15, <2>1
  <2>2. CASE j # k
    BY <1>11, <2>2 DEF LongInv, AgreeingRun
  <2> QED
    BY <2>1, <2>2
<1>17. \A j \in PalletZones : voted'[j] # Unknown => State(votes'[j], voted'[j]) = voted'[j]
  BY <1>7, <1>11 DEF LongInv
<1>18. \A j \in PalletZones : votes'[j] = <<>> => votedAlike'[j] = 0
  BY <1>10, <1>11 DEF LongInv
<1> QED
  BY <1>14, <1>16, <1>17, <1>18 DEF LongInv

LEMMA ForgetLong == ASSUME LongInv, NEW k \in PalletZones, Long!Forget(k) PROVE LongInv'
<1>1. /\ votes' = [votes EXCEPT ![k] = <<>>] /\ voted' = [voted EXCEPT ![k] = Unknown]
      /\ votedFor' = [votedFor EXCEPT ![k] = LongWindow] /\ votedAlike' = [votedAlike EXCEPT ![k] = 0]
  BY DEF Long!Forget
<1>2. Long!VoteTypeOK'
  BY <1>1, VoteConstants DEF LongInv, Long!VoteTypeOK
<1>3. /\ votes'[k] = <<>> /\ voted'[k] = Unknown /\ votedAlike'[k] = 0
      /\ \A j \in PalletZones \ {k} :
           votes'[j] = votes[j] /\ voted'[j] = voted[j] /\ votedAlike'[j] = votedAlike[j]
  BY <1>1 DEF LongInv, Long!VoteTypeOK
<1>4. AgreeingRun'
  <2> SUFFICES ASSUME NEW j \in PalletZones, votes'[j] # <<>>
               PROVE  RunOf(votes'[j], KindOf(votes'[j][Len(votes'[j])]), votedAlike'[j])
    BY DEF AgreeingRun
  <2>1. j # k
    BY <1>3
  <2> QED
    BY <1>3, <2>1 DEF LongInv, AgreeingRun
<1> QED
  BY <1>2, <1>3, <1>4 DEF LongInv

LEMMA LongInvKept == LongInv /\ [Long!VoteNext]_longVars => LongInv'
<1> SUFFICES ASSUME LongInv, [Long!VoteNext]_longVars PROVE LongInv'
  OBVIOUS
<1>1. CASE UNCHANGED longVars
  BY <1>1 DEF longVars, LongInv, Long!VoteTypeOK, AgreeingRun
<1>2. ASSUME NEW k \in PalletZones, NEW v \in Long!Verdicts, Long!Vote(k, v) PROVE LongInv'
  BY <1>2, VoteStep
<1>3. ASSUME NEW k \in PalletZones, Long!Forget(k) PROVE LongInv'
  BY <1>3, ForgetLong
<1> QED
  BY <1>1, <1>2, <1>3 DEF Long!VoteNext
-----------------------------------------------------------------------------
(* How often the vote flips.                                                 *)

Other(s) == IF s = "full" THEN {Empty} ELSE Loads
Least2(a, b) == IF a < b THEN a ELSE b

\* The windows and ratios at which flips are slow.  After a flip in a window of n votes
\* n - Quorum(n) at most are for the state that lost, and if the window was never full, one
\* at least: then m more of them, m up to a third of the window, are no quorum.
SlowFlips ==
  \A n, m \in 1..LongWindow :
    (n > Quorum(n) \/ n = LongWindow) /\ 3 * m <= LongWindow =>
      n - Quorum(n) + m < Quorum(Least2(n + m, LongWindow))

\* The ratio of the code, 7/10, with up to 17 votes: the code has 15.
LEMMA SlowAtSevenTenths ==
  ASSUME FlipNum = 7, FlipDen = 10, LongWindow <= 17 PROVE SlowFlips
<1> SUFFICES ASSUME NEW n \in 1..LongWindow, NEW m \in 1..LongWindow,
                    n > Quorum(n) \/ n = LongWindow, 3 * m <= LongWindow
             PROVE  n - Quorum(n) + m < Quorum(Least2(n + m, LongWindow))
  BY DEF SlowFlips
<1>1. LongWindow \in Nat /\ LongWindow > 0 /\ n \in Nat /\ m \in Nat
  BY VoteConstants
<1>2. ASSUME NEW k \in Nat
      PROVE  Quorum(k) \in Nat /\ 7 * k <= 10 * Quorum(k) /\ 10 * Quorum(k) < 7 * k + 10
  <2>1. PICK a \in Nat : a = FlipNum * k
    BY VoteConstants
  <2>2. PICK d \in Nat : d = FlipDen /\ d > 0
    BY VoteConstants
  <2>3. PICK q : q = (a + d - 1) \div d
    OBVIOUS
  <2>4. q \in Nat /\ a <= d * q /\ d * q < a + d
    BY <2>2, <2>3, Rounded
  <2>5. q = Quorum(k)
    BY <2>1, <2>2, <2>3 DEF Quorum
  <2>6. a = 7 * k /\ d = 10
    BY <2>1, <2>2
  <2> QED
    BY <2>4, <2>5, <2>6
<1>3. PICK q \in Nat : q = Quorum(n) /\ 7 * n <= 10 * q /\ 10 * q < 7 * n + 10
  BY <1>1, <1>2
<1>4. Least2(n + m, LongWindow) \in Nat
  BY <1>1 DEF Least2
<1>5. PICK r \in Nat : /\ r = Quorum(Least2(n + m, LongWindow))
                       /\ 7 * Least2(n + m, LongWindow) <= 10 * r
  BY <1>2, <1>4
<1>6. CASE n + m < LongWindow
  <2>1. 7 * (n + m) <= 10 * r
    BY <1>1, <1>5, <1>6 DEF Least2
  <2>2. n > q
    BY <1>1, <1>3, <1>6
  <2>3. n >= 4 /\ m <= 5
    BY <1>1, <1>3, <2>2
  <2> QED
    BY <1>1, <1>3, <1>5, <2>1, <2>3
<1>7. CASE ~(n + m < LongWindow)
  <2>1. 7 * LongWindow <= 10 * r
    BY <1>1, <1>5, <1>7 DEF Least2
  <2> QED
    BY <1>1, <1>3, <1>5, <2>1
<1> QED
  BY <1>6, <1>7

\* A vote adds one at most to either side, and while the window fills it takes none away.
LEMMA PushTally ==
  ASSUME NEW h \in Seq(Ballots), NEW v \in Ballots, NEW w \in Nat, w > 0, Len(h) <= w, NEW S,
         NEW p, p = Pushed(h, v, w)
  PROVE  /\ Len(p) = Least2(Len(h) + 1, w)
         /\ Tally(p, S) \in Nat /\ Tally(h, S) \in Nat
         /\ Tally(p, S) <= Tally(h, S) + 1
         /\ Len(h) < w => Tally(h, S) <= Tally(p, S)
<1> DEFINE A == {i \in DOMAIN p : p[i] \in S}
           B == {j \in DOMAIN h : h[j] \in S}
<1>1. /\ p \in Seq(Ballots) /\ Len(p) \in Nat /\ Len(p) > 0 /\ DOMAIN p = 1..Len(p)
      /\ \A i \in DOMAIN p :
           i = Len(p) \/ \E j \in DOMAIN h : p[i] = h[j] /\ Len(h) - j = Len(p) - i - 1
  BY PushFacts
<1>2. Len(h) \in Nat /\ DOMAIN h = 1..Len(h)
  OBVIOUS
<1>3. /\ Len(p) = Least2(Len(h) + 1, w)
      /\ Len(h) < w => \A j \in DOMAIN h : j \in DOMAIN p /\ p[j] = h[j]
  <2>1. CASE Len(h) < w
    <3>1. p = Append(h, v)
      BY <2>1 DEF Pushed
    <3>2. Len(p) = Len(h) + 1 /\ \A j \in 1..Len(h) : p[j] = h[j]
      BY <3>1
    <3>3. Least2(Len(h) + 1, w) = Len(h) + 1
      BY <1>2, <2>1 DEF Least2
    <3> QED
      BY <1>1, <1>2, <3>2, <3>3
  <2>2. CASE ~(Len(h) < w)
    <3>1. p = Append(Tail(h), v) /\ Len(h) = w /\ h # <<>>
      <4>1. p = Append(Tail(h), v)
        BY <2>2 DEF Pushed
      <4>2. Len(h) = w
        BY <2>2
      <4>3. h # <<>>
        BY <4>2
      <4> QED
        BY <4>1, <4>2, <4>3
    <3>2. Tail(h) \in Seq(Ballots) /\ Len(Tail(h)) = Len(h) - 1
      BY <3>1
    <3>3. Len(p) = Len(h)
      BY <1>2, <3>1, <3>2
    <3>4. Least2(Len(h) + 1, w) = w
      BY <1>2, <3>1 DEF Least2
    <3> QED
      BY <2>2, <3>1, <3>3, <3>4
  <2> QED
    BY <2>1, <2>2
<1>4. IsFiniteSet(A) /\ IsFiniteSet(B)
  <2>1. IsFiniteSet(DOMAIN p) /\ IsFiniteSet(DOMAIN h)
    BY <1>1, <1>2, FS_Interval
  <2> QED
    BY <2>1, FS_Subset
<1>5. PICK d \in Int : d = Len(h) - Len(p) + 1
  <2>1. Len(h) - Len(p) + 1 \in Int
    BY <1>1, <1>2
  <2> QED
    BY <2>1, Zenon
<1> DEFINE C == A \ {Len(p)}
           f == [i \in C |-> i + d]
<1>6. f \in Injection(C, B)
  <2>1. ASSUME NEW i \in C PROVE i \in Int /\ i + d \in B
    <3>1. i \in 1..Len(p) /\ i # Len(p) /\ p[i] \in S
      BY <1>1
    <3>2. PICK j \in DOMAIN h : p[i] = h[j] /\ Len(h) - j = Len(p) - i - 1
      BY <1>1, <3>1
    <3>3. j = i + d
      BY <1>1, <1>2, <1>5, <3>1, <3>2
    <3> QED
      BY <3>1, <3>2, <3>3
  <2>2. f \in [C -> B]
    BY <2>1
  <2>3. ASSUME NEW i \in C, NEW k \in C, f[i] = f[k] PROVE i = k
    <3>1. i + d = k + d
      BY <2>3
    <3> QED
      BY <1>5, <2>1, <3>1
  <2> QED
    BY <2>2, <2>3 DEF Injection, IsInjective
<1>7. Cardinality(C) <= Cardinality(B)
  BY <1>4, <1>6, FS_Injection
<1>8. IsFiniteSet(C) /\ A \subseteq C \cup {Len(p)}
  BY <1>4, FS_Subset
<1>9. Len(h) < w => Cardinality(B) <= Cardinality(A)
  <2>1. Len(h) < w => B \subseteq A
    BY <1>3
  <2> QED
    BY <1>4, <2>1, FS_Subset
<1> HIDE DEF A, B, C
<1>10. /\ IsFiniteSet(C \cup {Len(p)}) /\ Cardinality(C) \in Nat
      /\ Cardinality(C \cup {Len(p)}) <= Cardinality(C) + 1
  <2>1. Cardinality(C) \in Nat
    BY <1>8, FS_CardinalityType
  <2>2. PICK x : x = Len(p)
    OBVIOUS
  <2>3. /\ IsFiniteSet(C \cup {x})
        /\ Cardinality(C \cup {x}) = IF x \in C THEN Cardinality(C) ELSE Cardinality(C) + 1
    BY <1>8, FS_AddElement
  <2> QED
    BY <2>1, <2>2, <2>3
<1>11. Cardinality(A) <= Cardinality(C \cup {Len(p)})
  BY <1>8, <1>10, FS_Subset
<1>12. Cardinality(A) \in Nat /\ Cardinality(B) \in Nat /\ Cardinality(C \cup {Len(p)}) \in Nat
  BY <1>4, <1>10, FS_CardinalityType
<1>13. Cardinality(A) <= Cardinality(B) + 1
  BY <1>7, <1>10, <1>11, <1>12
<1> QED
  BY <1>3, <1>9, <1>12, <1>13 DEF Tally, A, B

\* A key's state was held from the start, or flipped to f votes ago in a window of n.
Since(h, s, f, n) ==
  /\ n > Quorum(n) \/ n = LongWindow
  /\ Len(h) = Least2(n + f, LongWindow)
  /\ Tally(h, Other(s)) <= n - Quorum(n) + f

Flipped(h, s, f) == f = LongWindow \/ \E n \in 1..LongWindow : Since(h, s, f, n)

\* The next vote of a key: it flips late, and where it does not, nothing else changes.
LEMMA NextFlip ==
  ASSUME SlowFlips, NEW g \in Seq(Ballots), g # <<>>, Len(g) <= LongWindow, NEW v \in Ballots,
         NEW s \in {"full", Empty}, State(g, s) = s, NEW f \in 0..LongWindow, Flipped(g, s, f),
         NEW h, h = Pushed(g, v, LongWindow)
  PROVE  /\ State(h, s) = s => Flipped(h, s, IF f < LongWindow THEN f + 1 ELSE f)
         /\ State(h, s) # s => 3 * (f + 1) > LongWindow /\ Flipped(h, State(h, s), 0)
<1>1. PICK w \in Nat : w = LongWindow /\ w > 0
  BY VoteConstants
<1>2. PICK m \in Nat : m = Len(g) /\ m > 0 /\ m <= w
  BY <1>1
<1>3. h \in Seq(Ballots) /\ Len(h) > 0 /\ Len(h) <= w
  BY <1>1, PushFacts
<1>4. PICK n \in Nat : n = Len(h) /\ n > 0 /\ n <= w
  BY <1>3
<1>5. n = Least2(m + 1, w)
  BY <1>1, <1>2, <1>4, PushTally
<1>6. s # Unknown /\ (s = "full" \/ s = Empty) /\ Empty # "full"
  BY VoteConstants DEF Ballots
<1>7. PICK t \in {"full", Empty} : /\ t # s
                                   /\ \/ Other(s) = Loads /\ Other(t) = {Empty}
                                      \/ Other(t) = Loads /\ Other(s) = {Empty}
  BY <1>6 DEF Other
<1>8. ASSUME NEW x \in Seq(Ballots)
      PROVE  /\ Tally(x, Other(s)) \in Nat /\ Tally(x, Other(t)) \in Nat
             /\ Tally(x, Other(t)) + Tally(x, Other(s)) = Len(x)
  <2>1. /\ Tally(x, Loads) \in Nat /\ Tally(x, {Empty}) \in Nat
        /\ Tally(x, Loads) + Tally(x, {Empty}) = Len(x)
    BY TallyFacts
  <2>2. CASE Other(s) = Loads /\ Other(t) = {Empty}
    BY <2>1, <2>2
  <2>3. CASE Other(t) = Loads /\ Other(s) = {Empty}
    BY <2>1, <2>3
  <2> QED
    BY <1>7, <2>2, <2>3
<1>9. \A x : State(x, s) = IF Tally(x, Other(s)) >= Quorum(Len(x)) THEN t ELSE s
  <2>1. CASE s = "full"
    <3>1. t = Empty /\ Other(s) = {Empty}
      BY <1>7, <2>1 DEF Other
    <3> QED
      BY <1>6, <2>1, <3>1 DEF State
  <2>2. CASE s = Empty
    <3>1. t = "full" /\ Other(s) = Loads
      BY <1>6, <1>7, <2>2 DEF Other
    <3> QED
      BY <1>6, <2>2, <3>1 DEF State
  <2> QED
    BY <1>6, <2>1, <2>2
<1>10. PICK a \in Nat : a = Tally(g, Other(s)) /\ a < Quorum(m)
  <2>1. Tally(g, Other(s)) \in Nat
    BY <1>8
  <2>2. ~(Tally(g, Other(s)) >= Quorum(m)) /\ Quorum(m) \in Nat
    BY <1>2, <1>7, <1>9, QuorumFacts
  <2> QED
    BY <2>1, <2>2
<1>11. PICK b \in Nat : b = Tally(h, Other(s)) /\ b <= a + 1
  BY <1>1, <1>7, <1>10, PushTally
<1>12. PICK rest \in Nat : rest = Tally(h, Other(t)) /\ rest + b = n
  BY <1>3, <1>4, <1>8, <1>11
<1>13. m < w => rest > 0
  <2>1. PICK c \in Nat : c = Tally(g, Other(t)) /\ c + a = m
    BY <1>2, <1>8, <1>10
  <2>2. Quorum(m) \in Nat /\ Quorum(m) <= m
    BY QuorumFacts
  <2>3. m < w => c <= rest
    BY <1>1, <1>2, <1>12, <2>1, PushTally
  <2> QED
    BY <1>10, <2>1, <2>2, <2>3
<1>14. ASSUME NEW k \in 1..LongWindow, Since(g, s, f, k)
       PROVE  /\ k > Quorum(k) \/ k = w
              /\ n = Least2(k + (f + 1), w) /\ b <= k - Quorum(k) + (f + 1)
              /\ Quorum(k) \in Nat
  <2>1. /\ k > Quorum(k) \/ k = w
        /\ m = Least2(k + f, w) /\ a <= k - Quorum(k) + f
    BY <1>1, <1>2, <1>10, <1>14 DEF Since
  <2>2. Quorum(k) \in Nat /\ k \in Nat
    BY QuorumFacts
  <2>3. n = Least2(k + (f + 1), w)
    BY <1>1, <1>5, <2>1, <2>2 DEF Least2
  <2>4. b <= k - Quorum(k) + (f + 1)
    BY <1>11, <2>1, <2>2
  <2> QED
    BY <2>1, <2>2, <2>3, <2>4
<1>15. ASSUME State(h, s) = s PROVE Flipped(h, s, IF f < LongWindow THEN f + 1 ELSE f)
  <2>1. CASE f = LongWindow
    BY <1>1, <2>1 DEF Flipped
  <2>2. ASSUME f < LongWindow, NEW k \in 1..LongWindow, Since(g, s, f, k)
        PROVE  Flipped(h, s, f + 1)
    <3>1. Since(h, s, f + 1, k)
      BY <1>1, <1>4, <1>11, <1>14, <2>2 DEF Since
    <3> QED
      BY <3>1 DEF Flipped
  <2> QED
    BY <1>1, <2>1, <2>2 DEF Flipped
<1>16. ASSUME State(h, s) # s PROVE 3 * (f + 1) > LongWindow /\ Flipped(h, State(h, s), 0)
  <2>1. State(h, s) = t /\ b >= Quorum(n)
    BY <1>4, <1>9, <1>11, <1>16
  <2>2. PICK q \in Nat : q = Quorum(n) /\ q <= n
    BY QuorumFacts
  <2>3. Since(h, t, 0, n)
    <3>1. n > q \/ n = w
      <4>1. CASE m < w
        BY <1>12, <1>13, <2>1, <2>2, <4>1
      <4>2. CASE ~(m < w)
        BY <1>2, <1>5, <4>2 DEF Least2
      <4> QED
        BY <4>1, <4>2
    <3>2. n = Least2(n + 0, w) /\ rest <= n - q + 0
      BY <1>4, <1>12, <2>1, <2>2 DEF Least2
    <3> QED
      BY <1>1, <1>4, <1>12, <2>2, <3>1, <3>2 DEF Since
  <2>4. Flipped(h, t, 0)
    BY <1>1, <1>4, <2>3 DEF Flipped
  <2>5. CASE f = LongWindow
    BY <1>1, <2>1, <2>4, <2>5
  <2>6. ASSUME NEW k \in 1..LongWindow, Since(g, s, f, k) PROVE 3 * (f + 1) > LongWindow
    <3> SUFFICES ASSUME 3 * (f + 1) <= LongWindow PROVE FALSE
      BY <1>1
    <3>1. /\ k > Quorum(k) \/ k = w
          /\ n = Least2(k + (f + 1), w) /\ b <= k - Quorum(k) + (f + 1)
          /\ Quorum(k) \in Nat
      BY <1>14, <2>6
    <3>2. f + 1 \in 1..LongWindow
      BY <1>1
    <3>3. k - Quorum(k) + (f + 1) < Quorum(n)
      BY <1>1, <3>1, <3>2 DEF SlowFlips
    <3> QED
      BY <2>1, <2>2, <3>1, <3>3
  <2> QED
    BY <2>1, <2>4, <2>5, <2>6 DEF Flipped
<1> QED
  BY <1>15, <1>16

\* Of every key with a state, when it last flipped.
Flips == \A k \in PalletZones : voted[k] # Unknown => Flipped(votes[k], voted[k], votedFor[k])

FlipsLate(k) == {voted[k], voted'[k]} = {"full", Empty} => 3 * (votedFor[k] + 1) > LongWindow

LEMMA VoteFlips ==
  ASSUME SlowFlips, LongInv, Flips, NEW k \in PalletZones, NEW v \in Long!Verdicts, Long!Vote(k, v)
  PROVE  Flips' /\ \A j \in PalletZones : FlipsLate(j)
<1>1. PICK g \in Seq(Ballots) : g = votes[k] /\ Len(g) <= LongWindow
  BY LongTypes DEF LongInv
<1>2. PICK s \in {Unknown, "full", Empty} : s = voted[k] /\ (s = Unknown <=> g = <<>>)
  BY <1>1, LongTypes DEF LongInv
<1>3. PICK f \in 0..LongWindow : f = votedFor[k]
  BY LongTypes DEF LongInv
<1>4. PICK h : h = Pushed(g, v, LongWindow)
  OBVIOUS
<1>5. v \in Ballots
  BY DEF Long!Verdicts, Ballots
<1>6. PICK t : t = State(h, s)
  OBVIOUS
<1>7. /\ votes' = [votes EXCEPT ![k] = h] /\ voted' = [voted EXCEPT ![k] = t]
      /\ votedFor' = [votedFor EXCEPT ![k] =
                        IF t = s THEN IF @ < LongWindow THEN @ + 1 ELSE @
                        ELSE IF s = Unknown THEN LongWindow ELSE 0]
  BY <1>1, <1>2, <1>4, <1>6, SameVote DEF Long!Vote
<1>8. /\ DOMAIN votes = PalletZones /\ DOMAIN voted = PalletZones /\ DOMAIN votedFor = PalletZones
  BY DEF LongInv, Long!VoteTypeOK
<1>9. /\ votes'[k] = h /\ voted'[k] = t
      /\ votedFor'[k] = IF t = s THEN IF f < LongWindow THEN f + 1 ELSE f
                        ELSE IF s = Unknown THEN LongWindow ELSE 0
      /\ \A j \in PalletZones \ {k} :
           votes'[j] = votes[j] /\ voted'[j] = voted[j] /\ votedFor'[j] = votedFor[j]
  BY <1>3, <1>7, <1>8
<1>10. Unknown # "full" /\ Unknown # Empty /\ Empty # "full"
  BY VoteConstants DEF Ballots
<1>11. t \in {"full", Empty}
  <2>1. h \in Seq(Ballots) /\ h # <<>>
    BY <1>1, <1>4, <1>5, PushFacts, VoteConstants
  <2> QED
    BY <1>2, <1>6, <2>1, StateFacts DEF Settled
<1>12. ASSUME s = Unknown PROVE Flipped(votes'[k], voted'[k], votedFor'[k]) /\ FlipsLate(k)
  <2>1. votedFor'[k] = LongWindow
    BY <1>9, <1>10, <1>11, <1>12
  <2>2. Flipped(votes'[k], voted'[k], votedFor'[k])
    BY <2>1 DEF Flipped
  <2>3. FlipsLate(k)
    BY <1>2, <1>10, <1>12 DEF FlipsLate
  <2> QED
    BY <2>2, <2>3
<1>13. ASSUME s # Unknown PROVE Flipped(votes'[k], voted'[k], votedFor'[k]) /\ FlipsLate(k)
  <2>1. s \in {"full", Empty} /\ g # <<>> /\ State(g, s) = s /\ Flipped(g, s, f)
    BY <1>1, <1>2, <1>3, <1>13 DEF LongInv, Flips
  <2>2. /\ t = s => Flipped(h, s, IF f < LongWindow THEN f + 1 ELSE f)
        /\ t # s => 3 * (f + 1) > LongWindow /\ Flipped(h, t, 0)
    BY <1>1, <1>4, <1>5, <1>6, <2>1, NextFlip
  <2>3. Flipped(votes'[k], voted'[k], votedFor'[k])
    BY <1>9, <1>13, <2>2
  <2>4. FlipsLate(k)
    BY <1>2, <1>3, <1>9, <1>10, <2>2 DEF FlipsLate
  <2> QED
    BY <2>3, <2>4
<1>14. Flipped(votes'[k], voted'[k], votedFor'[k]) /\ FlipsLate(k)
  BY <1>12, <1>13
<1>15. ASSUME NEW j \in PalletZones, j # k
       PROVE  /\ voted'[j] # Unknown => Flipped(votes'[j], voted'[j], votedFor'[j])
              /\ FlipsLate(j)
  <2>1. votes'[j] = votes[j] /\ voted'[j] = voted[j] /\ votedFor'[j] = votedFor[j]
    BY <1>9, <1>15
  <2>2. ASSUME {voted[j], voted'[j]} = {"full", Empty} PROVE FALSE
    <3>1. "full" \in {voted[j], voted'[j]} /\ Empty \in {voted[j], voted'[j]}
      BY <2>2
    <3> QED
      BY <1>10, <2>1, <3>1
  <2> QED
    BY <2>1, <2>2 DEF Flips, FlipsLate
<1>16. \A j \in PalletZones : voted'[j] # Unknown => Flipped(votes'[j], voted'[j], votedFor'[j])
  BY <1>14, <1>15
<1>17. Flips'
  BY <1>16 DEF Flips, Flipped, Since
<1> QED
  BY <1>14, <1>15, <1>17

LEMMA FlipsKept ==
  ASSUME SlowFlips, LongInv, Flips, [Long!VoteNext]_longVars
  PROVE  Flips' /\ [\A k \in PalletZones : FlipsLate(k)]_longVars
<1>1. CASE UNCHANGED longVars
  BY <1>1 DEF longVars, Flips, Flipped, Since
<1>2. ASSUME NEW k \in PalletZones, NEW v \in Long!Verdicts, Long!Vote(k, v)
      PROVE  Flips' /\ [\A j \in PalletZones : FlipsLate(j)]_longVars
  BY <1>2, VoteFlips
<1>3. ASSUME NEW k \in PalletZones, Long!Forget(k)
      PROVE  Flips' /\ [\A j \in PalletZones : FlipsLate(j)]_longVars
  <2>1. /\ voted'[k] = Unknown
        /\ \A j \in PalletZones \ {k} :
             votes'[j] = votes[j] /\ voted'[j] = voted[j] /\ votedFor'[j] = votedFor[j]
    BY <1>3 DEF LongInv, Long!VoteTypeOK, Long!Forget
  <2>2. Unknown # "full" /\ Unknown # Empty /\ Empty # "full"
    BY VoteConstants DEF Ballots
  <2>3. \A j \in PalletZones : voted'[j] # Unknown => Flipped(votes'[j], voted'[j], votedFor'[j])
    BY <2>1 DEF Flips
  <2>4. Flips'
    BY <2>3 DEF Flips, Flipped, Since
  <2>5. \A j \in PalletZones : FlipsLate(j)
    BY <2>1, <2>2 DEF FlipsLate
  <2> QED
    BY <2>4, <2>5
<1> QED
  BY <1>1, <1>2, <1>3 DEF Long!VoteNext

\* Verdicts that alternate cannot make a zone flap: for any window and ratio of SlowFlips,
\* more than a third of the window goes by between two flips of a state.
THEOREM FlipsTheorem == ASSUME SlowFlips PROVE ZonesSpec => Long!FlipsAreSlow
<1>1. ZonesInit => LongInv /\ Flips
  <2>1. Long!VoteInit => Flips
    BY DEF Long!VoteInit, Flips
  <2> QED
    BY <2>1, InitLong DEF ZonesInit
<1>2. LongInv /\ Flips /\ [ZonesNext]_zonesVars =>
        LongInv' /\ Flips' /\ [\A k \in PalletZones : FlipsLate(k)]_longVars
  <2> SUFFICES ASSUME [ZonesNext]_zonesVars PROVE [Long!VoteNext]_longVars
    BY LongInvKept, FlipsKept
  <2> QED
    BY DEF ZonesNext, zonesVars
<1>3. [\A k \in PalletZones : FlipsLate(k)]_longVars =>
        [\A k \in PalletZones :
           {voted[k], voted'[k]} = {Long!Full, Empty} => 3 * (votedFor[k] + 1) > LongWindow]_(Long!voteVars)
  <2>1. UNCHANGED longVars => UNCHANGED Long!voteVars
    BY DEF longVars, Long!voteVars
  <2> QED
    BY <2>1 DEF FlipsLate, Long!Full
<1> QED
  BY <1>1, <1>2, <1>3, PTL DEF ZonesSpec, Long!FlipsAreSlow

-----------------------------------------------------------------------------
(* The decision on a pallet.  What the evidence of a frame is, then what one *)
(* zone makes of it, then the zones.                                         *)

LEMMA PalletConstants ==
  /\ EnterAfter \in Nat /\ EnterAfter > 0 /\ PalletExit \in Nat /\ PalletExit > 0
  /\ Palette \notin Loads /\ Nothing \notin Ballots
  /\ PalletCameras \in Seq(Pallet!Cameras)
  BY ZonesConstants DEF Pallet!PalletAssumption, Pallet!Verdicts, Ballots

LEMMA FirstFacts ==
  ASSUME NEW S, S \subseteq Pallet!Cameras, S # {}
  PROVE  Pallet!First(S) \in S
<1> DEFINE I == {i \in DOMAIN PalletCameras : PalletCameras[i] \in S}
<1>1. DOMAIN PalletCameras = 1..Len(PalletCameras)
  BY PalletConstants
<1>2. Len(PalletCameras) \in Nat
  BY PalletConstants
<1>3. I \subseteq Nat /\ I # {}
  BY <1>1, <1>2 DEF Pallet!Cameras
<1>4. PICK i \in I : \A j \in I : i <= j
  BY <1>3, Least
<1>5. \A j \in 1..(i - 1) : PalletCameras[j] \notin S
  BY <1>1, <1>2, <1>3, <1>4
<1> DEFINE At(k) == PalletCameras[k] \in S /\ \A j \in 1..(k - 1) : PalletCameras[j] \notin S
<1>6. i \in DOMAIN PalletCameras /\ At(i)
  BY <1>4, <1>5
<1>7. At(CHOOSE k \in DOMAIN PalletCameras : At(k))
  <2> HIDE DEF At
  <2> QED
    BY <1>6, Zenon
<1>8. Pallet!First(S) = PalletCameras[CHOOSE k \in DOMAIN PalletCameras : At(k)]
  BY Zenon DEF Pallet!First
<1> QED
  BY <1>7, <1>8

\* What one frame says of a zone: the classes in evidence, the verdict, and whether
\* some camera reads a load.
Said(E, v, read) ==
  /\ E \subseteq Pallet!Classes /\ v \in Ballots \cup {Nothing} /\ read \in BOOLEAN
  /\ Palette \in E => v # Nothing
  /\ read => v \in Loads

Read(frame, z) == \E c \in DOMAIN frame : frame[c][z].pallet \in Loads

LEMMA FrameFacts ==
  ASSUME NEW frame \in Pallet!Frames, NEW z \in PalletZones
  PROVE  Said(Pallet!Evidence(frame, z), Pallet!FrameVerdict(frame, z), Read(frame, z))
<1> DEFINE seen   == {c \in DOMAIN frame : frame[c][z].pallet # Nothing}
           loaded == {c \in DOMAIN frame : frame[c][z].pallet \in Loads}
           near   == {c \in DOMAIN frame : frame[c][z].near # Nothing}
           v      == Pallet!FrameVerdict(frame, z)
<1>1. PICK R : R \subseteq Pallet!Cameras /\ frame \in [R -> [PalletZones -> Pallet!Views]]
  BY DEF Pallet!Frames
<1>2. DOMAIN frame = R
  BY <1>1
<1>3. \A c \in R : /\ frame[c][z].classes \subseteq Pallet!Classes
                   /\ frame[c][z].pallet \in Ballots \cup {Nothing}
                   /\ frame[c][z].near \in Loads \cup {Nothing}
                   /\ Palette \in frame[c][z].classes => frame[c][z].pallet # Nothing
  <2> SUFFICES ASSUME NEW c \in R
               PROVE  /\ frame[c][z].classes \subseteq Pallet!Classes
                      /\ frame[c][z].pallet \in Ballots \cup {Nothing}
                      /\ frame[c][z].near \in Loads \cup {Nothing}
                      /\ Palette \in frame[c][z].classes => frame[c][z].pallet # Nothing
    OBVIOUS
  <2>1. frame[c][z] \in Pallet!Views
    BY <1>1
  <2> QED
    BY <2>1 DEF Pallet!Views, Pallet!Verdicts, Ballots
<1>4. v = IF seen = {} THEN Nothing
          ELSE IF loaded # {} THEN frame[Pallet!First(loaded)][z].pallet
          ELSE IF near # {} THEN frame[Pallet!First(near)][z].near
          ELSE Empty
  BY DEF Pallet!FrameVerdict
<1>5. loaded # {} => v \in Loads
  <2> SUFFICES ASSUME loaded # {} PROVE v \in Loads
    OBVIOUS
  <2>1. loaded \subseteq Pallet!Cameras
    BY <1>1, <1>2
  <2>2. Pallet!First(loaded) \in loaded
    <3> HIDE DEF loaded
    <3> QED
      BY <2>1, FirstFacts
  <2>3. seen # {}
    BY PalletConstants DEF Ballots
  <2> QED
    BY <1>4, <2>2, <2>3
<1>6. seen # {} => v \in Ballots
  <2> SUFFICES ASSUME seen # {}, loaded = {}, near # {} PROVE v \in Ballots
    BY <1>4, <1>5 DEF Ballots
  <2>1. near \subseteq Pallet!Cameras
    BY <1>1, <1>2
  <2>2. Pallet!First(near) \in near
    <3> HIDE DEF near
    <3> QED
      BY <2>1, FirstFacts
  <2>3. v = frame[Pallet!First(near)][z].near
    BY <1>4
  <2> QED
    BY <1>2, <1>3, <2>2, <2>3 DEF Ballots
<1>7. Pallet!Evidence(frame, z) \subseteq Pallet!Classes
  BY <1>2, <1>3 DEF Pallet!Evidence
<1>8. Palette \in Pallet!Evidence(frame, z) => v # Nothing
  <2> SUFFICES ASSUME Palette \in Pallet!Evidence(frame, z) PROVE v # Nothing
    OBVIOUS
  <2>1. PICK c \in R : Palette \in frame[c][z].classes
    BY <1>2 DEF Pallet!Evidence
  <2>2. c \in seen
    BY <1>2, <1>3, <2>1
  <2> QED
    BY <1>6, <2>2, PalletConstants
<1>9. v \in Ballots \cup {Nothing}
  BY <1>4, <1>6
<1>10. Read(frame, z) <=> loaded # {}
  BY DEF Read
<1> HIDE DEF v, loaded, seen, near
<1>11. Read(frame, z) \in BOOLEAN
  BY DEF Read
<1> QED
  BY <1>5, <1>7, <1>8, <1>9, <1>10, <1>11 DEF Said, v

-----------------------------------------------------------------------------
(* Presence.                                                                 *)

\* Presence in one zone: the streaks of the hysteresis are those a reader of the
\* detections would count.
Presence(m, in, out, conf, seen, gone) ==
  /\ m \subseteq Pallet!Classes /\ conf = m
  /\ \A c \in Pallet!Classes :
       /\ in[c] \in 0..(EnterAfter - 1) /\ out[c] \in 0..(PalletExit - 1)
       /\ seen[c] \in Nat /\ gone[c] \in Nat
       /\ c \in m => gone[c] = out[c]
       /\ c \notin m => seen[c] = in[c]

PresenceTypes ==
  /\ present \in [PalletZones -> SUBSET Pallet!Classes]
  /\ arriving \in [PalletZones -> [Pallet!Classes -> 0..(EnterAfter - 1)]]
  /\ leaving \in [PalletZones -> [Pallet!Classes -> 0..(PalletExit - 1)]]
  /\ heldConf \in [PalletZones -> SUBSET Pallet!Classes]

PresenceKept ==
  /\ PresenceTypes
  /\ \A z \in PalletZones :
       Presence(present[z], arriving[z], leaving[z], heldConf[z], sightings[z], absences[z])

LEMMA LeastOf ==
  ASSUME NEW n \in Nat, NEW b \in Nat
  PROVE  /\ Pallet!AtMost(n, b) \in Nat /\ Pallet!AtMost(n, b) <= n /\ Pallet!AtMost(n, b) <= b
         /\ n >= b => Pallet!AtMost(n, b) = b
         /\ n < b => Pallet!AtMost(n, b) = n
  BY DEF Pallet!AtMost

\* What a frame does to the presence of one class.
LEMMA ClassFacts ==
  ASSUME NEW z \in PalletZones, NEW E, E \subseteq Pallet!Classes, NEW partial \in BOOLEAN,
         NEW c \in Pallet!Classes,
         PresenceKept, NEW seen, NEW gone,
         seen = IF c \in E THEN Pallet!AtMost(sightings[z][c] + 1, EnterAfter)
                ELSE IF partial THEN sightings[z][c] ELSE 0,
         gone = IF c \in E THEN 0
                ELSE IF partial THEN absences[z][c]
                ELSE Pallet!AtMost(absences[z][c] + 1, PalletExit),
         NEW in, in = Pallet!InStreak(z, E, partial)[c],
         NEW out, out = Pallet!OutStreak(z, E, partial)[c],
         NEW m, m = Pallet!Member(z, E, partial)
  PROVE  /\ in \in 0..(EnterAfter - 1) /\ out \in 0..(PalletExit - 1)
         /\ seen \in Nat /\ gone \in Nat
         /\ c \in m => gone = out
         /\ c \notin m => seen = in
         /\ c \in m /\ c \notin present[z] => seen >= EnterAfter
         /\ c \notin m /\ c \in present[z] => gone >= PalletExit
<1>1. /\ arriving[z][c] \in 0..(EnterAfter - 1) /\ leaving[z][c] \in 0..(PalletExit - 1)
      /\ sightings[z][c] \in Nat /\ absences[z][c] \in Nat
      /\ c \in present[z] => absences[z][c] = leaving[z][c]
      /\ c \notin present[z] => sightings[z][c] = arriving[z][c]
  BY DEF PresenceKept, Presence
<1>2. PICK a \in Nat : a = arriving[z][c] /\ a < EnterAfter
  BY <1>1, PalletConstants
<1>3. PICK l \in Nat : l = leaving[z][c] /\ l < PalletExit
  BY <1>1, PalletConstants
<1>4. PICK s \in Nat : s = sightings[z][c] /\ (c \notin present[z] => s = a)
  BY <1>1, <1>2
<1>5. PICK g \in Nat : g = absences[z][c] /\ (c \in present[z] => g = l)
  BY <1>1, <1>3
<1>6. c \in Pallet!Joins(z, E) <=> c \in E /\ c \notin present[z] /\ a + 1 >= EnterAfter
  BY <1>2 DEF Pallet!Joins
<1>7. c \in Pallet!Leaves(z, E, partial) <=> c \in present[z] /\ c \notin E /\ ~partial /\ l + 1 >= PalletExit
  BY <1>3 DEF Pallet!Leaves
<1>8. c \in m <=> (c \in present[z] \/ c \in Pallet!Joins(z, E)) /\ c \notin Pallet!Leaves(z, E, partial)
  BY DEF Pallet!Member
<1>9. in = IF c \in Pallet!Joins(z, E) THEN 0
           ELSE IF c \in E /\ c \notin present[z] THEN a + 1
           ELSE IF c \notin E /\ ~partial THEN 0 ELSE a
  BY <1>2 DEF Pallet!InStreak
<1>10. out = IF c \in E \/ c \in Pallet!Leaves(z, E, partial) THEN 0
             ELSE IF c \in present[z] /\ ~partial THEN l + 1 ELSE l
  BY <1>3 DEF Pallet!OutStreak
<1>11. PICK s1 \in Nat : s1 = Pallet!AtMost(s + 1, EnterAfter)
         /\ (s + 1 >= EnterAfter => s1 = EnterAfter) /\ (s + 1 < EnterAfter => s1 = s + 1)
  <2>1. PICK n \in Nat : n = s + 1
    OBVIOUS
  <2>2. PICK x : x = Pallet!AtMost(n, EnterAfter)
    OBVIOUS
  <2>3. x \in Nat /\ (n >= EnterAfter => x = EnterAfter) /\ (n < EnterAfter => x = n)
    BY <2>2, LeastOf, PalletConstants
  <2> QED
    BY <2>1, <2>2, <2>3
<1>12. PICK g1 \in Nat : g1 = Pallet!AtMost(g + 1, PalletExit)
         /\ (g + 1 >= PalletExit => g1 = PalletExit) /\ (g + 1 < PalletExit => g1 = g + 1)
  <2>1. PICK n \in Nat : n = g + 1
    OBVIOUS
  <2>2. PICK x : x = Pallet!AtMost(n, PalletExit)
    OBVIOUS
  <2>3. x \in Nat /\ (n >= PalletExit => x = PalletExit) /\ (n < PalletExit => x = n)
    BY <2>2, LeastOf, PalletConstants
  <2> QED
    BY <2>1, <2>2, <2>3
<1>13. seen = IF c \in E THEN s1 ELSE IF partial THEN s ELSE 0
  BY <1>4, <1>11
<1>14. gone = IF c \in E THEN 0 ELSE IF partial THEN g ELSE g1
  BY <1>5, <1>12
<1>15. EnterAfter \in Nat /\ EnterAfter > 0 /\ PalletExit \in Nat /\ PalletExit > 0
  BY PalletConstants
<1>16. /\ c \in E => seen = s1 /\ gone = 0
       /\ c \notin E /\ partial => seen = s /\ gone = g
       /\ c \notin E /\ ~partial => seen = 0 /\ gone = g1
  BY <1>13, <1>14
<1>17. CASE c \in E /\ c \in present[z]
  BY <1>2, <1>3, <1>6, <1>7, <1>8, <1>9, <1>10, <1>15, <1>16, <1>17
<1>18. CASE c \in E /\ c \notin present[z]
  BY <1>2, <1>3, <1>4, <1>6, <1>7, <1>8, <1>9, <1>10, <1>11, <1>15, <1>16, <1>18
<1>19. CASE c \notin E /\ partial
  <2>1. in = a /\ out = l /\ (c \in m <=> c \in present[z])
    BY <1>6, <1>7, <1>8, <1>9, <1>10, <1>19
  <2>2. seen = s /\ gone = g
    BY <1>16, <1>19
  <2> QED
    BY <1>2, <1>3, <1>4, <1>5, <1>15, <2>1, <2>2
<1>20. CASE c \notin E /\ ~partial /\ c \in present[z]
  BY <1>2, <1>3, <1>5, <1>6, <1>7, <1>8, <1>9, <1>10, <1>12, <1>15, <1>16, <1>20
<1>21. CASE c \notin E /\ ~partial /\ c \notin present[z]
  BY <1>2, <1>3, <1>6, <1>7, <1>8, <1>9, <1>10, <1>15, <1>16, <1>21
<1> QED
  BY <1>17, <1>18, <1>19, <1>20, <1>21

\* The step of DebouncedPresence.
Debounced ==
  \A z \in PalletZones :
    /\ \A c \in present'[z] \ present[z] : sightings'[z][c] >= EnterAfter
    /\ \A c \in present[z] \ present'[z] : absences'[z][c] >= PalletExit

LEMMA PresenceStep ==
  ASSUME PresenceKept, NEW frame \in Pallet!Frames, Pallet!Step(frame)
  PROVE  PresenceKept' /\ Debounced
<1> DEFINE E(z) == Pallet!Evidence(frame, z)
           partial == Pallet!Partial(frame)
<1>1. partial \in BOOLEAN
  BY DEF Pallet!Partial
<1>2. /\ present' = [z \in PalletZones |-> Pallet!Member(z, E(z), partial)]
      /\ arriving' = [z \in PalletZones |-> Pallet!InStreak(z, E(z), partial)]
      /\ leaving' = [z \in PalletZones |-> Pallet!OutStreak(z, E(z), partial)]
      /\ heldConf' = [z \in PalletZones |-> Pallet!HeldConf(z, frame)]
  BY DEF Pallet!Step
<1>3. /\ sightings' = [z \in PalletZones |-> [c \in Pallet!Classes |->
            IF c \in E(z) THEN Pallet!AtMost(sightings[z][c] + 1, EnterAfter)
            ELSE IF partial THEN sightings[z][c] ELSE 0]]
      /\ absences' = [z \in PalletZones |-> [c \in Pallet!Classes |->
            IF c \in E(z) THEN 0
            ELSE IF partial THEN absences[z][c]
            ELSE Pallet!AtMost(absences[z][c] + 1, PalletExit)]]
  BY DEF Pallet!Step, Pallet!Witness
<1>4. ASSUME NEW z \in PalletZones
      PROVE  /\ Presence(present'[z], arriving'[z], leaving'[z], heldConf'[z], sightings'[z], absences'[z])
             /\ arriving'[z] \in [Pallet!Classes -> 0..(EnterAfter - 1)]
             /\ leaving'[z] \in [Pallet!Classes -> 0..(PalletExit - 1)]
             /\ \A c \in present'[z] \ present[z] : sightings'[z][c] >= EnterAfter
             /\ \A c \in present[z] \ present'[z] : absences'[z][c] >= PalletExit
  <2>1. E(z) \subseteq Pallet!Classes
    BY FrameFacts DEF Said
  <2>2. present[z] \subseteq Pallet!Classes /\ heldConf[z] = present[z]
    BY DEF PresenceKept, Presence
  <2>3. PICK m : m = Pallet!Member(z, E(z), partial) /\ m = present'[z]
    BY <1>2
  <2>4. m \subseteq Pallet!Classes /\ m \subseteq present[z] \cup E(z)
    BY <2>1, <2>2, <2>3 DEF Pallet!Member, Pallet!Joins
  <2>5. heldConf'[z] = m
    BY <1>2, <2>2, <2>3, <2>4 DEF Pallet!HeldConf
  <2>6. ASSUME NEW c \in Pallet!Classes
        PROVE  /\ arriving'[z][c] \in 0..(EnterAfter - 1) /\ leaving'[z][c] \in 0..(PalletExit - 1)
               /\ sightings'[z][c] \in Nat /\ absences'[z][c] \in Nat
               /\ c \in m => absences'[z][c] = leaving'[z][c]
               /\ c \notin m => sightings'[z][c] = arriving'[z][c]
               /\ c \in m /\ c \notin present[z] => sightings'[z][c] >= EnterAfter
               /\ c \notin m /\ c \in present[z] => absences'[z][c] >= PalletExit
    <3>1. PICK seen : seen = sightings'[z][c]
      OBVIOUS
    <3>2. PICK gone : gone = absences'[z][c]
      OBVIOUS
    <3>3. PICK in : in = arriving'[z][c]
      OBVIOUS
    <3>4. PICK out : out = leaving'[z][c]
      OBVIOUS
    <3>5. seen = IF c \in E(z) THEN Pallet!AtMost(sightings[z][c] + 1, EnterAfter)
                 ELSE IF partial THEN sightings[z][c] ELSE 0
      BY <1>3, <3>1
    <3>6. gone = IF c \in E(z) THEN 0
                 ELSE IF partial THEN absences[z][c]
                 ELSE Pallet!AtMost(absences[z][c] + 1, PalletExit)
      BY <1>3, <3>2
    <3>7. in = Pallet!InStreak(z, E(z), partial)[c] /\ out = Pallet!OutStreak(z, E(z), partial)[c]
      BY <1>2, <3>3, <3>4
    <3>8. PICK e, p : e = E(z) /\ p = partial
      OBVIOUS
    <3> HIDE DEF E, partial
    <3>9. e \subseteq Pallet!Classes /\ p \in BOOLEAN /\ m = Pallet!Member(z, e, p)
      BY <1>1, <2>1, <2>3, <3>8
    <3>10. /\ seen = IF c \in e THEN Pallet!AtMost(sightings[z][c] + 1, EnterAfter)
                     ELSE IF p THEN sightings[z][c] ELSE 0
           /\ gone = IF c \in e THEN 0
                     ELSE IF p THEN absences[z][c]
                     ELSE Pallet!AtMost(absences[z][c] + 1, PalletExit)
           /\ in = Pallet!InStreak(z, e, p)[c] /\ out = Pallet!OutStreak(z, e, p)[c]
      BY <3>5, <3>6, <3>7, <3>8
    <3>11. /\ in \in 0..(EnterAfter - 1) /\ out \in 0..(PalletExit - 1)
           /\ seen \in Nat /\ gone \in Nat
           /\ c \in m => gone = out
           /\ c \notin m => seen = in
           /\ c \in m /\ c \notin present[z] => seen >= EnterAfter
           /\ c \notin m /\ c \in present[z] => gone >= PalletExit
      BY <3>9, <3>10, ClassFacts
    <3> QED
      BY <3>1, <3>2, <3>3, <3>4, <3>11
  <2>7. Presence(present'[z], arriving'[z], leaving'[z], heldConf'[z], sightings'[z], absences'[z])
    BY <2>3, <2>4, <2>5, <2>6 DEF Presence
  <2>8. arriving'[z] \in [Pallet!Classes -> 0..(EnterAfter - 1)]
    <3>1. \E f : arriving'[z] = [c \in Pallet!Classes |-> f[c]]
      <4>1. arriving'[z] = Pallet!InStreak(z, E(z), partial)
        BY <1>2
      <4>2. DOMAIN arriving'[z] = Pallet!Classes /\ arriving'[z] = [c \in Pallet!Classes |-> arriving'[z][c]]
        BY <4>1 DEF Pallet!InStreak
      <4> QED
        BY <4>2
    <3> QED
      BY <2>6, <3>1
  <2>9. leaving'[z] \in [Pallet!Classes -> 0..(PalletExit - 1)]
    <3>1. \E f : leaving'[z] = [c \in Pallet!Classes |-> f[c]]
      <4>1. leaving'[z] = Pallet!OutStreak(z, E(z), partial)
        BY <1>2
      <4>2. DOMAIN leaving'[z] = Pallet!Classes /\ leaving'[z] = [c \in Pallet!Classes |-> leaving'[z][c]]
        BY <4>1 DEF Pallet!OutStreak
      <4> QED
        BY <4>2
    <3> QED
      BY <2>6, <3>1
  <2> QED
    BY <2>2, <2>3, <2>4, <2>6, <2>7, <2>8, <2>9
<1>5. PresenceTypes'
  <2>1. \A z \in PalletZones : present'[z] \subseteq Pallet!Classes /\ heldConf'[z] \subseteq Pallet!Classes
    BY <1>4 DEF Presence
  <2> QED
    BY <1>2, <1>4, <2>1 DEF PresenceTypes
<1> QED
  BY <1>4, <1>5 DEF PresenceKept, Debounced
-----------------------------------------------------------------------------
(* The vote of a zone and what is decided from it.                           *)

\* A window h of a zone and the state s held of it.
WindowOf(h, s) ==
  /\ h \in Seq(Ballots) /\ Len(h) <= PalletWindow
  /\ s \in {Unknown, "full", Empty} /\ (s = Unknown <=> h = <<>>)

\* What the window has to do with what was seen: the last `run` verdicts read a load,
\* and no load is in it that was not seen since the palette last left.
Evident(h, run, seen) ==
  /\ run \in Nat /\ RunOf(h, Loads, run)
  /\ (\E i \in DOMAIN h : h[i] \in Loads) => seen = TRUE

\* What is decided of a zone.
Decided(d, m, run, seen) ==
  /\ d.state \in {"no_data", "no_palette", "palette_empty", "palette_loaded"}
  /\ d.state = "palette_loaded" => d.content \in Loads /\ seen = TRUE
  /\ run >= Quorum(PalletWindow) /\ Palette \in m => d.state = "palette_loaded"

BallotTypes ==
  /\ ballots \in [PalletZones -> Seq(Ballots)]
  /\ elected \in [PalletZones -> {Unknown, "full", Empty}]
  /\ heldFor \in [PalletZones -> 0..0] /\ agreeing \in [PalletZones -> 0..0]

DecisionKept ==
  /\ BallotTypes
  /\ \A z \in PalletZones :
       /\ WindowOf(ballots[z], elected[z]) /\ Evident(ballots[z], loadRun[z], loadSeen[z])
       /\ Palette \in present[z] => ballots[z] # <<>>
       /\ Decided(decision[z], present[z], loadRun[z], loadSeen[z])

\* The window a frame leaves.
LEMMA VotesFacts ==
  ASSUME DecisionKept, NEW z \in PalletZones, NEW frame \in Pallet!Frames,
         NEW v, v = Pallet!FrameVerdict(frame, z),
         NEW f, f = Pallet!Forgotten(z, frame), NEW o, o = Pallet!Votes(z, frame)
  PROVE  /\ WindowOf(f.votes, f.state) /\ WindowOf(o.votes, o.state)
         /\ f.votes = ballots[z] \/ f.votes = <<>>
         /\ f.votes # <<>> => ~Pallet!Exits(z, frame)
         /\ ~Pallet!Exits(z, frame) => f.votes = ballots[z]
         /\ v = Nothing => o.votes = f.votes
         /\ v # Nothing => v \in Ballots /\ o.votes = Pushed(f.votes, v, PalletWindow) /\ o.votes # <<>>
         /\ f.state = Unknown /\ o.votes # <<>> => Len(o.votes) = 1
<1>1. WindowOf(ballots[z], elected[z])
  BY DEF DecisionKept
<1>2. /\ f.votes = IF Pallet!Exits(z, frame) THEN <<>> ELSE ballots[z]
      /\ f.state = IF Pallet!Exits(z, frame) THEN Unknown ELSE elected[z]
  BY DEF Pallet!Forgotten
<1>3. WindowOf(f.votes, f.state)
  <2>1. WindowOf(<<>>, Unknown)
    BY VoteConstants DEF WindowOf
  <2> QED
    BY <1>1, <1>2, <2>1
<1>4. v \in Ballots \cup {Nothing}
  BY FrameFacts DEF Said
<1>5. CASE v = Nothing
  <2>1. o = f
    BY <1>5 DEF Pallet!Votes
  <2> QED
    BY <1>2, <1>3, <1>5, <2>1 DEF WindowOf
<1>6. CASE v # Nothing
  <2>1. PICK g : g = f.votes
    OBVIOUS
  <2>2. PICK s : s = f.state
    OBVIOUS
  <2>3. PICK h : h = Pushed(g, v, PalletWindow)
    OBVIOUS
  <2>4. g \in Seq(Ballots) /\ Len(g) <= PalletWindow /\ s \in {Unknown, "full", Empty} /\ (s = Unknown <=> g = <<>>)
    BY <1>3, <2>1, <2>2 DEF WindowOf
  <2>5. v \in Ballots
    BY <1>4, <1>6
  <2>6. /\ h \in Seq(Ballots) /\ Len(h) <= PalletWindow /\ Len(h) > 0
        /\ g = <<>> => Len(h) = 1
    BY <2>3, <2>4, <2>5, PushFacts, VoteConstants
  <2>7. o.votes = h /\ o.state = State(h, s)
    BY <1>6, <2>1, <2>2, <2>3, <2>4, SameVote DEF Pallet!Votes
  <2>8. State(h, s) \in {"full", Empty} /\ h # <<>>
    BY <2>4, <2>6, StateFacts DEF Settled
  <2>9. WindowOf(h, State(h, s))
    BY <2>6, <2>8, VoteConstants DEF WindowOf, Ballots
  <2> QED
    BY <1>2, <1>3, <1>6, <2>1, <2>2, <2>3, <2>4, <2>5, <2>6, <2>7, <2>8, <2>9
<1> QED
  BY <1>5, <1>6

LEMMA EvidentStep ==
  ASSUME DecisionKept, NEW z \in PalletZones, NEW frame \in Pallet!Frames,
         NEW v, v = Pallet!FrameVerdict(frame, z), NEW o, o = Pallet!Votes(z, frame),
         NEW run, run = IF v = Nothing THEN loadRun[z]
                        ELSE IF Read(frame, z) THEN Pallet!AtMost(loadRun[z] + 1, PalletWindow) ELSE 0,
         NEW seen, seen = (v \in Loads \/ (loadSeen[z] /\ ~Pallet!Exits(z, frame)))
  PROVE  Evident(o.votes, run, seen)
<1>1. PICK f : f = Pallet!Forgotten(z, frame)
  OBVIOUS
<1>2. PICK g : g = f.votes
  OBVIOUS
<1>3. PICK h : h = o.votes
  OBVIOUS
<1>4. PICK m \in Nat : m = loadRun[z]
  BY DEF DecisionKept, Evident
<1>5. RunOf(ballots[z], Loads, m) /\ ((\E i \in DOMAIN ballots[z] : ballots[z][i] \in Loads) => loadSeen[z] = TRUE)
  BY <1>4 DEF DecisionKept, Evident
<1>6. /\ g \in Seq(Ballots) /\ Len(g) <= PalletWindow
      /\ g = ballots[z] \/ g = <<>>
      /\ g # <<>> => ~Pallet!Exits(z, frame)
      /\ v = Nothing => h = g
      /\ v # Nothing => v \in Ballots /\ h = Pushed(g, v, PalletWindow)
  BY <1>1, <1>2, <1>3, VotesFacts DEF WindowOf
<1>7. RunOf(g, Loads, m)
  BY <1>5, <1>6 DEF RunOf
<1>8. run \in Nat /\ RunOf(h, Loads, run)
  <2>1. CASE v = Nothing
    BY <1>4, <1>6, <1>7, <2>1
  <2>2. CASE v # Nothing /\ Read(frame, z)
    <3>1. v \in Loads
      BY <2>2, FrameFacts DEF Said
    <3>2. PICK n \in Nat : n = m + 1
      OBVIOUS
    <3>3. run = Pallet!AtMost(n, PalletWindow)
      BY <1>4, <2>2, <3>2
    <3>4. run \in Nat /\ run <= m + 1
      BY <3>2, <3>3, LeastOf, VoteConstants
    <3>5. RunOf(Pushed(g, v, PalletWindow), Loads, run)
      BY <1>6, <1>7, <2>2, <3>1, <3>4, RunPush, VoteConstants
    <3> QED
      BY <1>6, <2>2, <3>4, <3>5
  <2>3. CASE v # Nothing /\ ~Read(frame, z)
    <3>1. run = 0
      BY <2>3
    <3>2. h \in Seq(Ballots)
      BY <1>6, <2>3, PushFacts, VoteConstants
    <3>3. \A i \in DOMAIN h : ~(Len(h) - i < 0)
      BY <3>2
    <3> QED
      BY <3>1, <3>3 DEF RunOf
  <2> QED
    BY <2>1, <2>2, <2>3
<1>9. ASSUME NEW i \in DOMAIN h, h[i] \in Loads PROVE seen = TRUE
  <2>1. CASE v \in Loads
    BY <2>1
  <2>2. CASE v \notin Loads
    <3>1. PICK j \in DOMAIN g : g[j] \in Loads
      <4>1. CASE v = Nothing
        BY <1>6, <1>9, <4>1
      <4>2. CASE v # Nothing
        <5>1. PICK w \in Nat : w = PalletWindow /\ w > 0
          BY VoteConstants
        <5>2. PICK p : p = Pushed(g, v, w)
          OBVIOUS
        <5>3. v \in Ballots /\ Len(g) <= w /\ h = p
          BY <1>6, <4>2, <5>1, <5>2
        <5>4. /\ p[Len(p)] = v
              /\ \A k \in DOMAIN p : k = Len(p) \/ \E j \in DOMAIN g : p[k] = g[j]
          BY <1>6, <5>1, <5>2, <5>3, PushFacts
        <5> QED
          BY <1>9, <2>2, <5>3, <5>4
      <4> QED
        BY <4>1, <4>2
    <3>2. g # <<>>
      BY <3>1
    <3> QED
      BY <1>5, <1>6, <3>1, <3>2
  <2> QED
    BY <2>1, <2>2
<1> QED
  BY <1>3, <1>8, <1>9 DEF Evident

\* A palette that is present has been voted on.
LEMMA PresentVoted ==
  ASSUME DecisionKept, NEW z \in PalletZones, NEW frame \in Pallet!Frames,
         NEW o, o = Pallet!Votes(z, frame),
         Palette \in Pallet!Member(z, Pallet!Evidence(frame, z), Pallet!Partial(frame))
  PROVE  o.votes # <<>>
<1>1. CASE Palette \in Pallet!Evidence(frame, z)
  <2>1. Pallet!FrameVerdict(frame, z) # Nothing
    BY <1>1, FrameFacts DEF Said
  <2> QED
    BY <2>1, VotesFacts
<1>2. CASE Palette \notin Pallet!Evidence(frame, z)
  <2>1. Palette \in present[z] /\ ~Pallet!Exits(z, frame)
    BY <1>2 DEF Pallet!Member, Pallet!Joins, Pallet!Exits
  <2>2. Pallet!Forgotten(z, frame).votes # <<>>
    BY <2>1, VotesFacts DEF DecisionKept
  <2> QED
    BY <2>2, VotesFacts
<1> QED
  BY <1>1, <1>2

LEMMA DecideStep ==
  ASSUME DecisionKept, NEW z \in PalletZones, NEW frame \in Pallet!Frames,
         NEW o, o = Pallet!Votes(z, frame), NEW d, d = Pallet!Decide(z, frame),
         NEW run, NEW seen, Evident(o.votes, run, seen),
         NEW m, m = Pallet!Member(z, Pallet!Evidence(frame, z), Pallet!Partial(frame))
  PROVE  Decided(d, m, run, seen)
<1>1. PICK f : f = Pallet!Forgotten(z, frame)
  OBVIOUS
<1>2. PICK h : h = o.votes
  OBVIOUS
<1>3. PICK s : s = f.state
  OBVIOUS
<1>4. PICK occ : occ = Pallet!Occupancy(z, frame)
  OBVIOUS
<1>5. h \in Seq(Ballots) /\ Len(h) <= PalletWindow /\ s \in {Unknown, "full", Empty}
      /\ (s = Unknown /\ h # <<>> => Len(h) = 1)
  BY <1>1, <1>2, <1>3, VotesFacts DEF WindowOf
<1>6. Empty \notin Loads /\ Nothing \notin Loads
  BY VoteConstants, PalletConstants DEF Ballots
<1>7. occ = IF h = <<>> THEN Nothing
            ELSE IF State(h, s) = "full" THEN Pallet!Content(h) ELSE Empty
  <2>1. Pallet!VotedState(h, s) = State(h, s)
    BY <1>5, SameVote
  <2> QED
    BY <1>1, <1>2, <1>3, <1>4, <2>1 DEF Pallet!Occupancy, Pallet!Voted, Pallet!Full
<1>8. /\ Palette \notin m => d.state = "no_palette"
      /\ Palette \in m /\ occ \in Loads => d.state = "palette_loaded" /\ d.content = occ
      /\ Palette \in m /\ occ \notin Loads => d.state = "palette_empty"
  BY <1>4 DEF Pallet!Decide
<1>9. ASSUME occ \in Loads PROVE seen = TRUE
  <2>1. h # <<>> /\ State(h, s) = "full"
    BY <1>6, <1>7, <1>9
  <2>2. Tally(h, Loads) > 0
    BY <1>5, <2>1, StateFacts DEF Settled
  <2>3. \E i \in DOMAIN h : h[i] \in Loads
    BY <1>5, <2>2, TallyNonzero
  <2> QED
    BY <1>2, <2>3 DEF Evident
<1>10. ASSUME run >= Quorum(PalletWindow), Palette \in m PROVE occ \in Loads
  <2>1. h # <<>>
    BY <1>2, <1>10, PresentVoted
  <2>2. PICK n \in Nat : n = Len(h) /\ n > 0 /\ n <= PalletWindow
    BY <1>5, <2>1
  <2>3. PICK q \in Nat : q = Quorum(n) /\ q <= n /\ q <= Quorum(PalletWindow)
    BY <2>2, QuorumFacts, VoteConstants
  <2>4. RunOf(h, Loads, q)
    <3>1. PICK r \in Nat : r = run /\ RunOf(h, Loads, r)
      BY <1>2 DEF Evident
    <3>2. Quorum(PalletWindow) \in Nat
      BY QuorumFacts, VoteConstants
    <3>3. q <= r
      BY <1>10, <2>3, <3>1, <3>2
    <3> QED
      BY <1>5, <3>1, <3>3 DEF RunOf
  <2>5. Tally(h, Loads) >= Quorum(Len(h))
    BY <1>5, <2>2, <2>3, <2>4, RunTally
  <2>6. State(h, s) = "full"
    BY <1>5, <2>1, <2>5, StateFacts DEF Settled
  <2>7. Tally(h, Loads) > 0
    BY <1>5, <2>1, <2>6, StateFacts DEF Settled
  <2> QED
    BY <1>5, <1>7, <2>1, <2>6, <2>7, ContentFacts
<1> QED
  BY <1>8, <1>9, <1>10 DEF Decided

LEMMA DecisionStep ==
  ASSUME DecisionKept, NEW frame \in Pallet!Frames, Pallet!Step(frame)
  PROVE  DecisionKept'
<1>1. /\ ballots' = [z \in PalletZones |-> Pallet!Votes(z, frame).votes]
      /\ elected' = [z \in PalletZones |-> Pallet!Votes(z, frame).state]
      /\ decision' = [z \in PalletZones |-> Pallet!Decide(z, frame)]
      /\ present' = [z \in PalletZones |->
                       Pallet!Member(z, Pallet!Evidence(frame, z), Pallet!Partial(frame))]
      /\ UNCHANGED <<heldFor, agreeing>>
  BY DEF Pallet!Step, Pallet!historyVars
<1>2. /\ loadSeen' = [z \in PalletZones |-> Pallet!FrameVerdict(frame, z) \in Loads
                                             \/ (loadSeen[z] /\ ~Pallet!Exits(z, frame))]
      /\ loadRun' = [z \in PalletZones |->
                       IF Pallet!FrameVerdict(frame, z) = Nothing THEN loadRun[z]
                       ELSE IF Read(frame, z) THEN Pallet!AtMost(loadRun[z] + 1, PalletWindow) ELSE 0]
  BY DEF Pallet!Step, Pallet!Witness, Read
<1>3. ASSUME NEW z \in PalletZones
      PROVE  /\ WindowOf(ballots'[z], elected'[z]) /\ Evident(ballots'[z], loadRun'[z], loadSeen'[z])
             /\ Palette \in present'[z] => ballots'[z] # <<>>
             /\ Decided(decision'[z], present'[z], loadRun'[z], loadSeen'[z])
  <2>1. PICK o : o = Pallet!Votes(z, frame)
    OBVIOUS
  <2>2. ballots'[z] = o.votes /\ elected'[z] = o.state
    BY <1>1, <2>1
  <2>3. WindowOf(o.votes, o.state)
    BY <2>1, VotesFacts
  <2>4. PICK run : run = loadRun'[z]
    OBVIOUS
  <2>5. PICK seen : seen = loadSeen'[z]
    OBVIOUS
  <2>6. PICK v : v = Pallet!FrameVerdict(frame, z)
    OBVIOUS
  <2>7. run = IF v = Nothing THEN loadRun[z]
              ELSE IF Read(frame, z) THEN Pallet!AtMost(loadRun[z] + 1, PalletWindow) ELSE 0
    BY <1>2, <2>4, <2>6
  <2>8. seen = (v \in Loads \/ (loadSeen[z] /\ ~Pallet!Exits(z, frame)))
    BY <1>2, <2>5, <2>6
  <2>9. Evident(o.votes, run, seen)
    BY <2>1, <2>6, <2>7, <2>8, EvidentStep
  <2>10. PICK m : m = Pallet!Member(z, Pallet!Evidence(frame, z), Pallet!Partial(frame))
    OBVIOUS
  <2>11. PICK d : d = Pallet!Decide(z, frame)
    OBVIOUS
  <2>12. present'[z] = m /\ decision'[z] = d
    BY <1>1, <2>10, <2>11
  <2>13. Decided(d, m, run, seen)
    BY <2>1, <2>9, <2>10, <2>11, DecideStep
  <2>14. Palette \in m => o.votes # <<>>
    BY <2>1, <2>10, PresentVoted
  <2> QED
    BY <2>2, <2>3, <2>4, <2>5, <2>9, <2>12, <2>13, <2>14
<1>4. BallotTypes'
  <2>1. \A z \in PalletZones : ballots'[z] \in Seq(Ballots) /\ elected'[z] \in {Unknown, "full", Empty}
    BY <1>3 DEF WindowOf
  <2>2. ballots' = [z \in PalletZones |-> ballots'[z]] /\ elected' = [z \in PalletZones |-> elected'[z]]
    BY <1>1
  <2> QED
    BY <1>1, <2>1, <2>2 DEF BallotTypes, DecisionKept
<1> QED
  BY <1>3, <1>4 DEF DecisionKept

-----------------------------------------------------------------------------
\* The inductive invariant of the pallet.
PalletKept == PresenceKept /\ DecisionKept

LEMMA InitPallet == Pallet!PalletInit => PalletKept
<1> SUFFICES ASSUME Pallet!PalletInit PROVE PalletKept
  OBVIOUS
<1>1. /\ ballots = [k \in PalletZones |-> <<>>] /\ elected = [k \in PalletZones |-> Unknown]
      /\ heldFor = [k \in PalletZones |-> 0] /\ agreeing = [k \in PalletZones |-> 0]
  BY DEF Pallet!PalletInit, Pallet!VoteInit
<1>2. /\ present = [z \in PalletZones |-> {}] /\ heldConf = [z \in PalletZones |-> {}]
      /\ arriving = [z \in PalletZones |-> [c \in Pallet!Classes |-> 0]]
      /\ leaving = [z \in PalletZones |-> [c \in Pallet!Classes |-> 0]]
      /\ sightings = [z \in PalletZones |-> [c \in Pallet!Classes |-> 0]]
      /\ absences = [z \in PalletZones |-> [c \in Pallet!Classes |-> PalletExit]]
  BY DEF Pallet!PalletInit
<1>3. /\ decision = [z \in PalletZones |-> [state |-> "no_data", content |-> Nothing, classes |-> {}]]
      /\ loadSeen = [z \in PalletZones |-> FALSE] /\ loadRun = [z \in PalletZones |-> 0]
  BY DEF Pallet!PalletInit, Pallet!NoDecision
<1>4. PresenceKept
  BY <1>2, PalletConstants DEF PresenceKept, PresenceTypes, Presence
<1>5. ASSUME NEW z \in PalletZones
      PROVE  /\ WindowOf(ballots[z], elected[z]) /\ Evident(ballots[z], loadRun[z], loadSeen[z])
             /\ Palette \in present[z] => ballots[z] # <<>>
             /\ Decided(decision[z], present[z], loadRun[z], loadSeen[z])
  <2>1. ballots[z] = <<>> /\ elected[z] = Unknown /\ loadRun[z] = 0 /\ present[z] = {}
    BY <1>1, <1>2, <1>3
  <2>2. decision[z].state = "no_data"
    BY <1>3
  <2>3. WindowOf(<<>>, Unknown)
    BY VoteConstants DEF WindowOf
  <2>4. Evident(<<>>, 0, loadSeen[z])
    BY DEF Evident, RunOf
  <2>5. Decided(decision[z], {}, 0, loadSeen[z])
    BY <2>2 DEF Decided
  <2> QED
    BY <2>1, <2>3, <2>4, <2>5
<1>6. BallotTypes
  BY <1>1 DEF BallotTypes
<1> QED
  BY <1>4, <1>5, <1>6 DEF PalletKept, DecisionKept

LEMMA PalletKeptStep ==
  ASSUME PalletKept, [Pallet!PalletNext]_palletVars
  PROVE  PalletKept' /\ [Debounced]_palletVars
<1>1. CASE UNCHANGED palletVars
  BY <1>1 DEF palletVars, PalletKept, PresenceKept, PresenceTypes, DecisionKept, BallotTypes
<1>2. ASSUME NEW frame \in Pallet!Frames, Pallet!Step(frame) PROVE PalletKept' /\ Debounced
  BY <1>2, PresenceStep, DecisionStep DEF PalletKept
<1> QED
  BY <1>1, <1>2 DEF Pallet!PalletNext

LEMMA PalletKeptImplies ==
  ASSUME PalletKept
  PROVE  Pallet!PresenceInv /\ Pallet!LoadOutranksEmpty /\ Pallet!LoadIsCurrent
<1> USE DEF PalletKept
<1>1. Pallet!VoteTypeOK
  <2>1. \A z \in PalletZones : Len(ballots[z]) <= PalletWindow /\ (elected[z] = Unknown <=> ballots[z] = <<>>)
    BY DEF DecisionKept, WindowOf
  <2> QED
    BY <2>1 DEF Pallet!VoteTypeOK, Pallet!Verdicts, Pallet!Full, DecisionKept, BallotTypes, Ballots
<1>2. \A z \in PalletZones : Decided(decision[z], present[z], loadRun[z], loadSeen[z])
  BY DEF DecisionKept
<1>3. Pallet!PalletTypeOK
  BY <1>1, <1>2 DEF Pallet!PalletTypeOK, PresenceKept, PresenceTypes, Decided
<1>4. \A z \in PalletZones :
        Presence(present[z], arriving[z], leaving[z], heldConf[z], sightings[z], absences[z])
  BY DEF PresenceKept
<1>5. Pallet!NoPhantom
  <2> SUFFICES ASSUME NEW z \in PalletZones, NEW c \in present[z] PROVE absences[z][c] < PalletExit
    BY DEF Pallet!NoPhantom
  <2>1. absences[z][c] = leaving[z][c] /\ leaving[z][c] \in 0..(PalletExit - 1)
    BY <1>4 DEF Presence
  <2> QED
    BY <2>1, PalletConstants
<1>6. Pallet!NoMiss
  <2> SUFFICES ASSUME NEW z \in PalletZones, NEW c \in Pallet!Classes, c \notin present[z],
                      sightings[z][c] >= EnterAfter
               PROVE  FALSE
    BY DEF Pallet!NoMiss
  <2>1. sightings[z][c] = arriving[z][c] /\ arriving[z][c] \in 0..(EnterAfter - 1)
    BY <1>4 DEF Presence
  <2> QED
    BY <2>1, PalletConstants
<1>7. Pallet!ConfidenceComplete
  BY <1>4 DEF Pallet!ConfidenceComplete, Presence
<1>8. Pallet!LoadIsCurrent
  BY <1>2 DEF Pallet!LoadIsCurrent, Decided
<1>9. Pallet!Need(PalletWindow) = Quorum(PalletWindow)
  BY DEF Pallet!Need, Quorum
<1>10. Pallet!LoadOutranksEmpty
  BY <1>2, <1>9 DEF Pallet!LoadOutranksEmpty, Decided
<1> QED
  BY <1>3, <1>5, <1>6, <1>7, <1>8, <1>10 DEF Pallet!PresenceInv

\* For any cameras, loads, thresholds, flip ratio and windows: a class is reported
\* present when and only when the last frames show it, a load that any camera reads for
\* a quorum of frames is what the zone reads, a zone reads loaded only on a load seen
\* since its last palette left, and a held verdict is that of its window.
THEOREM EvidenceTheorem == ZonesSpec => []EvidenceDecides
<1>1. ZonesInit => LongInv /\ PalletKept
  BY InitLong, InitPallet DEF ZonesInit
<1>2. LongInv /\ PalletKept /\ [ZonesNext]_zonesVars => LongInv' /\ PalletKept'
  <2> SUFFICES ASSUME [ZonesNext]_zonesVars
               PROVE  [Long!VoteNext]_longVars /\ [Pallet!PalletNext]_palletVars
    BY LongInvKept, PalletKeptStep
  <2> QED
    BY DEF ZonesNext, zonesVars
<1>3. LongInv /\ PalletKept => EvidenceDecides
  BY LongInvImplies, PalletKeptImplies DEF EvidenceDecides
<1> QED
  BY <1>1, <1>2, <1>3, PTL DEF ZonesSpec

\* Camera loss is not absence and a flicker is not presence: a class enters and exits
\* only on a full run of evidence or of absence.
THEOREM DebouncedTheorem == ZonesSpec => Pallet!DebouncedPresence
<1>1. ZonesInit => PalletKept
  BY InitPallet DEF ZonesInit
<1>2. PalletKept /\ [ZonesNext]_zonesVars => PalletKept' /\ [Debounced]_palletVars
  <2> SUFFICES ASSUME [ZonesNext]_zonesVars PROVE [Pallet!PalletNext]_palletVars
    BY PalletKeptStep
  <2> QED
    BY DEF ZonesNext, zonesVars
<1>3. [Debounced]_palletVars =>
        [\A z \in PalletZones :
           /\ \A c \in present'[z] \ present[z] : sightings'[z][c] >= EnterAfter
           /\ \A c \in present[z] \ present'[z] : absences'[z][c] >= PalletExit]_(Pallet!palletVars)
  <2>1. UNCHANGED palletVars => UNCHANGED Pallet!palletVars
    BY DEF palletVars, Pallet!palletVars, Pallet!voteVars, Pallet!historyVars, Pallet!presence,
           Pallet!palletHistory
  <2> QED
    BY <2>1 DEF Debounced
<1> QED
  BY <1>1, <1>2, <1>3, PTL DEF ZonesSpec, Pallet!DebouncedPresence
\* Neither verdicts that alternate nor cameras that drop out make a zone flap, and a bin
\* changes only as its votes or its age say: at the ratio of the code, 7/10, for windows
\* of up to 17 votes, with any cameras, loads and thresholds.
THEOREM NothingFlapsTheorem ==
  ASSUME FlipNum = 7, FlipDen = 10, LongWindow <= 17 PROVE ZonesSpec => NothingFlaps
<1>1. SlowFlips
  BY SlowAtSevenTenths
<1>2. ZonesSpec => Long!FlipsAreSlow
  BY <1>1, FlipsTheorem
<1> QED
  BY <1>2, DebouncedTheorem, CellsTheorem DEF NothingFlaps
=============================================================================
