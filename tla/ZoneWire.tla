------------------------------- MODULE ZoneWire -------------------------------
(***************************************************************************)
(* ZoneStateTracker and the two threads of the orchestrator that publish   *)
(* retained zone states: run(), which seeds every zone with an empty state *)
(* after it started the pipeline thread, and step(), which publishes the   *)
(* zones that changed or are due for a refresh.  A published state reaches *)
(* the retained topic of its zone in the order of the publish calls.       *)
(***************************************************************************)
EXTENDS Naturals, FiniteSets

CONSTANTS
  Zones,      \* zone ids
  Tracks,     \* track ids
  Decisions,  \* verdicts of the PalletStateManager, as publish_signature()
  NoData,     \* its verdict before the first step
  Refresh,    \* refresh_interval_s
  Unset,      \* stands for the verdict where nothing was given out yet
  Empty,      \* stands for the verdict in the empty tuple of a seeded zone
  MaxTs       \* model bound on capture_ts

ASSUME WireAssumption ==
  /\ {NoData, Unset, Empty} \cap Decisions = {}
  /\ Refresh \in Nat \ {0} /\ MaxTs \in Nat

\* What the occupancy enrichment says of a track; "other" also stands for the
\* tracks that are no pallet.
Readings == {"full", "empty", "other"}

VARIABLES
  ts,        \* capture_ts of the last pair
  prevSig,   \* _prev_sig: [zone -> signature last given out]
  lastPub,   \* _last_pub_ts
  current,   \* [zone -> signature of the last step]
  starter,   \* where run() is: "seed", "publish" or "done"
  toSeed,    \* zones run() has yet to seed, then to publish
  pending,   \* zones step() has yet to publish
  retained,  \* [zone -> signature on the retained topic]
  quiet      \* history: no pair came before the zones were seeded

wireVars == <<ts, prevSig, lastPub, current, starter, toSeed, pending, retained, quiet>>

-----------------------------------------------------------------------------
\* A frame places each live track in zones with a reading; a track that
\* vanished is in no zone.
Frames == [Tracks -> [zones : SUBSET Zones, reading : Readings]]

\* _resolve_pallet_conflicts: with a loaded pallet in the zone, "empty" ones go.
Resolved(occ) ==
  IF \E o \in occ : o[2] = "full" THEN {o \in occ : o[2] # "empty"} ELSE occ

Occupants(frame, z) ==
  Resolved({<<t, frame[t].reading>> : t \in {u \in Tracks : z \in frame[u].zones}})

Signature(occ, dec) == [occ |-> occ, dec |-> dec]

\* Mutant of Changed: the decision is left out of the comparison.
ChangedOccupants(z, sig) ==
  prevSig[z].dec \in {Unset, Empty} \/ sig.occ # prevSig[z].occ

Changed(z, sig) == sig # prevSig[z]

\* Mutant of RefreshDue: states are published on change only.
NeverDue(z, sig, t) == FALSE

\* Occupied zones are published again after the refresh interval.
RefreshDue(z, sig, t) == sig.occ # {} /\ t - lastPub[z] >= Refresh

-----------------------------------------------------------------------------
\* run(): initial_states() seeds one zone; when all are, they get published.
\* The seed signature is the empty tuple, which no update produces.
Seed(z) ==
  /\ starter = "seed"
  /\ z \in toSeed
  /\ prevSig' = [prevSig EXCEPT ![z] = Signature({}, Empty)]
  /\ lastPub' = [lastPub EXCEPT ![z] = ts]
  /\ IF toSeed = {z} THEN starter' = "publish" /\ toSeed' = Zones
                     ELSE toSeed' = toSeed \ {z} /\ UNCHANGED starter
  /\ UNCHANGED <<ts, current, pending, retained, quiet>>

\* run(): the no_data state of one zone is published.
PublishSeed(z) ==
  /\ starter = "publish"
  /\ z \in toSeed
  /\ retained' = [retained EXCEPT ![z] = Signature({}, NoData)]
  /\ toSeed' = toSeed \ {z}
  /\ starter' = IF toSeed = {z} THEN "done" ELSE starter
  /\ UNCHANGED <<ts, prevSig, lastPub, current, pending, quiet>>

\* step(): update() with the tracks and the verdicts of a pair.
Update(frame, dec, t) ==
  /\ pending = {}
  /\ LET sig(z) == Signature(Occupants(frame, z), dec[z])
         out == {z \in Zones : Changed(z, sig(z)) \/ RefreshDue(z, sig(z), t)}
     IN  /\ pending' = out
         /\ prevSig' = [z \in Zones |-> IF z \in out THEN sig(z) ELSE prevSig[z]]
         /\ lastPub' = [z \in Zones |-> IF z \in out THEN t ELSE lastPub[z]]
         /\ current' = [z \in Zones |-> sig(z)]
  /\ ts' = t
  /\ quiet' = (quiet /\ starter = "done")
  /\ UNCHANGED <<starter, toSeed, retained>>

\* step(): one of the states update() returned is published.
PublishState(z) ==
  /\ z \in pending
  /\ retained' = [retained EXCEPT ![z] = current[z]]
  /\ pending' = pending \ {z}
  /\ UNCHANGED <<ts, prevSig, lastPub, current, starter, toSeed, quiet>>

WireInit ==
  /\ ts = 0
  /\ prevSig = [z \in Zones |-> Signature({}, Unset)]
  /\ lastPub = [z \in Zones |-> 0]
  /\ current = [z \in Zones |-> Signature({}, NoData)]
  /\ starter = "seed"
  /\ toSeed = Zones
  /\ pending = {}
  /\ retained = [z \in Zones |-> Signature({}, Unset)]
  /\ quiet = TRUE

Run == \E z \in Zones : Seed(z) \/ PublishSeed(z)

Pipeline ==
  \/ \E frame \in Frames, dec \in [Zones -> Decisions], t \in (ts + 1)..MaxTs :
       Update(frame, dec, t)
  \/ \E z \in Zones : PublishState(z)

WireNext == Run \/ Pipeline
WireSpec == WireInit /\ [][WireNext]_wireVars

-----------------------------------------------------------------------------
Occupancies == {Resolved(occ) : occ \in SUBSET (Tracks \X Readings)}
Signatures == [occ : Occupancies, dec : Decisions \cup {NoData, Unset, Empty}]

\* Consumers never see a loaded and an empty pallet in one zone.
WireTypeOK ==
  /\ ts \in 0..MaxTs
  /\ prevSig \in [Zones -> Signatures]
  /\ \A z \in Zones : lastPub[z] <= ts
  /\ starter \in {"seed", "publish", "done"}
  /\ toSeed \in SUBSET Zones /\ pending \in SUBSET Zones
  /\ retained \in [Zones -> Signatures]
  /\ \A z \in Zones :
       ~({"full", "empty"} \subseteq {o[2] : o \in retained[z].occ})

\* Both threads are between two rounds of publishing.
Idle == starter = "done" /\ pending = {}

\* A retained topic is the truth: between steps it holds the occupants and the
\* verdict of the last step, though most steps publish nothing.  The start must
\* be quiet: run() seeds the zones while the pipeline may already publish them.
RetainedIsTruth ==
  quiet /\ Idle /\ ts > 0 => \A z \in Zones : retained[z] = current[z]

\* "Empty zones don't refresh; their retained message is already the truth."
EmptyIsTruth ==
  Idle => \A z \in Zones :
    ts > 0 /\ current[z].occ = {} => retained[z] = current[z]

\* Whatever the start did, an occupied zone is right within a refresh interval.
OccupiedHeals ==
  Idle => \A z \in Zones :
    ts > 0 /\ current[z].occ # {} /\ retained[z] # current[z]
      => ts - lastPub[z] < Refresh

\* Consumers read one consistent state per zone, and of an occupied zone one
\* that is not wrong for long.
WireInv == WireTypeOK /\ OccupiedHeals
=============================================================================
