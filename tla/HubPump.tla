------------------------------ MODULE HubPump ------------------------------
(***************************************************************************)
(* The pump of the dashboard's camera hub: it streams a camera from the    *)
(* frame bus while the producer's file is readable there, and otherwise    *)
(* opens a source of its own and looks at the bus now and then.  The files *)
(* and the producers are FrameBusFile.                                     *)
(***************************************************************************)
EXTENDS FrameBusFile

CONSTANT GiveUp   \* polls in _BUS_GIVE_UP_S

\* The file system never runs out of inodes: the path, the hub and the producer
\* hold three at most.
ASSUME HubAssumption == GiveUp \in Nat \ {0} /\ MaxInodes >= 3

VARIABLES
  hub,     \* "enter" (_pump's loop), "bus" (_stream_from_bus) or "own" source
  mapped,  \* inode FrameShmReader has mapped, 0 for none
  unseen,  \* inodes whose frame is newer than last_ts
  misses   \* polls since the bus was last readable

hubState == <<hub, mapped, unseen, misses>>
hubVars == <<busVars, hubState>>

\* Mutant of Mapping: the path is looked up only once.
MappingOnce == IF mapped # 0 THEN mapped ELSE path

\* _map(): an absent file drops the mapping, and a file of the same size is
\* taken to be the file that is mapped.
Mapping == IF path # 0 /\ mapped # 0 THEN mapped ELSE path

\* latest() finds a frame that is not too old.
Readable(i) == i \in written \cap fresh

\* Mutant of Live: the hub never looks back at the bus.
LiveNever(i) == FALSE

\* fresh(): what brings the hub back from its own source.
Live(i) == Readable(i)

\* Mutant of Missed: misses go on being counted after giving up.
MissedOn(n) == n + 1

\* One more poll without a frame; after GiveUp of them the bus is left.
Missed(n) == IF n = GiveUp THEN 0 ELSE n + 1

\* The frames written by this step are new to the hub.
Stored == {map[p] : p \in {q \in Producers : pump[q] = "copy" /\ pump'[q] = "idle"}} \ {0}
News == unseen' = (unseen \cap written') \cup Stored

-----------------------------------------------------------------------------
\* The first latest() of _stream_from_bus, which starts from last_ts = 0.
Look ==
  /\ hub = "enter"
  /\ mapped' = Mapping
  /\ hub' = IF Readable(Mapping) THEN "bus" ELSE "own"
  /\ unseen' = unseen \cup ({Mapping} \cap written)
  /\ misses' = 0
  /\ UNCHANGED busVars

\* One turn of the loop: a timestamp already seen is waited out, a readable
\* frame is published, and anything else is a miss.
Poll ==
  /\ hub = "bus"
  /\ mapped' = Mapping
  /\ \/ /\ Mapping \in written \ unseen
        /\ UNCHANGED <<hub, unseen, misses>>
     \/ /\ Mapping \in unseen /\ Readable(Mapping)
        /\ unseen' = unseen \ {Mapping} /\ misses' = 0
        /\ UNCHANGED hub
     \/ /\ Mapping \notin written \/ (Mapping \in unseen /\ ~Readable(Mapping))
        /\ misses' = Missed(misses)
        /\ hub' = IF misses = GiveUp THEN "enter" ELSE "bus"
        /\ UNCHANGED unseen
  /\ UNCHANGED busVars

\* On the hub's own source: every _BUS_RECHECK_S, is the bus live?
Recall ==
  /\ hub = "own"
  /\ mapped' = Mapping
  /\ hub' = IF Live(Mapping) THEN "enter" ELSE "own"
  /\ UNCHANGED <<busVars, unseen, misses>>

\* The own source fails or ends.
SourceLost ==
  /\ hub = "own" /\ hub' = "enter"
  /\ UNCHANGED <<busVars, mapped, unseen, misses>>

Hub == Look \/ Poll \/ Recall \/ SourceLost
Others == UNCHANGED <<hub, mapped, misses>> /\ News

\* A file is created seconds after one was unlinked, and the loop on the bus
\* turns every few milliseconds: it has noticed the gap.
Noticed == hub = "bus" => mapped \in {0, path}
Stream(p) == Pump(p, {mapped}) /\ (pump[p] = "create" /\ path = 0 => Noticed) /\ Others

HubInit == BusInit /\ hub = "enter" /\ mapped = 0 /\ unseen = {} /\ misses = 0
HubFair ==
  /\ WF_hubVars(Look) /\ WF_hubVars(Poll) /\ WF_hubVars(Recall)
  /\ \A p \in Producers : WF_hubVars(Stream(p))

\* Producers one at a time, stopped, killed or crashed; the dashboard's purge
\* and an operator's rm.
HubNext ==
  \/ Hub
  \/ Tidy /\ Others
  \/ \E p \in Producers :
       Stream(p) \/ ((LaunchAlone(p) \/ Shutdown(p) \/ Kill(p)) /\ Others)
HubSpec == HubInit /\ [][HubNext]_hubVars /\ HubFair

-----------------------------------------------------------------------------
\* While the hub counts misses it is on the bus, and it never streams from a
\* file it has not mapped.
HubTypeOK ==
  /\ BusTypeOK
  /\ hub \in {"enter", "bus", "own"} /\ mapped \in {0} \cup Inodes
  /\ unseen \subseteq Inodes /\ misses \in 0..GiveUp
  /\ misses > 0 => hub = "bus"

\* Once the bus file is gone for good the hub ends up on its own source.
AbsentFallsBack == <>[](path = 0) => []<>(hub = "own")

\* A dead writer: the bus is stale for good, and the hub falls through to its
\* own source.
StaleFallsBack ==
  <>[](fresh = {} /\ \A p \in Producers : ~Alive(p)) => []<>(hub = "own")

\* When a producer streams again the hub comes back to the bus it writes, and
\* drops the second session on the camera, unless it holds on to the mapping of
\* a file that was replaced while it did not look.
ComesBack ==
  \A p \in Producers :
    <>[](life[p] = "up" /\ map[p] = path /\ path \in written /\ mapped \in {0, path})
      => []<>(hub = "bus" /\ mapped = path)

\* The hub is never stuck on a bus that is gone, nor away from one that is live.
FollowsBus == AbsentFallsBack /\ ComesBack
=============================================================================
