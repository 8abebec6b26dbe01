--------------------------------- MODULE Gateway ---------------------------------
(***************************************************************************)
(* MqttSubscriber, the cache of the gateway, on the zone topics of the     *)
(* nodes: it subscribes with QoS 0 whenever it is connected, the broker    *)
(* sends what it retains and then what is published, in order, and a lost  *)
(* connection loses what was under way.  A message is a version of the     *)
(* state of a zone; 0 is no state, and on the wire the empty payload that  *)
(* clears a retained topic.                                                *)
(***************************************************************************)
EXTENDS Naturals, Sequences, SequencesExt, FiniteSetsExt

CONSTANTS
  Nodes,
  Zones,          \* of every node
  EvictAfter,     \* node_evict_after_s
  MaxVersion,     \* model bound on the states published of a zone
  MaxWay,         \* model bound on the messages under way when one is published
  MaxDrops        \* model bound on the connections lost

ASSUME GatewayAssumption ==
  /\ IsFiniteSet(Nodes) /\ IsFiniteSet(Zones)
  /\ EvictAfter \in Nat \ {0}
  /\ MaxVersion \in Nat /\ MaxWay \in Nat /\ MaxDrops \in Nat

Topics == Nodes \X Zones
NoState == 0

VARIABLES
  newest, retained,   \* [topic -> last version published, version the broker retains]
  link,               \* "down", "up" (connected) or "subscribed" at the broker
  asked,              \* a SUBSCRIBE is on its way
  way,                \* messages on their way to the gateway, oldest first
  known,              \* the nodes with a NodeState
  cache,              \* [topic -> zone_state_by_zone of its node, NoState if none]
  silent,             \* [node -> time since last_seen, at most EvictAfter + 1]
  evicted,            \* topics dropped with their node and not received since, history
  drops

brokerVars == <<newest, retained>>
linkVars == <<link, asked, drops>>
storeVars == <<known, cache, silent, evicted>>
gatewayVars == <<brokerVars, linkVars, way, storeVars>>

-----------------------------------------------------------------------------
Forwarded(m) == IF link = "subscribed" THEN Append(way, m) ELSE way

\* A node publishes the next state of a zone, or clears its topic.
NodePublishes(t, cleared) ==
  /\ Len(way) < MaxWay
  /\ IF cleared THEN retained[t] # NoState /\ UNCHANGED newest
                ELSE newest[t] < MaxVersion /\ newest' = [newest EXCEPT ![t] = @ + 1]
  /\ retained' = [retained EXCEPT ![t] = IF cleared THEN NoState ELSE newest'[t]]
  /\ way' = Forwarded([topic |-> t, version |-> retained'[t]])
  /\ UNCHANGED <<linkVars, storeVars>>

\* _on_connect: a SUBSCRIBE with every connection.
\* Mutant of Subscribes: with the first one only.
SubscribesOnce == drops = 0
Subscribes == TRUE
Connect ==
  /\ link = "down"
  /\ link' = "up" /\ asked' = Subscribes
  /\ UNCHANGED <<brokerVars, way, storeVars, drops>>

\* The broker has the SUBSCRIBE: it sends what it retains, in any order.
Subscribed ==
  /\ link = "up" /\ asked
  /\ link' = "subscribed" /\ asked' = FALSE
  /\ \E order \in SetToSeqs({t \in Topics : retained[t] # NoState}) :
       way' = [k \in DOMAIN order |-> [topic |-> order[k], version |-> retained[order[k]]]]
  /\ UNCHANGED <<brokerVars, storeVars, drops>>

Disconnect ==
  /\ link # "down" /\ drops < MaxDrops
  /\ link' = "down" /\ asked' = FALSE /\ way' = <<>>
  /\ drops' = drops + 1
  /\ UNCHANGED <<brokerVars, storeVars>>

\* Time passes without a message.
Quiet ==
  /\ silent' = [n \in Nodes |-> IF n \in known /\ silent[n] <= EvictAfter THEN silent[n] + 1 ELSE silent[n]]
  /\ UNCHANGED <<brokerVars, linkVars, way, known, cache, evicted>>

\* update_from_message: the sweep of the other nodes, and the state of the zone.
Swept(n) == {m \in known \ {n} : silent[m] > EvictAfter}
Fold(t, v) ==
  LET gone == Swept(t[1]) \X Zones
  IN  /\ known' = (known \ Swept(t[1])) \cup {t[1]}
      /\ silent' = [n \in Nodes |-> IF n = t[1] \/ n \in Swept(t[1]) THEN 0 ELSE silent[n]]
      /\ cache' = [u \in Topics |-> IF u \in gone THEN NoState ELSE IF u = t THEN v ELSE cache[u]]
      /\ evicted' = (evicted \cup {u \in gone : cache[u] # NoState}) \ {t}

\* Mutant of Malformed: an empty payload is folded like any other.
MalformedNever(m) == FALSE
\* The empty payload is not JSON: it is counted, and nothing else.
Malformed(m) == m.version = NoState
Receive ==
  /\ way # <<>>
  /\ way' = Tail(way)
  /\ LET m == Head(way)
     IN  IF Malformed(m)
         THEN UNCHANGED storeVars
         ELSE Fold(m.topic, m.version)
  /\ UNCHANGED <<brokerVars, linkVars>>

-----------------------------------------------------------------------------
GatewayInit ==
  /\ newest = [t \in Topics |-> 0] /\ retained = [t \in Topics |-> NoState]
  /\ link = "down" /\ asked = FALSE /\ drops = 0 /\ way = <<>>
  /\ known = {} /\ cache = [t \in Topics |-> NoState] /\ silent = [n \in Nodes |-> 0]
  /\ evicted = {}

GatewayNext ==
  \/ \E t \in Topics, cleared \in BOOLEAN : NodePublishes(t, cleared)
  \/ Connect \/ Subscribed \/ Disconnect \/ Quiet \/ Receive

GatewaySpec == GatewayInit /\ [][GatewayNext]_gatewayVars

-----------------------------------------------------------------------------
UnderWay(t) == \E k \in DOMAIN way : way[k].topic = t
Settled(t) == link # "down" /\ ~asked /\ ~UnderWay(t)

GatewayTypeOK ==
  /\ newest \in [Topics -> 0..MaxVersion] /\ retained \in [Topics -> 0..MaxVersion]
  /\ link \in {"down", "up", "subscribed"} /\ known \subseteq Nodes
  /\ cache \in [Topics -> 0..MaxVersion]
  /\ \A t \in Topics : cache[t] <= newest[t] /\ (cache[t] # NoState => t[1] \in known)

\* Connected and with nothing of a topic under way, the cache holds what the
\* broker retains, though connections were lost with messages on them: except
\* for what was evicted with its silent node, and what was cleared, of which
\* the last state is kept.
CacheIsRetained ==
  \A t \in Topics : Settled(t) =>
    \/ cache[t] = retained[t]
    \/ retained[t] = NoState
    \/ cache[t] = NoState /\ t \in evicted

\* What the cache shows was published by a node it knows, and is what the broker
\* retains once nothing is under way.
GatewayInv == GatewayTypeOK /\ CacheIsRetained

\* The cache never goes back to an older state of a zone, and an entry goes
\* only with its whole node, when another node is heard and it was silent too long.
CacheForward ==
  [][\A t \in Topics : cache'[t] # cache[t] =>
       \/ cache'[t] > cache[t]
       \/ cache'[t] = NoState /\ t[1] \notin known' /\ silent[t[1]] > EvictAfter]_gatewayVars

-----------------------------------------------------------------------------
(* Expectations the code does not meet.                                      *)

\* A zone deleted from the configuration goes from the gateway, its topic
\* being cleared: mqtt_sink clears it so that no ghost is left.
ClearedIsGone ==
  \A t \in Topics : Settled(t) /\ retained[t] = NoState => cache[t] = NoState

\* "nodes silent beyond this vanish from the store": nothing sweeps the last one.
SilentVanish == \A n \in known : silent[n] <= EvictAfter
=============================================================================
