------------------------------- MODULE MqttSink -------------------------------
(***************************************************************************)
(* MqttSink and the broker it keeps retained topics on: the config advert  *)
(* (QoS 0, published again on every connect), the zone states (QoS 1, kept *)
(* by the client until acknowledged) and the one-shot reconcile that purges *)
(* the topics of zones deleted from the config, started by advertise_zones *)
(* or by _on_connect, whichever finds a connection.  The process may be    *)
(* restarted with another zone set, the connection may drop and the broker *)
(* may restart without its retained messages.                              *)
(***************************************************************************)
EXTENDS Naturals, Sequences, FiniteSets, SequencesExt

CONSTANTS
  Zones,            \* every zone segment the prefix ever had
  Gone,             \* no retained message on a topic
  MaxVersion,       \* model bound on the zone states published
  MaxFaults         \* model bound on lost connections, restarts of the process and
                    \* of the broker, and purges before the subscription's answer

\* Zone segments are configured, so there are finitely many; the bounds are any.
SinkAssumption ==
  /\ IsFiniteSet(Zones) /\ Gone \notin Nat
  /\ MaxVersion \in Nat /\ MaxFaults \in Nat

\* The threads that start the reconcile: advertise_zones and _on_connect.
Starters == {"main", "net"}

VARIABLES
  active,     \* _active_zone_segments, the zones of the config in force
  main,       \* where run() is: "config", "advertise", ..., "done"
  version,    \* number of zone states published so far
  published,  \* [zone -> last state handed to publish_zone_state, or 0]
  cached,     \* _retained_config is set
  pending, started, finished,  \* _reconcile_pending, _started, _finished
  starting,   \* threads of _start_zone_reconcile that are past its check
  timers,     \* purge timers armed and not yet fired
  topics,     \* _reconcile_topics
  link,       \* the client has a socket
  greet,      \* _on_connect is due
  out, sent,  \* QoS 1 messages not acknowledged; how many the broker has
  configSent, \* a QoS 0 config message is on its way
  asking,     \* a SUBSCRIBE is on its way
  inbox,      \* retained zone messages on their way to the sink
  retained,   \* broker: [zone -> version, or Gone]
  advert,     \* broker: the config advert is retained
  faults      \* [fault -> how often it happened]

mainVars == <<active, main, version, published>>
reconcileVars == <<pending, started, finished, starting, timers, topics>>
wireVars == <<out, sent, configSent, asking, inbox>>
brokerVars == <<retained, advert>>
sinkVars == <<mainVars, cached, reconcileVars, link, greet, wireVars, brokerVars, faults>>

-----------------------------------------------------------------------------
\* Mutant of Enqueue: zone states go at QoS 0, dropped without a socket.
EnqueueQos0(q, messages) == IF link THEN q \o messages ELSE q

\* publish at QoS 1: the client keeps the message, connected or not.
Enqueue(q, messages) == q \o messages

\* Mutant of Republish: _on_connect leaves the config alone.
RepublishNever == configSent

\* _on_connect publishes the cached config again.
Republish == configSent \/ cached

\* Mutant of Stale: every collected topic is purged.
StaleAll == topics

\* The collected topics whose zone segment is not in the active set.
Stale == topics \ active

\* Mutant of MayStart: a first attempt without a socket is not tried again.
MayStartOnce == pending /\ ~started /\ main = "check"

\* The check of _start_zone_reconcile.
MayStart == pending /\ ~started

-----------------------------------------------------------------------------
\* run(): publish_config caches the message; without a socket it is dropped.
PublishConfig ==
  /\ main = "config"
  /\ main' = "advertise"
  /\ cached' = TRUE
  /\ configSent' = (configSent \/ link)
  /\ UNCHANGED <<active, version, published, reconcileVars, link, greet, out, sent,
                 asking, inbox, brokerVars, faults>>

\* run(): advertise_zones requests the reconcile ...
AdvertiseZones ==
  /\ main = "advertise"
  /\ main' = "check" /\ pending' = TRUE
  /\ UNCHANGED <<active, version, published, cached, started, finished, starting, timers,
                 topics, link, greet, wireVars, brokerVars, faults>>

\* ... and enters _start_zone_reconcile unless _on_connect was faster.
CheckStarted ==
  /\ main = "check"
  /\ IF MayStart THEN main' = "subscribe" /\ starting' = starting \cup {"main"}
                 ELSE main' = "seed" /\ UNCHANGED starting
  /\ UNCHANGED <<active, version, published, cached, pending, started, finished, timers,
                 topics, link, greet, wireVars, brokerVars, faults>>

\* _start_zone_reconcile past its check: without a socket the reconcile stays
\* pending; with one it is started and the purge timer armed.
Subscribe(thread) ==
  /\ thread \in starting
  /\ starting' = starting \ {thread}
  /\ IF link THEN started' = TRUE /\ asking' = TRUE /\ timers' = timers + 1
             ELSE UNCHANGED <<started, asking, timers>>
  /\ main' = IF thread = "main" THEN "seed" ELSE main
  /\ UNCHANGED <<active, version, published, cached, pending, finished, topics, link,
                 greet, out, sent, configSent, inbox, brokerVars, faults>>

\* publish_zone_state, by run() for every zone of the config at the start ...
SeedZones ==
  /\ main = "seed"
  /\ main' = "done"
  /\ version' = version + 1
  /\ published' = [z \in Zones |-> IF z \in active THEN version' ELSE 0]
  /\ out' = Enqueue(out, [i \in 1..Cardinality(active) |->
                            [zone |-> SetToSeq(active)[i], payload |-> version']])
  /\ UNCHANGED <<active, cached, reconcileVars, link, greet, sent, configSent,
                 asking, inbox, brokerVars, faults>>

\* ... and by the pipeline thread for the zones that changed.
PublishZoneState(z) ==
  /\ main = "done" /\ z \in active /\ version < MaxVersion
  /\ version' = version + 1
  /\ published' = [published EXCEPT ![z] = version']
  /\ out' = Enqueue(out, <<[zone |-> z, payload |-> version']>>)
  /\ UNCHANGED <<active, main, cached, reconcileVars, link, greet, sent, configSent,
                 asking, inbox, brokerVars, faults>>

-----------------------------------------------------------------------------
\* The network thread gets a socket, and the client starts over with what the
\* broker never acknowledged.
Connect ==
  /\ ~link
  /\ link' = TRUE /\ greet' = TRUE /\ sent' = 0
  /\ UNCHANGED <<mainVars, cached, reconcileVars, out, configSent, asking, inbox,
                 brokerVars, faults>>

\* _on_connect: the config once more, and the reconcile that is still pending.
OnConnect ==
  /\ link /\ greet
  /\ greet' = FALSE
  /\ configSent' = Republish
  /\ starting' = IF MayStart THEN starting \cup {"net"} ELSE starting
  /\ UNCHANGED <<mainVars, cached, pending, started, finished, timers, topics, link,
                 out, sent, asking, inbox, brokerVars, faults>>

\* _on_reconcile_message: one retained topic under the zone root.
Collect(z) ==
  /\ z \in inbox
  /\ inbox' = inbox \ {z}
  /\ topics' = IF finished THEN topics ELSE topics \cup {z}
  /\ UNCHANGED <<mainVars, cached, pending, started, finished, starting, timers, link,
                 greet, out, sent, configSent, asking, brokerVars, faults>>

Fault(f) ==
  /\ faults["drop"] + faults["broker"] + faults["restart"] + faults["late"] < MaxFaults
  /\ faults' = [faults EXCEPT ![f] = @ + 1]

\* _finish_zone_reconcile when a timer fires; the second one finds it finished.
\* It is late when the answer to the subscription outlasts the window.
Finish ==
  /\ timers > 0
  /\ timers' = timers - 1
  /\ finished' = TRUE
  /\ IF asking \/ inbox # {} THEN Fault("late") ELSE UNCHANGED faults
  /\ IF finished THEN UNCHANGED <<pending, out>>
     ELSE /\ pending' = FALSE
          /\ out' = Enqueue(out, [i \in 1..Cardinality(Stale) |->
                                    [zone |-> SetToSeq(Stale)[i], payload |-> Gone]])
  /\ UNCHANGED <<mainVars, cached, started, starting, topics, link, greet, sent,
                 configSent, asking, inbox, brokerVars>>

-----------------------------------------------------------------------------
\* The broker stores the next QoS 1 message ...
Store ==
  /\ link /\ sent < Len(out)
  /\ sent' = sent + 1
  /\ retained' = [retained EXCEPT ![out[sent'].zone] = out[sent'].payload]
  /\ UNCHANGED <<mainVars, cached, reconcileVars, link, greet, out, configSent, asking,
                 inbox, advert, faults>>

\* ... and acknowledges it.
Acknowledge ==
  /\ link /\ sent > 0
  /\ sent' = sent - 1 /\ out' = Tail(out)
  /\ UNCHANGED <<mainVars, cached, reconcileVars, link, greet, configSent, asking,
                 inbox, brokerVars, faults>>

StoreConfig ==
  /\ link /\ configSent
  /\ configSent' = FALSE /\ advert' = TRUE
  /\ UNCHANGED <<mainVars, cached, reconcileVars, link, greet, out, sent, asking,
                 inbox, retained, faults>>

\* A subscription is answered with everything retained under the zone root.
AnswerSubscribe ==
  /\ link /\ asking
  /\ asking' = FALSE
  /\ inbox' = inbox \cup {z \in Zones : retained[z] # Gone}
  /\ UNCHANGED <<mainVars, cached, reconcileVars, link, greet, out, sent, configSent,
                 brokerVars, faults>>

-----------------------------------------------------------------------------
\* Without a socket nothing of the session is left but the QoS 1 messages.
LinkLost ==
  /\ link' = FALSE /\ greet' = FALSE
  /\ sent' = 0 /\ configSent' = FALSE /\ asking' = FALSE /\ inbox' = {}

Drop ==
  /\ Fault("drop")
  /\ link /\ LinkLost
  /\ UNCHANGED <<mainVars, cached, reconcileVars, out, brokerVars>>

BrokerRestart ==
  /\ Fault("broker")
  /\ LinkLost
  /\ retained' = [z \in Zones |-> Gone] /\ advert' = FALSE
  /\ UNCHANGED <<mainVars, cached, reconcileVars, out>>

\* A new process: __init__ with the zones of the new config.
Fresh ==
  /\ main' = "config"
  /\ published' = [z \in Zones |-> 0]
  /\ cached' = FALSE /\ pending' = FALSE /\ started' = FALSE /\ finished' = FALSE
  /\ starting' = {} /\ timers' = 0 /\ topics' = {} /\ out' = <<>>

\* close() and a start with another config: what the broker has not got yet
\* goes with the process.
Restart ==
  /\ Fault("restart")
  /\ active' \in SUBSET Zones
  /\ Fresh /\ LinkLost
  /\ UNCHANGED <<version, brokerVars>>

SinkInit ==
  /\ active = Zones /\ main = "config" /\ version = 0
  /\ published = [z \in Zones |-> 0]
  /\ cached = FALSE /\ pending = FALSE /\ started = FALSE /\ finished = FALSE
  /\ starting = {} /\ timers = 0 /\ topics = {}
  /\ link = FALSE /\ greet = FALSE /\ out = <<>> /\ sent = 0
  /\ configSent = FALSE /\ asking = FALSE /\ inbox = {}
  /\ retained = [z \in Zones |-> Gone] /\ advert = FALSE
  /\ faults = [f \in {"drop", "broker", "restart", "late"} |-> 0]

Main ==
  PublishConfig \/ AdvertiseZones \/ CheckStarted \/ Subscribe("main") \/ SeedZones
Network == Connect \/ OnConnect \/ Subscribe("net") \/ \E z \in Zones : Collect(z)
Broker == Store \/ Acknowledge \/ StoreConfig \/ AnswerSubscribe
Faults == Drop \/ BrokerRestart \/ Restart

SinkNext ==
  Main \/ Network \/ Finish \/ Broker \/ Faults \/ \E z \in Zones : PublishZoneState(z)

\* The threads run, the client reconnects, the broker answers and the purge
\* timer fires: as none of them can go on for ever, it is enough that some step
\* is taken while there is one.
Service == Main \/ Network \/ Broker \/ Finish
SinkFairness == WF_sinkVars(Service)
SinkSpec == SinkInit /\ [][SinkNext]_sinkVars /\ SinkFairness
-----------------------------------------------------------------------------
\* The broker is at most the whole queue ahead of its acknowledgements.
SinkTypeOK ==
  /\ active \in SUBSET Zones /\ topics \in SUBSET Zones /\ inbox \in SUBSET Zones
  /\ version \in 0..MaxVersion + MaxFaults + 1 /\ published \in [Zones -> 0..version]
  /\ starting \in SUBSET Starters /\ timers \in 0..2
  /\ \A i \in DOMAIN out :
       out[i].zone \in Zones /\ out[i].payload \in (1..version) \cup {Gone}
  /\ sent \in 0..Len(out)
  /\ retained \in [Zones -> (1..version) \cup {Gone}]

\* Whatever was dropped, doubled or sent before there was a connection: when
\* everything is acknowledged, a zone topic holds the last state published.
LatestRetained ==
  faults["broker"] = 0 /\ out = <<>>
    => \A z \in active : published[z] > 0 => retained[z] = published[z]

\* One purge per process, and nothing published is lost or overtaken.
SinkInv == SinkTypeOK /\ LatestRetained

\* The purge never takes the topic of a zone of the config in force, not even
\* one the previous process left there.
ActiveNeverCleared ==
  [][\A z \in active : retained[z] # Gone /\ faults'["broker"] = faults["broker"]
       => retained'[z] # Gone]_sinkVars

\* "this guarantees a late-joining gateway sees it": the config advert is on
\* the broker for good, though it raced the CONNACK.
ConfigArrives == <>[]advert

\* "a zoneless config must leave no ghost zone state behind": the topics of
\* deleted zones are cleared in the end, given a connection that holds and an
\* answer within the window.
NoGhosts ==
  <>[](faults["drop"] = 0 /\ faults["late"] = 0
         => \A z \in Zones \ active : retained[z] = Gone)

\* "the topic always holds the zone's current contents": also again after the
\* broker lost what it retained.
ContentsReturn ==
  \A z \in Zones : [](z \in active /\ published[z] > 0 =>
                        <>(z \notin active \/ published[z] = 0 \/ retained[z] = published[z]))
=============================================================================
