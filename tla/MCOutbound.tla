------------------------------- MODULE MCOutbound -------------------------------
(***************************************************************************)
(* What leaves a node, of which a behaviour exercises one part: the broker *)
(* and the sink that keeps retained topics on it ("sink"), the gateway     *)
(* that mirrors them ("gateway"), or the threads that publish while the    *)
(* orchestrator shuts down ("shutdown").  The others stay where they       *)
(* start.                                                                  *)
(***************************************************************************)
EXTENDS Gateway, Shutdown

CONSTANTS SinkZones, NoMessage, MaxStates, MaxFaults

VARIABLES
  part,
  active, run, version, published, cached, pending, started, finished, starting, timers,
  topics, socket, greet, out, sent, configSent, asking, inbox, zoneStates, advert, faults

Sink == INSTANCE MqttSink WITH
  Zones <- SinkZones, Gone <- NoMessage, MaxVersion <- MaxStates,
  main <- run, link <- socket, retained <- zoneStates

ASSUME SinkConstants == Sink!SinkAssumption

sinkVars ==
  <<active, run, version, published, cached, pending, started, finished, starting, timers,
    topics, socket, greet, out, sent, configSent, asking, inbox, zoneStates, advert, faults>>

OutboundInit ==
  /\ part \in {"sink", "gateway", "shutdown"}
  /\ Sink!SinkInit /\ GatewayInit /\ ShutdownInit
  /\ part # "shutdown" => mode = "frames"

OutboundNext ==
  /\ UNCHANGED part
  /\ \/ part = "sink" /\ Sink!SinkNext /\ UNCHANGED <<gatewayVars, shutdownVars>>
     \/ part = "gateway" /\ GatewayNext /\ UNCHANGED <<sinkVars, shutdownVars>>
     \/ part = "shutdown" /\ ShutdownNext /\ UNCHANGED <<sinkVars, gatewayVars>>

OutboundSpec ==
  /\ OutboundInit /\ [][OutboundNext]_<<part, sinkVars, gatewayVars, shutdownVars>>
  /\ ShutdownFairness
  /\ WF_sinkVars(part = "sink" /\ Sink!Service)

-----------------------------------------------------------------------------
\* SinkInv of MqttSink: with everything acknowledged a zone topic holds the last
\* state published, whatever was dropped or sent twice.
SinkInv == Sink!SinkInv

\* The purge never takes the topic of a zone of the config in force, and the
\* cache of the gateway never goes back to an older state.
OutboundSteps == Sink!ActiveNeverCleared /\ CacheForward

\* ConfigArrives and NoGhosts of MqttSink: the advert is on the broker for
\* good, and the topics of deleted zones are cleared in the end.
Delivered == (part = "sink" => Sink!ConfigArrives) /\ Sink!NoGhosts
=============================================================================
