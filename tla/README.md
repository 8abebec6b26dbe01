# TLA+ models of isi_monitor3d

Specifications, model-checking configurations and machine-checked proofs for the
live part of isi_monitor3d: the path from camera frames to the retained zone
states an AGV fleet reads, and the dashboard that starts, stops and watches the
processes on that path.

    tlc -config sync_rigs.cfg MCFrameSync      model-check one run
    tlapm PointsModeProofs.tla                 check the proofs of one module

`PROJECT.json` lists the components, the runs with their properties, for each
property a mutation of the code it detects, the source lines of every
definition, the hazards and the theorems.

## 1. The system

Two or more cameras look at the same floor. A *producer* (isistream) or the
*backbone* itself captures frames; frames of different cameras are paired by
capture time; detections are projected to the floor, fused, tracked and turned
into zone states; those are published on retained MQTT topics and UDP. A
*gateway* (isicomms) caches the topics for HTTP clients, and a *dashboard*
(monitor_web) supervises the processes and shows the video.

    source threads --> FrameSynchronizer.submit --> FrameBus --> pipeline thread
    (or UDP points)                                              Orchestrator.step
                                                                  |  detect, project, fuse, track
                                                                  |  PalletOccupancy, PalletStateManager
                                                                  |  ZoneStateTracker / EtagereStateTracker
                                                                  v
                          gateway <-- broker (retained) <-- MqttSink   UdpSink
    dashboard: IsistreamHost, BackboneSupervisor, SystemCycler, CameraHub
    producer --> /dev/shm/<bus>  (seqlock) --> CameraHub pump --> viewers

### Inventory

| Component (source) | State it keeps | Operations | Talks to | What is hard | Correct when |
|---|---|---|---|---|---|
| Frame synchronizer (`backbone/ingestion/frame_sync.py`) | a deque per camera, degraded flags, latest capture, last probe, pair index | `submit` (evict, align, probe, solo) | called by every ingestion thread, returns a pair | cameras stall, drift and come back; frames overtake each other | no frame is emitted twice, late or stale; live cameras are paired; pairing comes back |
| Frame bus and ingestion threads (`backbone/ingestion/frame_bus.py`, `backbone/runtime/orchestrator.py`) | queue of two, counter of drops | `publish`, `get_latest`, loops | synchronizer, pipeline | lock taken only once the queue is full | the newest pair is processed, in order, nothing vanishes uncounted |
| Points wire (`isistream/core.py`, `backbone/comms/udp_sink.py`, `backbone/comms/schemas.py`, `backbone/ingestion/points_in.py`) | sequence numbers, fragment groups, last number and gap counter per camera | send, receive, reassemble, hand over | UDP, synchronizer | loss, a full table, a producer that restarts | a set is complete or absent, and what is absent is counted |
| Perception loop (`isistream/core.py`, `isistream/motion_gate.py`) | gate and cached results per camera, tick counter | `tick` | frame provider, models, points wire | results reused over ticks, a model that raises | what is sent is no older than the refresh, and fades after a failure |
| Pallet occupancy vote (`backbone/homography/pallet_occupancy.py`) | vote window and held state per key | `vote`, `last`, `forget` | pallet state manager | window that ramps up | no flapping, changes show |
| Pallet state manager (`backbone/homography/pallet_state_manager.py`, hysteresis of `backbone/shared/zones.py`) | streaks and membership per zone and class, votes, decision | `step` | orchestrator | cameras that drop out of a pair | no phantom pallet, no missed one, the load read is the load there |
| Zone state wire (`backbone/shared/zone_state.py`) | change signature and last publish time per zone | `initial_states`, `update` | run() thread, pipeline thread, MqttSink | two threads publish one topic | the retained topic is the last verdict |
| Étagère cells (`backbone/shared/etagere_state.py`) | votes, held state, last vote per bin, last grid | `update` | orchestrator, MqttSink | silence, ramp up, heartbeat against change | no flip without evidence, retained grid is current |
| MQTT sink (`backbone/comms/mqtt_sink.py`) | active zones, reconcile flags, cached advert, client queue | advertise, publish, `_on_connect`, reconcile | broker | lost connections, restarts, one-shot purge | latest state stored, live zones never purged |
| Publisher, shutdown (`backbone/comms/publisher.py`, orchestrator) | sinks, stop flag | fan-out, joins, close | all | joins that time out | no publish on a closed sink |
| Shared-memory bus (`backbone/shared/frame_shm.py`) | two slots with sequence numbers, inode, re-check counter | `write`, `latest`, `close`, `unlink` | producer, hub | lock-free reader; the file is removed or created again | no torn frame, no stale frame, writer heals |
| Producer pump and shutdown (`isistream/__main__.py`) | running flag, pump thread per camera | run, stop, cleanup | bus files | shutdown races the pump | the bus goes when the producer goes |
| Camera hub pump and registry (`monitor_web/monitor_web/camera_hub.py`) | viewers, source, timers | acquire, release, pump | bus, own sources | absent, stale and new bus; idle timers | falls back and comes back |
| Producer supervision (`monitor_web/monitor_web/isistream_host.py`, `proc_reaper.py`) | tracked child, deliberate flag, list of respawns | start, stop, restart, log pump, timer | threads of HTTP requests, the configuration | all overlap; the list of respawns is shared without a lock | one producer at most, none lost, crashes healed, crash loops ended |
| System control (`monitor_web/monitor_web/system_control.py`, `system_cycler.py`, `backbone_supervisor.py`, `api/routes_control.py`) | stopping flag, tracked engine, run state | START, STOP, scheduled restart, save, state getter | everything above | no lock over check, reap and spawn; a getter that writes, called from every thread | one engine, known to the supervisor; STOP leaves nothing, and nothing undoes it |
| Tracking (`backbone/homography/bytetrack.py` and its neighbours) | tracks and their life cycle | step | orchestrator | numerics; ids across losses | ids never reused |
| Zone membership, passings (`backbone/shared/zones.py`, `zone_transitions.py`) | membership per track | update, forget | orchestrator, publisher | tracks that vanish inside | enters and leaves match |
| Gateway (`isicomms/isicomms/`) | cache of retained topics, counters | on_message, reads | broker | cleared topics | cache equals the broker |
| Bitstream relay (`isistream/nal_relay.py`) | clients with bounded backlog | push, send, close | TCP clients | slow clients | a slow client never stops the others |
| Detection, inference, triangulation, producer filters | per-call | – | – | numerics | – |
| Frame sources (`backbone/ingestion/_gst_source.py`) | pipeline, main loop, queue of one, deadline of the rate cap | start, stop, frames, sample callback | GStreamer, its owner | three threads; a stop at any point; samples in bunches | the newest sample is there, the cap bounds without starving, stop lets the camera go |
| Calibration capture (`isical/capture/`) | sessions, workers, staged shots, files on disk | start, stop, restart, snap, commit | cameras, the solver reads the files | workers nobody joins, a commit that is not atomic | files of one index are one moment |
| Studio jobs (`isical/jobs.py`, its twin in `trainer/isiGen`) | job table, queue, worker | submit, run, stop | HTTP requests, the programs it runs | submit against the worker and the stop | one at a time, none twice, none lost |
| The programs of the studios, trainer, scripts, docker, config, models | files | run by hand | – | – | – |

## 2. Modules

One module per component; a module that composes others is marked with what it
extends or instantiates.

| Module | Models | State and actions against the code |
|---|---|---|
| `FrameSync` | `FrameSynchronizer` | A frame is its capture time in units; `buffers`, `degraded`, `latest`, `lastProbe` are the fields of the class, `pair` what `submit` returned last. `Submit(c, ts)` is the whole of `submit`: push, evict, then exactly one of `EmitAligned`, `EmitSolo`, `Hold`. `lastIn`, `lastOut` are history variables. |
| `LivePair` (EXTENDS FrameSync) | cameras that are alive | frames between `MinPeriod` and `MaxPeriod` apart, submitted when captured |
| `Recovery` (EXTENDS FrameSync) | two degraded cameras back at one rate | starts in the state the test `test_both_cameras_degraded_recover_to_aligned_pairing` reaches |
| `Ingestion` (EXTENDS FrameSync) | ingestion threads, `FrameBus`, pipeline thread | `publish` is `Put` (put_nowait), `Evict` (under the lock), `Retry`; `get_latest` is `Get` and `Drain`; `Step` is the orchestrator's step |
| `LatestWins` | what that path promises: skip, never repeat, never go back | abstract specification, implemented by `Ingestion` |
| `PointsWire` | the UDP wire of points mode | `Send` numbers a set and sends it whole or in fragments, of which some are lost; `RestartProducer` starts the numbers over; `Receive` is one datagram through `FragmentBuffer.add` (`Prune`, `With`, `Complete`) and `_handle_payload` (`Counted`, `HandOver`) |
| `SetStream` | what the synchronizer may expect of its input | abstract specification, implemented by `PointsWire` |
| `PerceptionLoop` | `IsistreamCore.tick` with the `MotionGate` | one tick is one action, `Emit` or `FailDetect`. A frame is the appearance of the scene, detections stand for the appearance they were inferred on, the gate's references and ages are its fields |
| `VoteRule` | the voting arithmetic of pallets and bins | `Need` is the rounded-up quorum, `Record` the bounded window |
| `OccupancyVote` (VoteRule) | `OccupancyStabilizer` | `Vote`, `Forget`, and the read `Last` |
| `PalletState` (OccupancyVote) | `PalletStateManager.step` with its `ZoneMembershipHysteresis` per class | `Step(frame)` is one frame pair: evidence, streaks, exits with their `forget`, votes, decision. A frame names the cameras that reported and what each sees of a zone |
| `Tracks` | `ByteTrackMeters`, `InternalTrack`, the membership hysteresis and `ZoneTransitionDetector` | `Step(seen, spawned)` is one step of the pipeline: `Follow`, `Debounce`, `Transitions`, with `forget` of both for the tracks that are not published. The assignment of observations to tracks is any assignment; a place is inside, near or outside |
| `AmortisedPose` (EXTENDS Tracks) | a pose model that runs in every n-th frame only | one person who stands in view |
| `ZoneWire` | `ZoneStateTracker` and the two publishing threads | `Seed`/`PublishSeed` is the seeding in `run()`, `Update`/`PublishState` a pipeline step and its publishing loop |
| `EtagereState` (VoteRule) | `EtagereStateTracker` for one zone | `Update(seen, t)` is `update()`, `Silence` a pause between messages |
| `MqttSink` | `MqttSink`, its paho client, the broker | main thread (`PublishConfig` ... `SeedZones`), network thread (`OnConnect`, `Collect`), the purge timer (`Finish`), broker (`Store`, `Acknowledge`, ...), faults |
| `Gateway` | `MqttSubscriber` and its store | `Receive` is `_on_message` with `update_from_message` (`Swept` is the eviction of silent nodes); `Connect`, `Subscribed`, `Disconnect` the connection, `NodePublishes` the nodes behind the broker, a cleared topic included |
| `Shutdown` | the end of `Orchestrator.run`, `_shutdown`, `Publisher` | main thread `StopSources`, `Tell`, `Join` or `GiveUp`, `ClosePublisher`, `CloseSink`; the publishing threads `Work`, `Publish`, `CallSink`. Time is half seconds spent in joins |
| `FrameShm` | the seqlock | one action per access to the shared memory, on both sides; a frame is copied in two halves |
| `FrameBusFile` | the life of a bus file | a file is its inode. Pump thread (`Arrive`, `Enter`, `Create`, `Copy`) against main thread (`CloseBus`, `UnlinkBus`, `PumpUnlink`, `Exit`), crash, purge, rm |
| `HubPump` (EXTENDS FrameBusFile) | `CameraHub`'s pump on a live camera | `Look` (enter the loop), `Poll` (on the bus), `Recall` (re-check from the own source), `SourceLost` |
| `HubRegistry` | `CameraHub` and its `CameraStream`s | `Acquire`, `Release`, the idle timer (`Expire` is the point from which `cancel()` comes too late, `Retire` is `_retire`), `Stop` after the lock is released, and the pump thread (`Open`, `BuildFails`, `SourceEnds`, `FrameComes`) |
| `NalRelay` | the bitstream relay of one camera | tap thread (`Push`, `PushTo` per client), accept thread, a sender per client (`SendHeader`, `Take`, `Sent`, `SendFails`, `Leave`), `close()` in its four steps; a step is what happens between two acquisitions of a lock |
| `ProducerHost` | `IsistreamHost` | client threads (start, stop, restart), log pumps (`ReadEnd`, and one action per access to the unlocked list of respawns: `Prune` reads it, `Rebind` assigns the pruned one, `Check` measures, `Enlist` appends), respawn timers (`Respawn`, `Recheck`); the class's lock is `lock`. `Start` reads the configuration anew, as `points_mode()` does, and `SaveMode` changes it |
| `CameraSource` | `GstAppsinkFrameSource` | the owner (`Start`, `Started`, `SetStop`, `Quit`, `Join`), the thread of `_run` (`Build`, `MakeLoop`, `RunLoop`, `Null`), the bus messages, the streaming thread (`Sample` with the rate cap, `Put` in its three tries) and the consumer of `frames()` |
| `Capture` | `CaptureManager`, `CaptureSession`, `_CamWorker`, `SnapGate` | routes (`Request`, `Wipe` and `CountFiles` per camera, `Run`), workers (`Look`, `Snap`, `Stage`, `Try`, `Commit` per camera), `Kill`. A shot is when it was staged and the placement of the board it shows; a file is its camera and index |
| `JobRunner` | `JobRunner` of isical | `Insert` (under the lock) and `PutJob`, the worker (`Wait`, `Get`, `Prelude`, `Body`, `Cleanup`), `Stop` |
| `SystemControl` | control routes, `start_system`/`stop_system`, cycler, `BackboneSupervisor` | one action per access of a thread to what threads share, and no lock, because the code takes none. The state getter is two: `Poll` (the poll of the tracked child, part of whatever step asks for the state) and `Note`, which forgets what is tracked by then. `StopEngine`, `Mark` and `Take` are the three looks of `stop()` at `_proc`; `Popen` and `Adopt` the child before and after it is tracked; `Due` and `Cycle` the cycler's look at the flag and at the state. The read of `_proc` and the poll of what it gave are one step: in between, another thread can only replace or end that child, which is what the steps before and after cover |

Modules that only serve the checks:

| Module | Puts together |
|---|---|
| `MCFrameSync`, `MCLivePair` | the synchronizer under four kinds of traffic and `Capture`; the synchronizer at the configured rates |
| `MCPointsMode` | `PerceptionLoop`, `PointsWire`, `Ingestion` |
| `MCZones` | `PalletState`, `OccupancyVote` over its real window, `ZoneWire`, `Tracks`, `EtagereState` |
| `MCOutbound` | `MqttSink`, `Gateway`, `Shutdown` |
| `MCFrameBus` | `CameraSource`, `FrameShm`, `HubPump` |
| `MCOperator` | `SystemControl`, `JobRunner` |
| `MCVideo` | `HubRegistry`, `NalRelay` |
| `FrameSyncProofs`, `PointsModeProofs`, `FrameBusProofs`, `ZonesProofs`, `OutboundProofs`, `ProducerHostProofs`, `OperatorProofs`, `VideoProofs` | theorems, section 6 |

Components that are checked together but share no state are *parts* of one run:
a variable `part` is chosen in the initial state, the chosen component moves and
the others stay where they start. The reachable states are the sum of the parts,
not their product, and no step of one part can hide a step of another. The
components that do interact are composed properly: the bus with the synchronizer
(`Ingestion`), the vote with the pallets, the hub with the files it reads and the
producers that write them (`HubPump`), the engine with the cycler and the producer
(`SystemControl`). The wire and the synchronizer meet in `SetStream`: `PointsWire`
implements it, and it is what `FrameSync` is given.

Modules name alternatives to some definitions (`NeverProbe`, `DrainUncounted`,
`SilencedNot`, ...). No action uses them. Each is the definition next to it with
a plausible bug, and `PROJECT.json` says which property TLC finds violated when
it takes the place of the definition.

## 3. Runs

Eight runs pass and four are refuted by TLC (the last bullet, and section 7). The names
in brackets are conjuncts of the property before them; most runs also check the
type invariants of their modules that way.

- **sync_rigs** — what makes frames of several cameras a pair. `CaptureInv`
  [`PairsLineUp`, `PairsCounted`, `NoOvershoot`, `LastPair`, and `PlacementsDistinct`
  for intrinsic shots] is about calibration shots: through two sessions started,
  stopped and restarted at any point the files of equal index show one moment, until
  the first of four mishaps (a file that is not written, a kill inside a commit, a
  session begun while a worker of the last one is busy, a shot staged anew while it
  is committed) from which on nothing is promised; a stopped session commits one
  more pair at most. The rest is the synchronizer under four kinds of traffic. `SyncInv`
  [`BuffersNew`, `BacklogBounded`] and `CaptureMonotone`: whichever path emits next, no
  frame of a camera is returned twice or after a newer one, though frames arrive in any
  order and the solo path throws backlog away; and a degraded camera is held back only by
  cameras earlier in the configuration, by one frame each. `LiveNeverSolo`: cameras that
  deliver within twice the tolerance are never served solo. `AllAligned`: when both
  cameras are degraded the probe ends that, at the periods of `PhaseAssumption`. `FreshPairs`: nothing from before an outage is
  returned after it.
- **points_mode** — from the producer to the pipeline. `LoopInv`
  [`ObjectsCurrent`, `PersonsCurrent`, `FailureFades`]: the motion gate sends old
  detections again only while the scene looks the same, however slowly it drifts,
  and never beyond the refresh interval; after a failure what is sent is corrected
  within it. `PointsInv` [`WholeSetsOnly`, `GapsAreLosses`]: a set is handed over
  exactly when all of its datagrams came in, whatever else was lost and fills the
  table, and the gap counter misses no loss between two arrivals of one producer
  and never counts more than was lost. `ImplementsStream`: the wire refines
  `SetStream`. `BusInv` [`NothingLostSilently`]: every emitted pair is processed,
  counted or on its way. `ImplementsLatestWins`: with one listener the path refines
  `LatestWins`, its liveness included: the last pair is processed in the end.
- **zones** — what is decided and published of a zone. `EvidenceDecides`
  [`PresenceInv`, `LoadOutranksEmpty`, `LoadIsCurrent`; `LastAgrees` and
  `SustainedVerdictShows` over the real voting window]: classes come and go on the
  configured streaks, a missing camera freezes the leaving streak, what is reported
  as the load belongs to the pallet there, one camera that sees a load outranks one
  that does not, and a verdict repeated for the quorum shows. `NothingFlaps`
  [`FlipsAreSlow`, `DebouncedPresence`; of the bins `FlipNeedsSupermajority`,
  `BlankedOnlyWhenStale`]. `RetainedIsTruth`: a retained zone
  topic holds the last verdict when no step overtook the seeding of `run()`;
  `WireInv` [`OccupiedHeals`]: if one did, an occupied zone is right again within
  a refresh interval. `TracksInv` [`ListAgreesWithPassings`]: the object list of a
  zone and the passings sent about it tell one story, through tracks that are
  lost, given up or flicker. `PassingsJustified`: nobody leaves who has not entered
  in the same stretch of frames. `RackInv` [`FailsHonestly`, `RetainedGridCurrent`,
  `HeartbeatKept`]: the bins of a rack.
- **outbound** — what leaves a node. `SinkInv` [`LatestRetained`], `Delivered`
  [`ConfigArrives`, `NoGhosts`] and the first half of `OutboundSteps`
  [`ActiveNeverCleared`] are about the sink through lost connections, a restart with
  another zone set, a broker that loses what it retained, and an answer after the
  collection window. `GatewayInv` [`CacheIsRetained`] and the second half of
  `OutboundSteps` [`CacheForward`]: the mirror on the gateway holds what the broker
  retains, and goes forward only. `ShutdownInv` [`ClosedUnderNobody`]: the publisher
  is closed under a running step only when its join timed out, and then that step
  reaches closed sinks with one message at most. `ShutsDown`: it is closed in the
  end, whatever the threads do.
- **frame_bus** — the way of a camera's frames: its source; writer and reader of the
  bus interleaved at every access to the file; and two producers after one another,
  stopped, killed and crashed, with the purge and an operator's rm. `CameraInv`
  [`NewestOffered`, `Capped`, `NothingCut`, `StopTakes`]: between two puts the
  consumer has the newest sample or finds it next, the rate cap bounds what gets
  through and costs a camera that keeps its rate no sample, however bunched.
  `FrameInv` [`NoTornFrame`]; `CallAnswers` [`FreshAsCall`,
  `MissMeansLapped`]: a frame is no older than the newest complete one at the call,
  and no frame is returned only when the writer lapped the reader. `HubFollowsBus`
  [`AbsentFallsBack`, `ComesBack`, `BusReturns`, `SourceEnds`]: the hub leaves an
  absent bus and returns to a live one, a producer that goes on streaming publishes
  under the path again, whoever removed the file, and a camera that was stopped
  after its main loop ran is let go.
- **host** — two request threads in every overlap with crashes, respawn timers and
  saves that switch points mode off and on. `OneProducer`, `NoneLost`,
  `FlagMeansUntracked`. `HostSafe` [`RespawnsBounded`]: the respawns counted by log
  pumps that had the list to themselves stay within the limit of a window, whatever
  pumps that counted side by side wrote to it before and after; of those themselves the
  limit does not hold (`LimitKept`, section 7). `CrashHealed`.
- **control** — four casts of threads, who do what they do at any time: a START, a STOP
  and the cycler ("cycle"); two STARTs and a STOP ("starts"); a START, a STOP, a save
  and a reader of the state ("saved"); a START, the cycler and a reader ("asked").
  `ControlInv` [`OneEngine`, `NoneLost`, `DownAfterStop`]: never a second engine unless
  two threads were between reap and Popen together; at rest none that the supervisor
  does not know, unless that happened or a getter forgot another engine than the one it
  had polled; and both processes down for good after a STOP that was clicked while
  nothing else was at work. `StartsObey` [`CyclerObeys`, `RefusedWhileStopping`]: nor
  does the cycler bring an engine up after such a STOP, wherever its own looks at clock,
  flag and state come; and no START is let through by a teardown that has set the flag,
  unless a second teardown lowered it. `CycleReturns`: once the cycler has taken an
  engine down it spawns another, unless one runs by then or starting it fails. What each
  excuse stands for is real, and refuted without it in section 7. The jobs of a studio:
  `JobsInv` [`OneRuns`, `NoDuplicate`, `QueuedIsThere`] and `JobsEnd`, as long as the
  worker lives and is not stopped.
- **video** — the dashboard's registry of camera streams, and the bitstream relay.
  `VideoInv` [`RegistryInv`: `ReadersCounted`, `CurrentLives`, `NoOrphan`,
  `WatchedStays`; `RelayInv`: `NoGaps`, `NobodyLeftOut`, `BacklogBounded`]: no
  viewer is handed a stream that is being stopped, none is taken off its stream by
  the idle timer of an earlier absence, and none is forgotten running; a client of
  the relay decodes from a keyframe on without a gap and never costs more than its
  backlog. `VideoReleases` [`IdleReleases`, `AllDropped`]: what nobody uses is
  closed in the end, a client that is not reading included.
- **live_healthy_rates**, **amortised_pose**, **stop_undone**, **capture_novelty** —
  section 7.

## 4. Bounds, and why they are enough

| Run, part | Bounds | Why |
|---|---|---|
| sync_rigs, rig "any" | 2 cameras, skew 1, age 4, degraded after 3, probe 2, buffer 2, time to 8 | eviction, overflow, degradation, probe and recovery all fit twice into 8 units |
| rig "three" | 3 cameras, skew 1, age 3, degraded after 2, probe 1, buffer 4, time to 6 | the early return of the solo loop needs three cameras to hold one back twice |
| rig "live" | units of 11 ms: skew 3, degraded after 9 are the configured 33 and 100 ms; periods 1..6, time to 24 | both cameras can run through every phase against each other before and after one reaches the degradation limit |
| rig "recovering" | the configured values in ms (`SkewMs` ... `LastMs`), eight periods, time to 1700 | one probe interval (1000 ms) and some pairs |
| sync_rigs, "capture" | 2 cameras, 2 shots wanted, window 0, 2 sessions, time to 2 | a session stopped or killed at every step of a commit while the next one counts the files; a pair in and out of the window |
| points_mode, "bus" | 2 cameras, 1 listener, queue of 2 (as configured), time to 4 | queue full, evicted and drained; one pair more than the queue and both hands hold |
| points_mode, "wire" | 2 cameras, sets of 1 or 2 datagrams, a table of 2 groups, 3 sets per camera, a datagram waiting while the next set is sent, 2 starts of the producer | two cameras can fill the table with abandoned groups, and the third set overruns it; the producer restarts before, between and after |
| points_mode, "loop" | 1 camera, appearances 0..2 with a threshold of 1, refresh 3, pose every 2 | the gate compares each camera with itself; a drift of two unnoticed steps is noticed; the refresh is due on and off pose ticks |
| zones, "pallet" | enter after 2, exit after 3, window 3, 2 cameras, 1 zone, 1 load | zones do not share state, loads are treated alike; enter < exit keeps the order of the configured 5 and 15 |
| zones, "vote" | window 15, flip ratio 7/10 (as configured) | exact: the window is a state, the number of votes saturates at the window |
| zones, "wire" | 1 zone, 2 tracks, refresh 2, time to 5 | zones are independent; two tracks are needed for a conflict of readings |
| zones, "tracks" | 2 tracks, confirmed after 3, lost for 2, enter and exit after 2 | tracks are independent but for their numbers; each streak can start, break and complete before the track is given up |
| zones, "rack" | 2 bins, window 5, decay after 2, heartbeat 3, time to 7 | a full window, a decay and a heartbeat in one behaviour, in every order |
| outbound, "sink" | 2 zones, 2 states, 2 faults out of restart, drop, broker restart and late answer | a zone that stays and one that goes; every pair of faults meets |
| outbound, "gateway" | 2 nodes of 2 zones, 1 state per zone, cleared at any time, 2 messages waiting when one is published, evicted after 1, 1 lost connection | one node silent while the other is heard; a zone published, cleared and lost before, during and after the new subscription |
| outbound, "shutdown" | 2 sinks, 2 messages per step, the real timeouts of the joins | one sink closed and one open; every join ends in time or gives up |
| frame_bus, "camera" | interval and period 1, 4 samples, time to 3 | the fourth of four samples at one instant is the first the cap may refuse; stop before, in and after every step of start |
| frame_bus, "bytes" | 7 frames, 4 attempts (as in the code) | the writer can lap the reader in every attempt and once more |
| frame_bus, "file" | 2 producers, re-check every 2 frames, give up after 2 misses, 6 inodes | files are recycled from 6 inodes once nobody holds them, so behaviours are unbounded; only the two counters are shortened |
| host | 2 clients, respawn limit 1, 3 calls or changes of the mode, 3 children | start against stop against timer; two log pumps on the list at once, and a third after them; the limit reached, freed by an expiry and reached again |
| control, "cycle", "starts", "saved", "asked" | at most 3 acting threads and 1 reader at a time, 2 engines; clicks, saves and cycles as often as they like | every pair of actors, beside a third; a getter that polled the first engine and forgets the second. No request is counted: a behaviour ends only in what the two engines allow |
| control, "jobs" | 2 keys, 3 jobs | a job resubmitted while the first is queued, running and over |
| video, "registry" | 2 viewers, 2 configurations of which one is a replay, 3 streams, 2 timers | a stream replaced twice; a timer past its cancellation while the next one is armed |
| video, "relay" | 2 clients, a backlog of 2, 3 access units | the third unit overruns the queue of a client that does not read while the other goes on |
| amortised_pose | the thresholds of the configuration (3, 30, 3, 15), pose in every second frame, 10 frames | three poses would confirm the track |
| stop_undone | a START, a STOP and the cycler, 2 engines | the engine that is stopped and the one that comes up instead |
| capture_novelty | 2 cameras, 2 shots wanted, window 1, 1 session, time to 2 | two pairs are enough to show one placement twice |

`CHECK_DEADLOCK FALSE` is set where the model ends at such a bound (all cameras at
`MaxTs`, no request left), where the system is at rest with nobody asking anything
of it (control, host, video), and where a stopped part leaves nothing to do.

## 5. Fairness

- `Ingestion`: each ingestion thread that has a pair in its hand goes on with it
  and the pipeline thread polls; sources owe nothing.
- `MqttSink`: the threads of the process run, paho reconnects for ever
  (`reconnect_delay_set`, `loop_start`), the broker answers, and the timer fires.
  Faults are never fair; each happens a bounded number of times.
- `Shutdown`: only the main thread is fair: each of its waits has a timeout. The
  threads it waits for may hang anywhere, and nobody has to send the signal.
- `HubPump`: the hub's loop goes round (its three branches are weakly fair) and a
  live producer's pump streams. Nobody has to stop, start or purge.
- `CameraSource`: the thread of `_run`, the streaming thread inside its callback and
  the consumer go on. The owner never has to stop, and no sample or message has to
  come.
- `HubRegistry`: a `threading.Timer` that was armed fires and runs, whoever took a
  stream out of the registry stops it, a source that is being built gets built,
  and an opened camera delivers a next frame, which is when the pump looks at
  `_stop`. Viewers owe nothing, and neither does a source that is to end or fail.
- `NalRelay`: the tap thread finishes its round, the senders run, and a `close()`
  that was begun goes on. A client never has to read: `sendall` may block for good
  until the connection is shut down, which is what `AllDropped` is about.
- `ProducerHost`: as long as some thread of the host can go on, one of them does.
  That is less than fairness of each thread, so that `CrashHealed` does not
  depend on which thread the lock goes to. Nobody has to call, and no child has
  to die.
- `SystemControl`: the cycler's thread goes on (weak fairness of its steps): it waits for
  no other, and each of its waits has a timeout. The other threads may hang anywhere,
  and the operator, the schedule and the engine owe nothing.
- `JobRunner`: the worker goes on, jobs end, and a submit that has begun is finished.

In a run with parts the fairness of a component is stated for the part that moves,
or is vacuous for the others, whose actions are then disabled. The other modules
are checked for safety only.

## 6. What is proved

TLAPS checks eight proof modules, for every value of the constants that satisfies
the named assumptions of the modules they extend (`CameraAssumption`,
`SyncAssumption`, `PeriodAssumption`, `WireAssumption`, `TracksAssumption`, `GatewayAssumption`,
`ShutdownAssumption`, `HubRegistryAssumption`, `RelayAssumption`,
`HostAssumption`, `ControlAssumption`, `SourceAssumption`, `ShmAssumption`,
`HubAssumption`, `SinkAssumption`, `PointsAssumption`, `LoopAssumption`, the
`CaptureAssumption` of the capture's instance as `CaptureConstants`, those of the
recovering rig as `RecoveryConstants`, and `ZonesConstants`, which puts together the `VoteAssumption`, `RackAssumption`,
`LoadAssumption` and `PalletAssumption` of the instances of run *zones*). A theorem
that needs more says so in its ASSUME. The bounds of section 4 do not limit the
proofs: they are constants, and hold for any value.

Of the main invariants only `BacklogIsNew` and that of the rack are inductive. Each
proof module states its strengthening at the top, one commented conjunct per idea,
then a lemma per action and a last lemma that collects them.

**FrameSyncProofs** — the synchronizer; any number of cameras, any tolerances and buffer
size, any frames. Each rig of `MCFrameSync` is an instance of `FrameSync` with its own
constants, so the lemmas are about a synchronizer of cameras `ids` with buffers of `b`
frames; `Submitted` is the shape of a submit, unfolded once for each instance.

- `BacklogTheorem` (`TypeOK`, `BacklogIsNew`, `DegradedBacklogBounded`, in `Spec`) and
  `RigTheorem` (`SyncInv`, in `RigSpec`). A buffer is a `Span`: frames after the last one
  returned and up to the last one in, strictly increasing. `PushSpan` shows that a bounded
  deque stays one when a newer frame is appended, `PurgeSpan` when the stale frames leave
  it, `SpansKept` that all do whatever the outcome of the submit. This much is inductive
  as it stands; the bound on a degraded camera's backlog is not. `Backlog` strengthens
  it: each frame such a camera holds stands for an earlier camera whose buffer is empty
  (that is not `Waiting`). Where an earlier degraded camera is served in its stead, that one's buffer
  is emptied (`TurnTaken`).
- `CaptureMonotoneTheorem` (`CaptureMonotone` and `FreshStep`, in `Spec`),
  `RigsAdvanceTheorem` (`CaptureMonotone`, in `RigSpec`) and `FreshTheorem`
  (`FreshPairs`) follow from the same invariant: what a submit gives is held, and
  whatever is held is new and young.
- `NeverSoloTheorem` (`NeverSolo`, in `LiveSpec`) and `LivePairTheorem`
  (`LiveNeverSolo`, in `RigSpec`): two cameras are never served solo at the rates of
  `LiveRates`, that is with a period P of at most 2S and below D, 2P <= S + D and D <= A
  for tolerance S, degradation limit D and maximal age A. The configured 33, 100 and
  1000 ms leave P up to 66 ms, and 2 * 66 <= 133 is all but an equation. `LiveInv` says
  what the two hold: nothing, or frames of one of them, all captured since the other's
  last one, or frames of both, of which one is `Behind`: beyond the tolerance, and its
  next frame comes before its first one is too old. `PairsOrHolds` shows that the next
  frame then makes a pair, or leaves them so again.
- `RecoveryTheorem` (`AllAligned`, in `RigSpec`): one probe interval and three periods
  after two cameras at one rate were both degraded, what is returned is pairs, and stays
  so. `RecoveryAssumption` is the situation, `PhaseAssumption` the periods p for which it
  is true in every phase: the probe helps only if the probed camera becomes overdue on a
  frame of the other one that the other then keeps for the next frame of the first
  (`Reforms`). With the configured 33, 100 and 1000 ms the eight periods of the run
  satisfy it; 60 ms does not, and there are phases at which two cameras of 60 ms stay
  solo. `RecoveringInv` is the invariant: `Waits`
  (every frame is emitted at once, until the probe is due), `Tried` and `Tries` (the
  first camera holds its last frames, the second one's are emitted if they are outside
  the tolerance), `HandsOver` (the first was overdue, the second one's frame is held) and
  `IsBack` (one holds at most its last frame, the next one of the other pairs with it),
  each with the time it is over. The next frame of a camera comes a whole number
  of periods after the last and g or p - g after the other's (`InStep`), which is what
  `TakesTurns` keeps and every step of the argument counts with.

And the capture of the pairs the calibration is solved from; any finite set of two
cameras or more, any target, window and number of sessions. `CaptureTheorem` (`CaptureInv`, in `RigSpec`). `ShotsInv` puts next to the types:

- the life of a session (`SessionInv`): a session that is not the current one was told
  to stop, or is the last one made and its request is still on its errands
  (`RouteShape`; `NextErrand` says what each errand leaves of them);
- that one worker of a session commits at a time, pairs only, and its own shot with the
  others' (`CommitInv`); that the gate of a worker knows what the worker saved, so that
  what it lets through is new (`Gated`);
- for a floor capture in which nothing went wrong (no `mishap`), that a request finds the
  workers of the session before it done (`Settled`), that one session saves at a time and
  that one told to stop can no more than finish the pair it is at (`OneSaves`), and that
  there is a number n of pairs for which everything on disk and in memory is in line
  (`Lined`): the files of each camera, one more where the pair under way has come to it;
  the counts of the workers and of the request; with n at the target, that nobody goes
  on; and the moments of all pairs, the one under way included.

The last is the hard part: a count is read in one step, compared in another and raised
in a third, by workers of two sessions, and files of one number are a pair only because
every camera was given the same number of them. `CaptureInv` says so of the files alone
and is far from inductive. TLC checked `ShotsInv` on the rig of run *sync_rigs* before
it was proved (842 044 states).

**PointsModeProofs** — bus, pipeline, the producer's loop and the points
wire; any number of cameras, any tolerances, buffer and queue sizes.

- `BusTheorem`, `LatestWinsTheorem`, `InOrderTheorem`: with one publishing thread
  (`ASSUME NEW l, Threads = {l}`, the listener of points mode) nothing is lost
  silently, the path implements the safety of `LatestWins` (initial states map to
  initial states, each step to a step or a stutter), and pairs are processed in
  order. `PathInv` adds that the queue, the pair the pipeline holds and the pair
  in the thread's hand are in the order of emission, and that there is room once
  the thread has evicted. The assumption is necessary: see section 7.
- `LoopTheorem` (`LoopInv`, in `PointsModeSpec`): any appearances, threshold, refresh
  interval and period of the pose model. `TickInv` adds `CachedIsReference`: what is
  cached of a camera is what the gate compares with, unless the last inference asked
  for raised, and then the gate has aged since. The clock of the gate is what bounds
  how long a failure is sent for.
- `PointsTheorem` (`PointsInv`) and `StreamTheorem` (`ImplementsStream`, the refinement
  of `SetStream`): any sets in any number of fragments, of which any are lost, and a
  table of two groups or more (`max_groups` is 64). `OrderInv` says that the numbers of
  a camera's sets keep step with their capture within a life of the producer and fall
  behind from one life to the next (`Numbered`); that the datagrams of a set are next to
  one another (`WireInv`); that of the groups only the last can still grow, which is why
  evicting the oldest never takes a set that could be completed (`GroupInv`); that a set
  under way will be whole exactly if nothing of it is missing on the wire and in the
  table together (`WholeInv`); and that what was handed over is older than all on the
  wire (`HandedOf`), so that a step which loses sets changes neither bound of the
  counter (`LostKept`). `CountedAppend` is the arithmetic of the counter: the sets
  between two handed over are as many as their capture times leave room for.
  `PruneFacts` and `AddFacts` say what `_prune` and `add` leave of the table.

**FrameBusProofs** — the three parts of run *frame_bus*, composed; any rate cap and
number of samples, any number of frames, attempts and polls, any producers.

- `FrameTheorem` (`FrameInv`) and `CallTheorem` (`CallAnswers`). Of the bytes,
  `LockInv` says that the writer's counter is ahead of every slot and odd while one
  is open (`Counts`), that the slot of the header is whole (`Front`) and how far the
  other one is (`Back`); of the reader, that the slot it stays with held a frame no
  older than the call (`CallFacts`), and that its copy is the slot's as long as the
  slot has the number the reader noted (`CopyFacts`). It is about one producer: see
  `RestartSpec` in section 7. Of the file, `FileFacts` says that one producer lives at
  a time and holds an inode only while it does, so that among three inodes one is
  always free (`FreeInode`): the bound on inodes never stands in for the file system.
- `CameraTheorem` (`CameraInv`). `Handover` says what the queue of one holds during
  each try of a put. `Schedule` is what the cap of any run of kept samples follows
  from (`Capped` is not inductive): the next sample is due an interval after the last
  kept for each kept since, less one interval of credit; and for a camera that keeps
  its rate the schedule is never ahead of the samples seen.

**ZonesProofs** — any zones, tracks, cameras, verdicts, bins, thresholds, windows, flip
ratio above one half, refresh interval; the five parts of run *zones* and their
composition.

- `RetainedTheorem` (`RetainedIsTruth`) and `WireTheorem` (`WireInv`). `TruthInv`
  says what the tracker remembers before the first pair (`Seeding`), that a quiet
  start is over when the first pair comes (`QuietStart`), that afterwards it
  remembers what it gave out last (`SignatureKept`), and that no occupied zone is
  overdue (`Refreshed`).
- `TracksTheorem` (`TracksInv`) and `PassingsTheorem` (`PassingsJustified`): the
  hysteresis and the detector forget the same tracks and agree on who is inside
  (`Forgotten`).
- `ZonesTheorem`: all three invariants in the composed specification `ZonesSpec`.
- `RackTheorem` (`RackInv`, inductive as it stands: a held bin has a full window behind
  it, whose last vote is recent) and `CellsTheorem` (`CellSteps`). `CellStep` is the
  step of the latter, `Held` and `Justified` what one observation leaves of a bin.
- `EvidenceTheorem` (`EvidenceDecides`). What pallets and racks share is about windows of
  any length: a quorum, rounded up, is more than half and at most all of the votes and
  grows with them (`QuorumFacts`), the loads and the empty votes are all the votes there
  are (`TallyFacts`), a run of votes counts (`RunTally`), and a vote on a bounded deque
  lengthens its run (`RunPush`). `Settled` says that the state a window gives is stable
  and follows a quorum of it. Over the window of a track `LongInv` adds that the last
  votes for the state of the last one are in a row (`AgreeingRun`). For a zone
  `PresenceKept` says that the streaks of the hysteresis are those a reader of the
  detections would count, and `DecisionKept` that the last verdicts which read a load
  are in a row in the window, that no load is in it that was not seen since the palette
  last left (`Evident`), and that a palette which is present has been voted on.
- `DebouncedTheorem` (`DebouncedPresence`), from `PresenceKept`.
- `FlipsTheorem` (`FlipsAreSlow`, for the windows and ratios of `SlowFlips`) and, with it,
  `DebouncedTheorem` and `CellsTheorem`, `NothingFlapsTheorem` (`NothingFlaps`, for the
  ratio 7/10 and windows up to 17). `Flips` says of a state that flipped f votes ago, in
  a window of n, how many votes for the other one the window can have now: `PushTally`
  adds one with a vote at most. `SlowFlips` is that these are no quorum for a third of
  the window (`SlowAtSevenTenths`). The difficulty is a window that still fills, where
  the quorum is small: there the vote that flipped it left a vote of the other state,
  so n is beyond its own quorum, and that is enough up to 17. From 18 on it is not:
  with 3 to 1 votes six more make a quorum of the 10, and six is a third of 18.

What the proof needs of a window is "the first" and "the most frequent" of its votes.
Both are a `CHOOSE` in the models, and `Least` (a set of naturals that is not empty has
a least element, from the library's theorem on well-founded relations) shows that there
is one. It takes the place of induction.

**OutboundProofs** — any nodes, zones and lost connections. `GatewayTheorem`
(`GatewayInv`) and `CacheForwardTheorem`. `MirrorInv`: what is under way of a topic
is in the order of publication and not older than the cache (`InOrder`), the last
of it is what the broker retains (`LastIsRetained`), and messages are under way to a
subscriber only (`Linked`).

And any number of sinks and messages. `ShutdownTheorem`
(`ShutdownInv`) and `SpentTheorem`: the joins take 4.5 s at most in frames mode and
5 s in points mode. `StopInv` adds that every thread waited for has ended or was
given up (`AllWaitedFor`), that sinks are closed after the publisher, and it after the
joins (`ClosedLast`), that the late calls of a thread belong to one message
(`LateInOneMessage`), and what the joins so far may have cost (`Budget`).

And any zones, states, lost connections and restarts. `SinkTheorem` (`SinkInv`) and
`StepsTheorem` (`OutboundSteps`). `TopicInv`: the last message about a zone in the
client's queue is the newest state of it (`LastIsLatest`); of a zone that no message in
the unsent part of the queue is about, the broker has the newest state, as long as it
was not restarted (`SentIsRetained`); a message that clears a topic is about no zone of
the config in force (`OnlyStaleCleared`); and at most two threads arm the purge timer
(`StartInv`). `QueueKept` serves the actions that publish and store nothing,
`QueueExtended` the three that hand messages to the client. `PartsTheorem`: the other
two invariants in the composed specification `OutboundSpec`.

**VideoProofs** — any viewers, configurations, streams, timers, clients, backlog.
`RegistryTheorem`: `HubInv` adds that the timer slot is filled exactly while the
stream has no viewers, and with a timer of that stream (`SlotHeld`).
`RelayTheorem`: `ServeInv` adds that who has been given something is listed while
alive (`Served`), that a live stream ends with the newest unit push is done with
(`KeepsUp`), and that a waiting sender holds nothing (`EmptyHanded`).
`VideoTheorem` combines the two for the composed specification `VideoSpec`.

**ProducerHostProofs** — any number of client threads, calls, crashes, respawns.

- `OneProducerTheorem`, `NoneLostTheorem`, `FlagTheorem`: three of the
  invariants of run *host*. `HostInv` adds the types and four
  facts about the lock: it is held exactly while somebody is between the look at
  the tracked child and the spawn (`LockHeld`); meanwhile the tracked child is
  dead (`NoneTracked`); between the reap and the spawn nothing is alive at all
  (`ClearToSpawn`); and the deliberate flag is up only with the lock free and no
  child tracked (`FlagFirst`). There is one lemma per action; `QuietStep` and
  `GotoFree` serve the many actions that change only where a thread is.
- `RespawnsTheorem` (`RespawnsBounded`) and `HostSafeTheorem` (`HostSafe`), about the
  list that the log pumps share without a lock. `ListInv`: pumps that are on the list
  side by side are known to be (`Noted`); a respawn appended by a pump alone on the list
  stays in it until it expires, and in whatever another pump has read of it and is about
  to assign (`Listed`): no prune can drop it, for one that read the list before the
  append was on it side by side. Hence a pump alone that found room still has it when it
  appends (`Room`), and of its kind there are no more than the limit. `QuietList` serves
  the steps that leave the list alone; `SubsetsFinite` and `Smaller` count.

**OperatorProofs** — any sets of threads that start, stop, save and ask, any number of
engines. `ControlTheorem` (`ControlInv`) and `StartsObeyTheorem` (`StartsObey`). `RunInv`
has one part for each of three separate matters. `OneStart`: unless two starts overlap,
a thread about to spawn finds nothing running, and leaves the child it has in hand.
`Known`: an engine that is not tracked is about to be, or to be swept, unless starts
overlapped or a getter was stale. `OneStop` and `Stayed`: the flag is up from a
teardown's first statement to its last, and after a STOP clicked in peace only its own
teardown is at work, with what it has been through down, the engine it is about to end
in its hand, and no getter about to forget one that runs. `InHand` is what makes them
hold together: what a getter has polled has ended for good, so that what it forgets is
either that or another engine, a mishap. `Onward` serves the actions that move a thread
and end, spawn and forget nothing; there is a lemma per action.

And any keys and any number of jobs. `JobsTheorem` (`JobsInv`): `StudioInv` adds that
a job is in the queue once (`Once`), that what is in it waits and is not still being
put (`InQueue`), that what waits is there (`Waits`), and that the worker's job is the
one that runs until its outcome is noted (`AtWork`). `OperatorTheorem` combines both
invariants for the composed specification `OperatorSpec`.

**Model-checked only.** Liveness is out of the prover's reach: the fairness half of
`ImplementsLatestWins`, `Delivered`, `ShutsDown`, `HubFollowsBus`, `CrashHealed`,
`CycleReturns`, `JobsEnd`, `VideoReleases`. Every safety
property of the passing runs, and the safety half of `ImplementsLatestWins`, is the
statement of a theorem. Where a theorem has an ASSUME, what lies outside it is either
refuted (section 7, or the text above) or left to the runs: `NothingFlaps` is proved for
the configured ratio with windows up to 17, and checked with the configured 15.

## 7. Where code and expectation differ

**Documented guarantees that do not hold**, each the one property of a run that TLC
refutes with a trace.

- *live_healthy_rates*, `NeverSolo`. A comment in `frame_sync.py` and a regression
  test say that two live cameras never emit a solo pair. With the configured 33 ms
  tolerance and 100 ms degradation limit two cameras near 14 frames per second in
  opposite phase do: each frame is about 36 ms from its nearest partner, and the
  older one reaches 100 ms before a match comes. Within twice the tolerance (66 ms
  period) the guarantee holds: `LiveNeverSolo` in run *sync_rigs*, and for any
  constants within `LiveRates` by `LivePairTheorem`.
- *amortised_pose*, `CoastsBetweenPoses`. `orchestrator.py` says that persons coast
  on the Kalman prediction between pose frames when `pose_every_n` is above 1,
  because the tracker tolerates `max_lost_frames` misses. It tolerates them of a
  confirmed track; an unconfirmed one is removed at its first miss, so with
  `min_hits_to_confirm: 3` and a pose in every second frame no person is ever
  confirmed.
- *stop_undone*, `StopStays`. "The cycler restarts only a system that IS running — a
  deliberate STOP stays stopped" (`system_cycler.py`). The cycler's own stop raises
  `stop_in_progress`; a STOP clicked meanwhile is answered "stopping" and nothing more,
  and the cycler, which looks at nothing between its stop and its start, starts the
  system again, with the STOP as the operator's last word.
- *capture_novelty*, `PlacementsDistinct`. A floor session is to "snap a novel
  placement each time" (`session.py`), and the shots of a pair are saved with a stub
  because "centroid novelty already gated". The gate learns a placement from the
  saved detection's centroid, and the stub has none: it never learns one, and a board
  that is left lying is captured until the target is reached. Intrinsic shots, saved
  with their own detection, are distinct (`CaptureInv`).

**Expectations kept in the modules.** The following are natural readings of a
docstring, a test or a name. Each is stated in its module as the expectation,
and TLC refutes it; none is among the properties of a run. To see the trace,
name it as INVARIANT or PROPERTY of a configuration for the module itself, with its
own specification and the constants the named run gives that part.

| Definition | Module, run | What happens |
|---|---|---|
| `ZeroBuffering`, `PairsForward` | `FrameSync` (the latter also under `InOrderSpec`), sync_rigs with the constants of rig "any" | a degraded camera waits behind an earlier one; the mean capture time of pairs goes back when a solo pair follows an aligned one |
| `BusInv`, `InOrderDelivery` with two `Threads` | `Ingestion`, points_mode | the frames mode has a thread per camera: after an eviction another thread may take the room, and the second `put_nowait` loses the pair with a log line only; and two threads swap between `submit` and `publish` |
| `DroppedIsExact` | `Ingestion`, points_mode | the pipeline takes the item between the full queue and the eviction: a drop is counted that was none |
| `GapsAreExact` | `PointsWire`, points_mode | a producer that restarts counts from zero: the sets lost around the restart are not counted |
| `EveryFreshFrameSent` | `PerceptionLoop`, points_mode | the detector raises for one camera, and no camera has its set in that tick |
| `PersonsOnlyWhenSeen` | `PerceptionLoop`, points_mode | between pose ticks the last persons are sent again as new observations, so nothing coasts on a prediction |
| `FlipNeedsSupermajority` | `OccupancyVote`, zones | while the window fills, fewer votes flip a state |
| `NoInheritedLoad` | `PalletState`, zones | a palette that never stayed long enough to enter leaves votes behind for the next |
| `MembershipHeld` | `Tracks`, zones | a track missed in one frame is out of the object list at once and has to enter anew |
| `EventsAlternate` | `Tracks`, zones | a track lost inside and found outside never leaves; its next passing is a second enter |
| `EmptyIsTruth` | `ZoneWire`, zones | a step overtakes the seeding; the late seed of an empty zone stays, since empty zones are not refreshed |
| `CellsDecay`, `SilenceForgets` | `EtagereState`, zones | decay runs inside `update()` only: silence keeps the last state, and the first message after it may keep it too |
| `ContentsReturn` | `MqttSink`, outbound | a broker that lost its retained messages gets a zone again only when it changes |
| `ClearedIsGone` | `Gateway`, outbound | the empty payload that clears a topic is not JSON: it is counted as malformed, and the gateway serves the deleted zone on |
| `SilentVanish` | `Gateway`, outbound | silent nodes are swept when another node is heard: the last one stays |
| `NoTornFrame` under `RestartSpec` | `FrameShm`, frame_bus with `MaxRestarts = 1` | a producer that restarts counts from zero in the same file; a reader that stalled over it sees the sequence number it expects |
| `UnlinkSparesSuccessor`, `ShutdownLeavesNothing` | `FrameBusFile` under `OverlapSpec`, frame_bus | the inode is compared, then unlinked: the successor may have come between. A pump inside `write` re-creates the file after the cleanup (this one also under `HubSpec`) |
| `StaleFallsBack` | `HubPump`, frame_bus | a producer killed outright leaves its file; the hub finds nothing new and does not count it as a miss |
| `GraceKept` | `HubRegistry`, video | a timer that was past its cancellation when a viewer returned ends the grace that viewer's leaving has just begun |
| `OneSession` | `HubRegistry`, video | a rebuilt stream opens its source while the one it replaces is still being stopped |
| `LimitKept` | `ProducerHost`, host with a limit of 1 | two log pumps pass the check before either appends, or one assigns a list it pruned before the other's append: more respawns than the window allows |
| `StopSticks`, `CountsCrashes`, `SweepSparesTracked` | `ProducerHost`, host | the respawn timer read the flag before the stop; a stopped child's end is read after the next START lowered the flag; the sweep spares the child tracked before its scan |
| `WithinGrace` | `Shutdown`, outbound | a comment over `_shutdown` says that the supervisor's grace of about 3.5 s comfortably contains the teardown; the joins come one after the other and may take 4.5 s in frames mode and 5 s in points mode, and no more (`SpentTheorem`) |
| `StopSticks` | `SystemControl`, stop_undone | a STOP between two steps of a START, which goes on and spawns |
| `EverOneEngine` | `SystemControl`, stop_undone with `Starters = {"s1", "s2"}` | two STARTs between check and Popen |
| `NeverLost` | `SystemControl`, stop_undone with `Readers = {"r1"}` | a reader that polled the end of one engine forgets the next one, just spawned; the STOP after that finds nothing tracked and returns without a sweep |
| `FiresAtRest` | `SystemControl`, stop_undone | the cycler "never fires while a STOP is in progress or within the START debounce": it read the flag some statements before, and does not look at the debounce |

## 8. What is not modelled, and why

- **Numerics**: inference with its pre- and postprocessing, tiling and zone scope,
  homography, fusion, gating and assignment, Kalman filters, triangulation, signal
  filters and the classification of bins. They are real-valued and hold no state
  the properties depend on; where a model needs their outcome it is a
  nondeterministic choice.
- **Frame sources**: GStreamer itself is environment; the pipeline strings of the
  subclasses, the tap of the bitstream and the replay of a file are left out, and so
  is `frames()` called first after `stop()`, which opens the camera again. The rate
  cap lets three samples through at once after a stall, where its comment counts one
  "bonus frame": `Capped` states what the code does.
- **Offline programs** (calibration, trainer, isiGen, isical but for its capture and
  its job runner, scripts): the larger part of the repository. One user runs them by
  hand over files; they take no part in the running system and share no protocol
  with it.
- **Capture**: a session of one camera, extending a floor set, the targetless
  sessions and the floor preview. (Cameras are not as exclusive as the comment in
  `start_targetless` has it: a board session does not stop a floor preview.)
- **Jobs**: a `start()` after a `stop()`, which may find the pill of that stop in the
  queue. A job whose prelude raises stays "running" with the worker dead, and its
  phase is refused from then on: `JobsEnd` excepts it.
- **Dashboard** routes, rendering and per-client streams, except those that control
  the system. **Configuration** is data; the values that matter are constants.
- **Within the modelled components**: resolution changes of the shared-memory file;
  malformed and foreign datagrams, and the étagère messages on the points wire,
  which carry no number; the fire-and-forget MQTT topics (tracks, passings, images,
  heartbeats), and the étagère and proximity topics of the sink; the gateway's HTTP
  routes and topic tail; subscriptions to triangulated points, which thin out what is
  published when a client asks for them; auto-start and the boot sweep of the
  dashboard, the engine's exit code and the supervisor's `_stop_requested`, which only
  word a status; the identity rule of the reaper, which is "the children of this
  instance" here; `forget_zone` of the étagère, which nothing but a test calls.
- **Wall-clock steps**: every model takes `capture_ts` and the timers to follow one
  clock that does not go back.

## 9. Plan

Everything in sections 2 to 6 is in place. What is left, most useful first:

1. The étagère and proximity topics in `MqttSink`, and their way into the gateway.
2. The recovery of more than two degraded cameras, or of cameras at different rates:
   `RecoveryTheorem` is about two at one rate.
