------------------------------ MODULE VideoProofs ------------------------------
(***************************************************************************)
(* Theorems about the video path: HubRegistry for any number of viewers,   *)
(* configurations, streams and timers, NalRelay for any number of clients, *)
(* access units and any backlog, and the two together.                     *)
(***************************************************************************)
EXTENDS MCVideo, FiniteSetTheorems, TLAPS

TimerStates == {"armed", "due", "over"}
IdleTimers == [stream : Streams, state : TimerStates]

HubTypes ==
  /\ made \in 0..MaxStreams /\ current \in {0, made} /\ readers \in Nat
  /\ idle \in Seq(IdleTimers) /\ slot \in {0} \cup DOMAIN idle
  /\ watched \in [Viewers -> 0..made]
  /\ doomed \subseteq 1..made /\ halted \subseteq 1..made
  /\ pump \in [Streams -> {"none", "build", "open", "over"}]
  /\ \A s \in Streams : pump[s] # "none" => s <= made

\* A timer is in the slot exactly while the stream in the registry has no
\* viewers: cancel() empties the slot, and only the last viewer fills it.
SlotHeld ==
  /\ slot # 0 => current # 0 /\ readers = 0
  /\ slot # 0 => idle[slot].stream = current /\ idle[slot].state # "over"

\* The inductive invariant.
HubInv == HubTypes /\ RegistryInv /\ SlotHeld

WatchersOf(s) == {v \in Viewers : watched[v] = s /\ s # 0}

LEMMA HubFacts ==
  ASSUME HubInv
  PROVE  /\ IsFiniteSet(Viewers) /\ 0 \notin Streams /\ MaxStreams \in Nat
         /\ readers = Cardinality(WatchersOf(current))
         /\ IsFiniteSet(WatchersOf(current))
         /\ made \in Nat
         /\ \A v \in Viewers : watched[v] = current /\ current # 0 => readers > 0
<1>1. IsFiniteSet(Viewers) /\ 0 \notin Streams /\ MaxStreams \in Nat
  BY HubRegistryAssumption DEF Streams
<1>2. readers = Cardinality(WatchersOf(current))
  BY DEF HubInv, RegistryInv, ReadersCounted, WatchersOf
<1>3. IsFiniteSet(WatchersOf(current))
  BY <1>1, FS_Subset DEF WatchersOf
<1>4. ASSUME NEW v \in Viewers, watched[v] = current, current # 0 PROVE readers > 0
  <2>1. v \in WatchersOf(current)
    BY <1>4 DEF WatchersOf
  <2>2. readers # 0
    BY <1>2, <1>3, <2>1, FS_EmptySet
  <2> QED
    BY <2>2 DEF HubInv, HubTypes
<1> QED
  BY <1>1, <1>2, <1>3, <1>4 DEF HubInv, HubTypes

LEMMA InitHubInv == HubRegistryInit => HubInv
<1> SUFFICES ASSUME HubRegistryInit PROVE HubInv
  OBVIOUS
<1> USE HubRegistryAssumption DEF HubRegistryInit
<1>1. HubTypes
  BY DEF HubTypes, Streams
<1>2. ReadersCounted
  <2>1. {v \in Viewers : watched[v] = current /\ current # 0} = {}
    OBVIOUS
  <2> QED
    BY <2>1, FS_EmptySet DEF ReadersCounted
<1>3. CurrentLives /\ NoOrphan /\ WatchedStays /\ SlotHeld
  BY DEF CurrentLives, NoOrphan, WatchedStays, SlotHeld
<1> QED
  BY <1>1, <1>2, <1>3 DEF HubInv, RegistryInv

-----------------------------------------------------------------------------
(* The steps of the registry.                                                *)

LEMMA CancelledFacts ==
  ASSUME HubTypes
  PROVE  Cancelled(slot) \in Seq(IdleTimers) /\ Len(Cancelled(slot)) = Len(idle)
<1>1. DOMAIN idle = 1..Len(idle) /\ Len(idle) \in Nat /\ \A i \in 1..Len(idle) : idle[i] \in IdleTimers
  BY DEF HubTypes
<1>2. \A i \in 1..Len(idle) : Cancelled(slot)[i] \in IdleTimers
  BY <1>1 DEF Cancelled, IdleTimers, TimerStates
<1>3. Cancelled(slot) \in [1..Len(idle) -> IdleTimers]
  BY <1>1, <1>2 DEF Cancelled
<1> QED
  BY <1>1, <1>3

\* A viewer comes: to the stream in the registry, or to a new one that nobody
\* else watches and no stop() is meant for.
LEMMA AcquireStep ==
  ASSUME HubInv, NEW v \in Viewers, NEW k \in Configs, Acquire(v, k) PROVE HubInv'
<1> DEFINE same == current # 0 /\ key[current] = k
           s == IF same THEN current ELSE made + 1
<1>1. /\ watched[v] = 0 /\ s \in Streams /\ current' = s
      /\ made' = IF same THEN made ELSE s
      /\ doomed' = IF current # 0 /\ ~same THEN doomed \cup {current} ELSE doomed
      /\ idle' = Cancelled(slot) /\ slot' = 0
      /\ readers' = IF same THEN readers + 1 ELSE 1
      /\ watched' = [watched EXCEPT ![v] = s]
      /\ pump' = Ensured(s) /\ halted' = halted
  BY DEF Acquire
<1>2. /\ made \in 0..MaxStreams /\ current \in {0, made} /\ readers \in Nat
      /\ watched \in [Viewers -> 0..made] /\ MaxStreams \in Nat
      /\ doomed \subseteq 1..made /\ halted \subseteq 1..made
  BY HubFacts DEF HubInv, HubTypes
<1>3. s = made' /\ current' = made' /\ made' \in 1..MaxStreams /\ made <= made' /\ s \in Nat
  BY <1>1, <1>2 DEF Streams
<1>4. \A u \in Viewers : watched'[u] = IF u = v THEN s ELSE watched[u]
  BY <1>1, <1>2
<1>5. doomed \cup halted \subseteq 1..made /\ current \notin doomed \cup halted
  BY <1>2 DEF HubInv, RegistryInv, CurrentLives
<1>6. pump' \in [Streams -> {"none", "build", "open", "over"}] /\ pump'[s] # "none"
      /\ \A r \in Streams \ {s} : pump'[r] = pump[r]
  BY <1>1 DEF Ensured, HubInv, HubTypes
<1>7. HubTypes'
  <2>1. idle' \in Seq(IdleTimers) /\ slot' = 0
    BY <1>1, CancelledFacts DEF HubInv
  <2>2. readers' \in Nat
    BY <1>1, <1>2
  <2>3. watched' \in [Viewers -> 0..made']
    BY <1>1, <1>2, <1>3
  <2>4. doomed' \subseteq 1..made' /\ halted' \subseteq 1..made'
    BY <1>1, <1>2, <1>3
  <2>5. \A r \in Streams : pump'[r] # "none" => r <= made'
    BY <1>2, <1>3, <1>6 DEF HubInv, HubTypes, Streams
  <2> QED
    BY <1>3, <1>6, <2>1, <2>2, <2>3, <2>4, <2>5 DEF HubTypes
<1>8. ReadersCounted'
  <2> DEFINE watchers == {u \in Viewers : watched'[u] = current' /\ current' # 0}
  <2>1. CASE same
    <3>1. current' = current /\ current # 0
      BY <1>1, <2>1
    <3>2. watchers = WatchersOf(current) \cup {v} /\ v \notin WatchersOf(current)
      BY <1>1, <1>4, <3>1 DEF WatchersOf
    <3>3. IsFiniteSet(WatchersOf(current)) /\ readers = Cardinality(WatchersOf(current))
      BY HubFacts
    <3>4. Cardinality(watchers) = readers + 1
      BY <3>2, <3>3, FS_AddElement
    <3> QED
      BY <1>1, <2>1, <3>4 DEF ReadersCounted
  <2>2. CASE ~same
    <3>1. current' = made + 1 /\ \A u \in Viewers : watched[u] # made + 1
      BY <1>1, <1>2, <2>2
    <3>2. watchers = {v}
      BY <1>1, <1>2, <1>4, <3>1
    <3>3. Cardinality(watchers) = 1
      BY <3>2, FS_Singleton
    <3> QED
      BY <1>1, <2>2, <3>3 DEF ReadersCounted
  <2> QED
    BY <2>1, <2>2
<1>9. CurrentLives' /\ WatchedStays'
  <2>1. CurrentLives'
    BY <1>1, <1>2, <1>3, <1>5 DEF CurrentLives
  <2>2. WatchedStays'
    BY <1>1, <1>2, <1>3, <1>4 DEF HubInv, RegistryInv, WatchedStays
  <2> QED
    BY <2>1, <2>2
<1>10. NoOrphan' /\ SlotHeld'
  <2>1. readers' # 0 /\ slot' = 0
    BY <1>1, <1>2
  <2>2. ASSUME NEW r \in Streams, pump'[r] \in {"build", "open"}
        PROVE  r \in {current'} \cup doomed' \cup halted'
    <3>1. CASE r = s
      BY <1>1, <3>1
    <3>2. CASE r # s
      <4>1. r \in {current} \cup doomed \cup halted
        BY <1>6, <2>2, <3>2 DEF HubInv, RegistryInv, NoOrphan
      <4>2. r # 0
        BY HubFacts
      <4>3. doomed \subseteq doomed' /\ halted' = halted
        BY <1>1
      <4>4. r = current => r \in doomed'
        BY <1>1, <3>2, <4>2
      <4> QED
        BY <4>1, <4>3, <4>4
    <3> QED
      BY <3>1, <3>2
  <2> QED
    BY <2>1, <2>2 DEF NoOrphan, SlotHeld
<1> QED
  BY <1>7, <1>8, <1>9, <1>10 DEF HubInv, RegistryInv

\* A viewer goes: the last one of the stream in the registry leaves a timer.
LEMMA ReleaseStep ==
  ASSUME HubInv, NEW v \in Viewers, Release(v) PROVE HubInv'
<1>1. /\ watched[v] # 0 /\ watched' = [watched EXCEPT ![v] = 0]
      /\ UNCHANGED <<current, key, made, doomed, halted, pump>>
  BY DEF Release, pumpVars
<1>2. /\ watched \in [Viewers -> 0..made] /\ readers \in Nat /\ idle \in Seq(IdleTimers)
      /\ made \in Nat /\ current \in {0, made}
  BY HubFacts DEF HubInv, HubTypes
<1>3. \A u \in Viewers : watched'[u] = IF u = v THEN 0 ELSE watched[u]
  BY <1>1, <1>2
<1>4. watched' \in [Viewers -> 0..made]
  BY <1>1, <1>2
<1>5. CurrentLives' /\ WatchedStays'
  BY <1>1, <1>3 DEF HubInv, RegistryInv, CurrentLives, WatchedStays
<1>6. \A s \in Streams : pump'[s] \in {"build", "open"} => s \in {current'} \cup doomed' \cup halted'
  BY <1>1 DEF HubInv, RegistryInv, NoOrphan
<1>7. CASE current = watched[v]
  <2>1. readers > 0 /\ slot = 0 /\ current \in Streams
    <3>1. readers > 0
      BY <1>1, <1>7, HubFacts
    <3>2. current \in Streams
      BY <1>1, <1>2, <1>7 DEF HubInv, HubTypes, Streams
    <3> QED
      BY <3>1, <3>2 DEF HubInv, SlotHeld
  <2>2. /\ readers' = readers - 1
        /\ readers' = 0 => /\ idle' = Append(idle, [stream |-> current, state |-> "armed"])
                           /\ slot' = Len(idle')
        /\ readers' # 0 => UNCHANGED <<idle, slot>>
    BY <1>7, <2>1 DEF Release, Current
  <2>3. ReadersCounted'
    <3>1. WatchersOf(current)' = WatchersOf(current) \ {v} /\ v \in WatchersOf(current)
      BY <1>1, <1>3, <1>7 DEF WatchersOf
    <3>2. IsFiniteSet(WatchersOf(current)) /\ readers = Cardinality(WatchersOf(current))
      BY HubFacts
    <3>3. readers' = Cardinality(WatchersOf(current)')
      BY <2>2, <3>1, <3>2, FS_RemoveElement
    <3> QED
      BY <3>3 DEF ReadersCounted, WatchersOf
  <2>4. CASE readers' = 0
    <3> DEFINE timer == [stream |-> current, state |-> "armed"]
    <3>1. timer \in IdleTimers
      BY <2>1 DEF IdleTimers, TimerStates
    <3> HIDE DEF timer
    <3>2. /\ idle' \in Seq(IdleTimers) /\ Len(idle') = Len(idle) + 1
          /\ slot' = Len(idle) + 1 /\ idle'[slot'] = timer /\ slot' \in DOMAIN idle' /\ slot' # 0
      <4>1. idle' = Append(idle, timer) /\ slot' = Len(idle')
        BY <2>2, <2>4 DEF timer
      <4>2. Len(idle) \in Nat /\ Len(idle') = Len(idle) + 1 /\ idle'[Len(idle) + 1] = timer
        BY <1>2, <3>1, <4>1
      <4>3. idle' \in Seq(IdleTimers) /\ DOMAIN idle' = 1..(Len(idle) + 1)
        BY <1>2, <3>1, <4>1
      <4> QED
        BY <4>1, <4>2, <4>3
    <3>3. idle'[slot'].stream = current /\ idle'[slot'].state = "armed"
      BY <3>2 DEF timer
    <3>4. HubTypes'
      BY <1>1, <1>4, <2>4, <3>2 DEF HubInv, HubTypes
    <3>5. NoOrphan' /\ SlotHeld'
      BY <1>1, <1>6, <2>1, <2>4, <3>2, <3>3, HubFacts DEF NoOrphan, SlotHeld
    <3> QED
      BY <1>5, <2>3, <3>4, <3>5 DEF HubInv, RegistryInv
  <2>5. CASE readers' # 0
    <3>1. HubTypes'
      BY <1>1, <1>2, <1>4, <2>1, <2>2, <2>5 DEF HubInv, HubTypes
    <3>2. NoOrphan' /\ SlotHeld'
      BY <1>6, <2>1, <2>2, <2>5 DEF NoOrphan, SlotHeld
    <3> QED
      BY <1>5, <2>3, <3>1, <3>2 DEF HubInv, RegistryInv
  <2> QED
    BY <2>4, <2>5
<1>8. CASE current # watched[v]
  <2>1. UNCHANGED <<readers, idle, slot>>
    BY <1>8 DEF Release, Current
  <2>2. ReadersCounted'
    <3>1. WatchersOf(current)' = WatchersOf(current)
      BY <1>1, <1>3, <1>8 DEF WatchersOf
    <3> QED
      BY <1>1, <2>1, <3>1, HubFacts DEF ReadersCounted, WatchersOf
  <2>3. HubTypes'
    BY <1>1, <1>4, <2>1 DEF HubInv, HubTypes
  <2>4. NoOrphan' /\ SlotHeld'
    BY <1>1, <1>6, <2>1 DEF HubInv, RegistryInv, NoOrphan, SlotHeld
  <2> QED
    BY <1>5, <2>2, <2>3, <2>4 DEF HubInv, RegistryInv
<1> QED
  BY <1>7, <1>8

\* A timer in the slot is due at most.
LEMMA ExpireStep == ASSUME HubInv, NEW t \in Timers, Expire(t) PROVE HubInv'
<1>1. /\ t \in DOMAIN idle /\ idle[t].state = "armed"
      /\ idle' = [idle EXCEPT ![t].state = "due"]
      /\ UNCHANGED <<current, key, made, readers, slot, watched, doomed, halted, pump>>
  BY DEF Expire, pumpVars
<1>2. idle \in Seq(IdleTimers)
  BY DEF HubInv, HubTypes
<1>3. /\ DOMAIN idle' = DOMAIN idle
      /\ \A i \in DOMAIN idle : /\ idle'[i].stream = idle[i].stream
                                /\ idle'[i].state = IF i = t THEN "due" ELSE idle[i].state
  BY <1>1, <1>2 DEF IdleTimers
<1>4. idle' \in Seq(IdleTimers)
  <2>1. ASSUME NEW i \in 1..Len(idle) PROVE idle'[i] \in IdleTimers
    <3>1. idle[i] \in IdleTimers
      BY <1>2, <2>1
    <3> QED
      BY <1>1, <3>1 DEF IdleTimers, TimerStates
  <2>2. idle' \in [1..Len(idle) -> IdleTimers]
    BY <1>1, <1>2, <2>1
  <2> QED
    BY <1>2, <2>2
<1>5. HubTypes'
  BY <1>1, <1>3, <1>4 DEF HubInv, HubTypes
<1>6. ReadersCounted' /\ CurrentLives' /\ WatchedStays'
  BY <1>1 DEF HubInv, RegistryInv, ReadersCounted, CurrentLives, WatchedStays
<1>7. NoOrphan' /\ SlotHeld'
  BY <1>1, <1>3 DEF HubInv, HubTypes, RegistryInv, NoOrphan, SlotHeld
<1> QED
  BY <1>5, <1>6, <1>7 DEF HubInv, RegistryInv

\* The timer in the slot does retire the stream: it has no viewers.  Another one
\* may, and takes the timer in the slot with it.
LEMMA RetireStep == ASSUME HubInv, NEW t \in Timers, Retire(t) PROVE HubInv'
<1>1. /\ t \in DOMAIN idle /\ idle[t].state = "due"
      /\ idle' = [idle EXCEPT ![t].state = "over"]
      /\ UNCHANGED <<key, made, watched, halted, pump>>
  BY DEF Retire, pumpVars
<1>2. idle \in Seq(IdleTimers) /\ made \in Nat /\ current \in {0, made}
  BY HubFacts DEF HubInv, HubTypes
<1>3. /\ DOMAIN idle' = DOMAIN idle
      /\ \A i \in DOMAIN idle : /\ idle'[i].stream = idle[i].stream
                                /\ idle'[i].state = IF i = t THEN "over" ELSE idle[i].state
  BY <1>1, <1>2 DEF IdleTimers
<1>4. idle' \in Seq(IdleTimers)
  <2>1. ASSUME NEW i \in 1..Len(idle) PROVE idle'[i] \in IdleTimers
    <3>1. idle[i] \in IdleTimers
      BY <1>2, <2>1
    <3> QED
      BY <1>1, <3>1 DEF IdleTimers, TimerStates
  <2>2. idle' \in [1..Len(idle) -> IdleTimers]
    BY <1>1, <1>2, <2>1, SMTT(30)
  <2> QED
    BY <1>2, <2>2
<1>5. CASE current = idle[t].stream /\ readers = 0
  <2>1. current' = 0 /\ readers' = 0 /\ slot' = 0 /\ doomed' = doomed \cup {current}
    BY <1>5 DEF Retire, Unwatched, Current
  <2>2. current \in 1..made
    <3>1. idle[t] \in IdleTimers
      BY <1>1, <1>2
    <3>2. current \in Nat /\ current > 0
      BY <1>5, <3>1, HubFacts DEF IdleTimers, Streams
    <3> QED
      BY <1>2, <3>2
  <2>3. HubTypes'
    BY <1>1, <1>4, <2>1, <2>2 DEF HubInv, HubTypes
  <2>4. ReadersCounted'
    <3>1. {v \in Viewers : watched'[v] = current' /\ current' # 0} = {}
      BY <2>1
    <3> QED
      BY <2>1, <3>1, FS_EmptySet DEF ReadersCounted
  <2>5. CurrentLives' /\ NoOrphan' /\ SlotHeld'
    <3>1. 0 \notin doomed' \cup halted'
      BY <1>1, <2>1, <2>2 DEF HubInv, HubTypes
    <3> QED
      BY <1>1, <2>1, <3>1 DEF HubInv, RegistryInv, CurrentLives, NoOrphan, SlotHeld
  <2>6. WatchedStays'
    <3> SUFFICES ASSUME NEW v \in Viewers, watched[v] # 0 PROVE watched[v] < made
      BY <1>1, <2>1 DEF WatchedStays
    <3>1. watched[v] # current
      BY <1>5, <2>2, HubFacts
    <3> QED
      BY <3>1 DEF HubInv, RegistryInv, WatchedStays
  <2> QED
    BY <2>3, <2>4, <2>5, <2>6 DEF HubInv, RegistryInv
<1>6. CASE ~(current = idle[t].stream /\ readers = 0)
  <2>1. UNCHANGED <<current, readers, slot, doomed>>
    BY <1>6 DEF Retire, Unwatched, Current
  <2>2. slot # 0 => slot # t
    BY <1>6 DEF HubInv, SlotHeld
  <2>3. HubTypes'
    BY <1>1, <1>3, <1>4, <2>1 DEF HubInv, HubTypes
  <2>4. ReadersCounted' /\ CurrentLives' /\ WatchedStays'
    BY <1>1, <2>1 DEF HubInv, RegistryInv, ReadersCounted, CurrentLives, WatchedStays
  <2>5. NoOrphan' /\ SlotHeld'
    BY <1>1, <1>3, <2>1, <2>2 DEF HubInv, HubTypes, RegistryInv, NoOrphan, SlotHeld
  <2> QED
    BY <2>3, <2>4, <2>5 DEF HubInv, RegistryInv
<1> QED
  BY <1>5, <1>6

\* stop() and the pump leave the registry alone.
LEMMA PumpStep ==
  ASSUME HubInv, NEW s \in Streams, Stop(s) \/ Open(s) \/ BuildFails(s) \/ SourceEnds(s) \/ FrameComes(s)
  PROVE  HubInv'
<1>1. /\ UNCHANGED <<current, key, made, readers, slot, idle, watched>>
      /\ doomed' \cup halted' = doomed \cup halted
  BY DEF Stop, Open, BuildFails, SourceEnds, FrameComes, registryVars
<1>2. /\ pump' \in [Streams -> {"none", "build", "open", "over"}]
      /\ \A r \in Streams : pump[r] = "none" => pump'[r] = "none"
      /\ \A r \in Streams : pump'[r] \in {"build", "open"} => pump[r] \in {"build", "open"}
  BY DEF HubInv, HubTypes, Stop, Open, BuildFails, SourceEnds, FrameComes
<1>3. HubTypes'
  BY <1>1, <1>2 DEF HubInv, HubTypes
<1>4. RegistryInv' /\ SlotHeld'
  BY <1>1, <1>2 DEF HubInv, RegistryInv, ReadersCounted, CurrentLives, NoOrphan, WatchedStays, SlotHeld
<1> QED
  BY <1>3, <1>4 DEF HubInv

LEMMA HubInvKept == HubInv /\ [HubRegistryNext]_hubRegistryVars => HubInv'
<1> SUFFICES ASSUME HubInv, [HubRegistryNext]_hubRegistryVars PROVE HubInv'
  OBVIOUS
<1>1. CASE Watching
  BY <1>1, AcquireStep, ReleaseStep DEF Watching
<1>2. CASE Retiring
  BY <1>2, ExpireStep, RetireStep, PumpStep DEF Retiring
<1>3. CASE Pumping
  BY <1>3, PumpStep DEF Pumping
<1>4. CASE UNCHANGED hubRegistryVars
  BY <1>4 DEF hubRegistryVars, registryVars, pumpVars, HubInv, HubTypes, RegistryInv,
              ReadersCounted, CurrentLives, NoOrphan, WatchedStays, SlotHeld
<1> QED
  BY <1>1, <1>2, <1>3, <1>4 DEF HubRegistryNext

\* No viewer is left on a stopped stream, and none that nobody watches is left
\* without a timer, however acquire, release, timers and pumps interleave.
THEOREM RegistryTheorem == HubRegistrySpec => []RegistryInv
<1>1. HubInv => RegistryInv
  BY DEF HubInv
<1> QED
  BY <1>1, InitHubInv, HubInvKept, PTL DEF HubRegistrySpec

-----------------------------------------------------------------------------
(* The bitstream relay.                                                      *)

SenderPlaces == {"none", "header", "wait", "send", "over"}
ConnPlaces == {"none", "open", "shut", "closed"}

RelayTypes ==
  /\ units \in Nat /\ audience \subseteq Clients /\ listed \subseteq Clients
  /\ begun \subseteq Clients /\ dead \subseteq Clients
  /\ conn \in [Clients -> ConnPlaces] /\ sender \in [Clients -> SenderPlaces]
  /\ pending \in [Clients -> Seq(Nat)] /\ inHand \in [Clients -> Seq(Nat)]
  /\ received \in [Clients -> Seq(Nat)]

\* A client that was given something, or that push is about to come to, is listed
\* while it lives, so that the next push comes to it; one that has nothing has
\* not begun.
Served ==
  /\ begun \cup audience \subseteq listed \cup dead
  /\ \A c \in Clients : Stream(c) # <<>> <=> c \in begun

\* The stream of a live client ends with the access unit before the one that
\* push is about to hand to it, or with that one.
KeepsUp ==
  \A c \in begun \ dead :
    Stream(c)[Len(Stream(c))] = IF c \in audience THEN units - 1 ELSE units

\* Between two access units a sender has none in its hand, and a client that has
\* not connected has no sender.
EmptyHanded ==
  \A c \in Clients :
    /\ sender[c] \in {"none", "header", "wait"} => inHand[c] = <<>>
    /\ conn[c] = "none" => sender[c] = "none"

\* The inductive invariant.
ServeInv ==
  /\ RelayTypes /\ Served /\ KeepsUp /\ EmptyHanded
  /\ NoGaps /\ BacklogBounded

LEMMA ServeInvImplies == ServeInv => RelayInv
<1> SUFFICES ASSUME ServeInv PROVE NobodyLeftOut
  BY DEF ServeInv, RelayInv
<1> QED
  BY DEF ServeInv, RelayTypes, KeepsUp, NobodyLeftOut, Last

LEMMA InitServeInv == RelayInit => ServeInv
<1> SUFFICES ASSUME RelayInit PROVE ServeInv
  OBVIOUS
<1> USE RelayAssumption DEF RelayInit
<1>1. RelayTypes
  BY DEF RelayTypes, SenderPlaces, ConnPlaces
<1>2. \A c \in Clients : Stream(c) = <<>> /\ Len(pending[c]) = 0
  BY DEF Stream
<1>3. Served /\ KeepsUp /\ EmptyHanded /\ NoGaps /\ BacklogBounded
  BY <1>2 DEF Served, KeepsUp, EmptyHanded, NoGaps, BacklogBounded
<1> QED
  BY <1>1, <1>3 DEF ServeInv

\* What a sequence of three parts is, and what it does not change.
LEMMA ThreeParts ==
  ASSUME NEW r \in Seq(Nat), NEW h \in Seq(Nat), NEW p \in Seq(Nat)
  PROVE  r \o h \o p \in Seq(Nat)
  OBVIOUS

LEMMA PartAppended ==
  ASSUME NEW r \in Seq(Nat), NEW h \in Seq(Nat), NEW p \in Seq(Nat), NEW x \in Nat
  PROVE  r \o h \o Append(p, x) = Append(r \o h \o p, x)
  OBVIOUS

LEMMA PartEmptied ==
  ASSUME NEW r \in Seq(Nat), NEW h \in Seq(Nat), NEW p \in Seq(Nat)
  PROVE  r \o h \o <<>> \o p = r \o h \o p
  OBVIOUS

LEMMA PartMoved ==
  ASSUME NEW r \in Seq(Nat), NEW p \in Seq(Nat), p # <<>>
  PROVE  r \o <<Head(p)>> \o Tail(p) = r \o <<>> \o p
<1>1. Head(p) \in Nat /\ Tail(p) \in Seq(Nat) /\ Len(Tail(p)) = Len(p) - 1
  OBVIOUS
<1>2. r \o <<Head(p)>> \o Tail(p) = r \o p
  BY <1>1
<1>3. r \o <<>> = r
  OBVIOUS
<1> QED
  BY <1>2, <1>3

-----------------------------------------------------------------------------
\* Whatever leaves every stream and the pusher alone, and forgets nobody.
LEMMA StreamsKept ==
  ASSUME ServeInv, RelayTypes', UNCHANGED tapVars, begun' = begun,
         \A c \in Clients : Stream(c)' = Stream(c),
         dead \subseteq dead', listed \subseteq listed' \cup dead',
         \A c \in Clients : Len(pending'[c]) <= Len(pending[c]),
         EmptyHanded'
  PROVE  ServeInv'
<1> USE DEF ServeInv, tapVars
<1>1. Served'
  <2>1. \A c \in Clients : Stream(c)' # <<>> <=> c \in begun'
    BY DEF Served
  <2>2. begun' \cup audience' \subseteq listed' \cup dead'
    BY DEF Served
  <2> QED
    BY <2>1, <2>2 DEF Served
<1>4. KeepsUp'
  <2> SUFFICES ASSUME NEW c \in begun \ dead
               PROVE  (Stream(c)[Len(Stream(c))] = IF c \in audience THEN units - 1 ELSE units)'
    BY DEF KeepsUp
  <2>1. c \in Clients
    BY DEF RelayTypes
  <2>2. Stream(c)[Len(Stream(c))] = IF c \in audience THEN units - 1 ELSE units
    BY DEF KeepsUp
  <2> QED
    BY <2>1, <2>2
<1>2. NoGaps'
  BY DEF NoGaps
<1>3. BacklogBounded'
  <2> SUFFICES ASSUME NEW c \in Clients
               PROVE  Len(pending'[c]) <= MaxBacklog + 1 /\ (Len(pending'[c]) > MaxBacklog => c \in dead')
    BY DEF BacklogBounded
  <2>1. Len(pending'[c]) \in Nat /\ Len(pending[c]) \in Nat /\ Len(pending'[c]) <= Len(pending[c])
    BY DEF RelayTypes
  <2> QED
    BY <2>1, RelayAssumption DEF BacklogBounded
<1> QED
  BY <1>1, <1>2, <1>3, <1>4

\* push: everybody who lives was served with the access unit before.
LEMMA PushStep == ASSUME ServeInv, NEW k \in BOOLEAN, Push(k) PROVE ServeInv'
<1> USE DEF ServeInv
<1>1. /\ audience = {} /\ units' = units + 1 /\ audience' = listed
      /\ keyframes \subseteq keyframes'
      /\ UNCHANGED <<listed, conn, sender, pending, inHand, received, begun, dead>>
  BY DEF Push, clientVars
<1>2. \A c \in Clients : Stream(c)' = Stream(c)
  BY <1>1 DEF Stream
<1>3. RelayTypes'
  BY <1>1 DEF RelayTypes
<1>4. Served' /\ EmptyHanded' /\ BacklogBounded'
  BY <1>1, <1>2 DEF Served, EmptyHanded, BacklogBounded
<1>5. NoGaps'
  BY <1>1, <1>2 DEF NoGaps
<1>6. KeepsUp'
  <2> SUFFICES ASSUME NEW c \in begun \ dead
               PROVE  Stream(c)[Len(Stream(c))] = IF c \in listed THEN units' - 1 ELSE units'
    BY <1>1, <1>2 DEF KeepsUp, RelayTypes
  <2>1. c \in listed /\ Stream(c)[Len(Stream(c))] = units
    BY <1>1 DEF Served, KeepsUp
  <2> QED
    BY <1>1, <2>1 DEF RelayTypes
<1> QED
  BY <1>3, <1>4, <1>5, <1>6

\* The number that follows the n-th after h.
LEMMA NumberAfter == \A h, n, u \in Nat : u - 1 = h + n - 1 => u = h + n
  OBVIOUS

\* push, for one client.
LEMMA PushToStep == ASSUME ServeInv, NEW c \in Clients, PushTo(c) PROVE ServeInv'
<1> USE DEF ServeInv
<1>1. /\ c \in audience /\ audience' = audience \ {c}
      /\ UNCHANGED <<units, keyframes, listed, sender, inHand, received>>
  BY DEF PushTo
<1>2. CASE c \in dead \/ ~Begins(c)
  <2>1. UNCHANGED <<pending, begun, dead, conn>>
    BY <1>2 DEF PushTo
  <2>2. \A d \in Clients : Stream(d)' = Stream(d)
    BY <1>1, <2>1 DEF Stream
  <2>3. c \in dead \/ c \notin begun
    BY <1>2 DEF Begins
  <2>4. KeepsUp'
    BY <1>1, <2>1, <2>2, <2>3 DEF KeepsUp, RelayTypes
  <2>5. RelayTypes' /\ Served' /\ EmptyHanded' /\ BacklogBounded'
    BY <1>1, <2>1, <2>2 DEF RelayTypes, Served, EmptyHanded, BacklogBounded, clientVars
  <2>6. NoGaps'
    BY <1>1, <2>2 DEF NoGaps
  <2> QED
    BY <2>4, <2>5, <2>6
<1>3. CASE c \notin dead /\ Begins(c)
  <2>1. /\ begun' = begun \cup {c}
        /\ pending' = [pending EXCEPT ![c] = Append(@, units)]
        /\ dead' = IF Overruns(c) THEN dead \cup {c} ELSE dead
        /\ conn' = IF Overruns(c) THEN Shut({c}) ELSE conn
    BY <1>3 DEF PushTo
  <2>2. units \in Nat /\ pending[c] \in Seq(Nat) /\ received[c] \in Seq(Nat) /\ inHand[c] \in Seq(Nat)
    BY DEF RelayTypes
  <2>3. Stream(c) \in Seq(Nat) /\ Stream(c)' = Append(Stream(c), units)
    <3>1. pending'[c] = Append(pending[c], units)
      BY <2>1 DEF RelayTypes
    <3>2. Stream(c) = received[c] \o inHand[c] \o pending[c]
      BY DEF Stream
    <3>3. Stream(c)' = received[c] \o inHand[c] \o Append(pending[c], units)
      BY <1>1, <3>1 DEF Stream
    <3>4. received[c] \o inHand[c] \o pending[c] \in Seq(Nat)
      BY <2>2, ThreeParts
    <3>5. received[c] \o inHand[c] \o Append(pending[c], units)
            = Append(received[c] \o inHand[c] \o pending[c], units)
      BY <2>2, PartAppended
    <3> QED
      BY <3>2, <3>3, <3>4, <3>5
  <2>4. \A d \in Clients \ {c} : Stream(d)' = Stream(d) /\ pending'[d] = pending[d]
    BY <1>1, <2>1 DEF Stream, RelayTypes
  <2>5. RelayTypes'
    BY <1>1, <2>1, <2>2 DEF RelayTypes, Shut, ConnPlaces
  <2>6. Served'
    <3>1. Stream(c)' # <<>>
      <4>1. Len(Append(Stream(c), units)) = Len(Stream(c)) + 1 /\ Len(Stream(c)) \in Nat
        BY <2>2, <2>3
      <4>2. Append(Stream(c), units) # <<>>
        BY <4>1
      <4> QED
        BY <2>3, <4>2
    <3>2. \A d \in Clients : Stream(d)' # <<>> <=> d \in begun'
      BY <2>1, <2>4, <3>1 DEF Served
    <3>3. begun' \cup audience' \subseteq listed' \cup dead'
      <4>1. c \in listed \cup dead
        BY <1>1 DEF Served
      <4> QED
        BY <1>1, <2>1, <4>1 DEF Served
    <3> QED
      BY <3>2, <3>3 DEF Served
  <2>7. KeepsUp'
    <3> SUFFICES ASSUME NEW d \in begun' \ dead'
                 PROVE  (Stream(d)[Len(Stream(d))] = IF d \in audience THEN units - 1 ELSE units)'
      BY DEF KeepsUp
    <3>1. CASE d = c
      <4>1. Append(Stream(c), units)[Len(Append(Stream(c), units))] = units
        BY <2>2, <2>3
      <4> QED
        BY <1>1, <2>3, <3>1, <4>1
    <3>2. CASE d # c
      <4>1. d \in begun \ dead /\ d \in Clients
        BY <2>1, <3>2 DEF RelayTypes
      <4> QED
        BY <1>1, <2>4, <3>2, <4>1 DEF KeepsUp
    <3> QED
      BY <3>1, <3>2
  <2>8. NoGaps'
    <3>1. ASSUME NEW d \in Clients \ {c}, Stream(d)' # <<>>
          PROVE  /\ Head(Stream(d)') \in keyframes'
                 /\ \A i \in DOMAIN Stream(d)' : Stream(d)'[i] = Head(Stream(d)') + i - 1
      BY <1>1, <2>4, <3>1 DEF NoGaps
    <3> DEFINE s == Stream(c)
               w == Append(s, units)
    <3>2. s \in Seq(Nat) /\ Len(w) = Len(s) + 1 /\ w[Len(s) + 1] = units
          /\ DOMAIN w = 1..(Len(s) + 1) /\ \A i \in 1..Len(s) : w[i] = s[i]
      BY <2>2, <2>3
    <3>3. CASE s = <<>>
      <4>1. c \notin begun /\ units \in keyframes
        BY <1>3, <3>3 DEF Served, Begins
      <4>2. Len(s) = 0 /\ Head(w) = units
        BY <2>2, <3>3
      <4>3. \A i \in DOMAIN w : w[i] = Head(w) + i - 1
        BY <2>2, <3>2, <4>2
      <4> QED
        BY <1>1, <2>3, <3>1, <4>1, <4>2, <4>3 DEF NoGaps
    <3>4. CASE s # <<>>
      <4>1. c \in begun \ dead
        BY <1>3, <3>4 DEF Served
      <4>2. s[Len(s)] = units - 1
        BY <1>1, <4>1 DEF KeepsUp
      <4>3. Head(s) \in keyframes /\ \A i \in DOMAIN s : s[i] = Head(s) + i - 1
        BY <3>4 DEF NoGaps
      <4>4. Len(s) \in Nat /\ Len(s) > 0 /\ DOMAIN s = 1..Len(s) /\ Head(s) \in Nat
        BY <3>2, <3>4
      <4>6. Head(w) = Head(s)
        BY <2>2, <3>2, <3>4, <4>4
      <4> HIDE DEF s, w
      <4>5. units = Head(s) + Len(s)
        <5>1. Len(s) \in DOMAIN s
          BY <4>4
        <5>2. s[Len(s)] = Head(s) + Len(s) - 1
          BY <4>3, <5>1
        <5>3. units - 1 = Head(s) + Len(s) - 1
          BY <4>2, <5>2, Zenon
        <5>4. units \in Nat
          BY <2>2
        <5> QED
          BY <4>4, <5>3, <5>4, NumberAfter
      <4>7. ASSUME NEW i \in DOMAIN w PROVE w[i] = Head(w) + i - 1
        <5>1. CASE i = Len(s) + 1
          BY <3>2, <4>4, <4>5, <4>6, <5>1
        <5>2. CASE i \in 1..Len(s)
          BY <3>2, <4>3, <4>4, <4>6, <5>2
        <5> QED
          BY <3>2, <4>4, <5>1, <5>2
      <4> QED
        BY <1>1, <2>3, <3>1, <4>3, <4>6, <4>7 DEF NoGaps, s, w
    <3> QED
      BY <3>3, <3>4
  <2>9. BacklogBounded'
    <3> SUFFICES ASSUME NEW d \in Clients
                 PROVE  Len(pending'[d]) <= MaxBacklog + 1 /\ (Len(pending'[d]) > MaxBacklog => d \in dead')
      BY DEF BacklogBounded
    <3>1. CASE d = c
      <4>1. Len(pending'[c]) = Len(pending[c]) + 1 /\ Len(pending[c]) \in Nat
        BY <2>1, <2>2 DEF RelayTypes
      <4>2. Len(pending[c]) <= MaxBacklog
        BY <1>3, <4>1, RelayAssumption DEF BacklogBounded
      <4> QED
        BY <2>1, <3>1, <4>1, <4>2, RelayAssumption DEF Overruns
    <3>2. CASE d # c
      BY <2>1, <2>4, <3>2 DEF BacklogBounded
    <3> QED
      BY <3>1, <3>2
  <2>10. EmptyHanded'
    BY <1>1, <2>1 DEF EmptyHanded, Shut
  <2> QED
    BY <2>5, <2>6, <2>7, <2>8, <2>9, <2>10
<1> QED
  BY <1>2, <1>3

\* The sender takes the oldest access unit and hands it to the kernel: it stays
\* in the stream.
LEMMA TakeStep == ASSUME ServeInv, NEW c \in Clients, Take(c) PROVE ServeInv'
<1> USE DEF ServeInv
<1>1. sender[c] = "wait" /\ UNCHANGED <<units, keyframes, audience, listed, conn, received, begun, dead>>
  BY DEF Take, tapVars
<1>2. CASE Ends(c) /\ sender' = [sender EXCEPT ![c] = "over"] /\ UNCHANGED <<pending, inHand>>
  <2>1. RelayTypes'
    BY <1>1, <1>2 DEF RelayTypes, SenderPlaces
  <2>2. EmptyHanded'
    BY <1>1, <1>2 DEF EmptyHanded, RelayTypes
  <2>3. \A d \in Clients : Stream(d)' = Stream(d) /\ Len(pending'[d]) <= Len(pending[d])
    BY <1>1, <1>2 DEF Stream, RelayTypes
  <2> QED
    BY <1>1, <2>1, <2>2, <2>3, StreamsKept DEF tapVars
<1>3. CASE /\ ~Ends(c) /\ pending[c] # <<>>
           /\ sender' = [sender EXCEPT ![c] = "send"]
           /\ inHand' = [inHand EXCEPT ![c] = <<Popped(c)>>]
           /\ pending' = [pending EXCEPT ![c] = Tail(@)]
  <2>1. /\ pending[c] \in Seq(Nat) /\ received[c] \in Seq(Nat) /\ inHand[c] = <<>>
    BY <1>1 DEF RelayTypes, EmptyHanded
  <2>2. Head(pending[c]) \in Nat /\ Tail(pending[c]) \in Seq(Nat) /\ Len(Tail(pending[c])) <= Len(pending[c])
    BY <1>3, <2>1
  <2>3. inHand'[c] = <<Head(pending[c])>> /\ pending'[c] = Tail(pending[c])
        /\ <<Head(pending[c])>> \in Seq(Nat)
    BY <1>3, <2>2 DEF RelayTypes, Popped
  <2>4. Stream(c)' = Stream(c)
    <3>1. Stream(c) = received[c] \o inHand[c] \o pending[c]
      BY DEF Stream
    <3>2. Stream(c)' = received[c] \o <<Head(pending[c])>> \o Tail(pending[c])
      BY <1>1, <2>3 DEF Stream
    <3>3. received[c] \o <<Head(pending[c])>> \o Tail(pending[c])
            = received[c] \o <<>> \o pending[c]
      BY <1>3, <2>1, PartMoved
    <3> QED
      BY <2>1, <3>1, <3>2, <3>3
  <2>5. \A d \in Clients \ {c} : Stream(d)' = Stream(d) /\ pending'[d] = pending[d]
    BY <1>1, <1>3 DEF Stream, RelayTypes
  <2>6. RelayTypes'
    BY <1>1, <1>3, <2>2, <2>3 DEF RelayTypes, SenderPlaces, Popped
  <2>7. EmptyHanded'
    BY <1>1, <1>3 DEF EmptyHanded, RelayTypes
  <2>8. \A d \in Clients : Len(pending'[d]) <= Len(pending[d])
    <3>1. Len(pending'[c]) <= Len(pending[c])
      BY <2>2, <2>3
    <3>2. \A d \in Clients \ {c} : Len(pending'[d]) <= Len(pending[d])
      BY <2>5 DEF RelayTypes
    <3> QED
      BY <3>1, <3>2
  <2> QED
    BY <1>1, <2>4, <2>5, <2>6, <2>7, <2>8, StreamsKept DEF tapVars
<1> QED
  BY <1>2, <1>3 DEF Take

LEMMA SentStep == ASSUME ServeInv, NEW c \in Clients, Sent(c) PROVE ServeInv'
<1> USE DEF ServeInv
<1>1. /\ received' = [received EXCEPT ![c] = @ \o inHand[c]]
      /\ inHand' = [inHand EXCEPT ![c] = <<>>]
      /\ sender' = [sender EXCEPT ![c] = "wait"] /\ sender[c] = "send"
      /\ UNCHANGED <<units, keyframes, audience, listed, conn, pending, begun, dead>>
  BY DEF Sent, tapVars
<1>2. pending[c] \in Seq(Nat) /\ received[c] \in Seq(Nat) /\ inHand[c] \in Seq(Nat)
  BY DEF RelayTypes
<1>3. received'[c] = received[c] \o inHand[c] /\ inHand'[c] = <<>>
  BY <1>1 DEF RelayTypes
<1>4. Stream(c)' = Stream(c)
  <2>1. Stream(c) = received[c] \o inHand[c] \o pending[c]
    BY DEF Stream
  <2>2. Stream(c)' = received[c] \o inHand[c] \o <<>> \o pending[c]
    BY <1>1, <1>3 DEF Stream
  <2> QED
    BY <1>2, <2>1, <2>2, PartEmptied
<1>5. \A d \in Clients \ {c} : Stream(d)' = Stream(d)
  BY <1>1 DEF Stream, RelayTypes
<1>6. RelayTypes'
  BY <1>1, <1>2, <1>3 DEF RelayTypes, SenderPlaces
<1>7. EmptyHanded'
  BY <1>1, <1>3 DEF EmptyHanded, RelayTypes
<1>8. \A d \in Clients : Len(pending'[d]) <= Len(pending[d])
  BY <1>1 DEF RelayTypes
<1> QED
  BY <1>1, <1>4, <1>5, <1>6, <1>7, <1>8, StreamsKept DEF tapVars

\* The other steps of senders, clients and close() touch no stream.
LEMMA QuietRelayStep ==
  ASSUME ServeInv,
         \/ \E c \in Clients : Accept(c) \/ HangUp(c) \/ SendHeader(c) \/ SendFails(c) \/ Leave(c)
         \/ Closer
  PROVE  ServeInv'
<1> USE DEF ServeInv, clientVars, closeVars, tapVars
<1>1. /\ UNCHANGED <<units, keyframes, audience, pending, inHand, received, begun>>
  BY DEF Accept, HangUp, SendHeader, SendFails, Leave, Closer, Close, Gather, DropClient, Unlink
<1>2. dead \subseteq dead' /\ listed \subseteq listed' \cup dead' /\ dead' \subseteq Clients
      /\ listed' \subseteq Clients
  <2>1. CASE \E c \in Clients : Accept(c) \/ HangUp(c) \/ SendHeader(c) \/ SendFails(c) \/ Leave(c)
    BY <2>1 DEF Accept, HangUp, SendHeader, SendFails, Leave, RelayTypes
  <2>2. CASE Close \/ Gather \/ Unlink
    BY <2>2 DEF Close, Gather, Unlink, RelayTypes
  <2>3. CASE \E c \in Clients : DropClient(c)
    BY <2>3 DEF DropClient, RelayTypes
  <2> QED
    BY <2>1, <2>2, <2>3 DEF Closer
<1>3. conn' \in [Clients -> ConnPlaces] /\ sender' \in [Clients -> SenderPlaces] /\ EmptyHanded'
  <2> USE DEF RelayTypes, EmptyHanded, ConnPlaces, SenderPlaces
  <2>1. CASE \E c \in Clients : Accept(c) \/ SendHeader(c)
    BY <1>1, <2>1 DEF Accept, SendHeader
  <2>2. CASE \E c \in Clients : SendFails(c) \/ Leave(c)
    BY <1>1, <2>2 DEF SendFails, Leave
  <2>3. CASE \E c \in Clients : HangUp(c) \/ DropClient(c)
    BY <1>1, <2>3 DEF HangUp, DropClient, Dropped, Shut
  <2>4. CASE Close \/ Gather \/ Unlink
    BY <1>1, <2>4 DEF Close, Gather, Unlink
  <2> QED
    BY <2>1, <2>2, <2>3, <2>4 DEF Closer
<1>4. RelayTypes'
  BY <1>1, <1>2, <1>3 DEF RelayTypes
<1>6. \A c \in Clients : Stream(c)' = Stream(c) /\ Len(pending'[c]) <= Len(pending[c])
  BY <1>1 DEF Stream, RelayTypes
<1> QED
  BY <1>1, <1>2, <1>3, <1>4, <1>6, StreamsKept

LEMMA ServeInvKept == ServeInv /\ [RelayNext]_relayVars => ServeInv'
<1> SUFFICES ASSUME ServeInv, [RelayNext]_relayVars PROVE ServeInv'
  OBVIOUS
<1>1. CASE Tap
  BY <1>1, PushStep, PushToStep DEF Tap
<1>2. CASE Closer
  BY <1>2, QuietRelayStep
<1>3. CASE \E c \in Clients : Accept(c) \/ HangUp(c) \/ Serve(c) \/ Sent(c)
  BY <1>3, TakeStep, SentStep, QuietRelayStep DEF Serve
<1>4. CASE UNCHANGED relayVars
  BY <1>4 DEF relayVars, tapVars, clientVars, closeVars, ServeInv, RelayTypes, Served, KeepsUp,
              EmptyHanded, NoGaps, BacklogBounded, Stream
<1> QED
  BY <1>1, <1>2, <1>3, <1>4 DEF RelayNext

\* Every client is given consecutive access units from a keyframe on, and one
\* that lives is behind by its bounded queue at most, whatever the others do.
THEOREM RelayTheorem == RelaySpec => []RelayInv
  BY ServeInvImplies, InitServeInv, ServeInvKept, PTL DEF RelaySpec

-----------------------------------------------------------------------------
\* The two parts together.
THEOREM VideoTheorem == VideoSpec => []VideoInv
<1>1. VideoInit => HubInv /\ ServeInv
  BY InitHubInv, InitServeInv DEF VideoInit
<1>2. HubInv /\ ServeInv /\ [VideoNext]_<<part, hubRegistryVars, relayVars>> => HubInv' /\ ServeInv'
  <2>1. [VideoNext]_<<part, hubRegistryVars, relayVars>>
          => [HubRegistryNext]_hubRegistryVars /\ [RelayNext]_relayVars
    BY DEF VideoNext
  <2> QED
    BY <2>1, HubInvKept, ServeInvKept
<1>3. HubInv /\ ServeInv => VideoInv
  BY ServeInvImplies DEF HubInv, VideoInv
<1> QED
  BY <1>1, <1>2, <1>3, PTL DEF VideoSpec
=============================================================================
