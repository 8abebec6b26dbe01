---------------------------- MODULE OutboundProofs ----------------------------
(***************************************************************************)
(* Theorems about Gateway, for any number of nodes and zones, any states   *)
(* and any number of lost connections, and about Shutdown, for any number  *)
(* of sinks and of messages.                                               *)
(***************************************************************************)
EXTENDS MCOutbound, FiniteSetTheorems, SequenceTheorems, TLAPS

Messages == [topic : Topics, version : 0..MaxVersion]

GatewayTypes ==
  /\ GatewayTypeOK
  /\ asked \in BOOLEAN /\ way \in Seq(Messages) /\ silent \in [Nodes -> Nat]
  /\ evicted \subseteq Topics /\ drops \in Nat

\* The broker retains the last state published of a zone, or nothing.
RetainedNewest == \A t \in Topics : retained[t] \in {NoState, newest[t]}

\* Messages are under way to a subscriber only, and one that is connected has
\* asked to be one.
Linked ==
  /\ link # "subscribed" => way = <<>>
  /\ link = "up" <=> asked

\* What is under way of a topic is not older than what is cached, and in the
\* order in which it was published.
InOrder ==
  \A k \in DOMAIN way :
    LET t == way[k].topic
    IN  way[k].version # NoState =>
          /\ cache[t] <= way[k].version /\ way[k].version <= newest[t]
          /\ \A l \in DOMAIN way : k < l /\ way[l].topic = t /\ way[l].version # NoState
               => way[k].version <= way[l].version

\* The last message under way of a topic is what the broker retains.
LastIsRetained ==
  \A k \in DOMAIN way :
    (\A l \in DOMAIN way : k < l => way[l].topic # way[k].topic)
      => way[k].version = retained[way[k].topic]

\* What the gateway has of a topic on its own.
Held(t) == cache[t] = retained[t] \/ retained[t] = NoState \/ (cache[t] = NoState /\ t \in evicted)

\* The inductive invariant.
MirrorInv ==
  /\ GatewayTypes /\ RetainedNewest /\ Linked /\ InOrder /\ LastIsRetained
  /\ link = "subscribed" => \A t \in Topics : ~UnderWay(t) => Held(t)

LEMMA MirrorInvImplies == MirrorInv => GatewayInv
  BY DEF MirrorInv, GatewayTypes, GatewayInv, CacheIsRetained, Settled, Held, Linked, GatewayTypeOK

LEMMA InitMirrorInv == GatewayInit => MirrorInv
<1> SUFFICES ASSUME GatewayInit PROVE MirrorInv
  OBVIOUS
<1> USE GatewayAssumption DEF GatewayInit, NoState
<1>1. GatewayTypes
  <2>1. newest \in [Topics -> 0..MaxVersion] /\ retained \in [Topics -> 0..MaxVersion]
    OBVIOUS
  <2>2. cache \in [Topics -> 0..MaxVersion] /\ silent \in [Nodes -> Nat] /\ way \in Seq(Messages)
    OBVIOUS
  <2>3. \A t \in Topics : cache[t] = 0 /\ newest[t] = 0
    OBVIOUS
  <2>4. asked \in BOOLEAN /\ drops \in Nat /\ link = "down" /\ known = {} /\ evicted = {}
    OBVIOUS
  <2> QED
    BY <2>1, <2>2, <2>3, <2>4 DEF GatewayTypes, GatewayTypeOK
<1>2. RetainedNewest /\ InOrder /\ LastIsRetained
  BY DEF RetainedNewest, InOrder, LastIsRetained
<1>3. Linked /\ link # "subscribed"
  BY DEF Linked
<1> QED
  BY <1>1, <1>2, <1>3 DEF MirrorInv

-----------------------------------------------------------------------------
(* The broker and the connection.                                            *)

LEMMA NothingUnderWay == ASSUME way' = <<>> PROVE InOrder' /\ LastIsRetained'
  BY DEF InOrder, LastIsRetained

LEMMA PublishesStep ==
  ASSUME MirrorInv, NEW t \in Topics, NEW cleared \in BOOLEAN, NodePublishes(t, cleared)
  PROVE  MirrorInv'
<1> USE DEF NoState
<1> DEFINE m == [topic |-> t, version |-> retained'[t]]
<1>1. /\ newest \in [Topics -> 0..MaxVersion] /\ retained \in [Topics -> 0..MaxVersion]
      /\ cache \in [Topics -> 0..MaxVersion] /\ way \in Seq(Messages)
  BY DEF MirrorInv, GatewayTypes, GatewayTypeOK
<1>2. /\ newest' \in [Topics -> 0..MaxVersion] /\ retained' \in [Topics -> 0..MaxVersion]
      /\ retained'[t] \in {0, newest'[t]}
      /\ \A u \in Topics : newest[u] <= newest'[u]
      /\ \A u \in Topics \ {t} : retained'[u] = retained[u] /\ newest'[u] = newest[u]
  <2>1. CASE cleared
    BY <1>1, <2>1, GatewayAssumption DEF NodePublishes
  <2>2. CASE ~cleared
    <3>1. newest' = [newest EXCEPT ![t] = newest[t] + 1] /\ newest[t] < MaxVersion
      BY <2>2 DEF NodePublishes
    <3>2. newest' \in [Topics -> 0..MaxVersion] /\ newest'[t] = newest[t] + 1
      BY <1>1, <3>1, GatewayAssumption
    <3>3. retained' = [retained EXCEPT ![t] = newest'[t]]
      BY <2>2 DEF NodePublishes
    <3> QED
      BY <1>1, <3>1, <3>2, <3>3
  <2> QED
    BY <2>1, <2>2
<1>3. m \in Messages /\ m.topic = t /\ m.version = retained'[t]
  BY <1>2 DEF Messages
<1>4. /\ way' = IF link = "subscribed" THEN Append(way, m) ELSE way
      /\ UNCHANGED <<link, asked, drops, known, cache, silent, evicted>>
  BY DEF NodePublishes, Forwarded, linkVars, storeVars
<1> HIDE DEF m
<1>5. GatewayTypes'
  <2>1. way' \in Seq(Messages)
    <3>1. Append(way, m) \in Seq(Messages)
      BY <1>1, <1>3
    <3> QED
      BY <1>1, <1>4, <3>1
  <2>2. \A u \in Topics : cache[u] <= newest'[u]
    BY <1>1, <1>2, GatewayAssumption DEF MirrorInv, GatewayTypes, GatewayTypeOK
  <2> QED
    BY <1>2, <1>4, <2>1, <2>2 DEF MirrorInv, GatewayTypes, GatewayTypeOK
<1>6. RetainedNewest'
  BY <1>2 DEF MirrorInv, RetainedNewest
<1>7. Linked'
  BY <1>4 DEF MirrorInv, Linked
<1>8. CASE link # "subscribed"
  <2>1. way' = <<>>
    BY <1>4, <1>8 DEF MirrorInv, Linked
  <2> QED
    BY <1>4, <1>5, <1>6, <1>7, <1>8, <2>1, NothingUnderWay DEF MirrorInv
<1>9. CASE link = "subscribed"
  <2> DEFINE n == Len(way)
  <2>1. /\ n \in Nat /\ way' = Append(way, m) /\ DOMAIN way = 1..n /\ DOMAIN way' = 1..(n + 1)
        /\ way'[n + 1] = m /\ \A k \in 1..n : way'[k] = way[k] /\ way[k] \in Messages
    BY <1>1, <1>3, <1>4, <1>9
  <2> HIDE DEF m, n
  <2>2. InOrder'
    <3> SUFFICES ASSUME NEW k \in 1..(n + 1), way'[k].version # 0
                 PROVE  LET u == way'[k].topic
                        IN  /\ cache[u] <= way'[k].version /\ way'[k].version <= newest'[u]
                            /\ \A l \in 1..(n + 1) :
                                 k < l /\ way'[l].topic = u /\ way'[l].version # 0
                                   => way'[k].version <= way'[l].version
      BY <1>4, <2>1 DEF InOrder
    <3>1. CASE k = n + 1
      <4>1. way'[k] = m /\ cache'[t] = cache[t] /\ m.version = retained'[t]
        BY <1>3, <1>4, <2>1, <3>1
      <4>2. cache[t] \in Nat /\ newest'[t] \in Nat /\ cache[t] <= newest'[t]
        BY <1>1, <1>2, GatewayAssumption DEF MirrorInv, GatewayTypes, GatewayTypeOK
      <4> QED
        BY <1>2, <1>3, <3>1, <4>1, <4>2
    <3>2. CASE k \in 1..n
      <4> DEFINE u == way[k].topic
      <4>1. /\ way'[k] = way[k] /\ u \in Topics /\ way[k].version \in Nat
            /\ cache[u] <= way[k].version /\ way[k].version <= newest[u]
            /\ \A l \in 1..n : k < l /\ way[l].topic = u /\ way[l].version # 0
                 => way[k].version <= way[l].version
        <5>1. way'[k] = way[k] /\ way[k] \in Messages /\ k \in DOMAIN way
          BY <2>1, <3>2
        <5>2. way[k].version # 0
          BY <5>1
        <5>3. u \in Topics /\ way[k].version \in Nat
          BY <5>1 DEF Messages
        <5>4. /\ cache[u] <= way[k].version /\ way[k].version <= newest[u]
              /\ \A l \in DOMAIN way : k < l /\ way[l].topic = u /\ way[l].version # 0
                   => way[k].version <= way[l].version
          BY <5>1, <5>2 DEF MirrorInv, InOrder
        <5> QED
          BY <2>1, <5>1, <5>3, <5>4
      <4>2. way[k].version <= newest'[u]
        BY <1>1, <1>2, <4>1, SMTT(30)
      <4>3. u = t /\ m.version # 0 => way[k].version <= m.version
        BY <1>2, <1>3, <4>2
      <4> HIDE DEF u
      <4>4. ASSUME NEW l \in 1..(n + 1), k < l, way'[l].topic = u, way'[l].version # 0
            PROVE  way[k].version <= way'[l].version
        <5>1. CASE l = n + 1
          BY <1>3, <2>1, <4>3, <4>4, <5>1
        <5>2. CASE l \in 1..n
          BY <2>1, <4>1, <4>4, <5>2
        <5> QED
          BY <2>1, <5>1, <5>2
      <4> QED
        BY <4>1, <4>2, <4>4 DEF u
    <3> QED
      BY <2>1, <3>1, <3>2
  <2>3. LastIsRetained'
    <3> SUFFICES ASSUME NEW k \in 1..(n + 1), \A l \in 1..(n + 1) : k < l => way'[l].topic # way'[k].topic
                 PROVE  way'[k].version = retained'[way'[k].topic]
      BY <2>1 DEF LastIsRetained
    <3>1. CASE k = n + 1
      BY <1>3, <2>1, <3>1
    <3>2. CASE k \in 1..n
      <4>1. way[k].topic # t /\ way[k].topic \in Topics
        BY <1>3, <2>1, <3>2, n + 1 \in 1..(n + 1), k < n + 1 DEF Messages
      <4>2. \A l \in 1..n : k < l => way[l].topic # way[k].topic
        BY <2>1, <3>2
      <4>3. way[k].version = retained[way[k].topic]
        BY <2>1, <3>2, <4>2 DEF MirrorInv, LastIsRetained
      <4> QED
        BY <1>2, <2>1, <3>2, <4>1, <4>3
    <3> QED
      BY <2>1, <3>1, <3>2
  <2>4. ASSUME NEW u \in Topics, ~UnderWay(u)' PROVE Held(u)'
    <3>1. u # t
      BY <1>3, <2>1, <2>4 DEF UnderWay
    <3>2. ~UnderWay(u)
      BY <2>1, <2>4 DEF UnderWay
    <3> QED
      BY <1>2, <1>4, <1>9, <3>1, <3>2 DEF MirrorInv, Held
  <2> QED
    BY <1>5, <1>6, <1>7, <2>2, <2>3, <2>4 DEF MirrorInv
<1> QED
  BY <1>8, <1>9

\* Until it has subscribed a connection has nothing under way.
LEMMA LinkStep ==
  ASSUME MirrorInv, UNCHANGED <<brokerVars, storeVars>>,
         way' = <<>>, link' \in {"up", "down"}, asked' \in BOOLEAN, link' = "up" <=> asked',
         drops' \in Nat
  PROVE  MirrorInv'
<1> USE DEF brokerVars, storeVars
<1>1. GatewayTypes' /\ RetainedNewest'
  BY DEF MirrorInv, GatewayTypes, GatewayTypeOK, RetainedNewest
<1>2. Linked' /\ InOrder' /\ LastIsRetained'
  BY DEF Linked, InOrder, LastIsRetained
<1> QED
  BY <1>1, <1>2 DEF MirrorInv

LEMMA ConnectStep == ASSUME MirrorInv, Connect PROVE MirrorInv'
<1>1. way' = <<>> /\ link' = "up" /\ asked' /\ asked' \in BOOLEAN /\ drops' \in Nat
  BY DEF MirrorInv, GatewayTypes, Linked, Connect, Subscribes
<1> QED
  BY <1>1, LinkStep DEF Connect

LEMMA DisconnectStep == ASSUME MirrorInv, Disconnect PROVE MirrorInv'
<1>1. way' = <<>> /\ link' = "down" /\ drops' \in Nat
  BY GatewayAssumption DEF MirrorInv, GatewayTypes, Linked, Disconnect
<1>2. ~asked' /\ asked' \in BOOLEAN
  BY DEF Disconnect
<1> QED
  BY <1>1, <1>2, LinkStep DEF Disconnect

\* A sequence of SetToSeqs has every element of the set, once.
LEMMA SetToSeqsFacts ==
  ASSUME NEW S, IsFiniteSet(S), NEW order \in SetToSeqs(S)
  PROVE  /\ order \in Seq(S)
         /\ \A k, l \in DOMAIN order : k # l => order[k] # order[l]
         /\ \A s \in S : \E k \in DOMAIN order : order[k] = s
<1> DEFINE n == Cardinality(S)
<1>1. n \in Nat
  BY FS_CardinalityType
<1>2. order \in [1..n -> S] /\ \A k, l \in 1..n : k # l => order[k] # order[l]
  BY DEF SetToSeqs
<1> HIDE DEF n
<1>3. order \in Seq(S)
  BY <1>1, <1>2
<1>4. ASSUME NEW s \in S, \A k \in 1..n : order[k] # s PROVE FALSE
  <2>1. order \in [1..n -> S \ {s}]
    BY <1>2, <1>4
  <2>2. IsFiniteSet(S \ {s}) /\ Cardinality(S \ {s}) = n - 1
    BY FS_RemoveElement DEF n
  <2>3. IsFiniteSet(1..n) /\ Cardinality(1..n) = n
    BY <1>1, FS_Interval
  <2>4. \E k, l \in 1..n : k # l /\ order[k] = order[l]
    BY <1>1, <2>1, <2>2, <2>3, FS_PigeonHole
  <2> QED
    BY <1>2, <2>4
<1> QED
  BY <1>2, <1>3, <1>4

LEMMA SubscribedStep == ASSUME MirrorInv, Subscribed PROVE MirrorInv'
<1> USE DEF Subscribed, brokerVars, storeVars, NoState
<1> DEFINE S == {t \in Topics : retained[t] # NoState}
<1>1. PICK order \in SetToSeqs(S) :
        way' = [k \in DOMAIN order |-> [topic |-> order[k], version |-> retained[order[k]]]]
  OBVIOUS
<1>2. IsFiniteSet(S)
  <2>1. IsFiniteSet(Topics)
    BY GatewayAssumption, FS_Product DEF Topics
  <2> QED
    BY <2>1, FS_Subset
<1> HIDE DEF S
<1>3. /\ order \in Seq(S)
      /\ \A k, l \in DOMAIN order : k # l => order[k] # order[l]
      /\ \A s \in S : \E k \in DOMAIN order : order[k] = s
  BY <1>2, SetToSeqsFacts
<1>4. \A k \in DOMAIN order : order[k] \in Topics /\ retained[order[k]] # 0
  BY <1>3 DEF S
<1>5. /\ DOMAIN way' = DOMAIN order
      /\ \A k \in DOMAIN order : way'[k].topic = order[k] /\ way'[k].version = retained[order[k]]
  BY <1>1
<1>6. /\ newest \in [Topics -> 0..MaxVersion] /\ retained \in [Topics -> 0..MaxVersion]
      /\ cache \in [Topics -> 0..MaxVersion] /\ \A t \in Topics : cache[t] <= newest[t]
      /\ RetainedNewest
  BY DEF MirrorInv, GatewayTypes, GatewayTypeOK
<1>7. way' \in Seq(Messages)
  <2>1. \A k \in DOMAIN order : way'[k] \in Messages
    BY <1>1, <1>4, <1>6 DEF Messages
  <2>2. DOMAIN order = 1..Len(order) /\ Len(order) \in Nat
    BY <1>3
  <2>3. way' \in [1..Len(order) -> Messages]
    BY <1>1, <2>1, <2>2
  <2> QED
    BY <2>2, <2>3
<1>8. GatewayTypes' /\ RetainedNewest' /\ Linked'
  BY <1>6, <1>7 DEF MirrorInv, GatewayTypes, GatewayTypeOK, RetainedNewest, Linked
<1>9. InOrder'
  BY <1>3, <1>4, <1>5, <1>6, GatewayAssumption DEF InOrder, RetainedNewest
<1>10. LastIsRetained'
  BY <1>5 DEF LastIsRetained
<1>11. ASSUME NEW t \in Topics, ~UnderWay(t)' PROVE Held(t)'
  <2>1. retained[t] = 0
    BY <1>3, <1>5, <1>11 DEF UnderWay, S
  <2> QED
    BY <2>1 DEF Held
<1> QED
  BY <1>8, <1>9, <1>10, <1>11 DEF MirrorInv

LEMMA QuietStep == ASSUME MirrorInv, Quiet PROVE MirrorInv'
<1> USE DEF Quiet, brokerVars, linkVars
<1>1. silent' \in [Nodes -> Nat]
  BY DEF MirrorInv, GatewayTypes
<1>2. GatewayTypes' /\ RetainedNewest' /\ Linked'
  BY <1>1 DEF MirrorInv, GatewayTypes, GatewayTypeOK, RetainedNewest, Linked
<1>3. InOrder' /\ LastIsRetained'
  BY DEF MirrorInv, InOrder, LastIsRetained
<1> QED
  BY <1>2, <1>3 DEF MirrorInv, Held, UnderWay

-----------------------------------------------------------------------------
(* The gateway receives a message.                                           *)

\* What is left under way, with its places.
LEMMA TailFacts ==
  ASSUME NEW w \in Seq(Messages), w # <<>>
  PROVE  /\ Head(w) = w[1] /\ w[1] \in Messages /\ 1 \in DOMAIN w
         /\ Tail(w) \in Seq(Messages)
         /\ \A k \in DOMAIN Tail(w) : Tail(w)[k] = w[k + 1] /\ k + 1 \in DOMAIN w /\ k \in Nat /\ k > 0
         /\ \A k \in DOMAIN w : k = 1 \/ (k - 1 \in DOMAIN Tail(w) /\ k - 1 > 0)
  OBVIOUS

\* Of the topics the message does not concern nothing changes, except that a
\* silent node goes with all it had.
FoldStep(t, v) ==
  /\ cache' \in [Topics -> 0..MaxVersion] /\ cache'[t] = v
  /\ \A u \in Topics \ {t} :
       \/ cache'[u] = cache[u] /\ (u[1] \in known => u[1] \in known') /\ (u \in evicted => u \in evicted')
       \/ /\ cache'[u] = NoState /\ u[1] \notin known' /\ silent[u[1]] > EvictAfter
          /\ cache[u] # NoState \/ u \in evicted => u \in evicted'
  /\ t[1] \in known' /\ known' \subseteq Nodes
  /\ silent' \in [Nodes -> Nat] /\ evicted' \subseteq Topics

LEMMA FoldFacts ==
  ASSUME GatewayTypes, NEW t \in Topics, NEW v \in 0..MaxVersion, Fold(t, v)
  PROVE  FoldStep(t, v)
<1> DEFINE gone == Swept(t[1]) \X Zones
<1>1. t[1] \in Nodes
  BY DEF Topics
<1>2. Swept(t[1]) \subseteq known \ {t[1]} /\ known \subseteq Nodes
  BY DEF Swept, GatewayTypes, GatewayTypeOK
<1>3. \A u \in Topics : u \in gone <=> u[1] \in Swept(t[1])
  BY DEF Topics
<1>4. t \notin gone
  BY <1>2, <1>3
<1>5. known' = (known \ Swept(t[1])) \cup {t[1]}
  BY DEF Fold
<1>6. cache' = [u \in Topics |-> IF u \in gone THEN NoState ELSE IF u = t THEN v ELSE cache[u]]
  BY DEF Fold
<1>7. evicted' = (evicted \cup {u \in gone : cache[u] # NoState}) \ {t}
  BY DEF Fold
<1>8. gone \subseteq Topics
  BY <1>2 DEF Topics
<1>9. silent' \in [Nodes -> Nat]
  BY DEF Fold, GatewayTypes
<1>10. ASSUME NEW u \in Topics \ {t}
       PROVE  \/ cache'[u] = cache[u] /\ (u[1] \in known => u[1] \in known') /\ (u \in evicted => u \in evicted')
              \/ /\ cache'[u] = NoState /\ u[1] \notin known' /\ silent[u[1]] > EvictAfter
                 /\ cache[u] # NoState \/ u \in evicted => u \in evicted'
  <2>1. CASE u \in gone
    <3>1. u[1] \in Swept(t[1])
      BY <1>3, <2>1
    <3>2. silent[u[1]] > EvictAfter
      BY <3>1 DEF Swept
    <3> QED
      BY <1>2, <1>5, <1>6, <1>7, <2>1, <3>1, <3>2
  <2>2. CASE u \notin gone
    <3>1. u[1] \notin Swept(t[1])
      BY <1>3, <2>2
    <3> QED
      BY <1>5, <1>6, <1>7, <2>2, <3>1
  <2> QED
    BY <2>1, <2>2
<1>11. cache' \in [Topics -> 0..MaxVersion] /\ cache'[t] = v
  BY <1>4, <1>6, GatewayAssumption DEF GatewayTypes, GatewayTypeOK, NoState
<1>12. t[1] \in known' /\ known' \subseteq Nodes /\ evicted' \subseteq Topics
  BY <1>1, <1>2, <1>5, <1>7, <1>8 DEF GatewayTypes
<1> QED
  BY <1>9, <1>10, <1>11, <1>12 DEF FoldStep

\* The cache moves as CacheForward says.
Forward(t) ==
  cache'[t] # cache[t] =>
    \/ cache'[t] > cache[t]
    \/ cache'[t] = NoState /\ t[1] \notin known' /\ silent[t[1]] > EvictAfter

LEMMA ReceiveStep == ASSUME MirrorInv, Receive PROVE MirrorInv' /\ \A t \in Topics : Forward(t)
<1> USE DEF NoState
<1> DEFINE m == Head(way)
           rest == Tail(way)
<1>1. /\ newest \in [Topics -> 0..MaxVersion] /\ retained \in [Topics -> 0..MaxVersion]
      /\ cache \in [Topics -> 0..MaxVersion] /\ way \in Seq(Messages) /\ way # <<>>
      /\ GatewayTypes /\ RetainedNewest /\ Linked /\ InOrder /\ LastIsRetained
  BY DEF MirrorInv, GatewayTypes, GatewayTypeOK, Receive
<1>2. /\ m = way[1] /\ m \in Messages /\ 1 \in DOMAIN way /\ rest \in Seq(Messages)
      /\ \A k \in DOMAIN rest : rest[k] = way[k + 1] /\ k + 1 \in DOMAIN way /\ k \in Nat /\ k > 0
      /\ \A k \in DOMAIN way : k = 1 \/ (k - 1 \in DOMAIN rest /\ k - 1 > 0)
  BY <1>1, TailFacts
<1>3. /\ way' = rest /\ UNCHANGED <<newest, retained, link, asked, drops>>
      /\ IF m.version = 0 THEN UNCHANGED storeVars ELSE Fold(m.topic, m.version)
  BY DEF Receive, Malformed, brokerVars, linkVars
<1> HIDE DEF m, rest
<1>4. m.topic \in Topics /\ m.version \in 0..MaxVersion
  BY <1>2 DEF Messages
<1>5. link = "subscribed"
  BY <1>1 DEF Linked
<1>6. RetainedNewest' /\ Linked'
  BY <1>1, <1>3, <1>5 DEF RetainedNewest, Linked
<1>7. LastIsRetained'
  <2> SUFFICES ASSUME NEW k \in DOMAIN rest, \A l \in DOMAIN rest : k < l => rest[l].topic # rest[k].topic
               PROVE  rest[k].version = retained[rest[k].topic]
    BY <1>3 DEF LastIsRetained
  <2>1. rest[k] = way[k + 1] /\ k + 1 \in DOMAIN way /\ k \in Nat
    BY <1>2
  <2>2. ASSUME NEW l \in DOMAIN way, k + 1 < l PROVE way[l].topic # way[k + 1].topic
    <3>1. l - 1 \in DOMAIN rest /\ k < l - 1 /\ rest[l - 1] = way[l]
      BY <1>1, <1>2, <2>1, <2>2
    <3> QED
      BY <2>1, <3>1
  <2> QED
    BY <1>1, <2>1, <2>2 DEF LastIsRetained
<1>8. ASSUME NEW k \in DOMAIN rest, rest[k].version # 0
      PROVE  /\ rest[k].version \in Nat /\ rest[k].topic \in Topics
             /\ cache[rest[k].topic] <= rest[k].version /\ rest[k].version <= newest[rest[k].topic]
             /\ \A l \in DOMAIN rest :
                  k < l /\ rest[l].topic = rest[k].topic /\ rest[l].version # 0
                    => rest[k].version <= rest[l].version
             /\ rest[k].topic = m.topic /\ m.version # 0 => m.version <= rest[k].version
  <2>1. rest[k] = way[k + 1] /\ k + 1 \in DOMAIN way /\ k \in Nat /\ k > 0 /\ rest[k] \in Messages
    BY <1>2
  <2>2. rest[k].version \in Nat /\ rest[k].topic \in Topics
    BY <2>1 DEF Messages
  <2>3. cache[rest[k].topic] <= rest[k].version /\ rest[k].version <= newest[rest[k].topic]
    BY <1>1, <1>8, <2>1 DEF InOrder
  <2>4. ASSUME NEW l \in DOMAIN rest, k < l, rest[l].topic = rest[k].topic, rest[l].version # 0
        PROVE  rest[k].version <= rest[l].version
    <3>1. rest[l] = way[l + 1] /\ l + 1 \in DOMAIN way /\ k + 1 < l + 1
      BY <1>2, <2>1, <2>4
    <3> QED
      BY <1>1, <1>8, <2>1, <2>4, <3>1 DEF InOrder
  <2>5. rest[k].topic = m.topic /\ m.version # 0 => m.version <= rest[k].version
    <3>1. 1 < k + 1
      BY <2>1
    <3> QED
      BY <1>1, <1>2, <1>8, <2>1, <3>1 DEF InOrder
  <2> QED
    BY <2>2, <2>3, <2>4, <2>5
\* The topics that have nothing under way any more are the one just received, if
\* this was its last message, and those that had nothing.
<1>9. ASSUME NEW u \in Topics, ~\E k \in DOMAIN rest : rest[k].topic = u
      PROVE  IF u = m.topic THEN m.version = retained[u] ELSE Held(u)
  <2>1. CASE u = m.topic
    <3>1. ASSUME NEW l \in DOMAIN way, 1 < l PROVE way[l].topic # u
      <4>1. l - 1 \in DOMAIN rest /\ rest[l - 1] = way[l]
        BY <1>1, <1>2, <3>1
      <4> QED
        BY <1>9, <4>1
    <3> QED
      BY <1>1, <1>2, <2>1, <3>1 DEF LastIsRetained
  <2>2. CASE u # m.topic
    <3>1. ASSUME NEW l \in DOMAIN way PROVE way[l].topic # u
      <4>1. CASE l = 1
        BY <1>2, <2>2, <4>1
      <4>2. CASE l # 1
        <5>1. l - 1 \in DOMAIN rest /\ rest[l - 1] = way[l]
          BY <1>1, <1>2, <4>2
        <5> QED
          BY <1>9, <5>1
      <4> QED
        BY <4>1, <4>2
    <3> QED
      BY <1>5, <2>2, <3>1 DEF MirrorInv, UnderWay
  <2> QED
    BY <2>1, <2>2
<1>10. CASE m.version = 0
  <2>1. UNCHANGED storeVars
    BY <1>3, <1>10
  <2>2. GatewayTypes'
    BY <1>1, <1>2, <1>3, <2>1 DEF GatewayTypes, GatewayTypeOK, storeVars
  <2>3. InOrder'
    BY <1>3, <1>8, <2>1 DEF InOrder, storeVars
  <2>4. ASSUME NEW u \in Topics, ~UnderWay(u)' PROVE Held(u)'
    BY <1>3, <1>9, <1>10, <2>1, <2>4 DEF UnderWay, Held, storeVars
  <2> QED
    BY <1>6, <1>7, <2>1, <2>2, <2>3, <2>4 DEF MirrorInv, Forward, storeVars
<1>11. CASE m.version # 0
  <2>1. FoldStep(m.topic, m.version)
    BY <1>1, <1>3, <1>4, <1>11, FoldFacts
  <2>2. cache[m.topic] <= m.version /\ m.version <= newest[m.topic]
    BY <1>1, <1>2, <1>11 DEF InOrder
  <2>3. \A u \in Topics : cache'[u] <= newest[u] /\ (cache'[u] # 0 => u[1] \in known')
    BY <1>1, <1>4, <2>1, <2>2, GatewayAssumption DEF FoldStep, GatewayTypes, GatewayTypeOK
  <2>4. GatewayTypes'
    BY <1>1, <1>2, <1>3, <2>1, <2>3 DEF GatewayTypes, GatewayTypeOK, FoldStep
  <2>5. ASSUME NEW k \in DOMAIN rest, rest[k].version # 0
        PROVE  cache'[rest[k].topic] <= rest[k].version
    <3>1. CASE rest[k].topic = m.topic
      BY <1>8, <1>11, <2>1, <2>5, <3>1 DEF FoldStep
    <3>2. CASE rest[k].topic # m.topic
      <4>1. cache'[rest[k].topic] \in {cache[rest[k].topic], 0}
        BY <1>8, <2>1, <2>5, <3>2 DEF FoldStep
      <4> QED
        BY <1>8, <2>5, <4>1
    <3> QED
      BY <3>1, <3>2
  <2>6. InOrder'
    BY <1>3, <1>8, <2>5 DEF InOrder
  <2>7. ASSUME NEW u \in Topics, ~UnderWay(u)' PROVE Held(u)'
    <3>1. IF u = m.topic THEN m.version = retained[u] ELSE Held(u)
      BY <1>3, <1>9, <2>7 DEF UnderWay
    <3> QED
      BY <1>3, <2>1, <3>1 DEF Held, FoldStep
  <2>8. ASSUME NEW u \in Topics PROVE Forward(u)
    <3>1. CASE u = m.topic
      BY <1>1, <1>4, <2>1, <2>2, <3>1, GatewayAssumption DEF FoldStep, Forward
    <3>2. CASE u # m.topic
      BY <2>1, <3>2 DEF FoldStep, Forward
    <3> QED
      BY <3>1, <3>2
  <2> QED
    BY <1>6, <1>7, <2>4, <2>6, <2>7, <2>8 DEF MirrorInv
<1> QED
  BY <1>10, <1>11

-----------------------------------------------------------------------------
LEMMA MirrorInvKept ==
  MirrorInv /\ [GatewayNext]_gatewayVars => MirrorInv' /\ \A t \in Topics : Forward(t)
<1> SUFFICES ASSUME MirrorInv, [GatewayNext]_gatewayVars
             PROVE  MirrorInv' /\ \A t \in Topics : Forward(t)
  OBVIOUS
<1>1. CASE \E t \in Topics, cleared \in BOOLEAN : NodePublishes(t, cleared)
  <2>1. cache' = cache
    BY <1>1 DEF NodePublishes, storeVars
  <2> QED
    BY <1>1, <2>1, PublishesStep DEF Forward
<1>2. CASE Connect \/ Subscribed \/ Disconnect \/ Quiet
  <2>1. cache' = cache
    BY <1>2 DEF Connect, Subscribed, Disconnect, Quiet, storeVars
  <2> QED
    BY <1>2, <2>1, ConnectStep, SubscribedStep, DisconnectStep, QuietStep DEF Forward
<1>3. CASE Receive
  BY <1>3, ReceiveStep
<1>4. CASE UNCHANGED gatewayVars
  <2> USE DEF gatewayVars, brokerVars, linkVars, storeVars
  <2>1. GatewayTypes' /\ RetainedNewest' /\ Linked'
    BY <1>4 DEF MirrorInv, GatewayTypes, GatewayTypeOK, RetainedNewest, Linked
  <2>2. InOrder' /\ LastIsRetained'
    BY <1>4 DEF MirrorInv, InOrder, LastIsRetained
  <2> QED
    BY <1>4, <2>1, <2>2 DEF MirrorInv, Held, UnderWay, Forward
<1> QED
  BY <1>1, <1>2, <1>3, <1>4 DEF GatewayNext

\* Once nothing of a topic is under way, the cache of a connected gateway shows
\* what the broker retains: whatever was lost with a connection is replaced by
\* the subscription that follows.
THEOREM GatewayTheorem == GatewaySpec => []GatewayInv
<1> QED
  BY MirrorInvImplies, InitMirrorInv, MirrorInvKept, PTL DEF GatewaySpec

\* The cache never goes back to an older state of a zone.
THEOREM CacheForwardTheorem == GatewaySpec => CacheForward
<1>1. MirrorInv /\ [GatewayNext]_gatewayVars => [\A t \in Topics : Forward(t)]_gatewayVars
  BY MirrorInvKept
<1> QED
  BY <1>1, InitMirrorInv, MirrorInvKept, PTL DEF GatewaySpec, CacheForward, Forward

-----------------------------------------------------------------------------
(* The teardown.                                                             *)

\* The joins of _shutdown that are behind it.
Behind(k) == main \in {"closing", "done"} \/ k < stage

\* What the wait for a thread may have cost: in frames mode there is no listener
\* to wait for, and the sources were stopped before.
Budget ==
  (IF mode = "frames" /\ main # "serving" THEN SourceLimit ELSE 0)
  + (IF Behind(1) /\ mode = "points" THEN 4 ELSE 0)
  + (IF Behind(2) THEN 4 ELSE 0) + (IF Behind(3) THEN 2 ELSE 0)

\* Every thread waited for has ended or was given up.
AllWaitedFor == \A k \in 1..3 : Behind(k) => pc[Order[k]] = "ended" \/ Order[k] \in gaveUp

\* The publisher is open until all have been waited for, and its sinks until it
\* is closed.
ClosedLast ==
  /\ closed => main \in {"closing", "done"}
  /\ shut > 0 => closed
  /\ main # "done" => shut < Sinks

\* Calls of closed sinks are calls of one and the same handing out.
LateInOneMessage ==
  \A t \in Threads :
    /\ late[t] < at[t] /\ (late[t] > 0 => closed)
    /\ pc[t] = "fanout" => at[t] <= Sinks

\* The inductive invariant.
StopInv ==
  /\ ShutdownTypeOK /\ ClosedUnderNobody
  /\ AllWaitedFor /\ ClosedLast /\ LateInOneMessage
  /\ spent <= Budget
  /\ main = "joining" => Waited \in told
  /\ main = "serving" => stage = 1
  /\ mode = "frames" => pc["listener"] = "ended"

LEMMA OrderFacts ==
  /\ DOMAIN Order = 1..3 /\ Len(Order) = 3
  /\ \A t \in Threads : \E k \in 1..3 : Order[k] = t
  /\ \A k \in 1..3 : Order[k] \in Threads
  /\ Order[1] = "listener" /\ Order[2] = "pipeline" /\ Order[3] = "heartbeat"
<1>1. Order[1] = "listener" /\ Order[2] = "pipeline" /\ Order[3] = "heartbeat"
  BY DEF Order
<1>2. DOMAIN Order = 1..3 /\ Len(Order) = 3
  BY DEF Order
<1> QED
  BY <1>1, <1>2 DEF Threads

LEMMA InitStopInv == ShutdownInit => StopInv
<1> SUFFICES ASSUME ShutdownInit PROVE StopInv
  OBVIOUS
<1> USE ShutdownAssumption
<1>1. ShutdownTypeOK /\ ClosedUnderNobody
  <2>1. pc \in [Threads -> {"idle", "busy", "fanout", "ended"}]
    BY DEF ShutdownInit
  <2>2. left \in [Threads -> 0..MaxMessages] /\ at \in [Threads -> 1..Sinks + 1]
    BY DEF ShutdownInit
  <2>3. late \in [Threads -> 0..Sinks + 1] /\ shut \in 0..Sinks /\ spent \in 0..MaxSpent
    BY DEF ShutdownInit, MaxSpent
  <2>4. ClosedUnderNobody
    BY DEF ShutdownInit, ClosedUnderNobody
  <2>5. mode \in {"frames", "points"} /\ stopEvent \in BOOLEAN /\ closed \in BOOLEAN
    BY DEF ShutdownInit
  <2>6. main = "serving" /\ stage \in 1..3 /\ told = {} /\ gaveUp = {} /\ lost = {}
    BY DEF ShutdownInit
  <2> QED
    BY <2>1, <2>2, <2>3, <2>4, <2>5, <2>6 DEF ShutdownTypeOK
<1>2. AllWaitedFor /\ ClosedLast /\ LateInOneMessage
  BY DEF ShutdownInit, AllWaitedFor, Behind, ClosedLast, LateInOneMessage, Threads
<1>3. spent <= Budget
  BY DEF ShutdownInit, Budget, Behind, SourceLimit
<1>4. mode = "frames" => pc["listener"] = "ended"
  BY DEF ShutdownInit, Threads
<1>5. main = "serving" /\ stage = 1
  BY DEF ShutdownInit
<1> QED
  BY <1>1, <1>2, <1>3, <1>4, <1>5 DEF StopInv

\* When the publisher is closed, every thread has ended or was given up.
LEMMA ClosedSettled ==
  ASSUME StopInv, NEW t \in Threads, closed
  PROVE  pc[t] = "ended" \/ t \in gaveUp
<1>1. PICK k \in 1..3 : Order[k] = t
  BY OrderFacts
<1>2. Behind(k)
  BY DEF StopInv, ClosedLast, Behind
<1> QED
  BY <1>1, <1>2 DEF StopInv, AllWaitedFor

-----------------------------------------------------------------------------
(* The steps of the threads.                                                 *)

\* A step of a thread leaves main alone: what is left to show is that the
\* thread has not touched a closed sink beyond its message.
LEMMA ThreadStep ==
  ASSUME StopInv, UNCHANGED <<mode, mainVars>>,
         \A t \in Threads : pc[t] = "ended" => pc'[t] = "ended",
         ShutdownTypeOK', ClosedUnderNobody', LateInOneMessage'
  PROVE  StopInv'
<1>1. AllWaitedFor'
  BY OrderFacts DEF StopInv, AllWaitedFor, Behind, mainVars
<1>2. ClosedLast' /\ (spent <= Budget)' /\ (main = "joining" => Waited \in told)'
  BY DEF StopInv, ClosedLast, Budget, Behind, Waited, mainVars
<1>3. (main = "serving" => stage = 1)' /\ (mode = "frames" => pc["listener"] = "ended")'
  BY DEF StopInv, mainVars, Threads
<1> QED
  BY <1>1, <1>2, <1>3 DEF StopInv

LEMMA WorkStep == ASSUME StopInv, NEW t \in Threads, Work(t) PROVE StopInv'
<1> USE DEF StopInv, Work, mainVars
<1>1. ShutdownTypeOK'
  BY ShutdownAssumption DEF ShutdownTypeOK
<1>2. ClosedUnderNobody' /\ LateInOneMessage'
  BY DEF ShutdownTypeOK, ClosedUnderNobody, LateInOneMessage
<1>3. \A u \in Threads : pc[u] = "ended" => pc'[u] = "ended"
  BY DEF ShutdownTypeOK
<1> QED
  BY <1>1, <1>2, <1>3, ThreadStep

LEMMA PublishStep == ASSUME StopInv, NEW t \in Threads, Publish(t) PROVE StopInv'
<1> USE DEF StopInv, Publish, Refuses, mainVars
<1>1. ShutdownTypeOK'
  BY ShutdownAssumption DEF ShutdownTypeOK
<1>2. CASE closed
  <2>1. t \in gaveUp
    BY <1>2, ClosedSettled
  <2> QED
    BY <1>1, <1>2, <2>1, ThreadStep DEF ClosedUnderNobody, LateInOneMessage
<1>3. CASE ~closed
  <2>1. late' = late /\ lost' = lost /\ gaveUp' = gaveUp /\ main' = main /\ closed' = closed
    BY <1>3
  <2>2. late[t] = 0
    BY <1>3 DEF ShutdownTypeOK, LateInOneMessage
  <2>3. LateInOneMessage'
    BY <1>3, <2>1, <2>2, ShutdownAssumption DEF ShutdownTypeOK, LateInOneMessage
  <2>4. ClosedUnderNobody'
    BY <1>3, <2>1 DEF ShutdownTypeOK, ClosedUnderNobody, ClosedLast
  <2> QED
    BY <1>1, <1>3, <2>3, <2>4, ThreadStep DEF ShutdownTypeOK
<1> QED
  BY <1>2, <1>3

\* A sink below shut is closed: so is the publisher, and the thread was given up.
LEMMA CallSinkStep == ASSUME StopInv, NEW t \in Threads, CallSink(t) PROVE StopInv'
<1> USE DEF StopInv, CallSink, mainVars
<1>1. at[t] <= Sinks /\ at[t] \in Nat /\ late[t] < at[t] /\ late[t] \in Nat
  BY ShutdownAssumption DEF LateInOneMessage, ShutdownTypeOK
<1>2. at' = [at EXCEPT ![t] = at[t] + 1] /\ late'[t] \in {late[t], late[t] + 1}
  BY DEF ShutdownTypeOK
<1>3. late'[t] # late[t] => closed /\ t \in gaveUp
  <2> SUFFICES ASSUME late'[t] # late[t] PROVE closed /\ t \in gaveUp
    OBVIOUS
  <2>1. at[t] <= shut
    BY DEF ShutdownTypeOK
  <2>2. closed
    BY <1>1, <2>1, ShutdownAssumption DEF ClosedLast, ShutdownTypeOK, LateInOneMessage
  <2> QED
    BY <2>2, ClosedSettled
<1>4. \A u \in Threads \ {t} : late'[u] = late[u] /\ at'[u] = at[u] /\ pc'[u] = pc[u]
  BY DEF ShutdownTypeOK
<1>5. ShutdownTypeOK'
  BY <1>1, <1>2, ShutdownAssumption DEF ShutdownTypeOK
<1>6. ClosedUnderNobody'
  BY <1>1, <1>2, <1>3, <1>4, ShutdownAssumption DEF ClosedUnderNobody, ClosedLast, ShutdownTypeOK
<1>7. LateInOneMessage'
  BY <1>1, <1>2, <1>3, <1>4, ShutdownAssumption DEF LateInOneMessage, ShutdownTypeOK
<1>8. \A u \in Threads : pc[u] = "ended" => pc'[u] = "ended"
  BY DEF ShutdownTypeOK
<1> QED
  BY <1>5, <1>6, <1>7, <1>8, ThreadStep

LEMMA StepDoneStep == ASSUME StopInv, NEW t \in Threads, StepDone(t) PROVE StopInv'
<1> USE DEF StopInv, StepDone, mainVars
<1>1. ShutdownTypeOK'
  BY DEF ShutdownTypeOK
<1>2. ClosedUnderNobody' /\ LateInOneMessage'
  BY DEF ShutdownTypeOK, ClosedUnderNobody, LateInOneMessage
<1>3. \A u \in Threads : pc[u] = "ended" => pc'[u] = "ended"
  BY DEF ShutdownTypeOK
<1> QED
  BY <1>1, <1>2, <1>3, ThreadStep

LEMMA StepCrashStep == ASSUME StopInv, StepCrash PROVE StopInv'
<1> USE DEF StopInv, StepCrash, mainVars, Threads
<1>1. ShutdownTypeOK'
  BY ShutdownAssumption DEF ShutdownTypeOK
<1>2. ClosedUnderNobody' /\ LateInOneMessage'
  BY DEF ShutdownTypeOK, ClosedUnderNobody, LateInOneMessage
<1>3. \A u \in Threads : pc[u] = "ended" => pc'[u] = "ended"
  BY DEF ShutdownTypeOK
<1> QED
  BY <1>1, <1>2, <1>3, ThreadStep

-----------------------------------------------------------------------------
(* The steps of run().                                                       *)

\* What a step of run() never does to a thread.
LEMMA MainStep ==
  ASSUME StopInv, UNCHANGED <<threadVars, late, lost>>,
         ShutdownTypeOK', gaveUp \subseteq gaveUp', closed => closed',
         main' # "done" \/ main = "done" \/ closed
  PROVE  ClosedUnderNobody' /\ LateInOneMessage'
<1> USE DEF StopInv, threadVars
<1>1. LateInOneMessage'
  BY DEF LateInOneMessage
<1>2. ClosedUnderNobody'
  BY ClosedSettled DEF ClosedUnderNobody
<1> QED
  BY <1>1, <1>2

LEMMA StopSourcesStep == ASSUME StopInv, StopSources PROVE StopInv'
<1> USE DEF StopInv, StopSources
<1>1. ShutdownTypeOK'
  BY DEF ShutdownTypeOK, SourceLimit, MaxSpent, threadVars
<1>2. ClosedUnderNobody' /\ LateInOneMessage'
  BY <1>1, MainStep DEF ShutdownTypeOK
<1>3. AllWaitedFor' /\ ClosedLast'
  BY DEF AllWaitedFor, Behind, ClosedLast, threadVars
<1>4. (spent <= Budget)'
  BY DEF Budget, Behind, SourceLimit, ShutdownTypeOK
<1> QED
  BY <1>1, <1>2, <1>3, <1>4 DEF threadVars

LEMMA TellStep == ASSUME StopInv, Tell PROVE StopInv'
<1> USE DEF StopInv, Tell
<1>1. ShutdownTypeOK'
  BY OrderFacts DEF ShutdownTypeOK, Waited, threadVars
<1>2. ClosedUnderNobody' /\ LateInOneMessage'
  BY <1>1, MainStep DEF ShutdownTypeOK
<1>3. AllWaitedFor' /\ ClosedLast'
  BY DEF AllWaitedFor, Behind, ClosedLast, threadVars
<1>4. Budget' = Budget /\ (main = "joining" => Waited \in told)'
  BY DEF Budget, Behind, Waited
<1> QED
  BY <1>1, <1>2, <1>3, <1>4 DEF threadVars

\* The wait for a thread is over, with the thread or without it.
LEMMA StageDone ==
  ASSUME StopInv, main = "joining", NextStage,
         pc[Waited] = "ended" \/ Waited \in gaveUp',
         gaveUp' = gaveUp \/ gaveUp' = gaveUp \cup {Waited},
         UNCHANGED <<mode, told, closed, shut, threadVars, late, lost>>, stopEvent' = stopEvent,
         spent' \in 0..MaxSpent, spent' <= Budget'
  PROVE  StopInv'
<1> USE DEF StopInv, NextStage
<1>1. ShutdownTypeOK'
  <2>1. gaveUp' \subseteq told' /\ lost' \subseteq Threads
    BY DEF ShutdownTypeOK
  <2>2. stage' \in 1..3 /\ main' \in {"stopping", "closing"}
    BY OrderFacts DEF ShutdownTypeOK
  <2> QED
    BY <2>1, <2>2 DEF ShutdownTypeOK, threadVars
<1>2. ClosedUnderNobody' /\ LateInOneMessage'
  BY <1>1, MainStep DEF ShutdownTypeOK
<1>3. AllWaitedFor'
  BY OrderFacts DEF AllWaitedFor, Behind, ShutdownTypeOK, threadVars, Waited
<1>4. ClosedLast'
  BY DEF ClosedLast
<1> QED
  BY <1>1, <1>2, <1>3, <1>4 DEF threadVars

LEMMA JoinStep == ASSUME StopInv, Join PROVE StopInv'
<1> USE DEF StopInv, Join
<1>1. spent' \in 0..MaxSpent
  BY DEF ShutdownTypeOK
<1>2. spent' <= Budget'
  BY OrderFacts DEF Budget, Behind, NextStage, ShutdownTypeOK, SourceLimit
<1> QED
  BY <1>1, <1>2, StageDone

\* In frames mode the listener is not given up: there is none.
LEMMA GiveUpStep == ASSUME StopInv, GiveUp PROVE StopInv'
<1> USE DEF StopInv, GiveUp
<1>1. spent' = spent + Limit[Waited] /\ spent \in Nat
  BY DEF ShutdownTypeOK
<1>2. stage = 1 => mode = "points" /\ Limit[Waited] = 4
  BY OrderFacts DEF Outlasted, ShutdownTypeOK, Waited, Limit
<1>3. stage = 2 => Limit[Waited] = 4
  BY OrderFacts DEF Waited, Limit
<1>4. stage = 3 => Limit[Waited] = 2
  BY OrderFacts DEF Waited, Limit
<1>5. spent' <= Budget' /\ Budget' <= MaxSpent
  BY <1>1, <1>2, <1>3, <1>4, OrderFacts
  DEF Budget, Behind, NextStage, ShutdownTypeOK, SourceLimit, MaxSpent
<1>6. spent' \in 0..MaxSpent
  BY <1>1, <1>2, <1>3, <1>4, <1>5 DEF ShutdownTypeOK, MaxSpent, Budget, Behind, SourceLimit
<1> QED
  BY <1>5, <1>6, StageDone

LEMMA ClosePublisherStep == ASSUME StopInv, ClosePublisher PROVE StopInv'
<1> USE DEF StopInv, ClosePublisher
<1>1. ShutdownTypeOK'
  BY DEF ShutdownTypeOK, threadVars
<1>2. ClosedUnderNobody' /\ LateInOneMessage'
  BY <1>1, MainStep DEF ShutdownTypeOK
<1>3. AllWaitedFor' /\ ClosedLast'
  BY DEF AllWaitedFor, Behind, ClosedLast, threadVars
<1>4. (spent <= Budget)'
  BY DEF Budget, Behind
<1> QED
  BY <1>1, <1>2, <1>3, <1>4 DEF threadVars

LEMMA CloseSinkStep == ASSUME StopInv, CloseSink PROVE StopInv'
<1> USE DEF StopInv, CloseSink
<1>1. ShutdownTypeOK'
  BY ShutdownAssumption DEF ShutdownTypeOK, ClosedLast, threadVars
<1>2. ClosedUnderNobody' /\ LateInOneMessage'
  BY <1>1, MainStep DEF ShutdownTypeOK
<1>3. AllWaitedFor' /\ ClosedLast'
  BY ShutdownAssumption DEF AllWaitedFor, Behind, ClosedLast, ShutdownTypeOK, threadVars
<1>4. (spent <= Budget)'
  BY DEF Budget, Behind
<1> QED
  BY <1>1, <1>2, <1>3, <1>4 DEF threadVars

-----------------------------------------------------------------------------
LEMMA StopInvKept == StopInv /\ [ShutdownNext]_shutdownVars => StopInv'
<1> SUFFICES ASSUME StopInv, [ShutdownNext]_shutdownVars PROVE StopInv'
  OBVIOUS
<1>1. ASSUME NEW t \in Threads, Work(t) \/ Publish(t) \/ CallSink(t) \/ StepDone(t)
      PROVE  StopInv'
  BY <1>1, WorkStep, PublishStep, CallSinkStep, StepDoneStep
<1>2. CASE StepCrash
  BY <1>2, StepCrashStep
<1>3. CASE Main
  BY <1>3, StopSourcesStep, TellStep, JoinStep, GiveUpStep, ClosePublisherStep, CloseSinkStep
  DEF Main
<1>4. CASE Signal \/ UNCHANGED shutdownVars
  <2>1. UNCHANGED <<mode, mainVars, threadVars, late, lost>> /\ stopEvent' \in BOOLEAN
    BY <1>4 DEF Signal, shutdownVars, StopInv, ShutdownTypeOK
  <2> QED
    BY <2>1, ThreadStep
    DEF StopInv, ShutdownTypeOK, ClosedUnderNobody, LateInOneMessage, mainVars, threadVars
<1> QED
  BY <1>1, <1>2, <1>3, <1>4 DEF ShutdownNext, Returned

\* A thread that ended before its join gave up has lost no message and called no
\* closed sink, and one given up calls closed sinks for one message at most:
\* Publisher.close sets its flag before it closes the first sink.
THEOREM ShutdownTheorem == ShutdownSpec => []ShutdownInv
<1>1. StopInv => ShutdownInv
  BY DEF StopInv, ShutdownInv
<1> QED
  BY <1>1, InitStopInv, StopInvKept, PTL DEF ShutdownSpec

\* run() spends five seconds at most in its waits, and in frames mode four and
\* a half: the joins of _shutdown have no other bound.
THEOREM SpentTheorem == ShutdownSpec => [](spent <= IF mode = "frames" THEN 9 ELSE 10)
<1>1. StopInv => spent <= IF mode = "frames" THEN 9 ELSE 10
  BY DEF StopInv, ShutdownTypeOK, Budget, Behind, SourceLimit
<1> QED
  BY <1>1, InitStopInv, StopInvKept, PTL DEF ShutdownSpec

-----------------------------------------------------------------------------
(* The sink and the broker.                                                  *)

Faults == {"drop", "broker", "restart", "late"}
Places == {"config", "advertise", "check", "subscribe", "seed", "done"}
SinkMessages == [zone : SinkZones, payload : Nat \cup {NoMessage}]

LEMMA SinkFinite == IsFiniteSet(SinkZones) /\ NoMessage \notin Nat /\ MaxStates \in Nat /\ MaxFaults \in Nat
  BY SinkConstants DEF Sink!SinkAssumption, Sink!IsFiniteSet, IsFiniteSet

LEMMA SameCardinality == ASSUME NEW S PROVE Sink!Cardinality(S) = Cardinality(S)
  BY DEF Sink!Cardinality, Cardinality

Batch(S, p) ==
  [i \in 1..Cardinality(S) |-> [zone |-> Sink!SetToSeq(S)[i], payload |-> p]]

NamesAll(messages, S) == \A z \in S : \E i \in DOMAIN messages : messages[i].zone = z

LEMMA OrderOfSet ==
  ASSUME NEW S, IsFiniteSet(S)
  PROVE  /\ Sink!SetToSeq(S) \in [1..Cardinality(S) -> S]
         /\ \A k, l \in 1..Cardinality(S) : k # l => Sink!SetToSeq(S)[k] # Sink!SetToSeq(S)[l]
<1> DEFINE n == Cardinality(S)
<1>1. n \in Nat /\ ExistsBijection(1..n, S)
  BY FS_CardinalityType
<1>2. PICK f \in [1..n -> S] : \A k, l \in 1..n : f[k] = f[l] => k = l
  BY <1>1 DEF ExistsBijection, Bijection, Injection, IsInjective
<1>3. DOMAIN f = 1..n
  BY <1>2
<1>4. Sink!IsInjective(f)
  BY <1>2, <1>3 DEF Sink!IsInjective
<1>5. Sink!SetToSeq(S) \in [1..n -> S] /\ Sink!IsInjective(Sink!SetToSeq(S))
  BY <1>2, <1>4, SameCardinality DEF Sink!SetToSeq
<1> QED
  BY <1>5 DEF Sink!IsInjective

\* What one loop over a set of zones publishes: one message for each of them.
LEMMA BatchFacts ==
  ASSUME NEW S, S \subseteq SinkZones, NEW p \in Nat \cup {NoMessage}
  PROVE  /\ Batch(S, p) \in Seq(SinkMessages)
         /\ \A i \in DOMAIN Batch(S, p) : Batch(S, p)[i].payload = p /\ Batch(S, p)[i].zone \in S
         /\ NamesAll(Batch(S, p), S)
<1> DEFINE n == Cardinality(S)
           order == Sink!SetToSeq(S)
<1>1. IsFiniteSet(S)
  BY SinkFinite, FS_Subset
<1>2. n \in Nat
  BY <1>1, FS_CardinalityType
<1>3. order \in [1..n -> S] /\ \A k, l \in 1..n : k # l => order[k] # order[l]
  BY <1>1, OrderOfSet
<1>4. Batch(S, p) = [i \in 1..n |-> [zone |-> order[i], payload |-> p]]
  BY DEF Batch
<1> HIDE DEF n, order
<1>5. Batch(S, p) \in [1..n -> SinkMessages]
  BY <1>3, <1>4 DEF SinkMessages
<1>6. Batch(S, p) \in Seq(SinkMessages) /\ DOMAIN Batch(S, p) = 1..n
  BY <1>2, <1>4, <1>5
<1>7. ASSUME NEW z \in S, \A k \in 1..n : order[k] # z PROVE FALSE
  <2>1. order \in [1..n -> S \ {z}]
    BY <1>3, <1>7
  <2>2. IsFiniteSet(S \ {z}) /\ Cardinality(S \ {z}) = n - 1
    BY <1>1, FS_RemoveElement DEF n
  <2>3. IsFiniteSet(1..n) /\ Cardinality(1..n) = n
    BY <1>2, FS_Interval
  <2>4. \E k, l \in 1..n : k # l /\ order[k] = order[l]
    BY <1>2, <2>1, <2>2, <2>3, FS_PigeonHole
  <2> QED
    BY <1>3, <2>4
<1>8. \A z \in S : \E i \in 1..n : order[i] = z
  BY <1>7
<1>9. NamesAll(Batch(S, p), S)
  BY <1>3, <1>4, <1>6, <1>8 DEF NamesAll
<1> QED
  BY <1>3, <1>4, <1>6, <1>9

-----------------------------------------------------------------------------
FaultsBounded ==
  faults["drop"] + faults["broker"] + faults["restart"] + faults["late"] <= MaxFaults

SinkTypes ==
  /\ active \subseteq SinkZones /\ topics \subseteq SinkZones /\ inbox \subseteq SinkZones
  /\ run \in Places /\ version \in Nat /\ published \in [SinkZones -> 0..version]
  /\ out \in Seq(SinkMessages) /\ sent \in 0..Len(out)
  /\ \A i \in DOMAIN out : out[i].payload \in (1..version) \cup {NoMessage}
  /\ zoneStates \in [SinkZones -> (1..version) \cup {NoMessage}]
  /\ faults \in [Faults -> Nat] /\ FaultsBounded
  /\ version <= MaxStates + faults["restart"] + (IF run = "done" THEN 1 ELSE 0)

Past(thread) == IF thread \in starting THEN 1 ELSE 0

StartInv ==
  /\ starting \subseteq {"main", "net"} /\ timers \in Nat
  /\ "main" \in starting => run = "subscribe"
  /\ ~started => timers = 0
  /\ started => timers + Past("main") + Past("net") <= 2

LastOf(i) == \A l \in DOMAIN out : i < l => out[l].zone # out[i].zone
Waiting(z) == \E i \in DOMAIN out : i > sent /\ out[i].zone = z

LastIsLatest ==
  \A i \in DOMAIN out :
    out[i].zone \in active /\ published[out[i].zone] > 0 /\ LastOf(i)
      => out[i].payload = published[out[i].zone]

SentIsRetained ==
  faults["broker"] = 0 =>
    \A z \in active : published[z] > 0 /\ ~Waiting(z) => zoneStates[z] = published[z]

OnlyStaleCleared == \A i \in DOMAIN out : out[i].payload = NoMessage => out[i].zone \notin active

TopicInv == SinkTypes /\ StartInv /\ LastIsLatest /\ SentIsRetained /\ OnlyStaleCleared

LEMMA OutFacts ==
  ASSUME SinkTypes
  PROVE  /\ out \in Seq(SinkMessages) /\ Len(out) \in Nat /\ DOMAIN out = 1..Len(out)
         /\ \A i \in DOMAIN out : out[i] \in SinkMessages /\ out[i].zone \in SinkZones
<1>1. out \in Seq(SinkMessages)
  BY DEF SinkTypes
<1>2. Len(out) \in Nat /\ DOMAIN out = 1..Len(out) /\ \A i \in DOMAIN out : out[i] \in SinkMessages
  BY <1>1
<1> QED
  BY <1>1, <1>2 DEF SinkMessages

LEMMA InitTopicInv == Sink!SinkInit => TopicInv
<1> SUFFICES ASSUME Sink!SinkInit PROVE TopicInv
  OBVIOUS
<1> USE SinkFinite DEF Sink!SinkInit
<1>1. SinkTypes
  <2>1. published \in [SinkZones -> 0..version] /\ zoneStates \in [SinkZones -> (1..version) \cup {NoMessage}]
    OBVIOUS
  <2>2. faults \in [Faults -> Nat] /\ FaultsBounded
    BY DEF Faults, FaultsBounded
  <2>3. faults["restart"] = 0
    OBVIOUS
  <2>4. out = <<>> /\ sent = 0 /\ version = 0 /\ run = "config"
    OBVIOUS
  <2>5. out \in Seq(SinkMessages) /\ DOMAIN out = {} /\ sent \in 0..Len(out)
    BY <2>4
  <2>6. active \subseteq SinkZones /\ topics \subseteq SinkZones /\ inbox \subseteq SinkZones
    OBVIOUS
  <2> QED
    BY <2>1, <2>2, <2>3, <2>4, <2>5, <2>6 DEF SinkTypes, Places
<1>2. StartInv
  BY DEF StartInv, Past
<1>3. LastIsLatest /\ SentIsRetained /\ OnlyStaleCleared
  BY DEF LastIsLatest, SentIsRetained, OnlyStaleCleared
<1> QED
  BY <1>1, <1>2, <1>3 DEF TopicInv

LEMMA TopicInvImplies == TopicInv => SinkInv
<1> SUFFICES ASSUME TopicInv PROVE SinkInv
  OBVIOUS
<1> USE SinkFinite DEF TopicInv
<1>1. Sink!SinkTypeOK
  <2>1. faults["restart"] <= MaxFaults
    BY DEF SinkTypes, Faults, FaultsBounded
  <2>2. version \in 0..(MaxStates + MaxFaults + 1)
    <3>1. faults["restart"] \in Nat
      BY DEF SinkTypes, Faults
    <3> QED
      BY <2>1, <3>1 DEF SinkTypes
  <2>3. timers \in 0..2 /\ starting \in SUBSET Sink!Starters
    BY DEF StartInv, Past, Sink!Starters
  <2>4. \A i \in DOMAIN out : out[i].zone \in SinkZones
    BY OutFacts DEF TopicInv
  <2> QED
    BY <2>2, <2>3, <2>4 DEF SinkTypes, Sink!SinkTypeOK
<1>2. Sink!LatestRetained
  BY DEF Sink!LatestRetained, SentIsRetained, Waiting
<1> QED
  BY <1>1, <1>2 DEF SinkInv, Sink!SinkInv

-----------------------------------------------------------------------------
LEMMA FaultFacts ==
  ASSUME SinkTypes, NEW f \in Faults, Sink!Fault(f)
  PROVE  /\ faults' \in [Faults -> Nat] /\ FaultsBounded'
         /\ faults["broker"] \in Nat /\ faults'["broker"] >= faults["broker"]
         /\ faults'["restart"] = faults["restart"] + (IF f = "restart" THEN 1 ELSE 0)
         /\ f = "broker" => faults'["broker"] # 0
<1> USE SinkFinite DEF Faults
<1>1. faults \in [Faults -> Nat] /\ faults' = [faults EXCEPT ![f] = faults[f] + 1]
  BY DEF SinkTypes, Sink!Fault
<1>2. faults["drop"] + faults["broker"] + faults["restart"] + faults["late"] < MaxFaults
  BY DEF Sink!Fault
<1>3. \A g \in Faults : faults[g] \in Nat /\ faults'[g] = faults[g] + (IF g = f THEN 1 ELSE 0)
  BY <1>1
<1>4. faults' \in [Faults -> Nat]
  BY <1>1
<1>5. FaultsBounded'
  BY <1>2, <1>3 DEF FaultsBounded
<1> QED
  BY <1>3, <1>4, <1>5

\* No fault, or one that leaves the broker's messages and the process alone.
Calm == UNCHANGED faults \/ Sink!Fault("drop") \/ Sink!Fault("late")

LEMMA CalmFacts ==
  ASSUME SinkTypes, Calm
  PROVE  /\ faults' \in [Faults -> Nat] /\ FaultsBounded'
         /\ faults'["restart"] = faults["restart"] /\ faults["restart"] \in Nat
         /\ faults'["broker"] = 0 => faults["broker"] = 0
<1>1. faults \in [Faults -> Nat] /\ FaultsBounded
  BY DEF SinkTypes
<1>2. faults["restart"] \in Nat /\ faults["broker"] \in Nat
  BY <1>1 DEF Faults
<1>3. CASE UNCHANGED faults
  BY <1>1, <1>2, <1>3 DEF FaultsBounded
<1>4. ASSUME NEW f \in {"drop", "late"}, Sink!Fault(f)
      PROVE  /\ faults' \in [Faults -> Nat] /\ FaultsBounded'
             /\ faults'["restart"] = faults["restart"]
             /\ faults'["broker"] >= faults["broker"]
  <2>1. f \in Faults /\ f # "restart"
    BY DEF Faults
  <2> QED
    BY <1>2, <1>4, <2>1, FaultFacts
<1> QED
  BY <1>2, <1>3, <1>4, SMT DEF Calm

LEMMA StartKept ==
  ASSUME StartInv, UNCHANGED <<starting, timers, started>>, run' = run \/ run # "subscribe"
  PROVE  StartInv'
  BY DEF StartInv, Past

\* A step that publishes nothing and stores nothing: the client may start over
\* with its queue.
LEMMA QueueKept ==
  ASSUME TopicInv, UNCHANGED <<active, version, published, out, zoneStates>>,
         sent' \in {sent, 0}, topics' \subseteq SinkZones, inbox' \subseteq SinkZones,
         run' \in Places, run' = run \/ (run # "done" /\ run' # "done"),
         Calm, StartInv'
  PROVE  TopicInv'
<1>1. Len(out) \in Nat /\ sent \in 0..Len(out)
  BY OutFacts DEF TopicInv, SinkTypes
<1>2. SinkTypes'
  <2>1. version' <= MaxStates + faults'["restart"] + (IF run' = "done" THEN 1 ELSE 0)
    BY CalmFacts DEF TopicInv, SinkTypes
  <2>2. faults' \in [Faults -> Nat] /\ FaultsBounded'
    BY CalmFacts DEF TopicInv
  <2>3. sent' \in 0..Len(out')
    BY <1>1
  <2> QED
    BY <2>1, <2>2, <2>3 DEF TopicInv, SinkTypes
<1>3. LastIsLatest' /\ OnlyStaleCleared'
  BY DEF TopicInv, LastIsLatest, LastOf, OnlyStaleCleared
<1>4. SentIsRetained'
  <2>1. ASSUME NEW z PROVE Waiting(z) => Waiting(z)'
    BY <1>1, OutFacts DEF TopicInv, Waiting
  <2>2. faults'["broker"] = 0 => faults["broker"] = 0
    BY CalmFacts DEF TopicInv
  <2> QED
    BY <2>1, <2>2 DEF TopicInv, SentIsRetained
<1> QED
  BY <1>2, <1>3, <1>4 DEF TopicInv

\* A step that hands messages to the client: one about a zone in force carries
\* what was published last, and there is one when something was published.
LEMMA QueueExtended ==
  ASSUME TopicInv, UNCHANGED <<active, zoneStates, sent, inbox, topics>>, Calm, StartInv',
         NEW batch \in Seq(SinkMessages), out' = out \o batch,
         version' \in Nat, version <= version', published' \in [SinkZones -> 0..version'],
         run' \in Places, version' <= MaxStates + faults'["restart"] + (IF run' = "done" THEN 1 ELSE 0),
         \A i \in DOMAIN batch :
           /\ batch[i].payload \in (1..version') \cup {NoMessage}
           /\ batch[i].zone \in active =>
                batch[i].payload # NoMessage /\ batch[i].payload = published'[batch[i].zone],
         \A z \in active : published'[z] = published[z] \/ \E i \in DOMAIN batch : batch[i].zone = z
  PROVE  TopicInv'
<1> DEFINE n == Len(out)
           m == Len(batch)
<1>1. n \in Nat /\ sent \in 0..n /\ out \in Seq(SinkMessages) /\ DOMAIN out = 1..n
  BY OutFacts DEF TopicInv, SinkTypes
<1>2. m \in Nat /\ DOMAIN batch = 1..m
  OBVIOUS
<1>3. /\ out' \in Seq(SinkMessages) /\ Len(out') = n + m /\ DOMAIN out' = 1..(n + m)
      /\ \A i \in 1..n : out'[i] = out[i]
      /\ \A i \in (n + 1)..(n + m) : out'[i] = batch[i - n] /\ i - n \in 1..m
      /\ \A j \in 1..m : out'[n + j] = batch[j] /\ n + j \in 1..(n + m) /\ n + j > n
  BY <1>1, <1>2, ConcatProperties
<1>4. \A i \in 1..(n + m) : i \in 1..n \/ i \in (n + 1)..(n + m)
  BY <1>1, <1>2
<1> HIDE DEF n, m
<1>5. SinkTypes'
  <2>1. faults' \in [Faults -> Nat] /\ FaultsBounded'
    BY CalmFacts DEF TopicInv
  <2>2. zoneStates' \in [SinkZones -> (1..version') \cup {NoMessage}]
    BY DEF TopicInv, SinkTypes
  <2>3. ASSUME NEW i \in 1..n PROVE out'[i].payload \in (1..version') \cup {NoMessage}
    <3>1. out[i].payload \in (1..version) \cup {NoMessage} /\ version \in Nat
      BY <1>1 DEF TopicInv, SinkTypes
    <3>2. out'[i] = out[i]
      BY <1>3
    <3> QED
      BY <3>1, <3>2
  <2>4. \A i \in DOMAIN out' : out'[i].payload \in (1..version') \cup {NoMessage}
    BY <1>2, <1>3, <1>4, <2>3
  <2>5. sent' \in 0..Len(out')
    BY <1>1, <1>2, <1>3
  <2> QED
    BY <1>3, <2>1, <2>2, <2>4, <2>5 DEF TopicInv, SinkTypes
<1>6. ASSUME NEW z \in active, published'[z] # published[z]
      PROVE  \E i \in DOMAIN out' : i > n /\ out'[i].zone = z
  <2>1. PICK j \in DOMAIN batch : batch[j].zone = z
    BY <1>6
  <2>2. out'[n + j].zone = z /\ n + j \in DOMAIN out' /\ n + j > n
    BY <1>2, <1>3, <2>1
  <2> QED
    BY <2>2, Zenon
<1>7. LastIsLatest'
  <2> SUFFICES ASSUME NEW i \in 1..(n + m), out'[i].zone \in active, published'[out'[i].zone] > 0, LastOf(i)'
               PROVE  out'[i].payload = published'[out'[i].zone]
    BY <1>3 DEF LastIsLatest
  <2>1. CASE i \in 1..n
    <3>1. published'[out'[i].zone] = published[out'[i].zone]
      <4> SUFFICES ASSUME published'[out'[i].zone] # published[out'[i].zone] PROVE FALSE
        OBVIOUS
      <4>1. PICK l \in DOMAIN out' : l > n /\ out'[l].zone = out'[i].zone
        BY <1>6
      <4>2. i < l
        BY <1>1, <1>2, <1>3, <2>1, <4>1
      <4> QED
        BY <4>1, <4>2 DEF LastOf
    <3>2. LastOf(i)
      BY <1>1, <1>2, <1>3, <2>1 DEF LastOf
    <3> QED
      BY <1>1, <1>3, <2>1, <3>1, <3>2, ZenonT(30) DEF TopicInv, LastIsLatest
  <2>2. CASE i \in (n + 1)..(n + m)
    <3>1. out'[i] = batch[i - n] /\ i - n \in DOMAIN batch
      BY <1>2, <1>3, <2>2
    <3> QED
      BY <3>1
  <2> QED
    BY <1>4, <2>1, <2>2
<1>8. SentIsRetained'
  <2> SUFFICES ASSUME faults'["broker"] = 0, NEW z \in active, published'[z] > 0, ~Waiting(z)'
               PROVE  zoneStates[z] = published'[z]
    BY DEF SentIsRetained
  <2>1. published'[z] = published[z]
    <3> SUFFICES ASSUME published'[z] # published[z] PROVE FALSE
      OBVIOUS
    <3>1. PICK l \in DOMAIN out' : l > n /\ out'[l].zone = z
      BY <1>6
    <3>2. l > sent'
      BY <1>1, <1>2, <1>3, <3>1
    <3> QED
      BY <3>1, <3>2 DEF Waiting
  <2>2. ~Waiting(z)
    BY <1>1, <1>2, <1>3 DEF Waiting
  <2> QED
    BY <2>1, <2>2, CalmFacts DEF TopicInv, SentIsRetained
<1>9. OnlyStaleCleared'
  BY <1>1, <1>2, <1>3, <1>4 DEF TopicInv, OnlyStaleCleared
<1> QED
  BY <1>5, <1>7, <1>8, <1>9 DEF TopicInv

-----------------------------------------------------------------------------
LEMMA PublishConfigStep == ASSUME TopicInv, Sink!PublishConfig PROVE TopicInv'
<1> USE DEF Sink!PublishConfig, Sink!reconcileVars, Sink!brokerVars, TopicInv
<1>1. StartInv'
  BY StartKept
<1> QED
  BY <1>1, QueueKept DEF SinkTypes, Places, Calm

LEMMA AdvertiseZonesStep == ASSUME TopicInv, Sink!AdvertiseZones PROVE TopicInv'
<1> USE DEF Sink!AdvertiseZones, Sink!wireVars, Sink!brokerVars, TopicInv
<1>1. StartInv'
  BY StartKept
<1> QED
  BY <1>1, QueueKept DEF SinkTypes, Places, Calm

LEMMA CheckStartedStep == ASSUME TopicInv, Sink!CheckStarted PROVE TopicInv'
<1> USE DEF Sink!CheckStarted, Sink!wireVars, Sink!brokerVars, Sink!MayStart, TopicInv
<1>1. StartInv'
  BY DEF StartInv, Past
<1> QED
  BY <1>1, QueueKept DEF SinkTypes, Places, Calm

LEMMA SubscribeStep ==
  ASSUME TopicInv, NEW thread \in {"main", "net"}, Sink!Subscribe(thread)
  PROVE  TopicInv'
<1> USE DEF Sink!Subscribe, Sink!brokerVars, TopicInv
<1>1. thread = "main" => run = "subscribe" /\ run' = "seed"
  BY DEF StartInv
<1>2. StartInv'
  BY <1>1 DEF StartInv, Past
<1> QED
  BY <1>1, <1>2, QueueKept DEF SinkTypes, Places, Calm

LEMMA ConnectSinkStep == ASSUME TopicInv, Sink!Connect PROVE TopicInv'
<1> USE DEF Sink!Connect, Sink!mainVars, Sink!reconcileVars, Sink!brokerVars, TopicInv
<1>1. StartInv'
  BY StartKept
<1> QED
  BY <1>1, QueueKept DEF SinkTypes, Places, Calm

LEMMA OnConnectStep == ASSUME TopicInv, Sink!OnConnect PROVE TopicInv'
<1> USE DEF Sink!OnConnect, Sink!mainVars, Sink!brokerVars, Sink!MayStart, TopicInv
<1>1. StartInv'
  BY DEF StartInv, Past
<1> QED
  BY <1>1, QueueKept DEF SinkTypes, Places, Calm

LEMMA CollectStep == ASSUME TopicInv, NEW z \in SinkZones, Sink!Collect(z) PROVE TopicInv'
<1> USE DEF Sink!Collect, Sink!mainVars, Sink!brokerVars, TopicInv
<1>1. StartInv'
  BY StartKept
<1> QED
  BY <1>1, QueueKept DEF SinkTypes, Places, Calm

LEMMA StoreConfigStep == ASSUME TopicInv, Sink!StoreConfig PROVE TopicInv'
<1> USE DEF Sink!StoreConfig, Sink!mainVars, Sink!reconcileVars, TopicInv
<1>1. StartInv'
  BY StartKept
<1> QED
  BY <1>1, QueueKept DEF SinkTypes, Places, Calm

LEMMA AnswerSubscribeStep == ASSUME TopicInv, Sink!AnswerSubscribe PROVE TopicInv'
<1> USE DEF Sink!AnswerSubscribe, Sink!mainVars, Sink!reconcileVars, Sink!brokerVars, TopicInv
<1>1. StartInv'
  BY StartKept
<1> QED
  BY <1>1, QueueKept DEF SinkTypes, Places, Calm

LEMMA DropStep == ASSUME TopicInv, Sink!Drop PROVE TopicInv'
<1> USE DEF Sink!Drop, Sink!LinkLost, Sink!mainVars, Sink!reconcileVars, Sink!brokerVars, TopicInv
<1>1. StartInv'
  BY StartKept
<1> QED
  BY <1>1, QueueKept DEF SinkTypes, Places, Calm

LEMMA SeedZonesStep == ASSUME TopicInv, Sink!SeedZones PROVE TopicInv'
<1> USE DEF Sink!SeedZones, Sink!Enqueue, Sink!reconcileVars, Sink!brokerVars
<1>1. active \subseteq SinkZones /\ version \in Nat /\ version' = version + 1
  BY DEF TopicInv, SinkTypes
<1>2. out' = out \o Batch(active, version')
  BY SameCardinality DEF Batch
<1>3. published' = [z \in SinkZones |-> IF z \in active THEN version' ELSE 0]
  OBVIOUS
<1>4. run = "seed" /\ run' = "done" /\ UNCHANGED <<active, zoneStates, sent, inbox, topics, faults>>
  OBVIOUS
<1>5. StartInv'
  BY StartKept DEF TopicInv
<1>6. version' <= MaxStates + faults'["restart"] + 1
  <2>1. faults["restart"] \in Nat
    BY DEF TopicInv, SinkTypes, Faults
  <2> QED
    BY <1>1, <1>4, <2>1, SinkFinite DEF TopicInv, SinkTypes
<1> DEFINE batch == Batch(active, version')
<1>7. /\ batch \in Seq(SinkMessages)
      /\ \A i \in DOMAIN batch : batch[i].payload = version' /\ batch[i].zone \in active
      /\ NamesAll(batch, active)
  <2>1. PICK p : p = version'
    OBVIOUS
  <2>2. p \in Nat \cup {NoMessage} /\ batch = Batch(active, p)
    BY <1>1, <2>1
  <2>3. /\ Batch(active, p) \in Seq(SinkMessages)
        /\ \A i \in DOMAIN Batch(active, p) :
             Batch(active, p)[i].payload = p /\ Batch(active, p)[i].zone \in active
        /\ NamesAll(Batch(active, p), active)
    <3>1. active \subseteq SinkZones /\ p \in Nat \cup {NoMessage}
      BY <1>1, <2>2
    <3> QED
      BY <3>1, BatchFacts
  <2> HIDE DEF batch, Sink!SeedZones
  <2> QED
    BY <2>1, <2>2, <2>3
<1> HIDE DEF batch, Sink!SeedZones
<1>8. published' \in [SinkZones -> 0..version']
  BY <1>1, <1>3
<1>9. \A z \in active : published'[z] = version'
  BY <1>1, <1>3
<1>10. version' \in 1..version' /\ version' # NoMessage
  BY <1>1, SinkFinite
<1>11. out' = out \o batch /\ Calm /\ run' \in Places /\ version' \in Nat /\ version <= version'
  BY <1>1, <1>2, <1>4 DEF batch, Calm, Places
<1>12. \A i \in DOMAIN batch :
         /\ batch[i].payload \in (1..version') \cup {NoMessage}
         /\ batch[i].zone \in active =>
              batch[i].payload # NoMessage /\ batch[i].payload = published'[batch[i].zone]
  BY <1>7, <1>9, <1>10
<1>13. version' <= MaxStates + faults'["restart"] + (IF run' = "done" THEN 1 ELSE 0)
  BY <1>4, <1>6
<1>14. batch \in Seq(SinkMessages) /\ \A z \in active : \E i \in DOMAIN batch : batch[i].zone = z
  BY <1>7 DEF NamesAll
<1> QED
  BY <1>4, <1>5, <1>8, <1>11, <1>12, <1>13, <1>14, QueueExtended

LEMMA PublishZoneStateStep ==
  ASSUME TopicInv, NEW z \in SinkZones, Sink!PublishZoneState(z)
  PROVE  TopicInv'
<1> USE DEF Sink!PublishZoneState, Sink!Enqueue, Sink!reconcileVars, Sink!brokerVars
<1>1. version \in Nat /\ version' = version + 1 /\ version < MaxStates
  BY DEF TopicInv, SinkTypes
<1>2. published \in [SinkZones -> 0..version] /\ published' = [published EXCEPT ![z] = version']
  BY DEF TopicInv, SinkTypes
<1> DEFINE m == [zone |-> z, payload |-> version']
           batch == <<m>>
<1>3. m \in SinkMessages /\ m.zone = z /\ m.payload = version'
  BY <1>1 DEF SinkMessages
<1>4. out' = out \o batch
  OBVIOUS
<1>5. StartInv'
  BY StartKept DEF TopicInv
<1> HIDE DEF m
<1>6. batch \in Seq(SinkMessages) /\ DOMAIN batch = 1..1 /\ batch[1] = m
  BY <1>3
<1> HIDE DEF batch
<1>7. /\ \A i \in DOMAIN batch : batch[i].payload = version' /\ batch[i].zone = z
      /\ 1 \in DOMAIN batch /\ batch[1].zone = z
  BY <1>3, <1>6
<1>8. published' \in [SinkZones -> 0..version'] /\ published'[z] = version'
  BY <1>1, <1>2
<1>9. \A y \in active : published'[y] = published[y] \/ \E i \in DOMAIN batch : batch[i].zone = y
  BY <1>2, <1>7 DEF TopicInv, SinkTypes
<1>10. version' \in 1..version' /\ version' # NoMessage
  BY <1>1, SinkFinite
<1>11. run = "done" /\ run' = run /\ UNCHANGED <<active, zoneStates, sent, inbox, topics, faults>>
  OBVIOUS
<1>12. version' <= MaxStates + faults'["restart"] + 1
  <2>1. faults["restart"] \in Nat
    BY DEF TopicInv, SinkTypes, Faults
  <2> QED
    BY <1>1, <1>11, <2>1, SinkFinite
<1>13. version' <= MaxStates + faults'["restart"] + (IF run' = "done" THEN 1 ELSE 0)
  BY <1>11, <1>12
<1>14. Calm /\ run' \in Places /\ version' \in Nat /\ version <= version'
  BY <1>1, <1>11 DEF Calm, Places
<1>15. \A i \in DOMAIN batch :
         /\ batch[i].payload \in (1..version') \cup {NoMessage}
         /\ batch[i].zone \in active =>
              batch[i].payload # NoMessage /\ batch[i].payload = published'[batch[i].zone]
  BY <1>7, <1>8, <1>10
<1> HIDE DEF Sink!PublishZoneState
<1> QED
  BY <1>4, <1>5, <1>6, <1>8, <1>9, <1>11, <1>13, <1>14, <1>15, QueueExtended

LEMMA FinishStep == ASSUME TopicInv, Sink!Finish PROVE TopicInv'
<1> USE DEF Sink!Finish, Sink!mainVars, Sink!brokerVars
<1>1. Calm /\ UNCHANGED <<active, run, version, published, zoneStates, sent, inbox, topics, starting, started>>
  BY DEF Calm
<1>2. StartInv'
  BY DEF TopicInv, StartInv, Past
<1>3. CASE finished
  BY <1>1, <1>2, <1>3, QueueKept DEF TopicInv, SinkTypes
<1>4. CASE ~finished
  <2> DEFINE S == Sink!Stale
             batch == Batch(S, NoMessage)
  <2>1. S \subseteq SinkZones /\ S \cap active = {}
    BY DEF Sink!Stale, TopicInv, SinkTypes
  <2>2. out' = out \o batch
    BY <1>4, SameCardinality DEF Batch, Sink!Enqueue
  <2>3. /\ batch \in Seq(SinkMessages)
        /\ \A i \in DOMAIN batch : batch[i].payload = NoMessage /\ batch[i].zone \in S
    BY <2>1, BatchFacts
  <2> HIDE DEF batch, S, Sink!Finish
  <2>4. \A i \in DOMAIN batch : batch[i].zone \notin active
    BY <2>1, <2>3
  <2>5. version' <= MaxStates + faults'["restart"] + (IF run' = "done" THEN 1 ELSE 0)
    BY <1>1, CalmFacts DEF TopicInv, SinkTypes
  <2>6. version' \in Nat /\ version <= version' /\ published' = published /\ published' \in [SinkZones -> 0..version'] /\ run' \in Places
    BY <1>1 DEF TopicInv, SinkTypes
  <2> QED
    BY <1>1, <1>2, <2>2, <2>3, <2>4, <2>5, <2>6, QueueExtended
<1> QED
  BY <1>3, <1>4

\* The broker has the message: the last one about a zone in force is what was
\* published last.
LEMMA StoreStep == ASSUME TopicInv, Sink!Store PROVE TopicInv'
<1> USE DEF Sink!Store, Sink!mainVars, Sink!reconcileVars
<1> DEFINE k == sent + 1
           m == out[k]
<1>1. /\ UNCHANGED <<active, run, version, published, out, inbox, topics, faults>>
      /\ UNCHANGED <<starting, started, timers>>
      /\ sent \in Nat /\ k \in DOMAIN out /\ DOMAIN out = 1..Len(out) /\ Len(out) \in Nat /\ sent' = k
  BY OutFacts DEF TopicInv, SinkTypes
<1>2. zoneStates' = [zoneStates EXCEPT ![m.zone] = m.payload] /\ m.zone \in SinkZones
  BY <1>1, OutFacts DEF TopicInv
<1>3. m.payload \in (1..version) \cup {NoMessage} /\ zoneStates \in [SinkZones -> (1..version) \cup {NoMessage}]
  BY <1>1 DEF TopicInv, SinkTypes
<1>4. StartInv'
  BY <1>1, StartKept DEF TopicInv
<1> HIDE DEF Sink!Store
<1>5. SinkTypes'
  <2>1. zoneStates' \in [SinkZones -> (1..version) \cup {NoMessage}]
    BY <1>2, <1>3
  <2>2. FaultsBounded' /\ faults' \in [Faults -> Nat] /\ sent' \in 0..Len(out')
    BY <1>1 DEF TopicInv, SinkTypes, FaultsBounded
  <2> QED
    BY <1>1, <2>1, <2>2 DEF TopicInv, SinkTypes
<1>6. LastIsLatest' /\ OnlyStaleCleared'
  BY <1>1 DEF TopicInv, LastIsLatest, LastOf, OnlyStaleCleared
<1>7. SentIsRetained'
  <2> SUFFICES ASSUME faults["broker"] = 0, NEW z \in active, published[z] > 0, ~Waiting(z)'
               PROVE  zoneStates'[z] = published[z]
    BY <1>1 DEF SentIsRetained
  <2>1. z \in SinkZones
    BY DEF TopicInv, SinkTypes
  <2>2. \A l \in DOMAIN out : l > k => out[l].zone # z
    BY <1>1 DEF Waiting
  <2>3. CASE m.zone = z
    <3>1. LastOf(k)
      BY <1>1, <2>2, <2>3 DEF LastOf
    <3>2. m.payload = published[z]
      BY <1>1, <2>3, <3>1 DEF TopicInv, LastIsLatest
    <3> QED
      BY <1>2, <1>3, <2>3, <3>2
  <2>4. CASE m.zone # z
    <3>1. ~Waiting(z)
      BY <1>1, <2>2, <2>4 DEF Waiting
    <3> QED
      BY <1>2, <1>3, <2>1, <2>4, <3>1 DEF TopicInv, SentIsRetained
  <2> QED
    BY <2>3, <2>4
<1> QED
  BY <1>4, <1>5, <1>6, <1>7 DEF TopicInv

\* What is acknowledged has been stored: the rest of the queue moves up.
LEMMA AcknowledgeStep == ASSUME TopicInv, Sink!Acknowledge PROVE TopicInv'
<1> USE DEF Sink!Acknowledge, Sink!mainVars, Sink!reconcileVars, Sink!brokerVars
<1> DEFINE n == Len(out)
<1>1. /\ UNCHANGED <<active, run, version, published, zoneStates, inbox, topics, faults>>
      /\ UNCHANGED <<starting, started, timers>>
      /\ sent \in 1..n /\ sent' = sent - 1 /\ out' = Tail(out) /\ n \in Nat
      /\ DOMAIN out = 1..n /\ out \in Seq(SinkMessages) /\ n > 0 /\ out # <<>>
  BY OutFacts DEF TopicInv, SinkTypes
<1>2. /\ out' \in Seq(SinkMessages) /\ Len(out') = n - 1 /\ DOMAIN out' = 1..(n - 1)
      /\ \A i \in 1..(n - 1) : out'[i] = out[i + 1] /\ i + 1 \in 1..n /\ i \in Nat
  BY <1>1
<1>3. StartInv'
  BY <1>1, StartKept DEF TopicInv
<1> HIDE DEF Sink!Acknowledge, n
<1>4. SinkTypes'
  <2>1. \A i \in DOMAIN out' : out'[i].payload \in (1..version) \cup {NoMessage}
    BY <1>1, <1>2 DEF TopicInv, SinkTypes
  <2>2. FaultsBounded' /\ sent' \in 0..Len(out')
    BY <1>1, <1>2 DEF TopicInv, SinkTypes, FaultsBounded
  <2> QED
    BY <1>1, <1>2, <2>1, <2>2 DEF TopicInv, SinkTypes
<1>5. LastIsLatest'
  <2> SUFFICES ASSUME NEW i \in 1..(n - 1), out'[i].zone \in active, published[out'[i].zone] > 0, LastOf(i)'
               PROVE  out'[i].payload = published[out'[i].zone]
    BY <1>1, <1>2 DEF LastIsLatest
  <2>1. LastOf(i + 1)
    <3> SUFFICES ASSUME NEW l \in 1..n, i + 1 < l PROVE out[l].zone # out[i + 1].zone
      BY <1>1 DEF LastOf
    <3>1. l - 1 \in 1..(n - 1) /\ i < l - 1 /\ (l - 1) + 1 = l
      BY <1>1, <1>2
    <3> QED
      BY <1>2, <3>1 DEF LastOf
  <2> QED
    BY <1>1, <1>2, <2>1 DEF TopicInv, LastIsLatest
<1>6. SentIsRetained'
  <2>1. ASSUME NEW z, Waiting(z) PROVE Waiting(z)'
    <3>1. PICK l \in 1..n : l > sent /\ out[l].zone = z
      BY <1>1, <2>1 DEF Waiting
    <3>2. l - 1 \in 1..(n - 1) /\ l - 1 > sent' /\ (l - 1) + 1 = l
      BY <1>1, <3>1
    <3> QED
      BY <1>2, <3>1, <3>2 DEF Waiting
  <2> QED
    BY <1>1, <2>1 DEF TopicInv, SentIsRetained
<1>7. OnlyStaleCleared'
  BY <1>1, <1>2 DEF TopicInv, OnlyStaleCleared
<1> QED
  BY <1>3, <1>4, <1>5, <1>6, <1>7 DEF TopicInv

LEMMA BrokerRestartStep == ASSUME TopicInv, Sink!BrokerRestart PROVE TopicInv'
<1> USE DEF Sink!BrokerRestart, Sink!LinkLost, Sink!mainVars, Sink!reconcileVars
<1>1. /\ faults' \in [Faults -> Nat] /\ FaultsBounded' /\ faults'["broker"] # 0
      /\ faults'["restart"] = faults["restart"]
  BY FaultFacts DEF TopicInv, Faults, SinkTypes
<1>2. SinkTypes'
  <2>1. zoneStates' \in [SinkZones -> (1..version) \cup {NoMessage}]
    OBVIOUS
  <2>2. sent' \in 0..Len(out')
    BY OutFacts DEF TopicInv
  <2> QED
    BY <1>1, <2>1, <2>2 DEF TopicInv, SinkTypes
<1>3. StartInv'
  BY StartKept DEF TopicInv
<1>4. LastIsLatest' /\ SentIsRetained' /\ OnlyStaleCleared'
  BY <1>1 DEF TopicInv, LastIsLatest, LastOf, SentIsRetained, OnlyStaleCleared
<1> QED
  BY <1>2, <1>3, <1>4 DEF TopicInv

LEMMA RestartStep == ASSUME TopicInv, Sink!Restart PROVE TopicInv'
<1> USE DEF Sink!Restart, Sink!Fresh, Sink!LinkLost, Sink!brokerVars
<1>1. /\ faults' \in [Faults -> Nat] /\ FaultsBounded'
      /\ faults'["restart"] = faults["restart"] + 1
  BY FaultFacts DEF TopicInv, Faults
<1>2. SinkTypes'
  <2>1. published' \in [SinkZones -> 0..version] /\ version \in Nat
    BY DEF TopicInv, SinkTypes
  <2>2. out' \in Seq(SinkMessages) /\ DOMAIN out' = {} /\ sent' \in 0..Len(out')
    OBVIOUS
  <2>3. version <= MaxStates + faults'["restart"]
    <3>1. faults["restart"] \in Nat
      BY DEF TopicInv, SinkTypes, Faults
    <3> QED
      BY <1>1, <2>1, <3>1, SinkFinite DEF TopicInv, SinkTypes
  <2>4. zoneStates' \in [SinkZones -> (1..version) \cup {NoMessage}]
    BY DEF TopicInv, SinkTypes
  <2>5. run' = "config" /\ topics' = {} /\ inbox' = {} /\ active' \subseteq SinkZones /\ version' = version
    OBVIOUS
  <2>6. version' <= MaxStates + faults'["restart"] + (IF run' = "done" THEN 1 ELSE 0)
    <3>1. faults'["restart"] \in Nat
      BY <1>1 DEF Faults
    <3> QED
      BY <2>1, <2>3, <2>5, <3>1, SinkFinite
  <2> HIDE DEF Sink!Restart, Sink!Fresh, Sink!LinkLost
  <2> QED
    BY <1>1, <2>1, <2>2, <2>4, <2>5, <2>6 DEF SinkTypes, Places
<1>3. StartInv'
  BY DEF StartInv, Past
<1>4. LastIsLatest' /\ SentIsRetained' /\ OnlyStaleCleared'
  BY DEF LastIsLatest, SentIsRetained, OnlyStaleCleared, TopicInv, SinkTypes
<1> QED
  BY <1>2, <1>3, <1>4 DEF TopicInv

LEMMA TopicInvKept == TopicInv /\ [Sink!SinkNext]_sinkVars => TopicInv'
<1> SUFFICES ASSUME TopicInv, [Sink!SinkNext]_sinkVars PROVE TopicInv'
  OBVIOUS
<1>1. CASE Sink!Main
  BY <1>1, PublishConfigStep, AdvertiseZonesStep, CheckStartedStep, SubscribeStep, SeedZonesStep
  DEF Sink!Main
<1>2. CASE Sink!Network
  BY <1>2, ConnectSinkStep, OnConnectStep, SubscribeStep, CollectStep DEF Sink!Network
<1>3. CASE Sink!Finish
  BY <1>3, FinishStep
<1>4. CASE Sink!Broker
  BY <1>4, StoreStep, AcknowledgeStep, StoreConfigStep, AnswerSubscribeStep DEF Sink!Broker
<1>5. CASE Sink!Faults
  BY <1>5, DropStep, BrokerRestartStep, RestartStep DEF Sink!Faults
<1>6. ASSUME NEW z \in SinkZones, Sink!PublishZoneState(z) PROVE TopicInv'
  BY <1>6, PublishZoneStateStep
<1>7. CASE UNCHANGED sinkVars
  <2>1. StartInv'
    BY <1>7, StartKept DEF TopicInv, sinkVars
  <2> QED
    BY <1>7, <2>1, QueueKept DEF TopicInv, SinkTypes, Calm, sinkVars
<1> QED
  BY <1>1, <1>2, <1>3, <1>4, <1>5, <1>6, <1>7 DEF Sink!SinkNext

\* The action that ActiveNeverCleared is about.
ActiveKept ==
  \A z \in active : zoneStates[z] # NoMessage /\ faults'["broker"] = faults["broker"]
    => zoneStates'[z] # NoMessage

LEMMA ActiveKeptStep == TopicInv /\ [Sink!SinkNext]_sinkVars => ActiveKept
<1> SUFFICES ASSUME TopicInv, Sink!SinkNext \/ UNCHANGED sinkVars PROVE ActiveKept
  BY DEF sinkVars
<1>1. CASE UNCHANGED zoneStates
  BY <1>1 DEF ActiveKept
<1>2. CASE Sink!Store
  <2>1. sent + 1 \in DOMAIN out /\ sent' = sent + 1
    BY <1>2, OutFacts DEF Sink!Store, TopicInv, SinkTypes
  <2>2. /\ zoneStates' = [zoneStates EXCEPT ![out[sent + 1].zone] = out[sent + 1].payload]
        /\ zoneStates \in [SinkZones -> (1..version) \cup {NoMessage}] /\ active \subseteq SinkZones
    BY <1>2, <2>1 DEF Sink!Store, TopicInv, SinkTypes
  <2>3. out[sent + 1].zone \in active => out[sent + 1].payload # NoMessage
    BY <2>1 DEF TopicInv, OnlyStaleCleared
  <2> QED
    BY <2>2, <2>3 DEF ActiveKept
<1>3. CASE Sink!BrokerRestart
  <2>1. faults \in [Faults -> Nat] /\ faults' = [faults EXCEPT !["broker"] = faults["broker"] + 1]
    BY <1>3 DEF Sink!BrokerRestart, Sink!Fault, TopicInv, SinkTypes
  <2>2. faults'["broker"] # faults["broker"]
    BY <2>1 DEF Faults
  <2> QED
    BY <2>2 DEF ActiveKept
<1>4. CASE (Sink!SinkNext /\ ~Sink!Store /\ ~Sink!BrokerRestart) \/ UNCHANGED sinkVars
  <2>1. UNCHANGED zoneStates
    BY <1>4
    DEF Sink!SinkNext, Sink!Main, Sink!Network, Sink!Broker, Sink!Faults, Sink!PublishConfig,
        Sink!AdvertiseZones, Sink!CheckStarted, Sink!Subscribe, Sink!SeedZones,
        Sink!PublishZoneState, Sink!Connect, Sink!OnConnect, Sink!Collect, Sink!Finish,
        Sink!Acknowledge, Sink!StoreConfig, Sink!AnswerSubscribe, Sink!Drop, Sink!Restart,
        Sink!brokerVars, sinkVars
  <2> QED
    BY <1>1, <2>1
<1> QED
  BY <1>2, <1>3, <1>4

-----------------------------------------------------------------------------
(* The composition.                                                          *)

\* A step of OutboundSpec is a step of each part or leaves that part alone.
LEMMA PartSteps ==
  [OutboundNext]_<<part, sinkVars, gatewayVars, shutdownVars>>
    => [Sink!SinkNext]_sinkVars /\ [GatewayNext]_gatewayVars /\ [ShutdownNext]_shutdownVars
<1> SUFFICES ASSUME [OutboundNext]_<<part, sinkVars, gatewayVars, shutdownVars>>
             PROVE  [Sink!SinkNext]_sinkVars /\ [GatewayNext]_gatewayVars /\ [ShutdownNext]_shutdownVars
  OBVIOUS
<1>1. CASE OutboundNext
  BY <1>1 DEF OutboundNext
<1>2. CASE UNCHANGED <<part, sinkVars, gatewayVars, shutdownVars>>
  BY <1>2
<1> QED
  BY <1>1, <1>2

LEMMA PartInits == OutboundInit => TopicInv /\ MirrorInv /\ StopInv
  BY InitTopicInv, InitMirrorInv, InitStopInv DEF OutboundInit

LEMMA SameSinkVars == UNCHANGED sinkVars <=> UNCHANGED Sink!sinkVars
  BY DEF sinkVars, Sink!sinkVars, Sink!mainVars, Sink!reconcileVars, Sink!wireVars, Sink!brokerVars

\* SinkInv: with everything acknowledged a zone topic holds the last state
\* published, whatever the connection and the process went through, because the
\* last message about a zone in the client's queue is always the newest state
\* and what is not in the unsent part of the queue is on the broker.
THEOREM SinkTheorem == OutboundSpec => []SinkInv
<1>1. TopicInv /\ [OutboundNext]_<<part, sinkVars, gatewayVars, shutdownVars>> => TopicInv'
  BY PartSteps, TopicInvKept
<1> QED
  BY <1>1, PartInits, TopicInvImplies, PTL DEF OutboundSpec

\* GatewayInv and ShutdownInv of the composition: the parts share nothing.
THEOREM PartsTheorem == OutboundSpec => []GatewayInv /\ []ShutdownInv
<1>1. MirrorInv /\ [OutboundNext]_<<part, sinkVars, gatewayVars, shutdownVars>> => MirrorInv'
  BY PartSteps, MirrorInvKept
<1>2. StopInv /\ [OutboundNext]_<<part, sinkVars, gatewayVars, shutdownVars>> => StopInv'
  BY PartSteps, StopInvKept
<1>3. StopInv => ShutdownInv
  BY DEF StopInv, ShutdownInv
<1> QED
  BY <1>1, <1>2, <1>3, PartInits, MirrorInvImplies, PTL DEF OutboundSpec

\* OutboundSteps: the purge takes no topic of a zone of the config in force, as
\* every cleared message in the queue is about another zone, and the gateway's
\* cache never goes back.
THEOREM StepsTheorem == OutboundSpec => OutboundSteps
<1>1. TopicInv /\ [OutboundNext]_<<part, sinkVars, gatewayVars, shutdownVars>>
        => TopicInv' /\ [ActiveKept]_(Sink!sinkVars)
  BY PartSteps, TopicInvKept, ActiveKeptStep, SameSinkVars
<1>2. MirrorInv /\ [OutboundNext]_<<part, sinkVars, gatewayVars, shutdownVars>>
        => MirrorInv' /\ [\A t \in Topics : Forward(t)]_gatewayVars
  BY PartSteps, MirrorInvKept
<1>3. OutboundSpec => Sink!ActiveNeverCleared
  BY <1>1, PartInits, PTL DEF OutboundSpec, Sink!ActiveNeverCleared, ActiveKept
<1>4. OutboundSpec => CacheForward
  BY <1>2, PartInits, PTL DEF OutboundSpec, CacheForward, Forward
<1> QED
  BY <1>3, <1>4 DEF OutboundSteps
=============================================================================
