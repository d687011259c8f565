--------------------------- MODULE PubSubV2Proofs ---------------------------
(***************************************************************************)
(* Theorems about PubSubV2, for any number of clients, topics and          *)
(* messages: the types, no send on a closed channel, the order of messages *)
(* and the implementation of TopicBroadcast; and about PubSubV1, for any   *)
(* number of streams and messages.                                         *)
(***************************************************************************)
EXTENDS PubSubV2, PubSubV1, FiniteSetTheorems, TLAPS

Subscribed == {"serve", "send", "remove"}

\* The registry and the closed channels against the state of Subscribe.
Registered ==
    /\ \A t \in Topics : \A c \in subscribers[t] : topic[c] = t /\ pc[c] \in Subscribed
    /\ \A c \in closed : pc[c] \in {"close", "gone"}
    /\ \A c \in Clients : pc[c] \in Subscribed => topic[c] \in Topics

\* Only a client that has joined and not left holds a message.
Holding == \A c \in Clients :
    /\ held[c] # 0 <=> pc[c] = "send"
    /\ pc[c] = "new" => ch[c] = 0

\* No message is newer than the newest.
Counted ==
    /\ publishing # 0 => publishing = count
    /\ \A t \in Topics : \A m \in published[t] : m <= count
    /\ \A c \in Clients : last[c] <= count /\ held[c] <= count /\ ch[c] <= count

\* A channel yet to visit has an open subscription to the message's topic,
\* and has seen only older messages.
Visiting == \A c \in todo :
    /\ publishing # 0
    /\ pc[c] \in Subscribed
    /\ publishing \in published[topic[c]]
    /\ last[c] < publishing /\ held[c] < publishing /\ ch[c] < publishing

IInv == TypeOK /\ Registered /\ Holding /\ Counted /\ Visiting /\ InOrder

\* The empty server satisfies the inductive invariant.
LEMMA InitIInv == Init => IInv
<1> USE PubSubAssumption DEF Init
<1>1. Init => TypeOK
  <2>1. ASSUME Init
        PROVE  /\ pc \in [Clients -> {"new", "serve", "send", "remove", "close", "gone"}]
               /\ topic \in [Clients -> Topics \cup {NoTopic}]
               /\ crashed \in BOOLEAN
    BY <2>1
  <2>2. ASSUME Init
        PROVE  /\ subscribers \in [Topics -> SUBSET Clients] /\ todo \in SUBSET Clients
               /\ closed \in SUBSET Clients /\ published \in [Topics -> SUBSET Messages]
    BY <2>2
  <2>3. ASSUME Init
        PROVE  /\ publishing \in 0..MaxMessages /\ count \in 0..MaxMessages
               /\ ch \in [Clients -> 0..MaxMessages] /\ held \in [Clients -> 0..MaxMessages]
               /\ last \in [Clients -> 0..MaxMessages]
    BY <2>3
  <2> HIDE DEF Init
  <2> QED BY <2>1, <2>2, <2>3 DEF TypeOK
<1>2. Init => Registered /\ Holding /\ Visiting /\ InOrder
  BY DEF Registered, Holding, Visiting, InOrder, Subscribed
<1>3. Init => Counted
  BY DEF Counted
<1> QED BY <1>1, <1>2, <1>3 DEF IInv

\* Publish: taking the mutex and numbering the message.
LEMMA LockIInv ==
  ASSUME IInv, NEW t \in Topics, PublishLock(t)
  PROVE  IInv'
<1> USE PubSubAssumption DEF PublishLock, MuFree, registry, clients
<1>1. TypeOK'
  BY DEF IInv, TypeOK, Messages
<1>2. Registered' /\ Holding'
  BY DEF IInv, TypeOK, Registered, Holding, Subscribed
<1>3. Counted'
  BY DEF IInv, TypeOK, Counted, Messages
<1>4. Visiting'
  BY DEF IInv, TypeOK, Registered, Counted, Visiting, Subscribed, Messages
<1>5. InOrder'
  BY DEF IInv, TypeOK, InOrder, Holding, Counted, Registered, Subscribed, Messages
<1> QED BY <1>1, <1>2, <1>3, <1>4, <1>5 DEF IInv

\* Publish: one channel of its loop, and giving the mutex back.
LEMMA BroadcastIInv ==
  ASSUME IInv, Broadcast
  PROVE  IInv'
<1> USE PubSubAssumption DEF MuFree, registry, clients, history
<1>1. ASSUME NEW c \in Clients, PublishSend(c) PROVE IInv'
  <2> USE <1>1 DEF PublishSend
  <2>1. c \notin closed
    BY DEF IInv, TypeOK, Registered, Visiting, Subscribed
  <2>2. TypeOK'
    BY <2>1 DEF IInv, TypeOK
  <2>3. Registered' /\ Holding'
    BY DEF IInv, TypeOK, Registered, Holding, Visiting, Subscribed
  <2>4. Counted'
    BY DEF IInv, TypeOK, Counted, Visiting
  <2>5. Visiting'
    BY DEF IInv, TypeOK, Visiting
  <2>6. InOrder'
    BY DEF IInv, TypeOK, InOrder, Visiting
  <2> QED BY <2>2, <2>3, <2>4, <2>5, <2>6 DEF IInv
<1>2. ASSUME PublishUnlock PROVE IInv'
  BY <1>2 DEF PublishUnlock, IInv, TypeOK, Registered, Holding, Counted, Visiting, InOrder,
     Subscribed
<1> QED BY <1>1, <1>2 DEF Broadcast

\* The steps of a Subscribe call.
LEMMA SubscribeIInv ==
  ASSUME IInv, NEW c \in Clients, Subscribe(c)
  PROVE  IInv'
<1> USE PubSubAssumption DEF MuFree, registry, clients, history
<1>1. ASSUME NEW t \in Topics, addSubscriber(c, t) PROVE IInv'
  <2> USE <1>1 DEF addSubscriber
  <2>1. TypeOK'
    BY DEF IInv, TypeOK
  <2>2. Registered'
    BY DEF IInv, TypeOK, Registered, Subscribed
  <2>3. Holding' /\ Counted'
    BY DEF IInv, TypeOK, Holding, Counted
  <2>4. Visiting'
    BY DEF IInv, TypeOK, Visiting, Subscribed
  <2>5. InOrder'
    BY DEF IInv, TypeOK, InOrder, Holding
  <2> QED BY <2>1, <2>2, <2>3, <2>4, <2>5 DEF IInv
<1>2. ASSUME Receive(c) PROVE IInv'
  <2> USE <1>2 DEF Receive
  <2>1. TypeOK' /\ Registered' /\ Holding' /\ Counted'
    BY DEF IInv, TypeOK, Registered, Holding, Counted, Subscribed
  <2>2. Visiting'
    BY DEF IInv, TypeOK, Visiting, Subscribed
  <2>3. InOrder'
    BY DEF IInv, TypeOK, InOrder, Holding
  <2> QED BY <2>1, <2>2, <2>3 DEF IInv
<1>3. ASSUME Sent(c) PROVE IInv'
  <2> USE <1>3 DEF Sent
  <2>1. TypeOK' /\ Registered' /\ Holding' /\ Counted'
    BY DEF IInv, TypeOK, Registered, Holding, Counted, Subscribed
  <2>2. Visiting'
    BY DEF IInv, TypeOK, Visiting, Subscribed
  <2>3. InOrder'
    <3>1. held[c] # 0 /\ ch'[c] # 0 => held[c] < ch[c]
      BY DEF IInv, TypeOK, InOrder
    <3>2. held[c] = 0 => last'[c] = 0 /\ ch'[c] = ch[c]
      BY DEF IInv, TypeOK
    <3> QED BY <3>1, <3>2 DEF IInv, TypeOK, InOrder, Messages, Registered, Subscribed
  <2> QED BY <2>1, <2>2, <2>3 DEF IInv
<1>4. ASSUME SendFails(c) \/ ContextDone(c) PROVE IInv'
  <2> USE <1>4 DEF SendFails, ContextDone
  <2>1. TypeOK' /\ Registered' /\ Holding' /\ Counted'
    BY DEF IInv, TypeOK, Registered, Holding, Counted, Subscribed
  <2>2. Visiting'
    BY DEF IInv, TypeOK, Visiting, Subscribed
  <2>3. InOrder'
    BY DEF IInv, TypeOK, InOrder, Messages, Registered, Subscribed
  <2> QED BY <2>1, <2>2, <2>3 DEF IInv
<1>5. ASSUME removeSubscriber(c) PROVE IInv'
  <2> USE <1>5 DEF removeSubscriber
  <2>1. TypeOK' /\ Holding' /\ Counted' /\ InOrder'
    BY DEF IInv, TypeOK, Holding, Counted, InOrder
  <2>2. Registered'
    BY DEF IInv, TypeOK, Registered, Subscribed
  <2>3. Visiting'
    BY DEF IInv, TypeOK, Visiting
  <2> QED BY <2>1, <2>2, <2>3 DEF IInv
<1>6. ASSUME CloseChannel(c) PROVE IInv'
  <2> USE <1>6 DEF CloseChannel
  <2>1. TypeOK' /\ Holding' /\ Counted' /\ InOrder'
    BY DEF IInv, TypeOK, Holding, Counted, InOrder
  <2>2. Registered'
    BY DEF IInv, TypeOK, Registered, Subscribed
  <2>3. Visiting'
    BY DEF IInv, TypeOK, Visiting, Subscribed
  <2> QED BY <2>1, <2>2, <2>3 DEF IInv
<1> QED BY <1>1, <1>2, <1>3, <1>4, <1>5, <1>6 DEF Subscribe

\* Every step preserves the inductive invariant.
LEMMA NextIInv == IInv /\ [Next]_vars => IInv'
<1>1. CASE UNCHANGED vars
  BY <1>1 DEF vars, registry, clients, history, IInv, TypeOK, Registered, Holding, Counted,
     Visiting, InOrder
<1>2. CASE Next
  BY <1>2, LockIInv, BroadcastIInv, SubscribeIInv DEF Next
<1> QED BY <1>1, <1>2

\* The inductive invariant holds in every reachable state of the server.
LEMMA Invariance == Spec => []IInv
  BY InitIInv, NextIInv, PTL DEF Spec

\* Every variable keeps its type: the registry holds channels only, buffers
\* and the message a goroutine sends are message numbers.
THEOREM Typing == Spec => []TypeOK
<1>1. IInv => TypeOK
  BY DEF IInv
<1> QED BY <1>1, Invariance, PTL

\* Publish never sends on a closed channel, for any number of subscribers.
THEOREM NeverSendsOnClosed == Spec => []NoSendOnClosed
<1>1. IInv => NoSendOnClosed
  BY DEF IInv, TypeOK, Registered, Visiting, NoSendOnClosed, Subscribed
<1> QED BY <1>1, Invariance, PTL

\* Messages buffered or being sent are of the subscriber's topic, newer than
\* its subscription and in the order of publication.
THEOREM Ordered == Spec => []InOrder
<1>1. IInv => InOrder
  BY DEF IInv
<1> QED BY <1>1, Invariance, PTL

\* A step of the server is a step of TopicBroadcast or changes nothing there.
LEMMA StepImplements == IInv /\ [Next]_vars => [Abstract!Next]_Abstract!vars
<1> SUFFICES ASSUME IInv, [Next]_vars PROVE [Abstract!Next]_Abstract!vars
  OBVIOUS
<1> USE PubSubAssumption DEF registry, clients, history, Abstract!vars
<1>1. CASE UNCHANGED vars
  BY <1>1 DEF vars
<1>2. ASSUME NEW t \in Topics, PublishLock(t) PROVE Abstract!Next
  BY <1>2 DEF PublishLock, Abstract!Next, Abstract!Publish
<1>3. CASE Broadcast
  BY <1>3 DEF Broadcast, PublishSend, PublishUnlock
<1>4. ASSUME NEW c \in Clients, Subscribe(c) PROVE [Abstract!Next]_Abstract!vars
  <2>1. ASSUME NEW t \in Topics, addSubscriber(c, t) PROVE Abstract!Join(c, t)
    BY <2>1 DEF addSubscriber, Abstract!Join, IInv, TypeOK
  <2>2. CASE Receive(c) \/ SendFails(c) \/ ContextDone(c) \/ CloseChannel(c)
    BY <2>2 DEF Receive, SendFails, ContextDone, CloseChannel, IInv, TypeOK
  <2>3. ASSUME Sent(c), held[c] # 0 PROVE Abstract!Deliver(c, held[c]) /\ held[c] \in 1..MaxMessages
    BY <2>3 DEF Sent, Abstract!Deliver, IInv, TypeOK, InOrder, Registered, Subscribed
  <2>4. ASSUME removeSubscriber(c) PROVE Abstract!Leave(c)
    BY <2>4 DEF removeSubscriber, Abstract!Leave, IInv, TypeOK
  <2>5. Sent(c) => held[c] # 0
    BY DEF Sent, IInv, Holding
  <2> QED BY <1>4, <2>1, <2>2, <2>3, <2>4, <2>5 DEF Subscribe, Abstract!Next
<1> QED BY <1>1, <1>2, <1>3, <1>4 DEF Next

\* The server implements TopicBroadcast: through the mutex, the bounded
\* channels and the drops a subscriber gets what was promised.
THEOREM Implementation == Spec => Implements
<1>1. Init => Abstract!Init
  BY DEF Init, Abstract!Init
<1> QED BY <1>1, StepImplements, Invariance, PTL DEF Spec, Implements, Abstract!Spec

-----------------------------------------------------------------------------
(* The first server *)

\* A channel, and a stream, hold one message at most.
Singles == \A c \in Streams :
    /\ mail[c] = {} \/ \E m \in Published : mail[c] = {m}
    /\ taken[c] = {} \/ \E m \in Published : taken[c] = {m}

\* V1TypeOK without the sizes, which Singles has.
V1Types ==
    /\ registered \subseteq Streams
    /\ stage \in [Streams -> {"new", "add", "serve", "send", "close", "delete", "gone"}]
    /\ mail \in [Streams -> SUBSET Published]
    /\ taken \in [Streams -> SUBSET Published]
    /\ shut \subseteq Streams
    /\ target \in [Published -> {"new", "returned"} \cup Streams]
    /\ dead \in BOOLEAN

V1IInv == V1Types /\ Singles

\* At first there are no streams and no messages.
LEMMA InitV1 == NewPubSubServer => V1IInv
  BY DEF NewPubSubServer, V1IInv, V1Types, Singles

\* What the calls of a stream do with messages, they take from its channel.
LEMMA SubscribingV1 ==
    ASSUME V1IInv, NEW c \in Streams, Subscribing(c)
    PROVE  V1IInv'
  <1> USE DEF V1IInv, V1Types, Step
  <1>1. CASE Enter(c)
    BY <1>1 DEF Enter, Race, Singles
  <1>2. CASE Add(c) \/ Delete(c)
    BY <1>2 DEF Add, Delete, Singles
  <1>3. CASE Get(c)
    <2>1. V1Types'
      BY <1>3 DEF Get
    <2>2. Singles'
      BY <1>3 DEF Get, Singles
    <2> QED BY <2>1, <2>2
  <1>4. CASE StreamSend(c)
    <2>1. V1Types'
      BY <1>4 DEF StreamSend
    <2>2. Singles'
      BY <1>4 DEF StreamSend, Singles
    <2> QED BY <2>1, <2>2
  <1>5. CASE StreamDone(c)
    BY <1>5 DEF StreamDone, Singles
  <1>6. CASE Close(c)
    BY <1>6 DEF Close, Race, Singles
  <1> QED BY <1>1, <1>2, <1>3, <1>4, <1>5, <1>6 DEF Subscribing

\* A loop sends into an empty channel only.
LEMMA PublishingV1 ==
    ASSUME V1IInv, NEW m \in Published,
           RangeSubscribers(m) \/ SendOnClosed(m) \/ \E c \in Streams : SelectSend(m, c)
    PROVE  V1IInv'
  <1> USE DEF V1IInv, V1Types
  <1>1. CASE RangeSubscribers(m)
    <2>1. V1Types'
      BY <1>1 DEF RangeSubscribers, Race
    <2> QED BY <1>1, <2>1 DEF RangeSubscribers, Singles
  <1>2. CASE SendOnClosed(m)
    BY <1>2 DEF SendOnClosed, Singles
  <1>3. ASSUME NEW c \in Streams, SelectSend(m, c) PROVE V1IInv'
    <2>1. V1Types'
      BY <1>3 DEF SelectSend
    <2>2. Singles'
      BY <1>3 DEF SelectSend, Singles
    <2> QED BY <2>1, <2>2
  <1> QED BY <1>1, <1>2, <1>3

\* The invariant of the first server holds in every reachable state.
LEMMA InvarianceV1 == V1Spec => []V1IInv
  <1>1. V1IInv /\ [V1Next]_v1Vars => V1IInv'
    <2> SUFFICES ASSUME V1IInv, [V1Next]_v1Vars PROVE V1IInv'
      OBVIOUS
    <2>1. CASE UNCHANGED v1Vars
      BY <2>1 DEF v1Vars, V1IInv, V1Types, Singles
    <2> QED BY <2>1, SubscribingV1, PublishingV1 DEF V1Next
  <1> QED BY <1>1, InitV1, PTL DEF V1Spec

\* The size of a set that is empty or has one member.
LEMMA AtMostOne == \A S : (S = {} \/ \E x : S = {x}) => Cardinality(S) <= 1
  <1>1. ASSUME NEW S, S = {} \/ \E x : S = {x} PROVE Cardinality(S) = 0 \/ Cardinality(S) = 1
    BY <1>1, FS_EmptySet, FS_Singleton, Zenon
  <1> QED BY <1>1

\* Of the first server too, no channel is sent a second message before the
\* first one is received, however many streams and Publish calls there are.
THEOREM TypingV1 == V1Spec => []V1TypeOK
  <1>1. V1IInv => V1TypeOK
    <2> SUFFICES ASSUME V1IInv PROVE V1TypeOK
      OBVIOUS
    <2>1. ASSUME NEW S, S = {} \/ \E m \in Published : S = {m} PROVE Cardinality(S) <= 1
      BY <2>1, AtMostOne
    <2>2. \A c \in Streams : Cardinality(mail[c]) <= 1 /\ Cardinality(taken[c]) <= 1
      BY <2>1 DEF V1IInv, Singles
    <2> QED BY <2>2 DEF V1IInv, V1Types, V1TypeOK
  <1> QED BY <1>1, InvarianceV1, PTL
=============================================================================
