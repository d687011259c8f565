------------------------- MODULE KafkaConsumerProofs -------------------------
(***************************************************************************)
(* Who is fed, how often a message is received and how much a crash loses: *)
(* for any callers, topics, capacities, rebalances and crashes.            *)
(***************************************************************************)
EXTENDS KafkaConsumer, FiniteSetTheorems, TLAPS

\* The channel holds it, or somebody has got it.
Safe(t, m) == m \in Held(t) \/ received[t][m] > 0

\* Where a claim stands.
Claim(d) ==
    LET t == TopicOf[d] IN
    /\ marked[t] <= offset[d] /\ offset[d] <= produced[t]
    /\ consume[d] # "claim" => marked[t] < offset[d]
    /\ marked[t] # 0 => offset[d] = IF consume[d] = "claim" THEN marked[t] ELSE marked[t] + 1
    /\ consume[d] = "mark" => Safe(t, offset[d])

\* There is one session at a time.
Sessions ==
    \A d \in Callers : consume[d] \in InSession =>
        Claim(d) /\ \A e \in Callers : consume[e] \in InSession => e = d

\* Callers get channels of their topic.
Channels ==
    /\ \A c \in Callers :
        /\ pc[c] = "load" => consume[c] = "none"
        /\ pc[c] = "store" => channel[c] = c
        /\ pc[c] = "receive" => channel[c] \in Callers /\ TopicOf[channel[c]] = TopicOf[c]
    /\ \A t \in Topics : topic2MessageChanMap[t] # None => TopicOf[topic2MessageChanMap[t]] = t

\* What is marked and not yet committed is not lost, if there is an offset to
\* go back to.
Kept ==
    \A t \in Topics, m \in Numbers :
        committed[t] # 0 /\ committed[t] < m /\ m <= marked[t] => Safe(t, m)

\* If no calls have overlapped, a topic has one goroutine at most.
Single ==
    /\ \A c \in Callers :
        /\ pc[c] = "store" => topic2MessageChanMap[TopicOf[c]] = None
        /\ pc[c] = "receive" => channel[c] = topic2MessageChanMap[TopicOf[c]]
        /\ consume[c] # "none" => pc[c] = "store" \/ topic2MessageChanMap[TopicOf[c]] = c
        /\ messages[c] # << >> => consume[c] # "none"
    /\ \A c, d \in Callers : pc[c] = "store" /\ pc[d] = "store" /\ TopicOf[c] = TopicOf[d] => c = d

IInv == TypeOK /\ Sessions /\ Channels /\ Kept /\ (overlapped \/ Single)

\* A message that no session will take again, unless there is a crash or the
\* last commit of the session fails.
Reached(t, m) ==
    \/ m <= committed[t]
    \/ \E d \in Callers :
        /\ TopicOf[d] = t /\ consume[d] \in InSession
        /\ m <= marked[t] \/ (consume[d] = "mark" /\ m <= offset[d])

\* The channels that hold a message.
Holders(t, m) == {d \in Callers : TopicOf[d] = t /\ \E i \in DOMAIN messages[d] : messages[d][i] = m}

\* A channel holds messages of its one session, in their order.
Ordered(d) ==
    /\ messages[d] # << >> => consume[d] \in InSession \cup {"over"}
    /\ \A i \in DOMAIN messages[d] :
        IF consume[d] = "send" THEN messages[d][i] < offset[d] ELSE messages[d][i] <= offset[d]
    /\ \A i, j \in DOMAIN messages[d] : i < j => messages[d][i] < messages[d][j]

\* What may make a message be taken again.
Redo == crashes + failed

\* A message has been sent as often as it was taken again, and once if it is
\* not going to be.
Counted(t, m) ==
    /\ IsFiniteSet(Holders(t, m))
    /\ received[t][m] + Cardinality(Holders(t, m)) <= Redo + IF Reached(t, m) THEN 1 ELSE 0

CountInv == (\A d \in Callers : Ordered(d)) /\ \A t \in Topics, m \in Numbers : Counted(t, m)

InHand(t) == {offset[d] : d \in {e \in Callers : TopicOf[e] = t /\ consume[e] = "send"}}

\* Messages that are lost, or will be when something is committed.
Missed(t) ==
    {m \in taken[t] \ (Held(t) \cup InHand(t)) :
        received[t][m] = 0 /\ (committed[t] = 0 \/ m <= committed[t])}

MissedBounded ==
    ~overlapped => \A t \in Topics : Cardinality(Missed(t)) <= (Capacity + 1) * crashes
-----------------------------------------------------------------------------
(* What is in the channels *)

LEMMA HeldAfterReceive ==
    ASSUME TypeOK, Channels, NEW c \in Callers, Receive(c), NEW t, NEW m
    PROVE  LET d == channel[c]
               h == Head(messages[d])
           IN  /\ d \in Callers /\ TopicOf[d] = TopicOf[c]
               /\ h \in Numbers /\ h \in Held(TopicOf[c])
               /\ m \in Held(t)' => m \in Held(t)
               /\ m \in Held(t) => m \in Held(t)' \/ (t = TopicOf[c] /\ m = h)
               /\ t \in Topics => received'[t] \in [Numbers -> Nat]
               /\ received'[TopicOf[c]][h] = received[TopicOf[c]][h] + 1
               /\ t \in Topics /\ m \in Numbers /\ (t # TopicOf[c] \/ m # h) =>
                    received'[t][m] = received[t][m]
  <1> DEFINE d == channel[c]
  <1> DEFINE h == Head(messages[d])
  <1>1. d \in Callers /\ TopicOf[d] = TopicOf[c] /\ TopicOf[c] \in Topics
    BY KafkaConsumerAssumption DEF Channels, Receive
  <1>2. /\ messages \in [Callers -> Seq(Numbers)] /\ messages[d] \in Seq(Numbers)
        /\ messages[d] # << >> /\ messages' = [messages EXCEPT ![d] = Tail(@)]
    BY <1>1 DEF Receive, TypeOK
  <1>3. /\ 1 \in DOMAIN messages[d] /\ messages[d][1] = h /\ h \in Numbers
        /\ \A i \in DOMAIN messages'[d] : i + 1 \in DOMAIN messages[d] /\ messages'[d][i] = messages[d][i + 1]
        /\ \A i \in DOMAIN messages[d] : i # 1 =>
            i - 1 \in DOMAIN messages'[d] /\ messages[d][i] = messages'[d][i - 1]
    BY <1>1, <1>2
  <1>4. \A e \in Callers : e # d => messages'[e] = messages[e]
    BY <1>2
  <1>5. h \in Held(TopicOf[c])
    BY <1>1, <1>3 DEF Held
  <1>6. m \in Held(t)' => m \in Held(t)
    BY <1>1, <1>3, <1>4 DEF Held
  <1>7. m \in Held(t) => m \in Held(t)' \/ (t = TopicOf[c] /\ m = h)
    BY <1>1, <1>3, <1>4 DEF Held
  <1>8. /\ received \in [Topics -> [Numbers -> Nat]]
        /\ received' = [received EXCEPT ![TopicOf[c]][h] = @ + 1]
    BY DEF TypeOK, Receive
  <1> QED BY <1>1, <1>3, <1>5, <1>6, <1>7, <1>8

LEMMA HeldAfterSend ==
    ASSUME TypeOK, NEW d \in Callers, Send(d), NEW t, NEW m
    PROVE  m \in Held(t)' <=> m \in Held(t) \/ (t = TopicOf[d] /\ m = offset[d])
  <1>1. /\ messages \in [Callers -> Seq(Numbers)] /\ messages[d] \in Seq(Numbers)
        /\ messages' = [messages EXCEPT ![d] = Append(@, offset[d])]
    BY DEF Send, TypeOK
  <1>2. /\ \A i \in DOMAIN messages[d] : i \in DOMAIN messages'[d] /\ messages'[d][i] = messages[d][i]
        /\ \A i \in DOMAIN messages'[d] : i \in DOMAIN messages[d] \/ messages'[d][i] = offset[d]
        /\ Len(messages[d]) + 1 \in DOMAIN messages'[d]
        /\ messages'[d][Len(messages[d]) + 1] = offset[d]
    BY <1>1
  <1>3. \A e \in Callers : e # d => messages'[e] = messages[e]
    BY <1>1
  <1> QED BY <1>2, <1>3 DEF Held

LEMMA HeldAfterCrash ==
    ASSUME Crash, NEW t
    PROVE  Held(t)' = {}
  BY DEF Crash, Held

-----------------------------------------------------------------------------
(* The inductive invariant *)

LEMMA Beginning == Init => TypeOK /\ Sessions /\ Channels /\ Kept /\ Single
  <1> SUFFICES ASSUME Init PROVE TypeOK /\ Sessions /\ Channels /\ Kept /\ Single
    OBVIOUS
  <1> USE KafkaConsumerAssumption DEF Init, Started
  <1>1. TypeOK
    <2>1. messages \in [Callers -> Seq(Numbers)] /\ \A d \in Callers : Len(messages[d]) <= Capacity
      OBVIOUS
    <2>2. taken \in [Topics -> SUBSET Numbers] /\ received \in [Topics -> [Numbers -> Nat]]
      OBVIOUS
    <2>3. /\ marked \in [Topics -> Nat] /\ committed \in [Topics -> Nat]
          /\ \A t \in Topics : committed[t] <= marked[t] /\ marked[t] <= produced[t]
      OBVIOUS
    <2>4. /\ topic2MessageChanMap \in [Topics -> Callers \cup {None}]
          /\ pc \in [Callers -> {"load", "store", "receive"}]
          /\ channel \in [Callers -> Callers \cup {None}]
          /\ consume \in [Callers -> {"none", "join", "wait", "over"} \cup InSession]
      OBVIOUS
    <2>5. offset \in [Callers -> 0..MaxMessages] /\ produced \in [Topics -> 0..MaxMessages]
      OBVIOUS
    <2>6. consumerGroup \in {"none", "pod", "server"} /\ overlapped \in BOOLEAN
      BY Zenon
    <2>7. /\ rebalances \in 0..MaxRebalances /\ crashes \in 0..MaxCrashes /\ failed \in Nat
      OBVIOUS
    <2> QED BY ONLY <2>1, <2>2, <2>3, <2>4, <2>5, <2>6, <2>7 DEF TypeOK
  <1>2. Sessions
    BY DEF Sessions, InSession
  <1>3. Channels
    BY DEF Channels
  <1>4. Kept
    BY DEF Kept
  <1>5. Single
    BY DEF Single
  <1> QED BY <1>1, <1>2, <1>3, <1>4, <1>5

LEMMA TypesKept == IInv /\ Next => TypeOK'
  <1> SUFFICES ASSUME IInv, Next PROVE TypeOK'
    OBVIOUS
  <1> USE KafkaConsumerAssumption DEF process, ghosts
  <1>0. TypeOK /\ Sessions /\ Channels
    BY DEF IInv
  <1>1. ASSUME NEW c \in Callers, Load(c) PROVE TypeOK'
    <2>1. topic2MessageChanMap[TopicOf[c]] \in Callers \cup {None}
      BY <1>0 DEF TypeOK
    <2>2. CASE MakeChannel(c)
      BY <1>0, <1>1, <2>2 DEF Load, MakeChannel, TypeOK
    <2>3. CASE UseChannel(c)
      BY <1>0, <1>1, <2>1, <2>3 DEF Load, UseChannel, TypeOK
    <2> QED BY <1>1, <2>2, <2>3 DEF Load
  <1>2. ASSUME NEW c \in Callers, Store(c) PROVE TypeOK'
    BY <1>0, <1>2 DEF Store, TypeOK
  <1>3. ASSUME NEW c \in Callers, Receive(c) PROVE TypeOK'
    <2>1. channel[c] \in Callers /\ messages[channel[c]] \in Seq(Numbers) /\ messages[channel[c]] # << >>
      BY <1>0, <1>3 DEF Receive, Channels, TypeOK
    <2>2. /\ messages' = [messages EXCEPT ![channel[c]] = Tail(@)]
          /\ Tail(messages[channel[c]]) \in Seq(Numbers)
          /\ Len(Tail(messages[channel[c]])) <= Len(messages[channel[c]])
      BY <2>1, <1>3 DEF Receive
    <2>3. messages' \in [Callers -> Seq(Numbers)] /\ \A d \in Callers : Len(messages'[d]) <= Capacity
      <3>1. /\ messages \in [Callers -> Seq(Numbers)]
            /\ \A d \in Callers : Len(messages[d]) \in Nat /\ Len(messages[d]) <= Capacity
        BY <1>0 DEF TypeOK
      <3>2. messages' \in [Callers -> Seq(Numbers)]
        BY <2>2, <3>1
      <3>3. ASSUME NEW d \in Callers PROVE Len(messages'[d]) <= Capacity
        <4>1. CASE d = channel[c]
          BY <2>1, <2>2, <3>1, <4>1
        <4>2. CASE d # channel[c]
          BY <2>2, <3>1, <4>2
        <4> QED BY <4>1, <4>2
      <3> QED BY <3>2, <3>3
    <2>4. \A t \in Topics : received'[t] \in [Numbers -> Nat]
      BY <1>0, <1>3, HeldAfterReceive
    <2>5. received' \in [Topics -> [Numbers -> Nat]]
      BY <1>0, <1>3, <2>4 DEF Receive, TypeOK
    <2> QED BY <1>0, <1>3, <2>3, <2>5 DEF Receive, TypeOK
  <1>4. ASSUME NEW d \in Callers, GetKafkaConsumer(d) PROVE TypeOK'
    BY <1>0, <1>4 DEF GetKafkaConsumer, GoOn, TypeOK
  <1>5. ASSUME NEW d \in Callers, StartSession(d) PROVE TypeOK'
    <2>1. OffsetsInitial(TopicOf[d]) \in 0..MaxMessages
      BY <1>0 DEF TypeOK, OffsetsInitial
    <2>2. /\ marked' \in [Topics -> Nat] /\ committed' \in [Topics -> Nat]
          /\ \A t \in Topics : committed'[t] <= marked'[t] /\ marked'[t] <= produced'[t]
      BY <1>0, <1>5 DEF TypeOK, StartSession
    <2> QED BY <1>0, <1>5, <2>1, <2>2 DEF StartSession, GoOn, InSession, TypeOK
  <1>6. ASSUME NEW d \in Callers, Take(d) PROVE TypeOK'
    <2>1. offset[d] + 1 \in Numbers
      BY <1>0, <1>6 DEF TypeOK, Take, Numbers
    <2>2. taken' \in [Topics -> SUBSET Numbers]
      BY <1>0, <1>6, <2>1 DEF Take, TypeOK
    <2>3. offset' \in [Callers -> 0..MaxMessages]
      BY <1>0, <1>6, <2>1 DEF Take, TypeOK, Numbers
    <2>4. consume' \in [Callers -> {"none", "join", "wait", "over"} \cup InSession]
      BY <1>0, <1>6 DEF Take, GoOn, TypeOK, InSession
    <2> QED BY <1>0, <1>6, <2>2, <2>3, <2>4 DEF Take, TypeOK
  <1>7. ASSUME NEW d \in Callers, Send(d) PROVE TypeOK'
    <2>1. offset[d] \in Numbers
      <3>1. consume[d] = "send" /\ Claim(d)
        BY <1>0, <1>7 DEF Sessions, Send, InSession
      <3>2. TopicOf[d] \in Topics /\ marked[TopicOf[d]] \in Nat /\ offset[d] \in 0..MaxMessages
        BY <1>0 DEF TypeOK
      <3> QED BY <3>1, <3>2 DEF Claim, Numbers
    <2>2. messages' \in [Callers -> Seq(Numbers)] /\ \A e \in Callers : Len(messages'[e]) <= Capacity
      BY <1>0, <1>7, <2>1 DEF Send, Full, TypeOK
    <2> QED BY <1>0, <1>7, <2>2 DEF Send, GoOn, InSession, TypeOK
  <1>8. ASSUME NEW d \in Callers, Mark(d) PROVE TypeOK'
    <2>1. Claim(d)
      BY <1>0, <1>8 DEF Sessions, Mark, InSession
    <2>2. /\ marked' \in [Topics -> Nat]
          /\ \A t \in Topics : committed'[t] <= marked'[t] /\ marked'[t] <= produced'[t]
      BY <1>0, <1>8, <2>1 DEF TypeOK, Mark, Claim
    <2> QED BY <1>0, <1>8, <2>2 DEF Mark, GoOn, InSession, TypeOK
  <1>9. ASSUME NEW d \in Callers, EndSession(d) PROVE TypeOK'
    <2>1. /\ committed' = [committed EXCEPT ![TopicOf[d]] = marked[TopicOf[d]]] \/ committed' = committed
          /\ failed' = failed \/ failed' = failed + 1
      BY <1>9 DEF EndSession
    <2>2. /\ committed' \in [Topics -> Nat] /\ marked' = marked /\ produced' = produced
          /\ \A t \in Topics : committed'[t] <= marked'[t]
      <3>1. /\ committed \in [Topics -> Nat] /\ marked \in [Topics -> Nat]
            /\ \A t \in Topics : committed[t] <= marked[t]
        BY <1>0 DEF TypeOK
      <3>2. marked' = marked /\ produced' = produced
        BY <1>9 DEF EndSession
      <3> QED BY <2>1, <3>1, <3>2
    <2>3. failed' \in Nat /\ rebalances' \in 0..MaxRebalances
      <3>1. failed \in Nat /\ rebalances \in 0..MaxRebalances /\ MaxRebalances \in Nat
        BY <1>0 DEF TypeOK
      <3>2. rebalances < MaxRebalances /\ rebalances' = rebalances + 1
        BY <1>9 DEF EndSession
      <3> QED BY <2>1, <3>1, <3>2
    <2>4. consume' \in [Callers -> {"none", "join", "wait", "over"} \cup InSession]
      BY <1>0, <1>9 DEF EndSession, GoOn, InSession, TypeOK
    <2> QED BY <1>0, <1>9, <2>2, <2>3, <2>4 DEF EndSession, TypeOK
  <1>10. ASSUME NEW t \in Topics, Produce(t) PROVE TypeOK'
    BY <1>0, <1>10 DEF Produce, TypeOK
  <1>11. ASSUME NEW t \in Topics, Commit(t) PROVE TypeOK'
    BY <1>0, <1>11 DEF Commit, TypeOK
  <1>12. CASE Crash
    <2>1. messages' \in [Callers -> Seq(Numbers)] /\ \A d \in Callers : Len(messages'[d]) <= Capacity
      BY <1>12 DEF Crash
    <2>2. \A t \in Topics : committed'[t] <= marked'[t] /\ marked'[t] <= produced'[t]
      BY <1>0, <1>12 DEF Crash, TypeOK
    <2> QED BY <1>0, <1>12, <2>1, <2>2 DEF Crash, TypeOK
  <1> QED BY <1>1, <1>2, <1>3, <1>4, <1>5, <1>6, <1>7, <1>8, <1>9, <1>10, <1>11, <1>12
          DEF Next, Caller, Consumer

LEMMA ChannelsKept == IInv /\ Next => Channels'
  <1> SUFFICES ASSUME IInv, Next PROVE Channels'
    OBVIOUS
  <1> USE KafkaConsumerAssumption DEF process, ghosts, InSession
  <1>0. TypeOK /\ Channels
    BY DEF IInv
  <1>1. ASSUME NEW c \in Callers, Load(c) PROVE Channels'
    <2>1. CASE MakeChannel(c)
      BY <1>0, <1>1, <2>1 DEF Load, MakeChannel, TypeOK, Channels
    <2>2. CASE UseChannel(c) /\ topic2MessageChanMap[TopicOf[c]] # None
      BY <1>0, <1>1, <2>2 DEF Load, UseChannel, TypeOK, Channels
    <2> QED BY <1>1, <2>1, <2>2 DEF Load
  <1>2. ASSUME NEW c \in Callers, Store(c) PROVE Channels'
    BY <1>0, <1>2 DEF Store, TypeOK, Channels
  <1>3. ASSUME NEW c \in Callers, Receive(c) PROVE Channels'
    BY <1>0, <1>3 DEF Receive, Channels
  <1>4. ASSUME NEW d \in Callers, Consumer(d) \/ EndSession(d) PROVE Channels'
    BY <1>0, <1>4 DEF Consumer, GetKafkaConsumer, StartSession, Take, Send, Mark, EndSession, GoOn,
                      TypeOK, Channels
  <1>5. ASSUME NEW t \in Topics, Produce(t) \/ Commit(t) PROVE Channels'
    BY <1>0, <1>5 DEF Produce, Commit, Channels
  <1>6. CASE Crash
    BY <1>6 DEF Crash, Channels
  <1> QED BY <1>1, <1>2, <1>3, <1>4, <1>5, <1>6 DEF Next, Caller

LEMMA SingleKept == IInv /\ Next => overlapped' \/ Single'
  <1> SUFFICES ASSUME IInv, Next, ~overlapped' PROVE Single'
    OBVIOUS
  <1> USE KafkaConsumerAssumption DEF process, ghosts, InSession
  <1>0. TypeOK /\ Channels /\ Single
    BY DEF IInv, Next, Caller, Load, MakeChannel, UseChannel, Store, Receive, Consumer,
           GetKafkaConsumer, StartSession, Take, Send, Mark, EndSession, Produce, Commit, Crash
  <1>1. ASSUME NEW c \in Callers, Load(c) PROVE Single'
    <2>1. CASE MakeChannel(c) /\ topic2MessageChanMap[TopicOf[c]] = None
      <3>1. \A d \in Callers : TopicOf[d] = TopicOf[c] => pc[d] # "store"
        BY <2>1 DEF MakeChannel, Overlaps
      <3>2. /\ pc \in [Callers -> {"load", "store", "receive"}]
            /\ channel \in [Callers -> Callers \cup {None}]
            /\ consume \in [Callers -> {"none", "join", "wait", "over"} \cup InSession]
        BY <1>0 DEF TypeOK
      <3> QED BY <1>0, <1>1, <2>1, <3>1, <3>2 DEF Load, MakeChannel, Channels, Single
    <2>2. CASE UseChannel(c)
      <3>1. /\ pc \in [Callers -> {"load", "store", "receive"}]
            /\ channel \in [Callers -> Callers \cup {None}]
        BY <1>0 DEF TypeOK
      <3> QED BY <1>0, <1>1, <2>2, <3>1 DEF Load, UseChannel, Channels, Single
    <2> QED BY <1>1, <2>1, <2>2 DEF Load
  <1>2. ASSUME NEW c \in Callers, Store(c) PROVE Single'
    <2>1. /\ pc \in [Callers -> {"load", "store", "receive"}]
          /\ topic2MessageChanMap \in [Topics -> Callers \cup {None}]
      BY <1>0 DEF TypeOK
    <2> QED BY <1>0, <1>2, <2>1 DEF Store, Channels, Single
  <1>3. ASSUME NEW c \in Callers, Receive(c) PROVE Single'
    BY <1>0, <1>3 DEF Receive, TypeOK, Single
  <1>4. ASSUME NEW d \in Callers, Consumer(d) \/ EndSession(d) PROVE Single'
    <2>1. CASE Send(d)
      <3>1. /\ \A c \in Callers : c # d => messages'[c] = messages[c]
            /\ consume[d] # "none" /\ \A c \in Callers : consume'[c] = "none" <=> consume[c] = "none"
        BY <1>0, <2>1 DEF Send, GoOn, TypeOK
      <3> QED BY <1>0, <2>1, <3>1 DEF Send, Single
    <2>2. CASE ~Send(d)
      <3>1. /\ UNCHANGED <<topic2MessageChanMap, pc, channel, messages>>
            /\ \A c \in Callers : consume'[c] = "none" <=> consume[c] = "none"
        BY <1>0, <1>4, <2>2 DEF Consumer, GetKafkaConsumer, StartSession, Take, Mark, EndSession, GoOn, TypeOK
      <3> QED BY <1>0, <3>1 DEF Single
    <2> QED BY <2>1, <2>2
  <1>5. ASSUME NEW t \in Topics, Produce(t) \/ Commit(t) PROVE Single'
    BY <1>0, <1>5 DEF Produce, Commit, Single
  <1>6. CASE Crash
    BY <1>6 DEF Crash, Single
  <1> QED BY <1>1, <1>2, <1>3, <1>4, <1>5, <1>6 DEF Next, Caller

LEMMA SafeKept ==
    ASSUME TypeOK, Channels, Next, ~Crash, NEW t \in Topics, NEW m \in Numbers, Safe(t, m)
    PROVE  Safe(t, m)'
  <1> USE DEF process, ghosts
  <1>0. received \in [Topics -> [Numbers -> Nat]]
    BY DEF TypeOK
  <1>1. ASSUME NEW c \in Callers, Receive(c) PROVE Safe(t, m)'
    BY <1>0, <1>1, HeldAfterReceive DEF Safe
  <1>2. ASSUME NEW d \in Callers, Send(d) PROVE Safe(t, m)'
    <2>1. received' = received
      BY <1>2 DEF Send
    <2> QED BY <1>2, <2>1, HeldAfterSend DEF Safe
  <1>3. UNCHANGED <<messages, received>> => Safe(t, m)'
    BY DEF Safe, Held
  <1> QED BY <1>1, <1>2, <1>3 DEF Next, Caller, Load, Store, Consumer, GetKafkaConsumer,
          StartSession, Take, Mark, EndSession, Produce, Commit

LEMMA ClaimKept ==
    ASSUME TypeOK, Channels, Next, ~Crash, NEW d \in Callers, consume[d] \in InSession, Claim(d),
           consume'[d] = consume[d], offset'[d] = offset[d],
           marked'[TopicOf[d]] = marked[TopicOf[d]],
           produced[TopicOf[d]] <= produced'[TopicOf[d]], produced'[TopicOf[d]] \in Nat
    PROVE  Claim(d)'
  <1>1. /\ TopicOf[d] \in Topics /\ marked[TopicOf[d]] \in Nat /\ offset[d] \in 0..MaxMessages
        /\ produced[TopicOf[d]] \in Nat /\ MaxMessages \in Nat
    BY KafkaConsumerAssumption DEF TypeOK
  <1>2. ASSUME NEW n \in Numbers, n = offset[d], consume[d] = "mark"
        PROVE  Safe(TopicOf[d], n)'
    BY <1>1, <1>2, SafeKept DEF Claim
  <1>3. consume[d] = "mark" => offset[d] \in Numbers
    BY <1>1 DEF Claim, Numbers
  <1>4. consume[d] = "mark" => Safe(TopicOf[d], offset[d])'
    BY <1>2, <1>3 DEF Safe
  <1> QED BY <1>1, <1>4 DEF Claim

LEMMA SessionsKept == IInv /\ Next => Sessions'
  <1> SUFFICES ASSUME IInv, Next PROVE Sessions'
    OBVIOUS
  <1> USE KafkaConsumerAssumption DEF process, ghosts
  <1>0. TypeOK /\ Channels /\ Sessions
    BY DEF IInv
  <1>1. ASSUME ~Crash, UNCHANGED <<offset, marked>>,
               \A d \in Callers : consume'[d] = consume[d] \/ consume'[d] \notin InSession,
               \A t \in Topics : produced[t] <= produced'[t] /\ produced'[t] \in Nat
        PROVE  Sessions'
    <2>1. ASSUME NEW d \in Callers, consume'[d] \in InSession PROVE Claim(d)'
      <3>1. consume[d] \in InSession /\ Claim(d) /\ consume'[d] = consume[d]
        BY <1>0, <1>1, <2>1 DEF Sessions
      <3> QED BY <1>0, <1>1, <3>1, ClaimKept
    <2> QED BY <1>0, <1>1, <2>1 DEF Sessions
  <1>2. \A t \in Topics : produced[t] \in Nat /\ produced[t] <= produced[t]
    BY <1>0 DEF TypeOK
  <1>3. ASSUME NEW c \in Callers, Caller(c) PROVE Sessions'
    <2>1. ~Crash
      <3>1. crashes \in Nat /\ crashes' = crashes
        BY <1>0, <1>3 DEF Caller, Load, Store, Receive, TypeOK
      <3> QED BY <3>1 DEF Crash
    <2> QED BY <1>0, <1>1, <1>2, <1>3, <2>1
            DEF Caller, Load, MakeChannel, UseChannel, Store, Receive, TypeOK, InSession
  <1>4. ASSUME NEW d \in Callers, GetKafkaConsumer(d) PROVE Sessions'
    <2>1. ~Crash
      BY <1>0, <1>4 DEF GetKafkaConsumer, Crash, TypeOK
    <2> QED BY <1>0, <1>1, <1>2, <1>4, <2>1 DEF GetKafkaConsumer, GoOn, TypeOK, InSession
  <1>5. ASSUME NEW d \in Callers, EndSession(d) PROVE Sessions'
    <2>1. \A e \in Callers : consume'[e] \notin InSession
      BY <1>0, <1>5 DEF EndSession, GoOn, Sessions, TypeOK, InSession
    <2> QED BY <2>1 DEF Sessions
  <1>6. ASSUME NEW t \in Topics, Produce(t) \/ Commit(t) PROVE Sessions'
    <2>1. ~Crash
      BY <1>0, <1>6 DEF Produce, Commit, Crash, TypeOK
    <2>2. \A u \in Topics : produced[u] <= produced'[u] /\ produced'[u] \in Nat
      <3>1. produced' = produced \/ produced' = [produced EXCEPT ![t] = @ + 1]
        BY <1>6 DEF Produce, Commit
      <3>2. produced \in [Topics -> Nat]
        BY <1>0 DEF TypeOK
      <3> QED BY <3>1, <3>2
    <2> QED BY <1>1, <1>6, <2>1, <2>2 DEF Produce, Commit
  <1>7. CASE Crash
    BY <1>7 DEF Crash, Sessions, InSession
  \* The session that works is the only one.
  <1>8. ASSUME NEW d \in Callers, Claim(d)',
               \A e \in Callers \ {d} : consume[e] \notin InSession /\ consume'[e] = consume[e]
        PROVE  Sessions'
    BY <1>8 DEF Sessions
  <1>9. ASSUME NEW d \in Callers, StartSession(d) \/ Take(d) \/ Send(d) \/ Mark(d)
        PROVE  Sessions'
    <2>1. \A e \in Callers \ {d} : consume[e] \notin InSession /\ consume'[e] = consume[e]
      BY <1>0, <1>9 DEF StartSession, Take, Send, Mark, GoOn, Sessions, TypeOK, InSession
    <2>2. /\ TopicOf[d] \in Topics /\ marked[TopicOf[d]] \in Nat /\ committed[TopicOf[d]] \in Nat
          /\ committed[TopicOf[d]] <= marked[TopicOf[d]] /\ marked[TopicOf[d]] <= produced[TopicOf[d]]
          /\ produced[TopicOf[d]] \in Nat /\ offset[d] \in Nat
          /\ marked \in [Topics -> Nat] /\ offset \in [Callers -> 0..MaxMessages]
          /\ consume \in [Callers -> {"none", "join", "wait", "over"} \cup InSession]
      BY <1>0 DEF TypeOK
    <2>3. CASE StartSession(d)
      <3>1. /\ offset'[d] = OffsetsInitial(TopicOf[d]) /\ marked'[TopicOf[d]] = committed[TopicOf[d]]
            /\ consume'[d] = "claim" /\ produced' = produced
        BY <2>2, <2>3 DEF StartSession, GoOn
      <3> QED BY <1>8, <2>1, <2>2, <3>1 DEF Claim, OffsetsInitial
    <2>4. CASE ~StartSession(d)
      <3>1. Claim(d)
        BY <1>0, <1>9, <2>4 DEF Take, Send, Mark, Sessions, InSession
      <3>2. CASE Take(d)
        <4>1. /\ offset'[d] = offset[d] + 1 /\ marked' = marked /\ produced' = produced
              /\ consume[d] = "claim" /\ consume'[d] = "send" /\ offset[d] < produced[TopicOf[d]]
          BY <2>2, <3>2 DEF Take, GoOn
        <4> QED BY <1>8, <2>1, <2>2, <3>1, <4>1 DEF Claim
      <3>3. CASE Send(d)
        <4>1. /\ offset' = offset /\ marked' = marked /\ produced' = produced
              /\ consume[d] = "send" /\ consume'[d] = "mark"
          BY <2>2, <3>3 DEF Send, GoOn
        <4>2. offset'[d] \in Held(TopicOf[d])'
          BY <1>0, <3>3, <4>1, HeldAfterSend
        <4>3. Safe(TopicOf[d], offset[d])'
          BY <4>2 DEF Safe
        <4> QED BY <1>8, <2>1, <2>2, <3>1, <4>1, <4>3 DEF Claim
      <3>4. CASE Mark(d)
        <4>1. /\ offset' = offset /\ marked'[TopicOf[d]] = offset[d] /\ produced' = produced
              /\ consume'[d] = "claim"
          BY <2>2, <3>4 DEF Mark, GoOn
        <4> QED BY <1>8, <2>1, <2>2, <3>1, <4>1 DEF Claim
      <3> QED BY <1>9, <2>4, <3>2, <3>3, <3>4
    <2> QED BY <2>3, <2>4
  <1> QED BY <1>3, <1>4, <1>5, <1>6, <1>7, <1>9 DEF Next, Consumer

LEMMA KeptKept == IInv /\ Next => Kept'
  <1> SUFFICES ASSUME IInv, Next, NEW t \in Topics, NEW m \in Numbers,
                      committed'[t] # 0, committed'[t] < m, m <= marked'[t]
               PROVE  Safe(t, m)'
    BY DEF Kept
  <1> USE KafkaConsumerAssumption DEF process, ghosts
  <1>0. TypeOK /\ Channels /\ Sessions /\ Kept
    BY DEF IInv
  <1>1. /\ marked \in [Topics -> Nat] /\ committed \in [Topics -> Nat] /\ m \in Nat
        /\ \A u \in Topics : committed[u] <= marked[u]
    BY <1>0 DEF TypeOK, Numbers
  <1>2. ~Crash
    BY <1>1 DEF Crash
  <1>3. CASE UNCHANGED <<committed, marked>>
    BY <1>0, <1>2, <1>3, SafeKept DEF Kept
  <1>4. ASSUME NEW d \in Callers, StartSession(d) PROVE Safe(t, m)'
    <2>1. TopicOf[d] # t
      BY <1>1, <1>4 DEF StartSession
    <2> QED BY <1>0, <1>1, <1>2, <1>4, <2>1, SafeKept DEF StartSession, Kept
  <1>5. ASSUME NEW d \in Callers, Mark(d) PROVE Safe(t, m)'
    <2>1. Claim(d) /\ consume[d] = "mark" /\ offset[d] \in Nat /\ TopicOf[d] \in Topics
      BY <1>0, <1>5 DEF Mark, Sessions, InSession, TypeOK
    <2>2. committed' = committed /\ marked' = [marked EXCEPT ![TopicOf[d]] = offset[d]]
      BY <1>5 DEF Mark
    <2>3. CASE m <= marked[t]
      BY <1>0, <1>2, <2>2, <2>3, SafeKept DEF Kept
    <2>4. CASE marked[t] < m
      <3>1. t = TopicOf[d] /\ m = offset[d]
        BY <1>1, <2>1, <2>2, <2>4 DEF Claim
      <3>2. Safe(t, m)
        BY <2>1, <3>1 DEF Claim
      <3> QED BY <1>0, <1>2, <3>2, SafeKept
    <2> QED BY <1>1, <2>3, <2>4
  <1>6. ASSUME NEW u \in Topics, committed' = [committed EXCEPT ![u] = marked[u]], marked' = marked
        PROVE  Safe(t, m)'
    <2>1. t # u
      BY <1>1, <1>6
    <2> QED BY <1>0, <1>1, <1>2, <1>6, <2>1, SafeKept DEF Kept
  <1>7. ASSUME NEW d \in Callers, EndSession(d) PROVE Safe(t, m)'
    BY <1>3, <1>6, <1>7 DEF EndSession
  <1>8. ASSUME NEW u \in Topics, Commit(u) PROVE Safe(t, m)'
    BY <1>6, <1>8 DEF Commit
  <1> QED BY <1>2, <1>3, <1>4, <1>5, <1>7, <1>8
          DEF Next, Caller, Load, Store, Receive, Consumer, GetKafkaConsumer, Take, Send, Produce

\* The invariant holds at first.
THEOREM Initially == Init => IInv
  BY Beginning DEF IInv

\* Steps of callers, consumers, broker and crashes keep the invariant.
THEOREM Stepwise == IInv /\ [Next]_vars => IInv'
  <1> SUFFICES ASSUME IInv, [Next]_vars PROVE IInv'
    OBVIOUS
  <1>1. CASE Next
    BY <1>1, TypesKept, SessionsKept, ChannelsKept, KeptKept, SingleKept DEF IInv
  <1>2. CASE UNCHANGED vars
    BY <1>2 DEF IInv, TypeOK, Sessions, Claim, Safe, Held, Channels, Kept, Single,
                vars, process, ghosts
  <1> QED BY <1>1, <1>2

\* The invariant holds in every reachable state.
THEOREM Invariance == Spec => []IInv
  BY Initially, Stepwise, PTL DEF Spec

\* Tables, channels, offsets and counters keep their types, and no channel
\* holds more than its capacity.
THEOREM Typing == Spec => []TypeOK
  <1>1. IInv => TypeOK
    BY DEF IInv
  <1> QED BY <1>1, Invariance, PTL

\* A caller gets the channel that its topic's messages are sent to, unless
\* calls overlap.
THEOREM AlwaysFed == Spec => []Fed
  <1>1. IInv => Fed
    <2> SUFFICES ASSUME IInv, ~overlapped, NEW c \in Callers, NEW d \in Callers,
                        pc[c] = "receive", TopicOf[d] = TopicOf[c], consume[d] \in InSession
                 PROVE  channel[c] = d
      BY DEF Fed
    <2>1. Single /\ Channels
      BY DEF IInv
    <2>2. channel[c] = topic2MessageChanMap[TopicOf[c]] /\ channel[c] # None
      BY <2>1, KafkaConsumerAssumption DEF Single, Channels
    <2>3. consume[d] # "none"
      BY DEF InSession
    <2> QED BY <2>1, <2>2, <2>3 DEF Single
  <1> QED BY <1>1, Invariance, PTL

-----------------------------------------------------------------------------
(* How often a message is received *)

LEMMA OrderedKept == IInv /\ CountInv /\ Next => \A d \in Callers : Ordered(d)'
  <1> SUFFICES ASSUME IInv, CountInv, Next, NEW d \in Callers PROVE Ordered(d)'
    OBVIOUS
  <1> USE KafkaConsumerAssumption DEF process, ghosts, InSession
  <1>0. TypeOK /\ Channels /\ Ordered(d)
    BY DEF IInv, CountInv
  <1>1. /\ messages \in [Callers -> Seq(Numbers)] /\ messages[d] \in Seq(Numbers)
        /\ offset \in [Callers -> 0..MaxMessages] /\ Numbers \subseteq Nat
        /\ consume \in [Callers -> {"none", "join", "wait", "over"} \cup InSession]
    BY <1>0 DEF TypeOK, Numbers
  <1>a. /\ \A i \in DOMAIN messages[d] : messages[d][i] \in Nat
        /\ DOMAIN messages[d] = 1..Len(messages[d]) /\ Len(messages[d]) \in Nat
    <2>1. messages[d] \in [1..Len(messages[d]) -> Numbers] /\ Len(messages[d]) \in Nat
      BY <1>1
    <2> QED BY <1>1, <2>1
  <1>2. ASSUME messages'[d] = messages[d], consume'[d] = consume[d], offset'[d] = offset[d]
        PROVE  Ordered(d)'
    BY <1>0, <1>2 DEF Ordered
  <1>3. ASSUME NEW c \in Callers, Load(c) PROVE Ordered(d)'
    <2>1. CASE MakeChannel(c) /\ c = d
      <3>1. consume[d] = "none" /\ messages' = messages
        BY <1>0, <1>3, <2>1 DEF Load, Channels
      <3> QED BY <1>0, <1>1, <3>1 DEF Ordered
    <2>2. CASE ~(MakeChannel(c) /\ c = d)
      <3>1. messages' = messages /\ offset' = offset /\ consume'[d] = consume[d]
        BY <1>1, <1>3, <2>2 DEF Load, MakeChannel, UseChannel
      <3> QED BY <1>2, <3>1
    <2> QED BY <2>1, <2>2
  <1>4. ASSUME NEW c \in Callers, Store(c) PROVE Ordered(d)'
    BY <1>2, <1>4 DEF Store
  <1>5. ASSUME NEW c \in Callers, Receive(c) PROVE Ordered(d)'
    <2>1. channel[c] \in Callers /\ messages[channel[c]] # << >> /\ consume' = consume
          /\ offset' = offset /\ messages' = [messages EXCEPT ![channel[c]] = Tail(@)]
      BY <1>0, <1>5 DEF Receive, Channels
    <2>2. CASE channel[c] # d
      BY <1>1, <1>2, <2>1, <2>2
    <2>3. CASE channel[c] = d
      <3>1. messages'[d] = Tail(messages[d]) /\ messages[d] # << >>
        BY <1>1, <2>1, <2>3
      <3>2. \A i \in DOMAIN messages'[d] :
                i \in Nat /\ i + 1 \in DOMAIN messages[d] /\ messages'[d][i] = messages[d][i + 1]
        BY <1>1, <3>1
      <3>3. \A i, j \in DOMAIN messages'[d] : i < j => i + 1 < j + 1
        BY <3>2
      <3> QED BY <1>0, <2>1, <3>1, <3>2, <3>3 DEF Ordered
    <2> QED BY <2>2, <2>3
  <1>6. ASSUME NEW e \in Callers, Consumer(e) \/ EndSession(e), e # d PROVE Ordered(d)'
    <2>1. messages'[d] = messages[d] /\ consume'[d] = consume[d] /\ offset'[d] = offset[d]
      BY <1>1, <1>6 DEF Consumer, GetKafkaConsumer, StartSession, Take, Send, Mark, EndSession, GoOn
    <2> QED BY <1>2, <2>1
  <1>7. CASE GetKafkaConsumer(d) \/ StartSession(d)
    <2>1. consume[d] \in {"join", "wait"} /\ messages' = messages
      BY <1>7 DEF GetKafkaConsumer, StartSession
    <2> QED BY <1>0, <1>1, <2>1 DEF Ordered
  <1>8. CASE Take(d)
    <2>1. /\ messages' = messages /\ consume[d] = "claim" /\ consume'[d] = "send"
          /\ offset'[d] = offset[d] + 1 /\ offset[d] \in Nat
      BY <1>1, <1>8 DEF Take, GoOn
    <2>2. \A i \in DOMAIN messages[d] : messages[d][i] \in Nat
      BY <1>a
    <2> QED BY <1>0, <2>1, <2>2 DEF Ordered
  <1>9. CASE Send(d)
    <2>1. /\ messages'[d] = Append(messages[d], offset[d]) /\ consume[d] = "send"
          /\ consume'[d] = "mark" /\ offset'[d] = offset[d] /\ offset[d] \in Nat
      BY <1>1, <1>9 DEF Send, GoOn
    <2>2. \A i \in DOMAIN messages'[d] :
            \/ i \in DOMAIN messages[d] /\ messages'[d][i] = messages[d][i] /\ messages'[d][i] < offset[d]
            \/ i = Len(messages[d]) + 1 /\ messages'[d][i] = offset[d]
      BY <1>0, <1>1, <2>1 DEF Ordered
    <2>3. \A i, j \in DOMAIN messages'[d] : i < j => i \in DOMAIN messages[d]
      <3>1. /\ DOMAIN messages[d] = 1..Len(messages[d]) /\ Len(messages[d]) \in Nat
            /\ DOMAIN messages'[d] = 1..Len(messages[d]) + 1
        BY <1>1, <2>1
      <3> QED BY <3>1
    <2>4. \A i \in DOMAIN messages[d] : messages[d][i] \in Nat /\ messages'[d][i] = messages[d][i]
      <3>1. \A i \in DOMAIN messages[d] : messages'[d][i] = messages[d][i]
        BY <1>1, <2>1
      <3> QED BY <1>a, <3>1
    <2>5. \A i, j \in DOMAIN messages'[d] : i < j => messages'[d][i] < messages'[d][j]
      BY <1>0, <2>2, <2>3, <2>4 DEF Ordered
    <2>6. \A i \in DOMAIN messages'[d] : messages'[d][i] <= offset[d]
      BY <1>1, <2>1, <2>2, <2>4
    <2> QED BY <2>1, <2>5, <2>6 DEF Ordered
  <1>10. CASE Mark(d) \/ EndSession(d)
    <2>1. /\ messages' = messages /\ consume[d] \in {"mark", "claim"} /\ offset' = offset
          /\ consume'[d] \in {"claim", "over"}
      BY <1>1, <1>10 DEF Mark, EndSession, GoOn
    <2> QED BY <1>0, <2>1 DEF Ordered
  <1>11. ASSUME NEW t \in Topics, Produce(t) \/ Commit(t) PROVE Ordered(d)'
    BY <1>2, <1>11 DEF Produce, Commit
  <1>12. CASE Crash
    BY <1>12 DEF Crash, Ordered
  <1> QED BY <1>3, <1>4, <1>5, <1>6, <1>7, <1>8, <1>9, <1>10, <1>11, <1>12
          DEF Next, Caller, Consumer

LEMMA HoldersAfterSend ==
    ASSUME TypeOK, NEW d \in Callers, Send(d), NEW t, NEW m
    PROVE  Holders(t, m)' = IF t = TopicOf[d] /\ m = offset[d] THEN Holders(t, m) \cup {d}
                            ELSE Holders(t, m)
  <1>1. /\ messages \in [Callers -> Seq(Numbers)] /\ messages[d] \in Seq(Numbers)
        /\ messages' = [messages EXCEPT ![d] = Append(@, offset[d])]
    BY DEF Send, TypeOK
  <1>2. /\ \A i \in DOMAIN messages[d] : i \in DOMAIN messages'[d] /\ messages'[d][i] = messages[d][i]
        /\ \A i \in DOMAIN messages'[d] :
            messages'[d][i] = offset[d] \/ (i \in DOMAIN messages[d] /\ messages'[d][i] = messages[d][i])
        /\ Len(messages[d]) + 1 \in DOMAIN messages'[d]
        /\ messages'[d][Len(messages[d]) + 1] = offset[d]
    BY <1>1
  <1>3. \A e \in Callers : e # d => messages'[e] = messages[e]
    BY <1>1
  <1>4. \A e : e \in Holders(t, m)' <=>
            e \in Holders(t, m) \/ (e = d /\ t = TopicOf[d] /\ m = offset[d])
    <2> SUFFICES ASSUME NEW e \in Callers, TopicOf[e] = t
                 PROVE  e \in Holders(t, m)' <=>
                            e \in Holders(t, m) \/ (e = d /\ t = TopicOf[d] /\ m = offset[d])
      BY DEF Holders
    <2>1. CASE e = d
      BY <1>2, <2>1 DEF Holders
    <2>2. CASE e # d
      BY <1>3, <2>2 DEF Holders
    <2> QED BY <2>1, <2>2
  <1> QED BY <1>4

\* What is taken out of a channel is not in it any more: the rest comes after it.
LEMMA HoldersAfterReceive ==
    ASSUME TypeOK, Channels, CountInv, NEW c \in Callers, Receive(c), NEW t, NEW m
    PROVE  LET g == channel[c]
               taking == t = TopicOf[c] /\ m = Head(messages[g])
           IN  /\ taking => g \in Holders(t, m)
               /\ Holders(t, m)' = IF taking THEN Holders(t, m) \ {g} ELSE Holders(t, m)
  <1> DEFINE g == channel[c]
  <1>1. /\ g \in Callers /\ TopicOf[g] = TopicOf[c] /\ Numbers \subseteq Nat
        /\ messages \in [Callers -> Seq(Numbers)] /\ messages[g] \in Seq(Numbers)
        /\ messages[g] # << >> /\ messages' = [messages EXCEPT ![g] = Tail(@)]
    BY DEF Receive, Channels, TypeOK, Numbers
  <1>2. /\ 1 \in DOMAIN messages[g] /\ messages[g][1] = Head(messages[g])
        /\ \A i \in DOMAIN messages'[g] :
            1 < i + 1 /\ i + 1 \in DOMAIN messages[g] /\ messages'[g][i] = messages[g][i + 1]
        /\ \A i \in DOMAIN messages[g] : i # 1 =>
            i - 1 \in DOMAIN messages'[g] /\ messages'[g][i - 1] = messages[g][i]
    BY <1>1
  <1>3. Head(messages[g]) \in Nat /\ \A i \in DOMAIN messages'[g] : messages'[g][i] # Head(messages[g])
    <2>1. Ordered(g)
      BY <1>1 DEF CountInv
    <2>2. \A i \in DOMAIN messages[g] : messages[g][i] \in Nat
      <3>1. \A i \in DOMAIN messages[g] : messages[g][i] \in Numbers
        BY <1>1
      <3> QED BY <1>1, <3>1
    <2>3. \A i \in DOMAIN messages'[g] : messages[g][1] < messages[g][i + 1]
      BY <1>2, <2>1 DEF Ordered
    <2>4. \A i \in DOMAIN messages'[g] : messages[g][i + 1] \in Nat
      BY <1>2, <2>2
    <2> QED BY <1>2, <2>2, <2>3, <2>4
  <1>4. \A e \in Callers : e # g => messages'[e] = messages[e]
    BY <1>1
  <1> HIDE DEF g
  <1> DEFINE taking == t = TopicOf[c] /\ m = Head(messages[g])
  <1>5. taking => g \in Holders(t, m)
    BY <1>1, <1>2 DEF Holders
  <1>6. \A e : e \in Holders(t, m)' <=> e \in Holders(t, m) /\ ~(taking /\ e = g)
    <2> SUFFICES ASSUME NEW e \in Callers, TopicOf[e] = t
                 PROVE  e \in Holders(t, m)' <=> e \in Holders(t, m) /\ ~(taking /\ e = g)
      BY DEF Holders
    <2>1. CASE e = g /\ m = Head(messages[g])
      BY <1>1, <1>3, <2>1 DEF Holders
    <2>2. CASE e = g /\ m # Head(messages[g])
      BY <1>2, <2>2 DEF Holders
    <2>3. CASE e # g
      BY <1>4, <2>3 DEF Holders
    <2> QED BY <2>1, <2>2, <2>3
  <1> QED BY <1>5, <1>6 DEF g

\* Steps that neither send nor receive.
LEMMA CountedElsewhere ==
    ASSUME CountInv, TypeOK, TypeOK', UNCHANGED <<messages, received>>,
           NEW t \in Topics, NEW m \in Numbers,
           Redo <= Redo',
           Reached(t, m) => Reached(t, m)' \/ Redo + 1 <= Redo'
    PROVE  Counted(t, m)'
  <1>1. Holders(t, m)' = Holders(t, m) /\ received'[t][m] = received[t][m]
    BY DEF Holders
  <1>2. Redo \in Nat /\ Redo' \in Nat /\ received[t][m] \in Nat
    <2>1. received[t][m] \in Nat /\ crashes \in Nat /\ failed \in Nat
      <3>1. received \in [Topics -> [Numbers -> Nat]]
        BY DEF TypeOK
      <3> QED BY <3>1, KafkaConsumerAssumption DEF TypeOK
    <2>2. crashes' \in Nat /\ failed' \in Nat
      BY KafkaConsumerAssumption DEF TypeOK
    <2>3. Redo \in Nat
      BY <2>1 DEF Redo
    <2>4. Redo' \in Nat
      <3>1. crashes' + failed' \in Nat
        <4> DEFINE c == crashes'
        <4> DEFINE f == failed'
        <4>1. c \in Nat /\ f \in Nat
          BY <2>2
        <4> HIDE DEF c, f
        <4>2. c + f \in Nat
          BY <4>1
        <4> QED BY <4>2 DEF c, f
      <3>2. Redo' = crashes' + failed'
        BY DEF Redo
      <3> QED BY <3>1, <3>2
    <2> QED BY <2>1, <2>3, <2>4
  <1>3. Counted(t, m) /\ Cardinality(Holders(t, m)) \in Nat
    BY FS_CardinalityType DEF CountInv, Counted
  <1> QED BY <1>1, <1>2, <1>3 DEF Counted

LEMMA CountedKept == IInv /\ CountInv /\ Next => \A t \in Topics, m \in Numbers : Counted(t, m)'
  <1> SUFFICES ASSUME IInv, CountInv, Next, NEW t \in Topics, NEW m \in Numbers
               PROVE  Counted(t, m)'
    OBVIOUS
  <1> USE KafkaConsumerAssumption DEF process, ghosts
  <1>0. TypeOK /\ TypeOK' /\ Channels /\ Sessions /\ Counted(t, m)
    BY TypesKept DEF IInv, CountInv
  <1>1. /\ marked \in [Topics -> Nat] /\ committed \in [Topics -> Nat] /\ m \in Nat
        /\ \A u \in Topics : committed[u] <= marked[u]
        /\ offset \in [Callers -> Nat] /\ received[t][m] \in Nat
        /\ consume \in [Callers -> {"none", "join", "wait", "over"} \cup InSession]
        /\ crashes \in Nat /\ failed \in Nat /\ Redo \in Nat /\ Cardinality(Holders(t, m)) \in Nat
    <2>1. /\ marked \in [Topics -> Nat] /\ committed \in [Topics -> Nat] /\ m \in Nat
          /\ \A u \in Topics : committed[u] <= marked[u]
      BY <1>0 DEF TypeOK, Numbers
    <2>2. /\ offset \in [Callers -> Nat] /\ received[t][m] \in Nat
          /\ crashes \in Nat /\ failed \in Nat
      BY <1>0 DEF TypeOK
    <2>3. consume \in [Callers -> {"none", "join", "wait", "over"} \cup InSession]
      BY <1>0 DEF TypeOK
    <2>4. Redo \in Nat
      BY <2>2 DEF Redo
    <2>5. Cardinality(Holders(t, m)) \in Nat
      BY <1>0, FS_CardinalityType DEF Counted
    <2> QED BY <2>1, <2>2, <2>3, <2>4, <2>5
  \* Steps that neither mark, commit, send nor receive.
  <1>2. ASSUME UNCHANGED <<messages, received, committed, marked, crashes, failed>>,
               \A d \in Callers :
                   /\ consume[d] \in InSession => consume'[d] \in InSession
                   /\ consume[d] = "mark" => consume'[d] = "mark" /\ offset'[d] = offset[d]
        PROVE  Counted(t, m)'
    <2>1. Redo' = Redo /\ (Reached(t, m) => Reached(t, m)')
      BY <1>2 DEF Redo, Reached
    <2> QED BY <1>0, <1>1, <1>2, <2>1, CountedElsewhere
  <1>3. ASSUME NEW c \in Callers, Load(c) \/ Store(c) PROVE Counted(t, m)'
    BY <1>0, <1>1, <1>2, <1>3 DEF Load, MakeChannel, UseChannel, Store, Channels, InSession
  <1>4. ASSUME NEW d \in Callers, GetKafkaConsumer(d) \/ Take(d) PROVE Counted(t, m)'
    BY <1>1, <1>2, <1>4 DEF GetKafkaConsumer, Take, GoOn, InSession
  <1>5. ASSUME NEW u \in Topics, Produce(u) PROVE Counted(t, m)'
    BY <1>2, <1>5 DEF Produce
  <1>6. ASSUME NEW d \in Callers, StartSession(d) PROVE Counted(t, m)'
    <2>1. Reached(t, m) => Reached(t, m)'
      BY <1>6 DEF StartSession, Reached
    <2>2. Redo' = Redo /\ UNCHANGED <<messages, received>>
      BY <1>6 DEF StartSession, Redo
    <2> QED BY <1>0, <1>1, <2>1, <2>2, CountedElsewhere
  <1>7. ASSUME NEW d \in Callers, Mark(d) PROVE Counted(t, m)'
    <2>1. /\ consume[d] = "mark" /\ marked[TopicOf[d]] <= offset[d] /\ TopicOf[d] \in Topics
          /\ \A e \in Callers : consume[e] \in InSession => e = d
      BY <1>0, <1>7 DEF Mark, Sessions, Claim, InSession
    <2>2. /\ marked' = [marked EXCEPT ![TopicOf[d]] = offset[d]] /\ committed' = committed
          /\ Redo' = Redo /\ UNCHANGED <<messages, received>> /\ consume'[d] = "claim"
      BY <1>1, <1>7 DEF Mark, Redo, GoOn
    <2>3. Reached(t, m) => Reached(t, m)'
      <3> SUFFICES ASSUME Reached(t, m), ~(m <= committed[t]) PROVE Reached(t, m)'
        BY <2>2 DEF Reached
      <3>1. TopicOf[d] = t /\ (m <= marked[t] \/ m <= offset[d])
        BY <2>1 DEF Reached
      <3>2. m <= marked'[t]
        BY <1>1, <2>1, <2>2, <3>1
      <3> QED BY <2>2, <3>1, <3>2 DEF Reached, InSession
    <2> QED BY <1>0, <1>1, <2>2, <2>3, CountedElsewhere
  <1>8. ASSUME NEW d \in Callers, EndSession(d) PROVE Counted(t, m)'
    <2>1. /\ consume[d] = "claim" /\ UNCHANGED <<messages, received, marked, crashes>>
          /\ \A e \in Callers : consume[e] \in InSession => e = d
      BY <1>0, <1>8 DEF EndSession, Sessions, InSession
    <2>2. CASE failed' = failed + 1
      BY <1>0, <1>1, <2>1, <2>2, CountedElsewhere DEF Redo
    <2>3. CASE committed' = [committed EXCEPT ![TopicOf[d]] = marked[TopicOf[d]]] /\ failed' = failed
      <3>1. committed[t] <= committed'[t] /\ committed'[t] \in Nat
            /\ (TopicOf[d] = t => committed'[t] = marked[t])
        BY <1>1, <2>3
      <3>2. Reached(t, m) => m <= committed[t] \/ (TopicOf[d] = t /\ m <= marked[t])
        BY <2>1 DEF Reached
      <3>3. Reached(t, m) => Reached(t, m)'
        BY <1>1, <3>1, <3>2 DEF Reached
      <3>4. Redo' = Redo
        BY <2>1, <2>3 DEF Redo
      <3> QED BY <1>0, <1>1, <2>1, <3>3, <3>4, CountedElsewhere
    <2> QED BY <1>8, <2>2, <2>3 DEF EndSession
  <1>9. ASSUME NEW u \in Topics, Commit(u) PROVE Counted(t, m)'
    <2>1. /\ UNCHANGED <<messages, received, marked, consume, offset>> /\ Redo' = Redo
          /\ committed' = [committed EXCEPT ![u] = marked[u]]
      BY <1>9 DEF Commit, Redo
    <2>2. committed[t] <= committed'[t] /\ committed'[t] \in Nat
      BY <1>1, <2>1
    <2>3. Reached(t, m) => Reached(t, m)'
      BY <1>1, <2>1, <2>2 DEF Reached
    <2> QED BY <1>0, <1>1, <2>1, <2>3, CountedElsewhere
  <1>10. ASSUME NEW d \in Callers, Send(d) PROVE Counted(t, m)'
    <2>1. /\ consume[d] = "send" /\ consume'[d] = "mark" /\ offset' = offset /\ Redo' = Redo
          /\ UNCHANGED <<marked, committed, received>>
          /\ \A e \in Callers : e # d => consume'[e] = consume[e]
      BY <1>1, <1>10 DEF Send, GoOn, Redo
    <2>2. /\ marked[TopicOf[d]] < offset[d] /\ TopicOf[d] \in Topics
          /\ \A e \in Callers : consume[e] \in InSession => e = d
      BY <1>0, <2>1 DEF Sessions, Claim, InSession
    <2>3. CASE t = TopicOf[d] /\ m = offset[d]
      <3>1. ~Reached(t, m)
        <4>1. ~(m <= committed[t]) /\ ~(m <= marked[t])
          BY <1>1, <2>2, <2>3
        <4>2. \A e \in Callers : consume[e] # "mark"
          BY <2>1, <2>2 DEF InSession
        <4> QED BY <4>1, <4>2 DEF Reached
      <3>2. Reached(t, m)'
        BY <1>1, <2>1, <2>3 DEF Reached, InSession
      <3>3. Holders(t, m)' = Holders(t, m) \cup {d}
        BY <1>0, <1>10, <2>3, HoldersAfterSend
      <3>4. IsFiniteSet(Holders(t, m))
        BY <1>0 DEF Counted
      <3>5. /\ IsFiniteSet(Holders(t, m)') /\ Cardinality(Holders(t, m)') \in Nat
            /\ Cardinality(Holders(t, m)') <= Cardinality(Holders(t, m)) + 1
        <4> DEFINE H == Holders(t, m)
        <4>1. /\ IsFiniteSet(H \cup {d})
              /\ Cardinality(H \cup {d}) = Cardinality(H) \/ Cardinality(H \cup {d}) = Cardinality(H) + 1
          BY <3>4, FS_AddElement
        <4> QED BY <1>1, <3>3, <4>1
      <3>6. received[t][m] + Cardinality(Holders(t, m)) <= Redo
        BY <1>0, <1>1, <3>1 DEF Counted
      <3> QED BY <1>1, <2>1, <3>2, <3>5, <3>6 DEF Counted
    <2>4. CASE ~(t = TopicOf[d] /\ m = offset[d])
      <3>1. Holders(t, m)' = Holders(t, m)
        BY <1>0, <1>10, <2>4, HoldersAfterSend
      <3>2. Reached(t, m) => Reached(t, m)'
        BY <2>1 DEF Reached, InSession
      <3> QED BY <1>0, <1>1, <2>1, <3>1, <3>2 DEF Counted
    <2> QED BY <2>3, <2>4
  <1>11. ASSUME NEW c \in Callers, Receive(c) PROVE Counted(t, m)'
    <2> DEFINE h == Head(messages[channel[c]])
    <2>1. Redo' = Redo /\ Reached(t, m)' = Reached(t, m)
      BY <1>11 DEF Receive, Redo, Reached
    <2>2. CASE t = TopicOf[c] /\ m = h
      <3>1. received'[t][m] = received[t][m] + 1
        BY <1>0, <1>11, <2>2, HeldAfterReceive
      <3>2. channel[c] \in Holders(t, m) /\ Holders(t, m)' = Holders(t, m) \ {channel[c]}
        BY <1>0, <1>11, <2>2, HoldersAfterReceive
      <3>3. IsFiniteSet(Holders(t, m))
        BY <1>0 DEF Counted
      <3>4. /\ IsFiniteSet(Holders(t, m)')
            /\ Cardinality(Holders(t, m)') = Cardinality(Holders(t, m)) - 1
        <4> DEFINE H == Holders(t, m)
        <4> DEFINE g == channel[c]
        <4>1. IsFiniteSet(H \ {g}) /\ Cardinality(H \ {g}) = Cardinality(H) - 1
          <5>1. g \in H /\ IsFiniteSet(H)
            BY <3>2, <3>3
          <5> HIDE DEF H, g
          <5> QED BY <5>1, FS_RemoveElement
        <4> QED BY <3>2, <4>1
      <3> QED BY <1>0, <1>1, <2>1, <3>1, <3>4 DEF Counted
    <2>3. CASE ~(t = TopicOf[c] /\ m = h)
      <3>1. received'[t][m] = received[t][m]
        BY <1>0, <1>11, <2>3, HeldAfterReceive
      <3>2. Holders(t, m)' = Holders(t, m)
        BY <1>0, <1>11, <2>3, HoldersAfterReceive
      <3> QED BY <1>0, <2>1, <3>1, <3>2 DEF Counted
    <2> QED BY <2>2, <2>3
  <1>12. CASE Crash
    <2>1. Holders(t, m)' = {}
      BY <1>12 DEF Crash, Holders
    <2>2. received' = received /\ Redo' = Redo + 1
      BY <1>1, <1>12 DEF Crash, Redo
    <2>3. IsFiniteSet({}) /\ Cardinality({}) = 0
      BY FS_EmptySet
    <2> QED BY <1>0, <1>1, <2>1, <2>2, <2>3 DEF Counted
  <1> QED BY <1>3, <1>4, <1>5, <1>6, <1>7, <1>8, <1>9, <1>10, <1>11, <1>12
          DEF Next, Caller, Consumer

\* A message is received once more for each crash and each session without a
\* last commit at most, whatever calls overlap.
THEOREM AlwaysRepeatsBounded == Spec => []RepeatsBounded
  <1>1. Init => CountInv
    <2> SUFFICES ASSUME Init PROVE CountInv
      OBVIOUS
    <2>1. \A t \in Topics, m \in Numbers : received[t][m] = 0
      BY DEF Init
    <2>2. \A d \in Callers : messages[d] = << >> /\ DOMAIN messages[d] = {}
      BY DEF Init, Started
    <2>3. \A t, m : Holders(t, m) = {}
      BY <2>2 DEF Holders
    <2>4. IsFiniteSet({}) /\ Cardinality({}) = 0
      BY FS_EmptySet
    <2>5. Redo = 0
      BY DEF Init, Redo
    <2>6. \A t \in Topics, m \in Numbers : Counted(t, m)
      BY <2>1, <2>3, <2>4, <2>5 DEF Counted
    <2> QED BY <2>2, <2>6 DEF CountInv, Ordered
  <1>2. IInv /\ CountInv /\ [Next]_vars => CountInv'
    <2>1. UNCHANGED vars /\ CountInv => CountInv'
      <3> SUFFICES ASSUME UNCHANGED vars, CountInv PROVE CountInv'
        OBVIOUS
      <3>1. UNCHANGED <<messages, consume, offset, marked, committed, received, crashes, failed>>
        BY DEF vars, process, ghosts
      <3>2. \A d \in Callers : Ordered(d)'
        BY <3>1 DEF CountInv, Ordered
      <3>3. ASSUME NEW t \in Topics, NEW m \in Numbers PROVE Counted(t, m)'
        <4>1. Holders(t, m)' = Holders(t, m) /\ Reached(t, m)' = Reached(t, m) /\ Redo' = Redo
          BY <3>1 DEF Holders, Reached, Redo
        <4> QED BY <3>1, <4>1 DEF CountInv, Counted
      <3> QED BY <3>2, <3>3 DEF CountInv
    <2>2. IInv /\ CountInv /\ Next => CountInv'
      BY OrderedKept, CountedKept DEF CountInv
    <2> QED BY <2>1, <2>2
  <1>3. IInv /\ CountInv => RepeatsBounded
    <2> SUFFICES ASSUME IInv, CountInv, NEW t \in Topics, NEW m \in Numbers
                 PROVE  received[t][m] <= 1 + crashes + failed
      BY DEF RepeatsBounded
    <2>1. /\ received[t][m] \in Nat /\ crashes \in Nat /\ failed \in Nat
          /\ Cardinality(Holders(t, m)) \in Nat
      BY FS_CardinalityType DEF IInv, TypeOK, CountInv, Counted
    <2>2. received[t][m] + Cardinality(Holders(t, m)) <= Redo + IF Reached(t, m) THEN 1 ELSE 0
      BY DEF CountInv, Counted
    <2> QED BY <2>1, <2>2 DEF Redo
  <1> QED BY <1>1, <1>2, <1>3, Invariance, PTL DEF Spec

-----------------------------------------------------------------------------
(* How much is lost *)

LEMMA FiniteNumbers ==
    ASSUME NEW M \in SUBSET Numbers
    PROVE  IsFiniteSet(M) /\ Cardinality(M) \in Nat
  <1>1. IsFiniteSet(Numbers)
    BY KafkaConsumerAssumption, FS_Interval DEF Numbers
  <1>2. IsFiniteSet(M)
    BY <1>1, FS_Subset
  <1> QED BY <1>2, FS_CardinalityType

LEMMA UnionBound ==
    ASSUME NEW A, NEW B, IsFiniteSet(A), IsFiniteSet(B)
    PROVE  IsFiniteSet(A \cup B) /\ Cardinality(A \cup B) <= Cardinality(A) + Cardinality(B)
  <1>1. /\ IsFiniteSet(A \cup B)
        /\ Cardinality(A \cup B) = Cardinality(A) + Cardinality(B) - Cardinality(A \cap B)
    BY FS_Union
  <1>2. IsFiniteSet(A \cap B)
    BY FS_Intersection
  <1>3. Cardinality(A \cap B) \in Nat /\ Cardinality(A) \in Nat /\ Cardinality(B) \in Nat
    BY <1>2, FS_CardinalityType
  <1> QED BY <1>1, <1>3

LEMMA SequenceBound ==
    ASSUME NEW s \in Seq(Numbers)
    PROVE  Cardinality({s[i] : i \in DOMAIN s}) <= Len(s)
  <1> DEFINE R == {s[i] : i \in DOMAIN s}
  <1>1. Len(s) \in Nat /\ DOMAIN s = 1..Len(s) /\ s \in [1..Len(s) -> R]
    OBVIOUS
  <1>2. s \in Surjection(1..Len(s), R)
    BY <1>1 DEF Surjection
  <1>3. IsFiniteSet(1..Len(s)) /\ Cardinality(1..Len(s)) = Len(s)
    BY <1>1, FS_Interval
  <1>4. Cardinality(R) <= Cardinality(1..Len(s))
    BY <1>2, <1>3, FS_Surjection
  <1> QED BY <1>3, <1>4

\* One channel is all that a topic has.
LEMMA HeldBound ==
    ASSUME IInv, ~overlapped, NEW t \in Topics
    PROVE  Held(t) \in SUBSET Numbers /\ Cardinality(Held(t)) <= Capacity
  <1>1. TypeOK /\ Single
    BY DEF IInv
  <1>2. messages \in [Callers -> Seq(Numbers)] /\ Capacity \in Nat
    BY <1>1, KafkaConsumerAssumption DEF TypeOK
  <1>3. Held(t) \in SUBSET Numbers
    BY <1>2 DEF Held
  <1>4. CASE \A d \in Callers : TopicOf[d] = t => messages[d] = << >>
    <2>1. Held(t) = {}
      BY <1>4 DEF Held
    <2> QED BY <1>2, <1>3, <2>1, FS_EmptySet
  <1>5. ASSUME NEW d \in Callers, TopicOf[d] = t, messages[d] # << >>
        PROVE  Cardinality(Held(t)) <= Capacity
    <2>1. \A e \in Callers : TopicOf[e] = t /\ messages[e] # << >> => e = d
      BY <1>1, <1>5, KafkaConsumerAssumption DEF Single
    <2>2. \A e \in Callers : TopicOf[e] = t /\ e # d => DOMAIN messages[e] = {}
      BY <1>2, <2>1
    <2>3. Held(t) = {messages[d][i] : i \in DOMAIN messages[d]}
      BY <1>5, <2>2 DEF Held
    <2>4. Cardinality(Held(t)) <= Len(messages[d]) /\ Len(messages[d]) <= Capacity
      BY <1>1, <1>2, <2>3, SequenceBound DEF TypeOK
    <2>5. Cardinality(Held(t)) \in Nat /\ Len(messages[d]) \in Nat
      BY <1>2, <1>3, FiniteNumbers
    <2> QED BY <1>2, <2>4, <2>5
  <1> QED BY <1>3, <1>4, <1>5

\* There is one session, and one message in its hand.
LEMMA InHandBound ==
    ASSUME IInv, NEW t \in Topics
    PROVE  InHand(t) \in SUBSET Numbers /\ Cardinality(InHand(t)) <= 1
  <1>1. TypeOK /\ Sessions
    BY DEF IInv
  <1>2. ASSUME NEW d \in Callers, consume[d] = "send"
        PROVE  /\ offset[d] \in Numbers
               /\ \A e \in Callers : consume[e] = "send" => e = d
    <2>1. Claim(d) /\ \A e \in Callers : consume[e] \in InSession => e = d
      BY <1>1, <1>2 DEF Sessions, InSession
    <2>2. TopicOf[d] \in Topics /\ marked[TopicOf[d]] \in Nat /\ offset[d] \in 0..MaxMessages
      BY <1>1, KafkaConsumerAssumption DEF TypeOK
    <2> QED BY <1>2, <2>1, <2>2, KafkaConsumerAssumption DEF Claim, Numbers, InSession
  <1>3. InHand(t) \in SUBSET Numbers
    BY <1>2 DEF InHand
  <1>4. InHand(t) = {} \/ \E m : InHand(t) = {m}
    <2>1. CASE \A e \in Callers : ~(TopicOf[e] = t /\ consume[e] = "send")
      BY <2>1 DEF InHand
    <2>2. ASSUME NEW d \in Callers, TopicOf[d] = t, consume[d] = "send"
          PROVE  InHand(t) = {offset[d]}
      BY <1>2, <2>2 DEF InHand
    <2> QED BY <2>1, <2>2
  <1>5. Cardinality(InHand(t)) \in {0, 1}
    BY <1>4, FS_EmptySet, FS_Singleton
  <1> QED BY <1>3, <1>5

LEMMA MissedShrinks ==
    ASSUME IInv, Next, ~Crash, NEW t \in Topics, NEW m \in Missed(t)'
    PROVE  m \in Missed(t)
  <1> USE KafkaConsumerAssumption DEF process, ghosts
  <1>0. TypeOK /\ Channels /\ Kept
    BY DEF IInv
  <1>a. TypeOK'
    BY TypesKept
  <1>1. /\ m \in taken'[t] /\ m \in Numbers /\ m \notin Held(t)' /\ m \notin InHand(t)'
        /\ received'[t][m] = 0 /\ (committed'[t] = 0 \/ m <= committed'[t])
    BY <1>a DEF Missed, TypeOK
  <1>2. m \notin Held(t) /\ received[t][m] = 0
    <2>1. ~Safe(t, m)'
      BY <1>1 DEF Safe
    <2>2. ~Safe(t, m)
      BY <1>0, <1>1, <2>1, SafeKept
    <2>3. received[t][m] \in Nat
      BY <1>0, <1>1 DEF TypeOK
    <2> QED BY <2>2, <2>3 DEF Safe
  <1>3. m \in taken[t]
    <2>1. ASSUME NEW d \in Callers, Take(d) PROVE m \in taken[t]
      <3>1. offset'[d] = offset[d] + 1 /\ consume'[d] = "send"
        BY <1>0, <2>1 DEF Take, GoOn, TypeOK
      <3>2. t = TopicOf[d] => offset[d] + 1 \in InHand(t)'
        BY <3>1 DEF InHand
      <3> QED BY <1>0, <1>1, <2>1, <3>2 DEF Take, TypeOK
    <2> QED BY <1>1, <2>1 DEF Next, Caller, Load, Store, Receive, Consumer, GetKafkaConsumer,
            StartSession, Send, Mark, EndSession, Produce, Commit
  <1>4. m \notin InHand(t)
    <2>1. SUFFICES ASSUME NEW d \in Callers, TopicOf[d] = t, consume[d] = "send", offset[d] = m
                   PROVE  FALSE
      BY DEF InHand
    <2>2. CASE Send(d)
      BY <1>0, <1>1, <2>1, <2>2, HeldAfterSend
    <2>3. CASE ~Send(d)
      <3>1. consume'[d] = "send" /\ offset'[d] = m
        <4>1. /\ consume \in [Callers -> {"none", "join", "wait", "over"} \cup InSession]
              /\ offset \in [Callers -> 0..MaxMessages]
          BY <1>0 DEF TypeOK
        <4>2. ASSUME NEW c \in Callers, Caller(c) PROVE consume'[d] = consume[d] /\ offset' = offset
          BY <1>0, <2>1, <4>1, <4>2 DEF Caller, Load, MakeChannel, UseChannel, Store, Receive, Channels
        <4>3. ASSUME NEW e \in Callers, Consumer(e) \/ EndSession(e)
              PROVE  consume'[d] = consume[d] /\ offset'[d] = offset[d]
          BY <2>1, <2>3, <4>1, <4>3 DEF Consumer, GetKafkaConsumer, StartSession, Take, Send, Mark,
             EndSession, GoOn
        <4>4. ASSUME NEW u \in Topics, Produce(u) \/ Commit(u)
              PROVE  consume' = consume /\ offset' = offset
          BY <4>4 DEF Produce, Commit
        <4> QED BY <2>1, <4>2, <4>3, <4>4 DEF Next
      <3> QED BY <1>1, <2>1, <3>1 DEF InHand
    <2> QED BY <2>2, <2>3
  <1>5. committed[t] = 0 \/ m <= committed[t]
    <2>1. committed'[t] = committed[t] \/ committed'[t] = marked[t]
      <3>1. \/ committed' = committed
            \/ \E u \in Topics : committed' = [committed EXCEPT ![u] = marked[u]]
        BY DEF Next, Caller, Load, Store, Receive, Consumer, GetKafkaConsumer,
               StartSession, Take, Send, Mark, EndSession, Produce, Commit
      <3>2. committed \in [Topics -> Nat]
        BY <1>0 DEF TypeOK
      <3> QED BY <3>1, <3>2
    <2>2. committed[t] \in Nat /\ marked[t] \in Nat /\ committed[t] <= marked[t] /\ m \in Nat
      BY <1>0, <1>1 DEF TypeOK, Numbers
    <2>3. ~Safe(t, m)
      BY <1>2 DEF Safe
    <2> QED BY <1>0, <1>1, <2>1, <2>2, <2>3 DEF Kept
  <1> QED BY <1>2, <1>3, <1>4, <1>5 DEF Missed

LEMMA CrashLoses ==
    ASSUME IInv, ~overlapped, Crash, NEW t \in Topics
    PROVE  Cardinality(Missed(t)') <= Cardinality(Missed(t)) + Capacity + 1
  <1>1. taken' = taken /\ received' = received /\ committed' = committed
    BY DEF Crash, ghosts
  <1>2. Missed(t)' \subseteq (Missed(t) \cup Held(t)) \cup InHand(t)
    BY <1>1 DEF Missed
  <1>3. Missed(t) \in SUBSET Numbers
    BY DEF Missed, IInv, TypeOK
  <1>4. /\ Held(t) \in SUBSET Numbers /\ Cardinality(Held(t)) <= Capacity
        /\ InHand(t) \in SUBSET Numbers /\ Cardinality(InHand(t)) <= 1
    BY HeldBound, InHandBound
  <1> DEFINE A == Missed(t)
  <1> DEFINE B == Held(t)
  <1> DEFINE C == InHand(t)
  <1> DEFINE D == Missed(t)'
  <1>5. /\ IsFiniteSet(A) /\ IsFiniteSet(B) /\ IsFiniteSet(C)
        /\ Cardinality(A) \in Nat /\ Cardinality(B) \in Nat /\ Cardinality(C) \in Nat
    BY <1>3, <1>4, FiniteNumbers
  <1>6. D \in SUBSET ((A \cup B) \cup C)
    BY <1>2
  <1> HIDE DEF A, B, C, D
  <1>7. IsFiniteSet(A \cup B) /\ Cardinality(A \cup B) <= Cardinality(A) + Cardinality(B)
    BY <1>5, UnionBound
  <1>8. /\ IsFiniteSet((A \cup B) \cup C)
        /\ Cardinality((A \cup B) \cup C) <= Cardinality(A \cup B) + Cardinality(C)
    BY <1>5, <1>7, UnionBound
  <1>9. IsFiniteSet(D) /\ Cardinality(D) <= Cardinality((A \cup B) \cup C)
    BY <1>6, <1>8, FS_Subset
  <1>10. Cardinality(D) \in Nat /\ Cardinality((A \cup B) \cup C) \in Nat /\ Cardinality(A \cup B) \in Nat
    BY <1>7, <1>8, <1>9, FS_CardinalityType
  <1>11. Cardinality(D) <= Cardinality(A) + Capacity + 1
    BY <1>4, <1>5, <1>7, <1>8, <1>9, <1>10, KafkaConsumerAssumption DEF B, C
  <1> QED BY <1>11 DEF A, D

LEMMA Distributes ==
    ASSUME NEW c \in Nat, NEW n \in Nat, NEW x \in Nat, NEW y \in Nat,
           x <= (c + 1) * n, y <= x + c + 1
    PROVE  y <= (c + 1) * (n + 1)
  <1>1. (c + 1) * (n + 1) = (c + 1) * n + (c + 1)
    OBVIOUS
  <1>2. (c + 1) * n \in Nat
    OBVIOUS
  <1> QED BY <1>1, <1>2

LEMMA MissedKept == IInv /\ MissedBounded /\ Next => MissedBounded'
  <1> SUFFICES ASSUME IInv, MissedBounded, Next, ~overlapped', NEW t \in Topics
               PROVE  Cardinality(Missed(t)') <= (Capacity + 1) * crashes'
    BY DEF MissedBounded
  <1>0. ~overlapped
    BY DEF Next, Caller, Load, MakeChannel, UseChannel, Store, Receive, Consumer, GetKafkaConsumer,
           StartSession, Take, Send, Mark, EndSession, Produce, Commit, Crash, ghosts
  <1>1. Cardinality(Missed(t)) <= (Capacity + 1) * crashes
    BY <1>0 DEF MissedBounded
  <1>2. TypeOK /\ TypeOK'
    BY TypesKept DEF IInv
  <1>3. /\ Missed(t) \in SUBSET Numbers /\ Missed(t)' \in SUBSET Numbers
        /\ crashes \in Nat /\ Capacity \in Nat
    BY <1>2, KafkaConsumerAssumption DEF Missed, TypeOK
  <1>4. /\ IsFiniteSet(Missed(t)) /\ Cardinality(Missed(t)) \in Nat
        /\ Cardinality(Missed(t)') \in Nat
    BY <1>3, FiniteNumbers
  <1>5. CASE Crash
    <2>1. crashes' = crashes + 1
      BY <1>5 DEF Crash
    <2> QED BY <1>0, <1>1, <1>3, <1>4, <1>5, <2>1, CrashLoses, Distributes
  <1>6. CASE ~Crash
    <2>1. crashes' = crashes
      BY <1>6 DEF Next, Caller, Load, Store, Receive, Consumer, GetKafkaConsumer,
            StartSession, Take, Send, Mark, EndSession, Produce, Commit
    <2>2. Missed(t)' \in SUBSET Missed(t)
      BY <1>6, MissedShrinks
    <2>3. Cardinality(Missed(t)') <= Cardinality(Missed(t))
      BY <1>4, <2>2, FS_Subset
    <2>4. (Capacity + 1) * crashes \in Nat
      BY <1>3
    <2> QED BY <1>1, <1>4, <2>1, <2>3, <2>4
  <1> QED BY <1>5, <1>6

\* Each crash loses what the channel of the topic holds and the message in
\* hand at most, unless calls overlap.
THEOREM AlwaysLossBounded == Spec => []LossBounded
  <1>1. Init => MissedBounded
    <2> SUFFICES ASSUME Init, NEW t \in Topics
                 PROVE  Cardinality(Missed(t)) <= (Capacity + 1) * crashes
      BY DEF MissedBounded
    <2>1. Missed(t) = {} /\ crashes = 0
      BY DEF Init, Missed
    <2>2. Cardinality(Missed(t)) = 0 /\ (Capacity + 1) * 0 = 0
      BY <2>1, FS_EmptySet, KafkaConsumerAssumption
    <2> QED BY <2>1, <2>2
  <1>2. IInv /\ MissedBounded /\ [Next]_vars => MissedBounded'
    <2>1. UNCHANGED vars /\ MissedBounded => MissedBounded'
      BY DEF MissedBounded, Missed, InHand, Held, vars, process, ghosts
    <2> QED BY <2>1, MissedKept
  <1>3. IInv /\ MissedBounded => LossBounded
    <2> SUFFICES ASSUME IInv, MissedBounded, ~overlapped, NEW t \in Topics
                 PROVE  Cardinality(Lost(t)) <= (Capacity + 1) * crashes
      BY DEF LossBounded
    <2>1. TypeOK /\ Sessions
      BY DEF IInv
    <2>2. ASSUME NEW m \in Lost(t) PROVE m \in Missed(t)
      <3>1. /\ m \in taken[t] /\ m \in Nat /\ m \notin Held(t) /\ m <= committed[t]
            /\ received[t][m] = 0 /\ committed[t] \in Nat /\ marked[t] \in Nat
            /\ committed[t] <= marked[t]
        BY <2>1, <2>2 DEF Lost, TypeOK, Numbers
      <3>2. ASSUME NEW d \in Callers, TopicOf[d] = t, consume[d] = "send" PROVE offset[d] # m
        <4>1. marked[t] < offset[d] /\ offset[d] \in Nat
          BY <2>1, <3>2 DEF Sessions, Claim, InSession, TypeOK
        <4> QED BY <3>1, <4>1
      <3>3. m \notin InHand(t)
        BY <3>2 DEF InHand
      <3> QED BY <3>1, <3>3 DEF Missed
    <2>3. Missed(t) \in SUBSET Numbers /\ Capacity \in Nat /\ crashes \in Nat
      BY <2>1, KafkaConsumerAssumption DEF Missed, TypeOK
    <2>4. Lost(t) \in SUBSET Missed(t) /\ Lost(t) \in SUBSET Numbers
      BY <2>2, <2>3
    <2>5. IsFiniteSet(Missed(t)) /\ Cardinality(Missed(t)) \in Nat /\ Cardinality(Lost(t)) \in Nat
      BY <2>3, <2>4, FiniteNumbers
    <2>6. Cardinality(Lost(t)) <= Cardinality(Missed(t))
      BY <2>4, <2>5, FS_Subset
    <2>7. Cardinality(Missed(t)) <= (Capacity + 1) * crashes /\ (Capacity + 1) * crashes \in Nat
      BY <2>3 DEF MissedBounded
    <2> QED BY <2>5, <2>6, <2>7
  <1> QED BY <1>1, <1>2, <1>3, Invariance, PTL DEF Spec
=============================================================================
