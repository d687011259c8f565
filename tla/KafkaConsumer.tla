---------------------------- MODULE KafkaConsumer ----------------------------
(***************************************************************************)
(* component/kafka/consumer: one process whose goroutines call             *)
(* GetTopicMessageChan for a topic and receive from the channel they get,  *)
(* while sarama runs ConsumeClaim for it.  The process may crash and       *)
(* restart; the offsets it has committed are what the broker keeps.        *)
(*                                                                         *)
(* A channel is named after the caller that has made it, and so is the     *)
(* goroutine that consumes into it.  A topic has one partition, whose      *)
(* messages are numbered.  Nobody else is in the consumer group.           *)
(*                                                                         *)
(* The operators named Bug... are deliberate faults, as in GrpcCall.       *)
(***************************************************************************)
EXTENDS Naturals, Sequences, FiniteSets

CONSTANTS Callers, Topics, None,
          TopicOf,        \* the topic a caller asks for
          IsNeedDiffGroup,\* whether it asks for a group of the pod's own
          Capacity,       \* of a channel
          MaxMessages,    \* bound: per topic
          MaxRebalances,  \* bound: sessions that the broker ends
          MaxCrashes      \* bound: restarts of the process

ASSUME KafkaConsumerAssumption ==
    /\ TopicOf \in [Callers -> Topics]
    /\ IsNeedDiffGroup \in [Callers -> BOOLEAN]
    /\ None \notin Callers
    /\ Capacity \in Nat \ {0}
    /\ MaxMessages \in Nat /\ MaxRebalances \in Nat /\ MaxCrashes \in Nat

VARIABLES
    topic2MessageChanMap,  \* per topic, a channel or None
    consumerGroup,         \* "none", or the group made once: "pod" or "server"
    pc,                    \* per caller: "load", "store" or "receive"
    channel,               \* per caller, the channel it has been given
    consume,               \* per channel, its goroutine
    messages,              \* per channel, what is in it
    offset,                \* per channel, the last message its claim has taken
    produced, marked, committed,  \* per topic, numbers of messages
    taken,                 \* per topic, ghost: messages that a claim has taken
    received,              \* per topic, ghost: how often each was received
    overlapped,            \* ghost: two calls for a topic have overlapped
    failed,                \* ghost: sessions that have ended without a commit
    rebalances, crashes

process == <<topic2MessageChanMap, consumerGroup, pc, channel, consume,
             messages, offset, marked>>
ghosts == <<taken, received, overlapped, failed>>
vars == <<process, produced, committed, ghosts, rebalances, crashes>>

Numbers == 1..MaxMessages
InSession == {"claim", "send", "mark"}

TypeOK ==
    /\ topic2MessageChanMap \in [Topics -> Callers \cup {None}]
    /\ consumerGroup \in {"none", "pod", "server"}
    /\ pc \in [Callers -> {"load", "store", "receive"}]
    /\ channel \in [Callers -> Callers \cup {None}]
    /\ consume \in [Callers -> {"none", "join", "wait", "over"} \cup InSession]
    /\ messages \in [Callers -> Seq(Numbers)]
    /\ \A d \in Callers : Len(messages[d]) <= Capacity
    /\ offset \in [Callers -> 0..MaxMessages]
    /\ produced \in [Topics -> 0..MaxMessages]
    /\ marked \in [Topics -> Nat] /\ committed \in [Topics -> Nat]
    /\ \A t \in Topics : committed[t] <= marked[t] /\ marked[t] <= produced[t]
    /\ taken \in [Topics -> SUBSET Numbers]
    /\ received \in [Topics -> [Numbers -> Nat]]
    /\ overlapped \in BOOLEAN
    /\ failed \in Nat
    /\ rebalances \in 0..MaxRebalances
    /\ crashes \in 0..MaxCrashes

Started ==
    /\ topic2MessageChanMap = [t \in Topics |-> None]
    /\ consumerGroup = "none"
    /\ pc = [c \in Callers |-> "load"]
    /\ channel = [c \in Callers |-> None]
    /\ consume = [c \in Callers |-> "none"]
    /\ messages = [c \in Callers |-> << >>]
    /\ offset = [c \in Callers |-> 0]
    /\ marked = committed

Init ==
    /\ committed = [t \in Topics |-> 0]
    /\ Started
    /\ produced = [t \in Topics |-> 0]
    /\ taken = [t \in Topics |-> {}]
    /\ received = [t \in Topics |-> [m \in Numbers |-> 0]]
    /\ overlapped = FALSE
    /\ failed = 0
    /\ rebalances = 0
    /\ crashes = 0
-----------------------------------------------------------------------------
(* GetTopicMessageChan *)

\* Another call for the topic has found no channel and not stored its own yet.
Overlaps(c) == \E d \in Callers : TopicOf[d] = TopicOf[c] /\ pc[d] = "store"

\* A new channel, and a goroutine that consumes into it.
MakeChannel(c) ==
    /\ pc' = [pc EXCEPT ![c] = "store"]
    /\ channel' = [channel EXCEPT ![c] = c]
    /\ consume' = [consume EXCEPT ![c] = "join"]
    /\ overlapped' = (overlapped \/ Overlaps(c))

UseChannel(c) ==
    /\ pc' = [pc EXCEPT ![c] = "receive"]
    /\ channel' = [channel EXCEPT ![c] = topic2MessageChanMap[TopicOf[c]]]
    /\ UNCHANGED <<consume, overlapped>>

\* The table is not looked at.
BugLoad(c) ==
    /\ pc[c] = "load"
    /\ MakeChannel(c)
    /\ UNCHANGED <<topic2MessageChanMap, consumerGroup, messages, offset, marked,
                   produced, committed, taken, received, failed, rebalances, crashes>>

Load(c) ==
    /\ pc[c] = "load"
    /\ IF topic2MessageChanMap[TopicOf[c]] = None
       THEN MakeChannel(c)
       ELSE UseChannel(c)
    /\ UNCHANGED <<topic2MessageChanMap, consumerGroup, messages, offset, marked,
                   produced, committed, taken, received, failed, rebalances, crashes>>

Store(c) ==
    /\ pc[c] = "store"
    /\ topic2MessageChanMap' = [topic2MessageChanMap EXCEPT ![TopicOf[c]] = c]
    /\ pc' = [pc EXCEPT ![c] = "receive"]
    /\ UNCHANGED <<consumerGroup, channel, consume, messages, offset, marked,
                   produced, committed, ghosts, rebalances, crashes>>

\* The caller takes the next message out of its channel.
Receive(c) ==
    LET d == channel[c] IN
    /\ pc[c] = "receive"
    /\ messages[d] # << >>
    /\ messages' = [messages EXCEPT ![d] = Tail(@)]
    /\ received' = [received EXCEPT ![TopicOf[c]][Head(messages[d])] = @ + 1]
    /\ UNCHANGED <<topic2MessageChanMap, consumerGroup, pc, channel, consume,
                   offset, marked, produced, committed, taken, overlapped,
                   failed, rebalances, crashes>>

-----------------------------------------------------------------------------
(* The goroutine of a channel *)

GoOn(d, step) == consume' = [consume EXCEPT ![d] = step]

\* GetKafkaConsumer: the group is the one that its first caller has asked for.
GetKafkaConsumer(d) ==
    /\ consume[d] = "join"
    /\ consumerGroup' =
        IF consumerGroup # "none" THEN consumerGroup
        ELSE IF IsNeedDiffGroup[d] THEN "pod" ELSE "server"
    /\ GoOn(d, "wait")
    /\ UNCHANGED <<topic2MessageChanMap, pc, channel, messages, offset, marked,
                   produced, committed, ghosts, rebalances, crashes>>

\* A group starts where it has left off or, before it has committed anything,
\* at the end of the topic, unless it is told otherwise.
OffsetsInitial(t) == IF committed[t] = 0 THEN produced[t] ELSE committed[t]

\* Consume waits until no other Consume of the group runs.
StartSession(d) ==
    /\ consume[d] = "wait"
    /\ \A e \in Callers : consume[e] \notin InSession
    /\ offset' = [offset EXCEPT ![d] = OffsetsInitial(TopicOf[d])]
    /\ marked' = [marked EXCEPT ![TopicOf[d]] = committed[TopicOf[d]]]
    /\ GoOn(d, "claim")
    /\ UNCHANGED <<topic2MessageChanMap, consumerGroup, pc, channel, messages,
                   produced, committed, ghosts, rebalances, crashes>>

\* The message is marked before it is sent.
BugTake(d) ==
    /\ consume[d] = "claim"
    /\ offset[d] < produced[TopicOf[d]]
    /\ offset' = [offset EXCEPT ![d] = @ + 1]
    /\ taken' = [taken EXCEPT ![TopicOf[d]] = @ \cup {offset[d] + 1}]
    /\ marked' = [marked EXCEPT ![TopicOf[d]] = offset[d] + 1]
    /\ GoOn(d, "send")
    /\ UNCHANGED <<topic2MessageChanMap, consumerGroup, pc, channel, messages,
                   produced, committed, received, overlapped, failed,
                   rebalances, crashes>>

\* ConsumeClaim, from one access to shared state to the next.
Take(d) ==
    /\ consume[d] = "claim"
    /\ offset[d] < produced[TopicOf[d]]
    /\ offset' = [offset EXCEPT ![d] = @ + 1]
    /\ taken' = [taken EXCEPT ![TopicOf[d]] = @ \cup {offset[d] + 1}]
    /\ GoOn(d, "send")
    /\ UNCHANGED <<topic2MessageChanMap, consumerGroup, pc, channel, messages, marked,
                   produced, committed, received, overlapped, failed,
                   rebalances, crashes>>

\* One message too many.
BugFull(d) == Len(messages[d]) > Capacity

Full(d) == Len(messages[d]) = Capacity

\* A message that finds the channel full is dropped.
BugSend(d) ==
    /\ consume[d] = "send"
    /\ messages' = [messages EXCEPT ![d] = IF Full(d) THEN @ ELSE Append(@, offset[d])]
    /\ GoOn(d, "mark")
    /\ UNCHANGED <<topic2MessageChanMap, consumerGroup, pc, channel, offset, marked,
                   produced, committed, ghosts, rebalances, crashes>>

Send(d) ==
    /\ consume[d] = "send"
    /\ ~Full(d)
    /\ messages' = [messages EXCEPT ![d] = Append(@, offset[d])]
    /\ GoOn(d, "mark")
    /\ UNCHANGED <<topic2MessageChanMap, consumerGroup, pc, channel, offset, marked,
                   produced, committed, ghosts, rebalances, crashes>>

\* The message before is marked.
BugMark(d) ==
    /\ consume[d] = "mark"
    /\ marked' = [marked EXCEPT ![TopicOf[d]] = offset[d] - 1]
    /\ GoOn(d, "claim")
    /\ UNCHANGED <<topic2MessageChanMap, consumerGroup, pc, channel, messages, offset,
                   produced, committed, ghosts, rebalances, crashes>>

Mark(d) ==
    /\ consume[d] = "mark"
    /\ marked' = [marked EXCEPT ![TopicOf[d]] = offset[d]]
    /\ GoOn(d, "claim")
    /\ UNCHANGED <<topic2MessageChanMap, consumerGroup, pc, channel, messages, offset,
                   produced, committed, ghosts, rebalances, crashes>>

\* The broker ends the session.  The claim has no more messages, so Consume
\* commits what is marked and returns, and nobody calls it again.  The commit
\* fails, and only the Errors channel that nobody reads says so, when the broker
\* has given the member up (ConsumeClaim has waited for room longer than a
\* rebalance may take) or is out of reach; the commits before it may fail too,
\* and are then those that Commit has not made.
EndSession(d) ==
    /\ consume[d] = "claim"
    /\ rebalances < MaxRebalances
    /\ rebalances' = rebalances + 1
    /\ \/ /\ committed' = [committed EXCEPT ![TopicOf[d]] = marked[TopicOf[d]]]
          /\ UNCHANGED failed
       \/ /\ failed' = failed + 1
          /\ UNCHANGED committed
    /\ GoOn(d, "over")
    /\ UNCHANGED <<topic2MessageChanMap, consumerGroup, pc, channel, messages, offset,
                   marked, produced, taken, received, overlapped, crashes>>

-----------------------------------------------------------------------------
(* The broker, and the process as a whole *)

Produce(t) ==
    /\ produced[t] < MaxMessages
    /\ produced' = [produced EXCEPT ![t] = @ + 1]
    /\ UNCHANGED <<process, committed, ghosts, rebalances, crashes>>

\* sarama commits what is marked from time to time, while the session lasts.
Commit(t) ==
    /\ \E d \in Callers : TopicOf[d] = t /\ consume[d] \in InSession
    /\ committed[t] # marked[t]
    /\ committed' = [committed EXCEPT ![t] = marked[t]]
    /\ UNCHANGED <<process, produced, ghosts, rebalances, crashes>>

Crash ==
    /\ crashes < MaxCrashes
    /\ crashes' = crashes + 1
    /\ topic2MessageChanMap' = [t \in Topics |-> None]
    /\ consumerGroup' = "none"
    /\ pc' = [c \in Callers |-> "load"]
    /\ channel' = [c \in Callers |-> None]
    /\ consume' = [c \in Callers |-> "none"]
    /\ messages' = [c \in Callers |-> << >>]
    /\ offset' = [c \in Callers |-> 0]
    /\ marked' = committed
    /\ UNCHANGED <<produced, committed, ghosts, rebalances>>

Caller(c) == Load(c) \/ Store(c) \/ Receive(c)

Consumer(d) ==
    \/ GetKafkaConsumer(d) \/ StartSession(d)
    \/ Take(d) \/ Send(d) \/ Mark(d)

Next ==
    \/ \E c \in Callers : Caller(c) \/ Consumer(c) \/ EndSession(c)
    \/ \E t \in Topics : Produce(t) \/ Commit(t)
    \/ Crash

Spec == Init /\ [][Next]_vars

\* Goroutines run, and callers go on receiving.
FairSpec == Spec /\ \A c \in Callers : WF_vars(Caller(c)) /\ WF_vars(Consumer(c))

-----------------------------------------------------------------------------
\* Messages that the process holds in its channels.
Held(t) == UNION {{messages[d][i] : i \in DOMAIN messages[d]} :
                  d \in {e \in Callers : TopicOf[e] = t}}

\* Messages that a claim has taken and that nobody will ever get.
Lost(t) == {m \in taken[t] \ Held(t) : m <= committed[t] /\ received[t][m] = 0}

\* Messages are marked before they are handled, so a crash loses some: no more
\* than the channel of the topic holds and, before anything is committed, the
\* one in hand, unless two calls have made two channels.
LossBounded ==
    ~overlapped => \A t \in Topics : Cardinality(Lost(t)) <= (Capacity + 1) * crashes

\* A message is received again only if what was marked has not been committed:
\* every further receipt of one message takes a crash or a session of its own
\* whose last commit has failed, however calls overlap and sessions follow
\* each other.
RepeatsBounded ==
    \A t \in Topics, m \in Numbers : received[t][m] <= 1 + crashes + failed

\* Unless two calls overlap, whoever asks for a topic gets the channel that
\* its messages are sent to.
Fed ==
    ~overlapped =>
        \A c, d \in Callers :
            /\ pc[c] = "receive"
            /\ TopicOf[d] = TopicOf[c]
            /\ consume[d] \in InSession
            => channel[c] = d

\* A message that is produced while its topic is consumed is received, if the
\* session does not end before.
Served ==
    \A t \in Topics, m \in Numbers, d \in Callers :
        TopicOf[d] = t /\ consume[d] \in InSession /\ offset[d] < m /\ m <= produced[t]
            ~> received[t][m] > 0 \/ consume[d] \notin InSession
=============================================================================
