------------------------------ MODULE PubSubV2 ------------------------------
(***************************************************************************)
(* publish/v2/main.go: a server that hands every message published to a    *)
(* topic to the Subscribe calls registered for it, through a channel of    *)
(* capacity one each.  The registry, and the closing of channels, are      *)
(* under the mutex mu; the Subscribe goroutines receive without it.        *)
(*                                                                         *)
(* A client is one Subscribe call and the channel it makes.  The operators *)
(* named Bug... are deliberate faults: none is used here, each shows, in   *)
(* the place of the definition that follows it, that a property can fail.  *)
(***************************************************************************)
EXTENDS Naturals

CONSTANTS Clients,     \* Subscribe calls
          Topics,
          NoTopic,
          MaxMessages  \* bound: Publish calls

ASSUME PubSubAssumption ==
    /\ NoTopic \notin Topics
    /\ MaxMessages \in Nat

VARIABLES
    publishing,   \* message of the Publish call that holds mu; 0: mu is free
    todo,         \* channels its loop has yet to visit
    subscribers,  \* per topic, the registered channels
    ch,           \* per channel, the message in its buffer, 0 when empty
    closed,       \* the channels that have been closed
    pc,           \* per client, next step of Subscribe
    topic,        \* per client, the topic in its request
    held,         \* per client, the message given to stream.Send, 0 when none
    last,         \* per client, the last message sent, or published before it joined
    published,    \* per topic, the messages published
    count,        \* how many in all
    crashed       \* a goroutine has panicked: there is no recovery handler

registry == <<subscribers, closed>>
clients == <<pc, topic, held, last>>
history == <<published, count>>
vars == <<publishing, todo, registry, ch, clients, history, crashed>>

Messages == 1..MaxMessages

TypeOK ==
    /\ publishing \in 0..MaxMessages
    /\ todo \in SUBSET Clients
    /\ subscribers \in [Topics -> SUBSET Clients]
    /\ ch \in [Clients -> 0..MaxMessages]
    /\ closed \in SUBSET Clients
    /\ pc \in [Clients -> {"new", "serve", "send", "remove", "close", "gone"}]
    /\ topic \in [Clients -> Topics \cup {NoTopic}]
    /\ held \in [Clients -> 0..MaxMessages]
    /\ last \in [Clients -> 0..MaxMessages]
    /\ published \in [Topics -> SUBSET Messages]
    /\ count \in 0..MaxMessages
    /\ crashed \in BOOLEAN

Init ==
    /\ publishing = 0
    /\ todo = {}
    /\ subscribers = [t \in Topics |-> {}]
    /\ ch = [c \in Clients |-> 0]
    /\ closed = {}
    /\ pc = [c \in Clients |-> "new"]
    /\ topic = [c \in Clients |-> NoTopic]
    /\ held = [c \in Clients |-> 0]
    /\ last = [c \in Clients |-> 0]
    /\ published = [t \in Topics |-> {}]
    /\ count = 0
    /\ crashed = FALSE

MuFree == publishing = 0

-----------------------------------------------------------------------------
(***************************************************************************)
(* Publish: visit the topic's channels with mu held.                       *)
(***************************************************************************)
\* Visit the channels of every topic.
BugPublishLock(t) ==
    /\ MuFree
    /\ count < MaxMessages
    /\ count' = count + 1
    /\ published' = [published EXCEPT ![t] = @ \cup {count + 1}]
    /\ publishing' = count + 1
    /\ todo' = UNION {subscribers[u] : u \in Topics}
    /\ UNCHANGED <<registry, ch, clients, crashed>>

PublishLock(t) ==
    /\ MuFree
    /\ count < MaxMessages
    /\ count' = count + 1
    /\ published' = [published EXCEPT ![t] = @ \cup {count + 1}]
    /\ publishing' = count + 1
    /\ todo' = subscribers[t]
    /\ UNCHANGED <<registry, ch, clients, crashed>>

\* Wait for room in the channel.
BugPublishSend(c) ==
    /\ c \in todo
    /\ ch[c] = 0
    /\ todo' = todo \ {c}
    /\ ch' = [ch EXCEPT ![c] = publishing]
    /\ UNCHANGED <<publishing, registry, clients, history, crashed>>

\* The message is dropped if the channel is full; a send on a closed channel
\* panics.
PublishSend(c) ==
    /\ c \in todo
    /\ todo' = todo \ {c}
    /\ ch' = IF c \notin closed /\ ch[c] = 0 THEN [ch EXCEPT ![c] = publishing] ELSE ch
    /\ crashed' = (c \in closed)
    /\ UNCHANGED <<publishing, registry, clients, history>>

PublishUnlock ==
    /\ ~MuFree
    /\ todo = {}
    /\ publishing' = 0
    /\ UNCHANGED <<todo, registry, ch, clients, history, crashed>>

-----------------------------------------------------------------------------
(***************************************************************************)
(* Subscribe.                                                              *)
(***************************************************************************)
addSubscriber(c, t) ==
    /\ pc[c] = "new"
    /\ MuFree
    /\ subscribers' = [subscribers EXCEPT ![t] = @ \cup {c}]
    /\ topic' = [topic EXCEPT ![c] = t]
    /\ last' = [last EXCEPT ![c] = count]
    /\ pc' = [pc EXCEPT ![c] = "serve"]
    /\ UNCHANGED <<publishing, todo, closed, ch, held, history, crashed>>

\* The goroutine that closes the channel is the one that receives from it:
\* the receive never finds it closed.
Receive(c) ==
    /\ pc[c] = "serve"
    /\ ch[c] # 0
    /\ held' = [held EXCEPT ![c] = ch[c]]
    /\ ch' = [ch EXCEPT ![c] = 0]
    /\ pc' = [pc EXCEPT ![c] = "send"]
    /\ UNCHANGED <<publishing, todo, registry, topic, last, history, crashed>>

Sent(c) ==
    /\ pc[c] = "send"
    /\ last' = [last EXCEPT ![c] = held[c]]
    /\ held' = [held EXCEPT ![c] = 0]
    /\ pc' = [pc EXCEPT ![c] = "serve"]
    /\ UNCHANGED <<publishing, todo, registry, ch, topic, history, crashed>>

SendFails(c) ==
    /\ pc[c] = "send"
    /\ held' = [held EXCEPT ![c] = 0]
    /\ pc' = [pc EXCEPT ![c] = "remove"]
    /\ UNCHANGED <<publishing, todo, registry, ch, topic, last, history, crashed>>

\* The stream's context may be done at any time, also with a message waiting.
ContextDone(c) ==
    /\ pc[c] = "serve"
    /\ pc' = [pc EXCEPT ![c] = "remove"]
    /\ UNCHANGED <<publishing, todo, registry, ch, topic, held, last, history, crashed>>

\* The channel is closed without waiting for mu.
BugRemoveSubscriber(c) ==
    /\ pc[c] = "remove"
    /\ subscribers' = [subscribers EXCEPT ![topic[c]] = @ \ {c}]
    /\ closed' = closed \cup {c}
    /\ pc' = [pc EXCEPT ![c] = "close"]
    /\ UNCHANGED <<publishing, todo, ch, topic, held, last, history, crashed>>

removeSubscriber(c) ==
    /\ pc[c] = "remove"
    /\ MuFree
    /\ subscribers' = [subscribers EXCEPT ![topic[c]] = @ \ {c}]
    /\ closed' = closed \cup {c}
    /\ pc' = [pc EXCEPT ![c] = "close"]
    /\ UNCHANGED <<publishing, todo, ch, topic, held, last, history, crashed>>

\* Subscribe's own close(ch), deferred: closing a closed channel panics.
CloseChannel(c) ==
    /\ pc[c] = "close"
    /\ closed' = closed \cup {c}
    /\ crashed' = (c \in closed)
    /\ pc' = [pc EXCEPT ![c] = "gone"]
    /\ UNCHANGED <<publishing, todo, subscribers, ch, topic, held, last, history>>

-----------------------------------------------------------------------------
Subscribe(c) ==
    \/ \E t \in Topics : addSubscriber(c, t)
    \/ Receive(c) \/ Sent(c) \/ SendFails(c) \/ ContextDone(c)
    \/ removeSubscriber(c) \/ CloseChannel(c)

Broadcast == (\E c \in Clients : PublishSend(c)) \/ PublishUnlock

Next ==
    /\ ~crashed
    /\ \/ \E t \in Topics : PublishLock(t)
       \/ Broadcast
       \/ \E c \in Clients : Subscribe(c)

Spec == Init /\ [][Next]_vars

\* The goroutine that holds mu runs.  Nothing is assumed of the clients.
FairSpec == Spec /\ WF_vars(~crashed /\ Broadcast)

-----------------------------------------------------------------------------
\* A Publish call never sends on a closed channel, although a channel may be
\* closed at any moment by the goroutine that serves it.
NoSendOnClosed == todo \cap closed = {}

\* A message sent, held or buffered was published to the client's topic, after
\* it joined, and they are in the order of publication.
InOrder == \A c \in Clients :
    /\ held[c] # 0 => held[c] \in published[topic[c]] /\ last[c] < held[c]
    /\ ch[c] # 0 => ch[c] \in published[topic[c]] /\ last[c] < ch[c] /\ held[c] < ch[c]

Abstract == INSTANCE TopicBroadcast WITH
    sub <- [c \in Clients |-> IF pc[c] \in {"serve", "send", "remove"} THEN topic[c] ELSE NoTopic]

\* Through the mutex, the bounded channels and the drops, a subscriber gets
\* what TopicBroadcast promises.
Implements == Abstract!Spec

\* A Publish call returns although some client never takes its messages.
PublishReturns == \A m \in Messages : publishing = m ~> publishing # m \/ crashed

\* removeSubscriber removes a subscriber: the server survives one that leaves.
Survives == ~crashed
=============================================================================
