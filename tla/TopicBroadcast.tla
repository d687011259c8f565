--------------------------- MODULE TopicBroadcast ---------------------------
(***************************************************************************)
(* What publish/v2 promises a subscriber: messages of its topic only, each *)
(* at most once, in the order in which they were published, none older     *)
(* than the subscription.  Any message may be dropped.  Messages are       *)
(* numbered as they are published.                                         *)
(***************************************************************************)
EXTENDS Naturals

CONSTANTS Clients,     \* subscriptions
          Topics,
          NoTopic,     \* of a client that is not subscribed
          MaxMessages  \* bound: messages published

VARIABLES
    published,  \* per topic, the messages published
    count,      \* how many in all
    sub,        \* per client, its topic
    last        \* per client, the last message delivered, or published before it joined

vars == <<published, count, sub, last>>

Init ==
    /\ published = [t \in Topics |-> {}]
    /\ count = 0
    /\ sub = [c \in Clients |-> NoTopic]
    /\ last = [c \in Clients |-> 0]

Publish(t) ==
    /\ count < MaxMessages
    /\ count' = count + 1
    /\ published' = [published EXCEPT ![t] = @ \cup {count + 1}]
    /\ UNCHANGED <<sub, last>>

Join(c, t) ==
    /\ sub[c] = NoTopic
    /\ sub' = [sub EXCEPT ![c] = t]
    /\ last' = [last EXCEPT ![c] = count]
    /\ UNCHANGED <<published, count>>

Deliver(c, m) ==
    /\ sub[c] # NoTopic
    /\ m \in published[sub[c]]
    /\ m > last[c]
    /\ last' = [last EXCEPT ![c] = m]
    /\ UNCHANGED <<published, count, sub>>

Leave(c) ==
    /\ sub' = [sub EXCEPT ![c] = NoTopic]
    /\ UNCHANGED <<published, count, last>>

Next ==
    \/ \E t \in Topics : Publish(t)
    \/ \E c \in Clients : Leave(c) \/ \E t \in Topics : Join(c, t)
    \/ \E c \in Clients, m \in 1..MaxMessages : Deliver(c, m)

Spec == Init /\ [][Next]_vars
=============================================================================
