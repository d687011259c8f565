------------------------------ MODULE PubSubV1 ------------------------------
(***************************************************************************)
(* publish/v1/main.go, the server before PubSubV2: no topics, no mutex, and*)
(* a Publish that sends its message to the first subscriber it finds again *)
(* and again and never to another.                                         *)
(*                                                                         *)
(* A stream is one Subscribe call and its channel of capacity one; a       *)
(* message is one Publish call.  The map of the subscribers is written     *)
(* without synchronisation: a call that uses the map meanwhile may or may  *)
(* not be caught by the runtime, which ends the process.                   *)
(***************************************************************************)
EXTENDS Naturals, FiniteSets

CONSTANTS Streams,   \* Subscribe calls
          Published  \* Publish calls, which are the messages

\* A loop that is at a channel is neither new nor over.
ASSUME V1Assumption == {"new", "returned"} \cap Streams = {}

VARIABLES
    registered,  \* the map of the subscribers
    stage,       \* per stream, next step of Subscribe
    mail,        \* per stream, what its channel holds
    taken,       \* per stream, what is given to stream.Send
    shut,        \* channels that are closed
    target,      \* per message, the channels its loop is at
    dead         \* the process has ended

v1Vars == <<registered, stage, mail, taken, shut, target, dead>>

V1TypeOK ==
    /\ registered \subseteq Streams
    /\ stage \in [Streams -> {"new", "add", "serve", "send", "close", "delete", "gone"}]
    /\ mail \in [Streams -> SUBSET Published]
    /\ \A c \in Streams : Cardinality(mail[c]) <= 1 /\ Cardinality(taken[c]) <= 1
    /\ taken \in [Streams -> SUBSET Published]
    /\ shut \subseteq Streams
    /\ target \in [Published -> {"new", "returned"} \cup Streams]
    /\ dead \in BOOLEAN

NewPubSubServer ==
    /\ registered = {} /\ shut = {}
    /\ stage = [c \in Streams |-> "new"]
    /\ mail = [c \in Streams |-> {}]
    /\ taken = [c \in Streams |-> {}]
    /\ target = [m \in Published |-> "new"]
    /\ dead = FALSE

\* Somebody is writing the map: whoever uses it now may end the process.
Race == dead' \in (IF \E c \in Streams : stage[c] \in {"add", "delete"} THEN BOOLEAN ELSE {FALSE})

-----------------------------------------------------------------------------
(* Subscribe *)

Step(c, from, to) == stage[c] = from /\ stage' = [stage EXCEPT ![c] = to]

Enter(c) ==
    /\ Step(c, "new", "add")
    /\ Race
    /\ UNCHANGED <<registered, mail, taken, shut, target>>

Add(c) ==
    /\ Step(c, "add", "serve")
    /\ registered' = registered \cup {c}
    /\ UNCHANGED <<mail, taken, shut, target, dead>>

Get(c) ==
    /\ mail[c] # {}
    /\ Step(c, "serve", "send")
    /\ taken' = [taken EXCEPT ![c] = mail[c]]
    /\ mail' = [mail EXCEPT ![c] = {}]
    /\ UNCHANGED <<registered, shut, target, dead>>

StreamSend(c) ==
    /\ Step(c, "send", "serve") \/ Step(c, "send", "close")
    /\ taken' = [taken EXCEPT ![c] = {}]
    /\ UNCHANGED <<registered, mail, shut, target, dead>>

\* The deferred function is not called.
BugStreamDone(c) ==
    /\ Step(c, "serve", "returned")
    /\ UNCHANGED <<registered, mail, taken, shut, target, dead>>

StreamDone(c) ==
    /\ Step(c, "serve", "close")
    /\ UNCHANGED <<registered, mail, taken, shut, target, dead>>

Close(c) ==
    /\ Step(c, "close", "delete")
    /\ shut' = shut \cup {c}
    /\ Race
    /\ UNCHANGED <<registered, mail, taken, target>>

Delete(c) ==
    /\ Step(c, "delete", "gone")
    /\ registered' = registered \ {c}
    /\ UNCHANGED <<mail, taken, shut, target, dead>>

-----------------------------------------------------------------------------
(* Publish *)

RangeSubscribers(m) ==
    /\ target[m] = "new"
    /\ \E at \in (IF registered = {} THEN {"returned"} ELSE registered) :
        target' = [target EXCEPT ![m] = at]
    /\ Race
    /\ UNCHANGED <<registered, stage, mail, taken, shut>>

At(m, c) == target[m] = c /\ c \notin shut

\* The loop goes on after the send, and sends again.
SelectSend(m, c) ==
    /\ At(m, c) /\ mail[c] = {}
    /\ mail' = [mail EXCEPT ![c] = {m}]
    /\ UNCHANGED <<registered, stage, taken, shut, target, dead>>

\* The send panics, and nothing recovers.
SendOnClosed(m) ==
    /\ target[m] \in shut
    /\ dead' = TRUE
    /\ UNCHANGED <<registered, stage, mail, taken, shut, target>>

-----------------------------------------------------------------------------
Subscribing(c) ==
    Enter(c) \/ Add(c) \/ Get(c) \/ StreamSend(c) \/ StreamDone(c) \/ Close(c) \/ Delete(c)

V1Next ==
    /\ ~dead
    /\ \/ \E c \in Streams : Subscribing(c)
       \/ \E m \in Published :
            RangeSubscribers(m) \/ SendOnClosed(m) \/ \E c \in Streams : SelectSend(m, c)

\* The goroutines of the server run, also the loops that have lost their
\* channel; streams may stay or end, and nobody has to call.
V1Fairness ==
    /\ \A m \in Published :
        WF_v1Vars(~dead /\ (SendOnClosed(m) \/ \E c \in Streams : SelectSend(m, c)))
    /\ \A c \in Streams :
        WF_v1Vars(~dead /\ (Add(c) \/ Get(c) \/ StreamSend(c) \/ Close(c) \/ Delete(c)))

V1Spec == NewPubSubServer /\ [][V1Next]_v1Vars /\ V1Fairness

-----------------------------------------------------------------------------
\* A Publish call returns, as its last line says, having dropped the message
\* where a channel is full, unless the process ends.
V1PublishReturns ==
    \A m \in Published : target[m] \in Streams ~> target[m] = "returned" \/ dead
=============================================================================
