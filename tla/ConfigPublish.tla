---------------------------- MODULE ConfigPublish ----------------------------
(***************************************************************************)
(* NacosClient.PublishConfig of component/nacos/base, used the way its     *)
(* parameter oldData is meant: read a configuration, add to it, and        *)
(* publish the result on condition that nobody else has published          *)
(* meanwhile.  A request or its reply may be lost, and the call retries.   *)
(*                                                                         *)
(* A content is the set of the updates it contains, Base standing for what *)
(* was there before; the empty set is the empty string:       *)
(* the configuration does not exist.  Somebody may also edit it in the     *)
(* Nacos console, without any condition.                                   *)
(*                                                                         *)
(* The operators named Bug... are deliberate faults, as in GrpcCall.       *)
(***************************************************************************)
EXTENDS Naturals

CONSTANTS Clients,   \* each wants to add the update of its own name
          Base,
          Existing   \* contents the configuration may start with

Updates == Clients \cup {Base}

ASSUME ConfigPublishAssumption ==
    /\ Base \notin Clients
    /\ Existing \subseteq SUBSET Updates

VARIABLES
    server,   \* content of the configuration
    pc,       \* per client: "idle", "request", or how its last call ended
    oldData,  \* per client, what it has read
    attempt,  \* per client, number of the attempt under way
    changes,  \* per client, ghost: how often its call has changed the content
    overwritten \* ghost: updates that were removed without any condition

vars == <<server, pc, oldData, attempt, changes, overwritten>>

Attempts == 2
Ended == {"idle", "success", "refused", "error"}

TypeOK ==
    /\ server \in SUBSET Updates
    /\ pc \in [Clients -> Ended \cup {"request"}]
    /\ oldData \in [Clients -> SUBSET Updates]
    /\ attempt \in [Clients -> 1..Attempts]
    /\ changes \in [Clients -> Nat]
    /\ overwritten \in SUBSET Updates

Init ==
    /\ server \in Existing
    /\ pc = [c \in Clients |-> "idle"]
    /\ oldData = [c \in Clients |-> {}]
    /\ attempt = [c \in Clients |-> 1]
    /\ changes = [c \in Clients |-> 0]
    /\ overwritten = {}

-----------------------------------------------------------------------------
\* The caller reads the configuration and calls PublishConfig, again if it
\* was not successful.
Call(c) ==
    /\ pc[c] \in Ended \ {"success"}
    /\ oldData' = [oldData EXCEPT ![c] = server]
    /\ pc' = [pc EXCEPT ![c] = "request"]
    /\ attempt' = [attempt EXCEPT ![c] = 1]
    /\ changes' = [changes EXCEPT ![c] = 0]
    /\ overwritten' = overwritten \ {c}
    /\ UNCHANGED server

Content(c) == oldData[c] \cup {c}

\* The condition goes with the first attempt only.
BugCasHolds(c) == attempt[c] = 1 => oldData[c] = {} \/ server = oldData[c]

\* CasMd5 goes with every attempt, unless oldData is empty.
CasHolds(c) == oldData[c] = {} \/ server = oldData[c]

Retry(c) ==
    IF attempt[c] < Attempts
    THEN attempt' = [attempt EXCEPT ![c] = @ + 1] /\ UNCHANGED pc
    ELSE pc' = [pc EXCEPT ![c] = "error"] /\ UNCHANGED attempt

Return(c, how) == pc' = [pc EXCEPT ![c] = how] /\ UNCHANGED attempt

\* The server takes the content; the reply may get lost.
Accept(c) ==
    /\ pc[c] = "request"
    /\ CasHolds(c)
    /\ server' = Content(c)
    /\ changes' = [changes EXCEPT ![c] = IF server = Content(c) THEN @ ELSE @ + 1]
    /\ overwritten' = IF oldData[c] = {} THEN overwritten \cup (server \ Content(c))
                      ELSE overwritten
    /\ Return(c, "success") \/ Retry(c)
    /\ UNCHANGED oldData

\* The server refuses: an error for the library, or success = false.
Refuse(c) ==
    /\ pc[c] = "request"
    /\ ~CasHolds(c)
    /\ Return(c, "refused") \/ Retry(c)
    /\ UNCHANGED <<server, oldData, changes, overwritten>>

\* The request does not get there.
Lose(c) ==
    /\ pc[c] = "request"
    /\ Retry(c)
    /\ UNCHANGED <<server, oldData, changes, overwritten>>

\* The console never publishes an empty content.
Overwrite(content) ==
    /\ content # {}
    /\ server' = content
    /\ overwritten' = overwritten \cup (server \ content)
    /\ UNCHANGED <<pc, oldData, attempt, changes>>

Publisher(c) == Call(c) \/ Accept(c) \/ Refuse(c) \/ Lose(c)

Next ==
    \/ \E c \in Clients : Publisher(c)
    \/ \E content \in SUBSET Updates : Overwrite(content)

Spec == Init /\ [][Next]_vars

-----------------------------------------------------------------------------
\* An update reported as successful is not lost: whoever publishes a content
\* without it has edited the configuration in the console, or had found it
\* empty, and so has set no condition.
Kept == \A c \in Clients : pc[c] = "success" => c \in server \cup overwritten

\* A conditional call changes the configuration at most once, also when it
\* retries a request that had succeeded: unless its update has been removed
\* meanwhile, which may have brought back the content it has read.
AppliedOnce ==
    \A c \in Clients :
        oldData[c] # {} /\ c \notin overwritten => changes[c] <= 1
=============================================================================
