------------------------------ MODULE GrpcCall ------------------------------
(***************************************************************************)
(* A gRPC call between services whose namespace is not known in advance.   *)
(*                                                                         *)
(* Every pod keeps three tables: the connections it has dialled            *)
(* (conn-storage), the namespace it believes each service to be in         *)
(* (grpcCallConfig) and the namespaces Kubernetes last listed (k8s).  The  *)
(* second one is shared through Nacos: a pod publishes its whole table     *)
(* when it discovers a namespace, and is called back when another pod has. *)
(* The goroutines that make calls and those that run the callback          *)
(* interleave without any lock over the three tables.                      *)
(*                                                                         *)
(* The operators named Bug... are deliberate faults.  Nothing uses them:   *)
(* each shows, put in the place of the definition that follows it, that a  *)
(* property of this module can fail.                                       *)
(***************************************************************************)
EXTENDS K8sResolver

CONSTANTS Pods,           \* processes that run the toolkit with one SERVICE_NAME
          Services,       \* services they call
          Callers,        \* goroutines making calls
          Handlers,       \* goroutines running the Nacos callback
          PodOf,          \* the pod of each goroutine
          Placements,     \* where each service may be: listed by the API, reachable
          MaxDisruptions  \* bound: how often the environment misbehaves

ASSUME GrpcCallAssumption ==
    /\ PodOf \in [Callers \cup Handlers -> Pods]
    /\ Placements \in [Services -> SUBSET [listed : SUBSET Namespaces,
                                           ready : SUBSET Namespaces]]
    /\ MaxDisruptions \in Nat

VARIABLES
    listed,               \* per service, the namespaces the Kubernetes API lists
    ready,                \* per service, the namespaces where it can be reached
    disruptions,          \* what the environment has done so far, at most MaxDisruptions
    service2NamespacesMp, \* per pod and service, the list cached by GetNewServiceEntity
    service2NamespaceMap, \* per pod and service, the namespace in grpcCallConfig
    serviceName2ConnMap,  \* per pod and service, the namespace its connection targets
    config,               \* per service, the namespace in the published configuration
    seen,                 \* per pod, the configuration Nacos has last delivered to it
    hpc, hnew, hdiff,     \* callbacks: next step, tmpMap, diffKeys
    pc,                   \* callers: next step, or how the last call ended
    svc, cc,              \* callers: service, namespace of the connection used
    tries,                \* callers: the index i of the retry loop
    isConnChange,         \* callers: the loop has moved to another connection
    snap,                 \* callers: the table SetServiceNamespace is about to publish
    calm                  \* callers: ghost, nothing was disrupted since the call began
                          \* and every listed namespace of the service is reachable

cluster == <<listed, ready>>
tables == <<service2NamespacesMp, service2NamespaceMap, serviceName2ConnMap>>
nacos == <<config, seen>>
callbacks == <<hpc, hnew, hdiff>>
call == <<svc, cc, tries, isConnChange, snap>>
vars == <<cluster, disruptions, tables, nacos, callbacks, pc, call, calm>>

Maybe == Namespaces \cup {None}

Unknown == [s \in Services |-> None]

\* Attempts of the retry loop.
BugRetries == 2
Retries == 3

\* A goroutine between two calls: the last one was answered, or GetConn or
\* the interceptor returned an error, or the interceptor gave up, or it panicked.
Failed == {"error", "exhausted", "panicked"}
Done == {"idle"} \cup Failed

LoopOK ==
    /\ pc \in [Callers -> Done \cup {"dial", "resolve", "store", "snapshot", "publish",
                                   "recheck", "cache", "invoke", "remember"}]
    /\ cc \in [Callers -> Maybe]
    /\ tries \in [Callers -> 0..(Retries - 1)]
    /\ isConnChange \in [Callers -> BOOLEAN]

\* The tables hold namespaces and lists, and the retry loop makes no fourth
\* attempt, whatever it is answered.
TypeOK ==
    /\ listed \in [Services -> SUBSET Namespaces]
    /\ ready \in [Services -> SUBSET Namespaces]
    /\ disruptions \in 0..MaxDisruptions
    /\ service2NamespacesMp \in [Pods -> [Services -> Entries]]
    /\ service2NamespaceMap \in [Pods -> [Services -> Maybe]]
    /\ serviceName2ConnMap \in [Pods -> [Services -> Maybe]]
    /\ config \in [Services -> Maybe]
    /\ seen \in [Pods -> [Services -> Maybe]]
    /\ hpc \in [Handlers -> {"idle", "diff", "delete", "store"}]
    /\ hnew \in [Handlers -> [Services -> Maybe]]
    /\ hdiff \in [Handlers -> SUBSET Services]
    /\ LoopOK
    /\ svc \in [Callers -> Services]
    /\ snap \in [Callers -> [Services -> Maybe]]
    /\ calm \in [Callers -> BOOLEAN]

-----------------------------------------------------------------------------
(***************************************************************************)
(* The environment.                                                        *)
(***************************************************************************)
Disrupt ==
    /\ disruptions < MaxDisruptions
    /\ disruptions' = disruptions + 1
    /\ calm' = [c \in Callers |-> FALSE]

\* A service is deployed to, or taken out of, a namespace.
MoveService(s) ==
    \E q \in Placements[s] :
        /\ Disrupt
        /\ q # [listed |-> listed[s], ready |-> ready[s]]
        /\ listed' = [listed EXCEPT ![s] = q.listed]
        /\ ready' = [ready EXCEPT ![s] = q.ready]
        /\ UNCHANGED <<tables, nacos, callbacks, pc, call>>

\* f, with the value v for every goroutine of p.
OnPod(p, f, v) == [g \in DOMAIN f |-> IF PodOf[g] = p THEN v ELSE f[g]]

\* A pod loses its tables and calls; on the way up GetAndWatchConfig runs the
\* handler on the configuration, or on nothing when GetConfig fails.
PodRestart(p) ==
    \E got \in {config, Unknown} :
        /\ Disrupt
        /\ service2NamespacesMp' = [service2NamespacesMp EXCEPT ![p] = [s \in Services |-> NoEntry]]
        /\ service2NamespaceMap' = [service2NamespaceMap EXCEPT ![p] = got]
        /\ serviceName2ConnMap' = [serviceName2ConnMap EXCEPT ![p] = Unknown]
        /\ seen' = [seen EXCEPT ![p] = got]
        /\ hpc' = OnPod(p, hpc, "idle")
        /\ hnew' = OnPod(p, hnew, Unknown)
        /\ hdiff' = OnPod(p, hdiff, {})
        /\ pc' = OnPod(p, pc, "idle")
        /\ cc' = OnPod(p, cc, None)
        /\ tries' = OnPod(p, tries, 0)
        /\ isConnChange' = OnPod(p, isConnChange, FALSE)
        /\ snap' = OnPod(p, snap, Unknown)
        /\ UNCHANGED <<cluster, config, svc>>

-----------------------------------------------------------------------------
(***************************************************************************)
(* GetConn and DialWrapper: the connection a call starts with.             *)
(***************************************************************************)
\* The call ends; what it held is forgotten.
Return(c, how) ==
    /\ pc' = [pc EXCEPT ![c] = how]
    /\ cc' = [cc EXCEPT ![c] = None]
    /\ tries' = [tries EXCEPT ![c] = 0]
    /\ isConnChange' = [isConnChange EXCEPT ![c] = FALSE]

GetConn(c, s) ==
    LET conn == serviceName2ConnMap[PodOf[c]][s] IN
    /\ pc[c] \in Done
    /\ pc' = [pc EXCEPT ![c] = IF conn = None THEN "dial" ELSE "invoke"]
    /\ svc' = [svc EXCEPT ![c] = s]
    /\ cc' = [cc EXCEPT ![c] = conn]
    /\ tries' = [tries EXCEPT ![c] = 0]
    /\ isConnChange' = [isConnChange EXCEPT ![c] = FALSE]
    /\ calm' = [calm EXCEPT ![c] = listed[s] # {} /\ ready[s] = listed[s]]
    /\ UNCHANGED <<cluster, disruptions, tables, nacos, callbacks, snap>>

\* The dial itself does not block and cannot fail here.
DialWrapper(c) ==
    LET namespace == service2NamespaceMap[PodOf[c]][svc[c]] IN
    /\ pc[c] = "dial"
    /\ cc' = [cc EXCEPT ![c] = namespace]
    /\ pc' = [pc EXCEPT ![c] = IF namespace = None THEN "resolve" ELSE "recheck"]
    /\ UNCHANGED <<cluster, disruptions, tables, nacos, callbacks,
                   svc, tries, isConnChange, snap, calm>>

\* The second lookup of GetConn; the store is a step of its own.
Recheck(c) ==
    /\ pc[c] = "recheck"
    /\ pc' = [pc EXCEPT ![c] = IF serviceName2ConnMap[PodOf[c]][svc[c]] = None
                               THEN "cache" ELSE "invoke"]
    /\ UNCHANGED <<cluster, disruptions, tables, nacos, callbacks, call, calm>>

SetServiceName2ConnMap(c) ==
    /\ serviceName2ConnMap' = [serviceName2ConnMap EXCEPT ![PodOf[c]][svc[c]] = cc[c]]
    /\ UNCHANGED <<service2NamespacesMp, service2NamespaceMap>>

CacheConn(c) ==
    /\ pc[c] = "cache"
    /\ SetServiceName2ConnMap(c)
    /\ pc' = [pc EXCEPT ![c] = "invoke"]
    /\ UNCHANGED <<cluster, disruptions, nacos, callbacks, call, calm>>

-----------------------------------------------------------------------------
(***************************************************************************)
(* GetNewServiceEntity.  cc[c] is originNamespace: None when DialWrapper   *)
(* asks, the namespace that answered Unavailable when the retry loop does. *)
(***************************************************************************)
Entry(c) == service2NamespacesMp[PodOf[c]][svc[c]]

ResolveFromCache(c) ==
    /\ pc[c] = "resolve"
    /\ CacheAnswers(Entry(c), cc[c])
    /\ cc' = [cc EXCEPT ![c] = Entry(c).head]
    /\ pc' = [pc EXCEPT ![c] = "store"]
    /\ UNCHANGED <<cluster, disruptions, tables, nacos, callbacks,
                   svc, tries, isConnChange, snap, calm>>

\* Indexing the empty list panics; the deferred Unlock still runs.
ResolveFromList(c) ==
    LET entry == ListedEntry(listed[svc[c]], cc[c]) IN
    /\ pc[c] = "resolve"
    /\ ~CacheAnswers(Entry(c), cc[c])
    /\ service2NamespacesMp' = [service2NamespacesMp EXCEPT ![PodOf[c]][svc[c]] = entry]
    /\ IF entry.all = {}
       THEN Return(c, "panicked")
       ELSE /\ cc' = [cc EXCEPT ![c] = entry.head]
            /\ pc' = [pc EXCEPT ![c] = "store"]
            /\ UNCHANGED <<tries, isConnChange>>
    /\ UNCHANGED <<cluster, disruptions, service2NamespaceMap, serviceName2ConnMap,
                   nacos, callbacks, svc, snap, calm>>

\* No client, or the API refuses the listing: the caller gets the error.
ResolveFails(c) ==
    /\ pc[c] = "resolve"
    /\ ~CacheAnswers(Entry(c), cc[c])
    /\ Disrupt
    /\ Return(c, "error")
    /\ UNCHANGED <<cluster, tables, nacos, callbacks, svc, snap>>

-----------------------------------------------------------------------------
(***************************************************************************)
(* SetServiceNamespace: store, copy the table, publish the copy.           *)
(***************************************************************************)
StoreNamespace(c) ==
    /\ pc[c] = "store"
    /\ service2NamespaceMap' = [service2NamespaceMap EXCEPT ![PodOf[c]][svc[c]] = cc[c]]
    /\ pc' = [pc EXCEPT ![c] = "snapshot"]
    /\ UNCHANGED <<cluster, disruptions, service2NamespacesMp, serviceName2ConnMap,
                   nacos, callbacks, call, calm>>

SnapshotNamespaces(c) ==
    /\ pc[c] = "snapshot"
    /\ snap' = [snap EXCEPT ![c] = service2NamespaceMap[PodOf[c]]]
    /\ pc' = [pc EXCEPT ![c] = "publish"]
    /\ UNCHANGED <<cluster, disruptions, tables, nacos, callbacks,
                   svc, cc, tries, isConnChange, calm>>

\* An attempt that is not counted.
BugNextAttemptUncounted(c) ==
    /\ pc' = [pc EXCEPT ![c] = "invoke"]
    /\ UNCHANGED <<cc, tries, isConnChange>>

\* Back in the retry loop the new connection is dialled and the attempt is
\* over, also when it was the last one.
NextAttempt(c) ==
    IF tries[c] + 1 = Retries
    THEN Return(c, "exhausted")
    ELSE /\ tries' = [tries EXCEPT ![c] = @ + 1]
         /\ pc' = [pc EXCEPT ![c] = "invoke"]
         /\ UNCHANGED <<cc, isConnChange>>

\* The whole table replaces the configuration, whatever it holds by now
\* (oldData is ""); a failed publication is only logged.
PublishNamespaces(c) ==
    /\ pc[c] = "publish"
    /\ config' \in {snap[c], config}
    /\ snap' = [snap EXCEPT ![c] = Unknown]
    /\ IF isConnChange[c]
       THEN NextAttempt(c)
       ELSE /\ pc' = [pc EXCEPT ![c] = "recheck"]
            /\ UNCHANGED <<cc, tries, isConnChange>>
    /\ UNCHANGED <<cluster, disruptions, tables, seen, callbacks, svc, calm>>

-----------------------------------------------------------------------------
(***************************************************************************)
(* RetryGrpcUnaryClientInterceptor: up to Retries attempts, each on the    *)
(* connection in cc.                                                       *)
(***************************************************************************)
Reachable(c) == cc[c] \in ready[svc[c]]

Answered(c) ==
    /\ pc[c] = "invoke"
    /\ Reachable(c)
    /\ IF isConnChange[c]
       THEN pc' = [pc EXCEPT ![c] = "remember"] /\ UNCHANGED <<cc, tries, isConnChange, calm>>
       ELSE Return(c, "idle") /\ calm' = [calm EXCEPT ![c] = FALSE]
    /\ UNCHANGED <<cluster, disruptions, tables, nacos, callbacks, svc, snap>>

\* The stale connection is kept.
BugRemember(c) ==
    /\ pc[c] = "remember"
    /\ Return(c, "idle")
    /\ calm' = [calm EXCEPT ![c] = FALSE]
    /\ UNCHANGED <<cluster, disruptions, tables, nacos, callbacks, svc, snap>>

\* The connection that has answered replaces the stored one.
Remember(c) ==
    /\ pc[c] = "remember"
    /\ SetServiceName2ConnMap(c)
    /\ Return(c, "idle")
    /\ calm' = [calm EXCEPT ![c] = FALSE]
    /\ UNCHANGED <<cluster, disruptions, nacos, callbacks, svc, snap>>

\* Unavailable, from a namespace that cannot be reached or, now and then,
\* from one that can: look for another namespace.
Unavailable(c) ==
    /\ pc[c] = "invoke"
    /\ IF Reachable(c) THEN Disrupt ELSE UNCHANGED <<disruptions, calm>>
    /\ isConnChange' = [isConnChange EXCEPT ![c] = TRUE]
    /\ pc' = [pc EXCEPT ![c] = "resolve"]
    /\ UNCHANGED <<cluster, tables, nacos, callbacks, svc, cc, tries, snap>>

\* Any other error is retried on the same connection.
OtherError(c) ==
    /\ pc[c] = "invoke"
    /\ Disrupt
    /\ NextAttempt(c)
    /\ UNCHANGED <<cluster, tables, nacos, callbacks, svc, snap>>

-----------------------------------------------------------------------------
(***************************************************************************)
(* The Nacos callback registered by GetGrpcCallConfig.  The client library *)
(* starts it in a goroutine of its own each time the content it has last   *)
(* delivered differs from the server's, so that callbacks may overlap.     *)
(***************************************************************************)
Notify(h) ==
    LET p == PodOf[h] IN
    /\ hpc[h] = "idle"
    /\ seen[p] # config
    /\ seen' = [seen EXCEPT ![p] = config]
    /\ hnew' = [hnew EXCEPT ![h] = config]
    /\ hpc' = [hpc EXCEPT ![h] = "diff"]
    /\ UNCHANGED <<cluster, disruptions, tables, config, hdiff, pc, call, calm>>

HandlerDiff(h) ==
    /\ hpc[h] = "diff"
    /\ hdiff' = [hdiff EXCEPT ![h] =
           {s \in Services : hnew[h][s] \notin {None, service2NamespaceMap[PodOf[h]][s]}}]
    /\ hpc' = [hpc EXCEPT ![h] = "delete"]
    /\ UNCHANGED <<cluster, disruptions, tables, nacos, hnew, pc, call, calm>>

DeleteByServiceKeys(h) ==
    /\ hpc[h] = "delete"
    /\ serviceName2ConnMap' = [serviceName2ConnMap EXCEPT ![PodOf[h]] =
           [s \in Services |-> IF s \in hdiff[h] THEN None ELSE @[s]]]
    /\ hpc' = [hpc EXCEPT ![h] = "store"]
    /\ UNCHANGED <<cluster, disruptions, service2NamespacesMp, service2NamespaceMap,
                   nacos, hnew, hdiff, pc, call, calm>>

StorSyncMapFromNormalMap(h) ==
    /\ hpc[h] = "store"
    /\ service2NamespaceMap' = [service2NamespaceMap EXCEPT ![PodOf[h]] =
           [s \in Services |-> IF s \in hdiff[h] THEN hnew[h][s] ELSE @[s]]]
    /\ hpc' = [hpc EXCEPT ![h] = "idle"]
    /\ hnew' = [hnew EXCEPT ![h] = Unknown]
    /\ hdiff' = [hdiff EXCEPT ![h] = {}]
    /\ UNCHANGED <<cluster, disruptions, service2NamespacesMp, serviceName2ConnMap,
                   nacos, pc, call, calm>>

-----------------------------------------------------------------------------
Init ==
    /\ listed \in [Services -> SUBSET Namespaces]
    /\ ready \in [Services -> SUBSET Namespaces]
    /\ \A s \in Services : [listed |-> listed[s], ready |-> ready[s]] \in Placements[s]
    /\ disruptions = 0
    /\ service2NamespacesMp = [p \in Pods |-> [s \in Services |-> NoEntry]]
    /\ service2NamespaceMap = [p \in Pods |-> Unknown]
    /\ serviceName2ConnMap = [p \in Pods |-> Unknown]
    /\ config = Unknown
    /\ seen = [p \in Pods |-> Unknown]
    /\ hpc = [h \in Handlers |-> "idle"]
    /\ hnew = [h \in Handlers |-> Unknown]
    /\ hdiff = [h \in Handlers |-> {}]
    /\ pc = [c \in Callers |-> "idle"]
    /\ \E s \in Services : svc = [c \in Callers |-> s]
    /\ cc = [c \in Callers |-> None]
    /\ tries = [c \in Callers |-> 0]
    /\ isConnChange = [c \in Callers |-> FALSE]
    /\ snap = [c \in Callers |-> Unknown]
    /\ calm = [c \in Callers |-> FALSE]

Environment ==
    \/ \E s \in Services : MoveService(s)
    \/ \E p \in Pods : PodRestart(p)

\* What a caller does once it has started a call.
CallStep(c) ==
    \/ DialWrapper(c) \/ Recheck(c) \/ CacheConn(c)
    \/ ResolveFromCache(c) \/ ResolveFromList(c) \/ ResolveFails(c)
    \/ StoreNamespace(c) \/ SnapshotNamespaces(c) \/ PublishNamespaces(c)
    \/ Answered(c) \/ Remember(c) \/ Unavailable(c) \/ OtherError(c)

Callback(h) ==
    \/ Notify(h) \/ HandlerDiff(h) \/ DeleteByServiceKeys(h) \/ StorSyncMapFromNormalMap(h)

Next ==
    \/ Environment
    \/ \E c \in Callers : CallStep(c) \/ \E s \in Services : GetConn(c, s)
    \/ \E h \in Handlers : Callback(h)

Spec == Init /\ [][Next]_vars

\* A goroutine that can take a step does, and the client library delivers;
\* nothing obliges a program to make another call.
FairSpec ==
    /\ Spec
    /\ \A c \in Callers : WF_vars(CallStep(c))
    /\ \A h \in Handlers : WF_vars(Callback(h))

-----------------------------------------------------------------------------
\* Three attempts suffice.  While nothing is disrupted and the service can
\* be reached wherever it is listed, a call is answered, however stale the
\* three tables and the shared configuration were when it began.
CalmCallsAnswer ==
    \A c \in Callers : calm[c] => pc[c] \notin Failed

\* The interceptor neither invents a namespace ("default" is only a
\* preference) nor takes that of another service, although whole tables
\* travel between the pods: what a pod dials, believes and publishes is a
\* namespace the service has been listed in.
Placed(s) == {None} \cup UNION { q.listed : q \in Placements[s] }

OnlyListed == \A s \in Services :
    /\ config[s] \in Placed(s)
    /\ \A p \in Pods : {service2NamespaceMap[p][s], serviceName2ConnMap[p][s]} \subseteq Placed(s)
    /\ \A c \in Callers : svc[c] = s => cc[c] \in Placed(s)

\* A service that Kubernetes does not know is reported to the caller as the
\* error "serviceName not found in k8s".
UnknownServiceReported == \A c \in Callers : pc[c] # "panicked"

\* Every call returns to its caller.
CallsReturn == \A c \in Callers : pc[c] \notin Done ~> pc[c] \in Done

\* Once every service stays reachable where it is listed, a namespace that
\* is stale lives on only in the tables that SetServiceNamespace publishes:
\* if from some point on none of those has a stale entry, for whatever
\* service, then from some point on no call needs a retry, whatever callbacks
\* overlap and connections have been cached between their steps.  (The code
\* does not see to it that none has: a callback may overwrite what a call has
\* just stored before the table is copied, and two calls may publish each
\* other's stale entry in turn.)
Healthy == \A s \in Services : listed[s] # {} /\ ready[s] = listed[s]

Spoiled == \E c \in Callers :
    pc[c] = "publish" /\ \E s \in Services : snap[c][s] \notin ready[s] \cup {None}

Retrying == \E c \in Callers : isConnChange[c]

Heals == <>[](Healthy /\ ~Spoiled) => <>[]~Retrying
=============================================================================
