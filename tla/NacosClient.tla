----------------------------- MODULE NacosClient -----------------------------
(***************************************************************************)
(* component/nacos/base: one configuration as one process keeps it.        *)
(*                                                                         *)
(* Three kinds of goroutines hand its content to the handler and write it  *)
(* to ConfigCacheMap: the one in GetAndWatchConfig, the callbacks that the *)
(* client library starts when it notices a change, and the ticker of       *)
(* RefreshConfig.  None of them holds a lock.  Contents are numbered in    *)
(* the order in which the server gets them; what the handler does with one *)
(* is GrpcCall's subject.                                                  *)
(*                                                                         *)
(* The operators named Bug... are deliberate faults, as in GrpcCall.       *)
(***************************************************************************)
EXTENDS Integers

CONSTANTS Callbacks,    \* goroutines that run OnChange
          MaxVersion,   \* bound: contents published
          MaxFailures   \* bound: requests to the server that fail after their retries

ASSUME NacosClientAssumption ==
    /\ MaxVersion \in Nat
    /\ MaxFailures \in Nat

VARIABLES
    server,      \* the content the server holds
    failures,    \* requests that have failed so far
    cache,       \* ConfigCacheMap, Absent when it has no entry
    handled,     \* the content last given to the handler
    listening,   \* whether ListenConfig has succeeded
    seen,        \* the content the client library has last compared
    missed,      \* ghost: whether a change has gone unnoticed
    watched,     \* whether ConfigWatchHandleMap has the handler
    spc, sdata,  \* GetAndWatchConfig: next step, content fetched
    kpc, kdata,  \* callbacks: next step, content delivered
    rpc, rdata   \* RefreshConfig: next step, content fetched

starter == <<spc, sdata>>
callbacks == <<kpc, kdata>>
refresher == <<rpc, rdata>>
subscription == <<listening, seen, missed>>
vars == <<server, failures, cache, handled, subscription, watched,
          starter, callbacks, refresher>>

Absent == -1
Versions == 0..MaxVersion
Contents == Versions \cup {Absent}

TypeOK ==
    /\ server \in Versions
    /\ failures \in 0..MaxFailures
    /\ cache \in Contents
    /\ handled \in Contents
    /\ listening \in BOOLEAN
    /\ seen \in Contents
    /\ missed \in BOOLEAN
    /\ watched \in BOOLEAN
    /\ spc \in {"get", "store", "handle", "listen", "watch", "done"}
    /\ sdata \in Contents
    /\ kpc \in [Callbacks -> {"idle", "handle", "store"}]
    /\ kdata \in [Callbacks -> Contents]
    /\ rpc \in {"get", "store", "compare", "restore", "handle"}
    /\ rdata \in Contents

Init ==
    /\ server \in Versions
    /\ failures = 0
    /\ cache = Absent
    /\ handled = Absent
    /\ listening = FALSE
    /\ seen = Absent
    /\ missed = FALSE
    /\ watched = FALSE
    /\ spc = "get"
    /\ sdata = Absent
    /\ kpc = [k \in Callbacks |-> "idle"]
    /\ kdata = [k \in Callbacks |-> Absent]
    /\ rpc = "get"
    /\ rdata = Absent

-----------------------------------------------------------------------------
\* Somebody publishes a new content.
Change ==
    /\ server < MaxVersion
    /\ server' = server + 1
    /\ UNCHANGED <<failures, cache, handled, subscription, watched,
                   starter, callbacks, refresher>>

Fail ==
    /\ failures < MaxFailures
    /\ failures' = failures + 1

-----------------------------------------------------------------------------
(***************************************************************************)
(* GetAndWatchConfig: GetConfig, the handler, WatchConfig.                 *)
(***************************************************************************)
StartGet ==
    /\ spc = "get"
    /\ \/ /\ sdata' = server
          /\ spc' = "store"
          /\ UNCHANGED failures
       \/ /\ Fail
          /\ spc' = "listen"
          /\ UNCHANGED sdata
    /\ UNCHANGED <<server, cache, handled, subscription, watched, callbacks, refresher>>

StartStore ==
    /\ spc = "store"
    /\ cache' = sdata
    /\ spc' = "handle"
    /\ UNCHANGED <<server, failures, handled, subscription, watched, sdata,
                   callbacks, refresher>>

StartHandle ==
    /\ spc = "handle"
    /\ handled' = sdata
    /\ spc' = "listen"
    /\ UNCHANGED <<server, failures, cache, subscription, watched, sdata,
                   callbacks, refresher>>

\* The library takes the content of the moment for known.
BugListenConfig ==
    /\ listening' = TRUE
    /\ seen' = server
    /\ UNCHANGED missed

\* The library compares with the content it has last fetched.
ListenConfig ==
    /\ listening' = TRUE
    /\ seen' = sdata
    /\ UNCHANGED missed

\* When ListenConfig fails WatchConfig returns an error nobody looks at.
StartListen ==
    /\ spc = "listen"
    /\ \/ /\ ListenConfig
          /\ spc' = "watch"
          /\ UNCHANGED failures
       \/ /\ Fail
          /\ spc' = "done"
          /\ UNCHANGED subscription
    /\ UNCHANGED <<server, cache, handled, watched, sdata, callbacks, refresher>>

StartWatch ==
    /\ spc = "watch"
    /\ watched' = TRUE
    /\ spc' = "done"
    /\ UNCHANGED <<server, failures, cache, handled, subscription, sdata,
                   callbacks, refresher>>

-----------------------------------------------------------------------------
(***************************************************************************)
(* The subscription: OnChange runs in a goroutine of its own.              *)
(***************************************************************************)
Notify(k) ==
    /\ listening
    /\ seen # server
    /\ kpc[k] = "idle"
    /\ seen' = server
    /\ kdata' = [kdata EXCEPT ![k] = server]
    /\ kpc' = [kpc EXCEPT ![k] = "handle"]
    /\ UNCHANGED <<server, failures, cache, handled, listening, missed, watched, starter,
                   refresher>>

\* The change is not noticed.
Miss ==
    /\ listening
    /\ seen # server
    /\ seen' = server
    /\ missed' = TRUE
    /\ UNCHANGED <<server, failures, cache, handled, listening, watched,
                   starter, callbacks, refresher>>

OnChangeHandle(k) ==
    /\ kpc[k] = "handle"
    /\ handled' = kdata[k]
    /\ kpc' = [kpc EXCEPT ![k] = "store"]
    /\ UNCHANGED <<server, failures, cache, subscription, watched, kdata, starter, refresher>>

OnChangeStore(k) ==
    /\ kpc[k] = "store"
    /\ cache' = kdata[k]
    /\ kdata' = [kdata EXCEPT ![k] = Absent]
    /\ kpc' = [kpc EXCEPT ![k] = "idle"]
    /\ UNCHANGED <<server, failures, handled, subscription, watched, starter, refresher>>

-----------------------------------------------------------------------------
(***************************************************************************)
(* RefreshConfig, once per tick for a watched configuration.  GetConfig    *)
(* has already stored the content when it is compared with the cache.      *)
(***************************************************************************)
\* A request that fails ends the goroutine.
BugRefreshGet ==
    /\ rpc = "get"
    /\ watched
    /\ \/ /\ rdata' = server
          /\ rpc' = "store"
          /\ UNCHANGED failures
       \/ /\ Fail
          /\ rpc' = "ended"
          /\ UNCHANGED rdata
    /\ UNCHANGED <<server, cache, handled, subscription, watched, starter, callbacks>>

RefreshGet ==
    /\ rpc = "get"
    /\ watched
    /\ \/ /\ rdata' = server
          /\ rpc' = "store"
          /\ UNCHANGED failures
       \/ Fail /\ UNCHANGED refresher
    /\ UNCHANGED <<server, cache, handled, subscription, watched, starter, callbacks>>

RefreshStore ==
    /\ rpc = "store"
    /\ cache' = rdata
    /\ rpc' = "compare"
    /\ UNCHANGED <<server, failures, handled, subscription, watched, rdata,
                   starter, callbacks>>

RefreshCompare ==
    /\ rpc = "compare"
    /\ IF cache = rdata
       THEN rpc' = "get" /\ rdata' = Absent
       ELSE rpc' = "restore" /\ UNCHANGED rdata
    /\ UNCHANGED <<server, failures, cache, handled, subscription, watched,
                   starter, callbacks>>

RefreshRestore ==
    /\ rpc = "restore"
    /\ cache' = rdata
    /\ rpc' = "handle"
    /\ UNCHANGED <<server, failures, handled, subscription, watched, rdata,
                   starter, callbacks>>

RefreshHandle ==
    /\ rpc = "handle"
    /\ handled' = rdata
    /\ rpc' = "get"
    /\ rdata' = Absent
    /\ UNCHANGED <<server, failures, cache, subscription, watched, starter, callbacks>>

-----------------------------------------------------------------------------
Start == StartGet \/ StartStore \/ StartHandle \/ StartListen \/ StartWatch

OnChange(k) == Notify(k) \/ OnChangeHandle(k) \/ OnChangeStore(k)

RefreshConfig ==
    RefreshGet \/ RefreshStore \/ RefreshCompare \/ RefreshRestore \/ RefreshHandle

Next == Change \/ Start \/ (\E k \in Callbacks : OnChange(k)) \/ Miss \/ RefreshConfig

Spec == Init /\ [][Next]_vars

\* The goroutines run, the ticker ticks, and the library compares.
FairSpec ==
    /\ Spec
    /\ WF_vars(Start)
    /\ WF_vars(RefreshConfig)
    /\ \A k \in Callbacks : WF_vars(OnChange(k))

-----------------------------------------------------------------------------
\* Two goroutines have a content in hand at the same time.
Overlap ==
    \/ \E k \in Callbacks : kpc[k] # "idle" /\ (rpc # "get" \/ spc \in {"store", "handle"})
    \/ \E j, k \in Callbacks : j # k /\ kpc[j] # "idle" /\ kpc[k] # "idle"

\* Once it listens, if nothing is missed and no two goroutines overlap, the
\* process ends up with the server's content given to its handler, also when
\* that has changed between GetConfig and ListenConfig.
Delivered == []~(Overlap \/ missed) /\ <>listening => <>[](handled = server)

\* The refresh does bring the cache up to date, whatever the subscription has
\* missed and however the goroutines overlap.
CacheFollows == <>watched => <>[](cache = server)

\* "Forced refresh: nacos subscriptions have been reported not to update."
\* Once refreshed, the handler has the server's content.
RefreshForces == <>watched => <>[](handled = server)
=============================================================================
