# Verification of panda-go

panda-go is a toolkit for Go services that run in Kubernetes: gRPC clients that
find the namespace of the service they call, configuration through Nacos,
tracing, profiling and metrics, two sample services behind a gateway, and two
small publish/subscribe servers.
This directory holds TLA+ models of it, TLC runs over small instances and
TLAPS proofs of the properties that matter most. `PROJECT.json` lists the runs,
the source lines behind each definition, the hazards and the findings.

## 1. Inventory

| Part | State it keeps | Operations | Talks to |
|---|---|---|---|
| namespace discovery, `component/k8s/k8s.go` | `service2NamespacesMp` under `mapLock`, the client made once | `GetNewServiceEntity`, `GetK8sClient` | Kubernetes API |
| connection cache, `conn-storage/conn.go` | `sync.Map` service to connection | lookup, store, `DeleteByServiceKeys` | used by the three parts below |
| shared namespace table, `nacos/config/grpc-call/config.go` | `sync.Map` service to namespace | `GetServiceNamespace`, `SetServiceNamespace`, callback | Nacos, connection cache |
| dialling, `grpc-client-wrapper.go` | none | `GetConn`, `DialWrapper` | all three tables |
| retry interceptor, `grpc-client-interceptor` | local to a call | `RetryGrpcUnaryClientInterceptor` | all three tables |
| Nacos client, `nacos/base/nacos-client.go` | `ConfigCacheMap`, `ConfigWatchHandleMap` | `GetConfig`, `WatchConfig`, `GetAndWatchConfig`, `RefreshConfig`, `PublishConfig`, console calls | Nacos server and its client library |
| publish/subscribe v2, `publish/v2/main.go` | registry under `mu`, one channel per subscriber | `Publish`, `Subscribe` | gRPC clients |
| publish/subscribe v1, `publish/v1/main.go` | registry without a lock | `Publish`, `Subscribe` | gRPC clients |
| Kafka, `component/kafka` | channels per topic, consumer group and producer made once | `GetTopicMessageChan`, `ConsumeClaim`, `SentTopicMessage`, close | Kafka, Nacos client |
| Holmes manager, `holms_wrapper/holms.go` | the running profiler and its configuration, no lock | start, callback, stop | Nacos client |
| Prometheus counter, `prometheus_wrapper` | a gauge | `updateGoroutineCount`, `InitPushPrometheus` | Kafka |
| tracing and shutdown, `common/interceptor` | spans; the signal handler | client and server interceptors | everything it closes |
| server wrapper, `grpc-server-wrapper.go` | log level, `/tmp/pprof.zip` | `SetLogLevel`, `DownloadPprofFile`, `NewServer` | log |
| services and gateway, `panda-*`, `proto/pb` | `lgx.txt` | the routes, the handlers | each other, through the interceptors |
| log and desensitization, `common/log`, `common/utils/desensitization` | the level | `doLog`, `SetLevel`, `FilterField` | utilities |
| rate limiters, `base/main.go` | bucket under `mu` | `Allow` | |
| utilities, `common/utils` | none | trace headers, copies, masks | |
| experiments, generated messages | none | | |

How they interact: a request reaches the gateway, or `panda-account`'s own HTTP
server, whose interceptor joins the trace of the headers or begins one; the
handler calls a service, which may call another. A call runs `GetConn`, which
reads the connection cache; on a miss `DialWrapper` reads the shared table and, if
that is empty too, asks `GetNewServiceEntity` and gives the answer to
`SetServiceNamespace`, which publishes it to Nacos. `GetConn` then stores the
connection. When the call gets `Unavailable`, the interceptor asks
`GetNewServiceEntity` again, sets and publishes the new namespace and retries on a
connection to it; if that one answers, it replaces the one in the cache. Every
publication comes back to all pods as a callback, through the Nacos client, which
deletes connections and stores namespaces. Beside this every process pushes its
goroutine count to Kafka and runs a profiler that follows a Nacos configuration;
`panda-export` collects the counts; on a signal two goroutines close what there is.

What is hard here: three tables without a common lock, written by calls, by
overlapping callbacks and by a ticker; a shared configuration that each pod
replaces as a whole; services that move; pods that restart; publications that
fail; a cache that is compared after it has been overwritten; channels closed by
one goroutine while another sends; a profiler replaced without a lock; retries on
two levels of a request, whose given-up attempts go on; a shutdown that waits for a
session that waits for a receiver. What makes each part correct:

* calls: a call that is not disrupted is answered within its three attempts,
  whatever stale data it starts from; a pod only looks for a service where the
  service has been; every call returns; stale namespaces die out once
  none is published;
* Nacos client: the handler ends up with the server's content, also when a
  change is missed; it is not taken back to an older one; no publication is lost or
  applied twice; an operation stays in its namespace;
* publish/subscribe: a subscriber gets messages of its topic, at most once, in
  order; a slow or leaving subscriber harms neither `Publish` nor the server;
* Kafka: what a crash may lose is bounded, a message is received again only after a
  crash or a commit that failed, whoever asks for a topic gets its messages;
* profiler: what runs is what the configuration asks for, and can be stopped;
* requests: all executions are in one trace, their log lines name it, their spans
  are finished; broken connections are made up for;
* log: which secrets do not get there, and what logging loses or changes beside
  them: the code itself promises less than one would wish (section 3).

## 2. Modules

| Module | Models |
|---|---|
| `K8sResolver` | the pure part of `GetNewServiceEntity`: what one call reads and leaves in the cache |
| `GrpcCall` | discovery, the three tables, dialling, the retry loop and the callback, for any number of pods, services and goroutines |
| `NacosClient` | one configuration in one process: start-up, callbacks and refresh |
| `ConfigPublish` | `PublishConfig` with its condition and its retry, against a server that loses requests and replies, and edits without a condition |
| `NacosConsole` | extends it by the console operations of the client |
| `TopicBroadcast` | abstract: what publish/v2 promises a subscriber |
| `PubSubV2` | publish/v2, in the steps its mutex and channels allow |
| `PubSubV1` | publish/v1, which has neither topics nor a mutex |
| `KafkaConsumer` | topics, channels and sessions of one process, with the offsets the broker keeps |
| `PandaExport` | one process that pushes and collects the goroutine counts, from the clients it makes to its shutdown |
| `HolmesManager` | the profiler under start, callbacks and shutdown |
| `RequestPath` | one HTTP request through gateway, interceptors and services |
| `FileDownloads` | `DownloadFile`, any number of times |
| `Redaction` | `doLog` with the desensitization |
| `RateLimiters` | the token bucket and the leaky bucket, on one clock |
| `...Proofs` | theorems about the specification of that name; `NacosConsoleProofs` also about `ConfigPublish`, `PubSubV2Proofs` about `PubSubV1`, `PandaExportProofs` about `HolmesManager`, `RequestPathProofs` about `FileDownloads` and `Redaction` |
| `MC...` | values for the constants; where a run checks independent parts, `MCPrograms`, `MCPandaExport` and `MCRequestPath` choose one of them at the start; `MCGrpcCallSettings` chooses between two small settings of `GrpcCall` |

Each specification also defines operators named `Bug...`: deliberate faults that
nothing uses. Each one, put in the place of the definition after it, makes a
property fail; they show that the property says something about the code.

### GrpcCall

A namespace is its rank in the order of the names, since `GetNewServiceEntity`
only compares and sorts; `Default` is the rank of `default`. A connection is
the namespace it targets, because the interceptor reads service and namespace
back from the target. `Placements[s]` says which pairs of listed and reachable
namespaces a service may go through. `disruptions` counts what the environment
does: a service moves, a pod restarts, a listing fails, a reachable service
answers an error. It is capped by `MaxDisruptions`.

One action is one step between two accesses to shared state: `GetConn`'s first
lookup, `DialWrapper`'s lookup, the second lookup and the store of `GetConn`
(lines 49-51, not atomic), `GetNewServiceEntity` (one step: it holds `mapLock`
throughout), and `SetServiceNamespace` in three (store, copy, publish). The
callback has a step for the comparison, one for the deletion and one for the
store. Panics end a call in `pc = "panicked"`.

`calm[c]` is a ghost: nothing was disrupted since call `c` began, and its service
is reachable wherever it is listed. `CalmCallsAnswer` is about those calls.

Abstracted: the iteration of a `sync.Map` is one step (`SnapshotNamespaces`,
`DeleteByServiceKeys`, `StorSyncMapFromNormalMap`); a failing publication is not
counted as a disruption, so the model may fail every one of them; connections are
not resources; all pods share one `SERVICE_NAME` and hence one configuration.

### NacosClient

Contents are numbered in the order in which the server gets them, so "older" is
`<`. A callback is a goroutine the client library starts with the content it has
noticed; the library itself is external and may miss any
change. `failures` counts requests that fail after their retries.

### ConfigPublish

A content is the set of updates it contains, a client's call is read, add,
publish. An attempt is one step on the server (`Accept`, `Refuse`) or none
(`Lose`); after a lost reply the call goes on as after a lost request.
`Overwrite` is an edit without a condition. A content is empty until somebody
publishes, and a call that has read it empty sends no condition either.
`changes` and `overwritten` are ghosts. The configuration starts out as one of
`Existing`.

### NacosConsole

An operation of the console is one request in the client's own namespace
(`Scope`) and an interpretation of its answer (`Succeeds`). Requests are a set: they
arrive in any order, late, twice or never, at most `MaxDeliveries` of them; answers
may get lost or be unreadable. Operations that only look at something are
`inspect`; `GetNacosConfigDetail` is apart because the edit that follows builds on
it. `told` is a ghost. The publishers of `ConfigPublish` run beside them, on the
configuration of `Home`; an edit of it is an `Overwrite`.

### PubSubV2

A client is one `Subscribe` call with its channel of capacity one. `publishing`
is the message of the `Publish` call that holds `mu`; its loop visits the channels
one by one. `last` and `published` are ghosts that only the properties read.
A panic sets `crashed` and stops everything: the server installs no recovery
handler.

### PubSubV1

A message is one call of `Publish`. Its inner loop has no exit, so `SelectSend` stays
where it is. `Race` is the unsynchronised map: whoever uses it while a stream
writes it may or may not end the process, which is what Go's runtime does.

### KafkaConsumer

A caller is a goroutine that calls `GetTopicMessageChan` (`Load`, then `Store`: the
table is read and written in two steps) and then receives for ever, as
`updateGoroutineCount` does while the values are numbers. The channel a caller
makes is named after it, and so is the goroutine that consumes into it:
`GetKafkaConsumer`, then `StartSession`, which waits for the other sessions of the
group, then `ConsumeClaim` in three steps. A group that has committed nothing starts
at the end of the topic (`OffsetsInitial`): that is sarama's default, which the code
does not change. The commit at the end of a session may fail, as it does for a member
that the broker has given up while `ConsumeClaim` waited for room; nobody reads
`Errors()`, and the ghost `failed` counts such sessions. The rest of sarama, the broker and the restart are external. Not
modelled: other members of the group.

### PandaExport

`pc` has four goroutines: the one that pushes, the one of `GetTopicMessageChan`, the
one that collects and the shutdown. Messages are `count` or `text`, what `ParseFloat`
takes and what it does not. A client of Kafka is the broker it was made for, chosen
by `KafkaUrl` from the two configurations; any request for one may fail, and anybody
may edit them at any time (`EditConfig`), so that the two clients may be made for
different brokers. `fate` is how the process ends. `log.Fatal` and `os.Exit` wait for
nobody. `ClosePrometheus` is a no-op, since `initCtx` cannot be cancelled.

### HolmesManager

A step is what happens between two accesses to `triggerHolmes`, which nothing
protects. The handlers are `init`'s own call, callbacks (which stand for the refresh
too) and the shutdown, which only runs `stopTriggerHolmes`. Contents are what the code
tells apart: empty, unreadable, `null`, disabled, enabled but of no use to
`holmes.New`, enabled with a null among the items, and the enabled ones. `handled` and `overlapped` are ghosts: most of what
can be promised holds until two handlers overlap, and nothing after it.

### RequestPath

An execution of a handler is named by the attempts that lead to it: `<<2, 1>>` is the
first attempt of the call that the second attempt of the HTTP handler's call makes.
`result` is what the caller of an execution has got, `phase` what the execution does:
after `Break` the caller goes on, and so may the execution. Routes, whether the B3
headers are complete, and the level asked for are chosen at the start. Panics of
handlers are errors, as the interceptors make them. Errors whose text is between 201
and 799 bytes long make the interceptor itself panic (`err.Error()[:800]`), which its
own deferred function turns into another error: still an error. Connections are in
`GrpcCall`; here one breaks, at most `MaxFaults` times. That the client goes away is
not modelled. `hopeless` is a ghost: something failed that nobody tries again.

### FileDownloads and Redaction

`FileDownloads` has one step for each system call on `lgx.txt`. In `Redaction` a value
is a struct, a message, a list or a string with fields of the kinds that reflection
tells apart, one level deep, a struct without exported fields (`time.Time`) among
them; texts are sequences, because what `MaskPhone` shows
depends on their length. `value` is the application's, `logged` what is written.

### RateLimiters

`Allow` holds `mu`, so it is one action; `Tick` is the clock, in whole units, and
the two readings `LeakyBucket` makes of it in a call are one. The zero time of
`lastRefill` is `-Age`, from which `Sub` reports the longest duration there is.
The buckets share the clock and nothing else. `granted`, `first`, `passed` and
`start` are ghosts; `Tick` may let the window of `Smooths` begin anew.

## 3. Runs

| Run | Question | Bounds |
|---|---|---|
| `grpc_call_pods` | do three attempts suffice across pods? | 2 pods with a caller each, a callback in one, 1 service in none, one or two of 3 namespaces, 2 disruptions |
| `grpc_call_liveness` | does every call return, do retries die out? | 1 pod, 2 namespaces, 1 disruption; either 2 callers of 1 service and a callback, where the service may be listed in vain, or 1 caller of 2 services and 2 callbacks that may overlap |
| `grpc_call_unknown_service` | is an unknown service reported? (violated) | 1 pod, 2 callers, 1 callback, any placement in 3 namespaces, 1 disruption |
| `nacos_client` | is the content delivered; does the refresh repair the cache? | 2 callbacks, 4 contents, 2 failures, any change missed |
| `nacos_refresh_forces` | does the refresh repair the handler? (violated) | 1 callback, missed changes |
| `config_publish` | is an update kept, and applied once; does the console stay in its namespace? | 2 clients, 2 attempts a call, calls repeated without bound; 2 administrators, 2 operations, each delivered twice at most |
| `kafka_consumer` | what gets lost or repeated, and who is fed? | 2 callers of 1 topic, 3 messages, channels of 1, 2 rebalances, a crash |
| `programs` | does v2 implement `TopicBroadcast`, does its `Publish` return; are v1's channels used as they should be; do the buckets bound what they give away? | v2: 2 clients, 2 topics, 3 messages; v1: 3 streams, 2 messages; the rates of `base/main.go` in units of ten tokens, 3 request sizes, 6 seconds |
| `pubsub_v2_leave` | does the server survive a leaving subscriber? (violated) | 2 clients, 1 topic |
| `pubsub_v1_publish` | does a `Publish` call of v1 return? (violated) | 2 streams, 1 message |
| `panda_export` | is there one profiler, the right one; does the process exit, with no message in hand? | 2 callbacks, 2 enabled configurations, 2 profilers, 1 change; 2 brokers, any edit of the service's own configuration, 3 messages, a channel of 1 |
| `request_path` | is a request answered, traced and logged as it should be; are downloads whole; are secrets hidden? | all routes and headers, 2 levels, 2 broken connections; 3 downloads; values of two fields or of one composed one, texts of 3, 9 and 11 characters |

Why the bounds are enough: a stale namespace reaches a call through its own
pod's tables or through one published by another pod, so two pods and two
callers show every pair of conflicting steps; three namespaces are the fewest
with a preferred, a failed and a fresh one; the theorems do without bounds.
Two callbacks are the fewest that overlap, and two services the fewest whose entries
travel in one table; two callers of two services with two callbacks are beyond TLC.
With three messages a channel of capacity one is full, holds one back and drops one,
and two rebalances show a commit that fails after one that does not, or both. Two operations of the console
are a check and what builds on it, and two deliveries show a late and a doubled
request. Two brokers are the fewest that differ. No call has more than three attempts,
so two broken connections are the most that can be made up for at one level. Of three
streams one can leave while the other two are subscribed. The lengths are below, just
below and above the ones where `MaskPhone` changes what it shows. Deadlock checking is
off where the system may stop: no change left to handle, an answered request, or a
process that has ended.

`InOrder` of `PubSubV2`, `Traced` of `HolmesManager` and the type invariants of six modules
(`GrpcCall`, `ConfigPublish`, `NacosConsole`, `PubSubV2`, `HolmesManager`, `RateLimiters`)
are proved for every instance (section 4) and are in no run.

### Fairness

* `GrpcCall!FairSpec`: a goroutine that can take a step does (the Go scheduler), and
  the client library delivers. No fairness for the environment or for new calls.
* `NacosClient!FairSpec`: the start-up and the callbacks run, the ticker ticks.
* `PubSubV2!FairSpec`: the goroutine that holds the mutex runs; nothing is assumed of
  the clients, which may never take a message.
* `PubSubV1!V1Fairness`: `Publish` calls and streams that have begun go on until the
  process ends. Nobody has to subscribe, to leave or to publish.
* `KafkaConsumer!FairSpec`: goroutines run, and receivers go on receiving; nothing is
  assumed of the broker.
* `PandaExport!ExportFairness`: the shutdown, the consumption and the receiver go on,
  and a session ends once its group is being closed. Nobody has to send the signal, and
  nothing is assumed of the broker.
* `RequestPath!PathFairness`: as long as a server has something to run or a caller can
  go on, one of them does. It does not say which: attempts are limited, so no more is
  needed. No connection has to break or to hold.

### What the violated runs show

* `GetNewServiceEntity` panics for a service that exists nowhere: the entry made
  at line 97 is always found at line 105, and line 117 is dead.
* `RefreshConfig` compares the content it has fetched with the cache that
  `GetConfig` has just overwritten with it: the forced refresh calls the
  handler only when a callback interferes, and then with the older content.
* A leaving subscriber of publish/v2 has its channel closed twice.
* `Publish` of publish/v1 sends its message to one subscriber again and again: the
  inner loop at line 59 has no exit, and the call neither gets to another subscriber
  nor returns.

### Weaknesses without a run

The models have them, and the properties leave room for them.

* Calls. Retries die out (`Heals`) if stale tables are no longer published, and nothing
  sees to that. When a callback overwrites the table between line 74 and the copy at
  line 75 of `config.go`, the stale namespace is published again: without the condition
  TLC finds a cycle with one pod and one callback. And two calls of different services
  may each publish the entry of the other's service as it was before: whole tables
  replace each other.
* Configuration. With an empty content there is no condition, and a publication can be
  lost; an edit in the console never has one. `GetNacosConfigDetail` ignores the
  error of `json.Unmarshal` (line 796 of `nacos-client.go`): an edit may build on nothing.
* Kafka. `Consume` is called once. After a rebalance nobody consumes the topic, a
  second topic waits for the group's lock as long as the first is consumed, and if two
  calls for one topic overlap, later callers may get the channel that stays empty
  (`Fed` and `LossBounded` except these calls). The group is the first caller's,
  whatever `isNeedDiffGroup` later ones pass, although the comment at line 101 of
  `consumer.go` reads as if each call could choose. A new group starts at the end of
  the topic and misses what was there before. `Errors()` is never read: a commit that
  fails shows only in messages that come again (`RepeatsBounded`).
* publish/v1. A subscriber that leaves makes `Publish` panic. The map has no lock: the
  model lets the process end there, and nothing is promised.
* Counts. The producer reads its broker's address at the first tick, the consumer when the
  collection starts, each with its own fallback: an edit or a failed request in between,
  and the counts go where nobody reads them. No property is about it, since the
  code ties the two reads by nothing.
* Profiler. Two handlers that overlap leave a profiler that cannot be stopped, none, or a
  nil pointer. The content `null` is a nil pointer in any case (line 92 of `holms.go`), and so
  is a null among the items of an enabled one (line 172).
  The sampling rates are set even if the profiler is disabled (lines 156-158). If the
  configuration cannot be read, the default one is published over it.
* Shutdown. If the receiver has ended and the channel is full, `ConsumeClaim` waits for
  ever and the shutdown waits for it (`Exits` excepts this state). What `ConsumeClaim`
  hands over after the receiver has ended, or shortly before the exit, is lost with the
  channel (`Released` is about the session, which is not cut off).
* Requests. A stream that the gateway opens begins a trace of its own, because
  `AnnotateContext` replaces the B3 metadata, and its handler's log lines name no trace.
  Interceptors log with a context that has no span yet. A failing call is "Hello, World!" or
  "lgxsdjkl" to the caller, an empty 200 of `handleTest`, or, for `DownloadPprofFile`, a
  nil stream that is read (lines 53-56 of `extra.pb.gw.go`). An unknown level sets the
  level to info, fails, and is tried twice more. A download of all profiles always
  fails. Given-up attempts go on. Connections are never closed.
* Downloads. All of them write one file: one that overlaps with another may send nothing, with
  status OK; `file_id` is ignored.
* Log. Plain structs are copied into something that is not settable: secrets in string
  fields are logged as they are. Secrets behind pointers are overwritten in the
  application's own value, although line 117 of `logger.go` speaks of a deep copy. Nil
  pointers, pointers to structs and filled slices or maps make `doLog` panic. In a plain
  struct, values of kinds that `DeepCopyV2` does not list become zero, and so do structs
  with private fields: a `time.Time` is logged as the year 1. In messages, maps and
  oneofs are not looked into, and repeated strings are written as they are, whatever
  the name of their field.
* Rate limiters. The token bucket compares with its capacity after it has subtracted the
  request: more than the capacity can be had at one moment (`LongRun` is about the long
  run), and at first always, because `lastRefill` starts at the zero time. The leaky
  bucket adds what has leaked (line 196 of `main.go`): an idle one fills up, and refuses
  every request once it has been idle for long enough.

## 4. Proofs

`GrpcCallProofs` (for all constants that satisfy `NamespacesAssumption` and
`GrpcCallAssumption`):

* `Typing`: `TypeOK`. The retry loop's bound is the part that is not obvious:
  `NextAttempt` only counts on while `tries + 1 # Retries`.
* `CalmCalls`: `CalmCallsAnswer`. Not inductive as it stands. `CacheInv` says that
  the head of a cached list is one of its members. `CalmInv` says how far each
  step of a calm call has come (`Progress`): a call that has changed its
  connection once holds a listed, hence reachable, namespace, or the one that
  has failed is in the cached list, so that the next resolution goes to the API.
  Three attempts are what this takes in the worst case: one for the namespace in
  the tables, one for the cached list, one for the fresh listing.
* `ListedOnly`: `OnlyListed`, from `ListedInv`, the same for every place a
  namespace can be in: callbacks' contents, copies, cached lists.

`PubSubV2Proofs` (for all clients, topics and messages): `IInv` adds to `TypeOK` and
`InOrder` that registered channels are those of clients that have joined and not
left (`Registered`), that only a client in `Send` holds a message (`Holding`), that
no message is newer than `count` (`Counted`), and that the channels `Publish` has
yet to visit have seen only older messages (`Visiting`). `Typing`,
`NeverSendsOnClosed` and `Ordered` follow, and with it every step maps to a step of
`TopicBroadcast` or to a stutter: `Implementation`.

About `PubSubV1` (for all streams and messages) it shows `V1IInv`: a channel and a stream
hold one message at most (`Singles`). `TypingV1` follows.

`NacosConsoleProofs` begins with `ConfigPublish` (for any clients and any configuration,
the empty one too): `Spent` says that a conditional call whose publication has taken
effect had read a content without its own update, which the server will not hold again
unless somebody edits it. `UpdatesKept` and `OnceOnly` follow. Then (for any
administrators, namespaces and deliveries): a step of the console is a step of
`ConfigPublish` or leaves its variables alone (`ConsoleImplements`), so the theorems
before it hold in spite of it (`ConsoleKeeps`, `ConsoleAppliesOnce`). `OwnNamespaces` needs
that every request under way is of the namespace of its client. `ReportedOnce`
(`CreatedOnce`) also counts the administrators that have been answered and have not
reported it yet (`Pending`): those and the reports are never more than one for a
service that is there, and none for one that is not (`Reported`). It is the only one
that needs `NoRequest`, that no answer stands for its absence.

`NacosClientProofs` (for any callbacks, contents and failures): `ClientTyping`, and the two
facts behind `Delivered`, both as long as no two goroutines have a content in hand at
the same time. `NeverTakenBack`: the handler never gets a content older than the one
before, since what anybody is going to handle is as new as what has been (`Newer`).
`KnownIsHandled`: if no change is missed either, then whatever the library has compared
with the server's content has been handled, unless a callback is about to (`Known`).
That callbacks get there at all is fairness, and `Delivered` stays with TLC.

`RequestPathProofs` (for any levels and any number of broken connections): `PathTyping`,
`AlwaysOneTrace` and `AlwaysLogged` need `Shape`, who calls whom and how often. `Tolerates`
counts faults of the past, of which the state shows nothing but results. The invariant
`PathIInv` therefore says that `faults` is the number of executions whose caller has lost the
connection (`Counted`), that an execution which is awaited has lost it in all attempts
but the last (`Tried`), and that an excuse (`Excused`) or a failing answer (`Failed`)
means three of them: more than `Tolerates` leaves.

The same module has `FileDownloads` (for any set of downloads): downloads that run at
the same time are `disturbed` (`Separate`), and what an undisturbed one has reached shows
in the file (`Reached`); `FilesTyping` and `AlwaysWhole` follow. And `Redaction` (for texts
of any lengths): `LogIInv` says that the value stays the original one but for what is
shared with its copy, so that it is the same to hide the secrets of a value and of one
that was logged before; `AlwaysRedacted` and `AlwaysHarmless` follow. `Masks` is the lemma
about `MaskPhone`: it keeps the length and shows two or three characters at the
beginning and two at the end.

`RateLimitersProofs` (for any rate, capacity and requests): `Balance`
relates what is in the token bucket to what was given away and what has flowed in;
`LongRunBounded` and `Smoothing` follow. `Inflow`, which adds up the products of rate
and time over two adjoining stretches, is the only fact about them the provers need.

`PandaExportProofs` is about `HolmesManager` first (for any callbacks, configurations and
changes): the inductive invariant `HolmesIInv` is `HolmesTypeOK` and, until two handlers
overlap, `Orderly`: the handler that is inside is alone and handles the latest content
(`Exclusive`), what it has already done shows in the fields (`Progress`), and when nobody
is inside, what runs is what the content asks for. `AlwaysManaged`, `AlwaysFollows`,
`AlwaysTraced` and `AlwaysSurvives` follow. Their own statements are not inductive: they
say nothing of a handler that is halfway. Then about `PandaExport` itself (for any
brokers, edits, capacity and number of messages): `Stopping` says how far the shutdown
has come and what is closed by then: once `Close` of the group has returned there is no
session, and without a session nothing is in hand. `AlwaysReleased` follows.

`KafkaConsumerProofs` (for any callers, topics, capacities, rebalances and crashes):
the inductive invariant `IInv` says that there is one session at a time and how far it
has come (`Sessions`, `Claim`), that callers get channels of their topic (`Channels`),
that what is marked and not yet committed is in a channel or was received (`Kept`),
and, until calls overlap, that a topic has one goroutine (`Single`). `Typing` and
`AlwaysFed` follow. For `AlwaysRepeatsBounded` a second invariant, `CountInv`, adds
that a channel holds messages of its one session in their order (`Ordered`), and that
the times a message was received, together with the channels that hold it
(`Holders`), number at most one more than the crashes and failed commits so far
(`Redo`), and no more than those while the message may yet be taken again
(`Counted`, by `Reached`). For `AlwaysLossBounded` a third,
`MissedBounded`, counts not only what is lost but what will be when something is committed (`Missed`): a crash before the first
commit loses nothing at once, and the messages it has dropped only when the next
session, which begins at the end of the topic, commits. `Lost` alone would grow at
`Commit`; `Missed` grows at crashes only, by what the one channel holds and the one
message in hand.

Every invariant, the action property `Scoped` and the refinement `Implements` are theorems for all
values of the constants. Only model-checked are the eight properties that hold under
fairness (`CallsReturn`, `Heals`, `Delivered`, `CacheFollows`, `PublishReturns`,
`Served`, `Exits`, `Answered`), which this prover does not handle. `Redaction` writes the
recursion of the code out to the two levels that its values have, so nothing is
claimed about values that are deeper.

## 5. Not modelled, and the plan

* Experiments: library calls tried out one after the other (`base` but for the rate
  limiters), an informer and an operator that do not compile, a test of the tracer, a
  wrapper of a JSON library.
* Functions without a caller: in `utils.go` `CopyContext`, `InComing2OutComing`,
  `IsArrayInArray`, `DeepCopy`, `GetSpanCtxFromCtx`, `MarshWithOutOmitempty`, `Sprintf` and
  `Ping`; `GetKafkaClient`, `MockSCRAMClient`, the CORS handler, the `local_request`
  functions of the gateway and the server halves of its registration.
* Generated messages, payloads, texts of errors and log lines, tags of spans, which profile
  goes into which chunk: data that no property tells apart.
* `broadcastMessages` of publish/v2 serves a queue that nothing writes to, on an object
  that nothing else uses.
* What Nacos answers beside success or failure, other members of a consumer group, a
  client of the gateway that goes away.

What is left: for the other properties under fairness, what `KnownIsHandled` is for
`Delivered`, the part of them that needs no fairness.
