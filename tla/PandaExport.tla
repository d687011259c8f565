----------------------------- MODULE PandaExport -----------------------------
(***************************************************************************)
(* The process panda-export, and what its packages start beside its main   *)
(* function: one goroutine pushes its goroutine count to Kafka, one        *)
(* consumes what all services push, one takes that from a channel, and two *)
(* wait for the signal to stop.  The clients of Nacos and Kafka are made   *)
(* by whoever needs them first.  (The profiler is in HolmesManager.)       *)
(***************************************************************************)
EXTENDS Naturals, Sequences

CONSTANTS Brokers, None,
          Capacity,                \* of the channel of a topic
          MaxMessages              \* a bound

ASSUME ExportAssumption ==
    /\ None \notin Brokers
    /\ Capacity \in Nat \ {0} /\ MaxMessages \in Nat

VARIABLES
    fate,       \* how the process has ended, or "running"
    nacos,      \* innerNacosClient
    signalled,
    pc,         \* steps of the goroutines
    clients,    \* the broker that a client of Kafka was made for
    closed,     \* clients that have been closed
    configs,    \* the service's own and the common Kafka configuration
    topic,      \* what the group's broker has for it
    written,
    held,       \* what ConsumeClaim has taken
    channel

process == <<fate, nacos, signalled>>
kafka == <<clients, closed>>
broker == <<topic, written>>
flow == <<held, channel>>
exportVars == <<process, pc, kafka, configs, broker, flow>>

Messages == {"count", "text"} \* what ParseFloat takes, and what it does not
Urls == Brokers \cup {"", "missing"}
Goroutines == {"push", "claim", "collect", "quit"}

ExportTypeOK ==
    /\ fate \in {"running", "fatal", "panicked", "exited"}
    /\ nacos \in {"none", "made", "signalled", "closed"}
    /\ signalled \in BOOLEAN
    /\ pc \in [Goroutines -> {"idle", "get", "send", "consume", "session", "receive", "holmes",
                              "group", "closing", "producer", "exit", "ended"}]
    /\ clients \in [{"producer", "group"} -> Brokers \cup {None}]
    /\ closed \in SUBSET {"producer", "group"}
    /\ configs \in [{"own", "common"} -> Urls]
    /\ topic \in Seq(Messages)
    /\ written \in 0..MaxMessages
    /\ held \in Messages \cup {None}
    /\ channel \in Seq(Messages) /\ Len(channel) <= Capacity

ExportInit ==
    /\ fate = "running"
    /\ nacos = "none"
    /\ signalled = FALSE
    /\ pc = [push |-> "idle", claim |-> "get", collect |-> "receive", quit |-> "idle"]
    /\ clients = [c \in {"producer", "group"} |-> None]
    /\ closed = {}
    /\ configs \in [{"own", "common"} -> Urls]
    /\ topic = <<>>
    /\ written = 0
    /\ held = None
    /\ channel = <<>>

-----------------------------------------------------------------------------
At(g, step) == pc[g] = step
Goto(g, step) == pc' = [pc EXCEPT ![g] = step]
End(how) == fate' = how /\ UNCHANGED <<nacos, signalled>>

\* once.Do: whoever is first makes the client, and with it a goroutine that
\* waits for a signal of its own.
GetNacosClient == nacos' = IF nacos = "none" THEN "made" ELSE nacos

\* A configuration that is there and one that cannot be fetched.
Read(which) == {configs[which], "missing"}

\* The service's own configuration is used, unless it cannot be read.
KafkaUrl(own, common) == IF own = "missing" THEN common ELSE own

\* Without an address, when a client cannot be made, the process ends.
Bootstrap(client) ==
    /\ GetNacosClient
    /\ UNCHANGED signalled
    /\ \E own \in Read("own"), common \in Read("common") :
        LET url == KafkaUrl(own, common) IN
        \/ url \in Brokers /\ clients' = [clients EXCEPT ![client] = url] /\ UNCHANGED fate
        \/ fate' = "fatal" /\ UNCHANGED clients
    /\ UNCHANGED <<closed, configs, broker, flow>>

-----------------------------------------------------------------------------
(* InitPushPrometheus *)

Tick ==
    /\ At("push", "idle")
    /\ Goto("push", IF clients["producer"] = None THEN "get" ELSE "send")
    /\ UNCHANGED <<process, kafka, configs, broker, flow>>

GetKafkaProducer == At("push", "get") /\ Goto("push", "send") /\ Bootstrap("producer")

Write(b, m) ==
    /\ written < MaxMessages
    /\ written' = written + 1
    /\ topic' = IF b = clients["group"] THEN Append(topic, m) ELSE topic

\* The first error ends the loop.
SentTopicMessage ==
    /\ At("push", "send")
    /\ \/ /\ "producer" \notin closed
          /\ Goto("push", "idle")
          /\ Write(clients["producer"], "count")
          /\ UNCHANGED process
       \/ Goto("push", "ended") /\ UNCHANGED <<process, broker>>
       \/ "producer" \in closed /\ End("panicked") /\ UNCHANGED <<pc, broker>>
    /\ UNCHANGED <<kafka, configs, flow>>

-----------------------------------------------------------------------------
(* GetTopicMessageChan and updateGoroutineCount *)

GetKafkaConsumer == At("claim", "get") /\ Goto("claim", "consume") /\ Bootstrap("group")

\* Consume, which is called once.
Consume ==
    /\ At("claim", "consume")
    /\ Goto("claim", IF "group" \in closed THEN "ended" ELSE "session")
    /\ UNCHANGED <<process, kafka, configs, broker, flow>>

Take ==
    /\ At("claim", "session") /\ held = None
    /\ "group" \notin closed
    /\ topic # <<>>
    /\ held' = Head(topic)
    /\ topic' = Tail(topic)
    /\ UNCHANGED <<process, pc, kafka, configs, written, channel>>

\* Nothing keeps to the capacity.
BugSend ==
    /\ held # None
    /\ channel' = Append(channel, held)
    /\ held' = None
    /\ UNCHANGED <<process, pc, kafka, configs, broker>>

Send ==
    /\ held # None /\ Len(channel) < Capacity
    /\ channel' = Append(channel, held)
    /\ held' = None
    /\ UNCHANGED <<process, pc, kafka, configs, broker>>

\* The session ends when the group is closed or the broker wants it to, but
\* not before ConsumeClaim has returned.
EndSession ==
    /\ At("claim", "session") /\ held = None
    /\ Goto("claim", "ended")
    /\ UNCHANGED <<process, kafka, configs, broker, flow>>

\* A message that is no number ends the loop.
Receive ==
    /\ At("collect", "receive") /\ channel # <<>>
    /\ channel' = Tail(channel)
    /\ IF Head(channel) = "text" THEN Goto("collect", "ended") ELSE UNCHANGED pc
    /\ UNCHANGED <<process, kafka, configs, broker, held>>

-----------------------------------------------------------------------------
(* The shutdown.  os.Exit, which log.Fatal calls too, waits for nobody. *)

Signal ==
    /\ ~signalled
    /\ signalled' = TRUE
    /\ nacos' = IF nacos = "made" THEN "signalled" ELSE nacos
    /\ Goto("quit", "holmes")
    /\ UNCHANGED <<fate, kafka, configs, broker, flow>>

CloseClient ==
    /\ nacos = "signalled"
    /\ nacos' = "closed"
    /\ UNCHANGED <<fate, signalled, pc, kafka, configs, broker, flow>>

CallStopHolmes ==
    /\ At("quit", "holmes")
    /\ Goto("quit", "group")
    /\ UNCHANGED <<process, kafka, configs, broker, flow>>

\* The group is not told to end its session.
BugCloseKafkaClient ==
    /\ At("quit", "group")
    /\ Goto("quit", IF clients["group"] = None THEN "producer" ELSE "closing")
    /\ UNCHANGED <<process, kafka, configs, broker, flow>>

\* The group is told so in a goroutine.
BugCloseKafkaClientGo ==
    /\ At("quit", "group")
    /\ Goto("quit", "producer")
    /\ closed' = closed \cup ({"group"} \ {c \in {"group"} : clients[c] = None})
    /\ UNCHANGED <<process, clients, configs, broker, flow>>

CloseKafkaClient ==
    /\ At("quit", "group")
    /\ Goto("quit", IF clients["group"] = None THEN "producer" ELSE "closing")
    /\ closed' = closed \cup {c \in {"group"} : clients[c] # None}
    /\ UNCHANGED <<process, clients, configs, broker, flow>>

\* Close waits for the session.
GroupClosed ==
    /\ At("quit", "closing") /\ ~At("claim", "session")
    /\ Goto("quit", "producer")
    /\ UNCHANGED <<process, kafka, configs, broker, flow>>

CloseKafkaProducer ==
    /\ At("quit", "producer")
    /\ Goto("quit", "exit")
    /\ closed' = closed \cup {c \in {"producer"} : clients[c] # None}
    /\ UNCHANGED <<process, clients, configs, broker, flow>>

\* ClosePrometheus does nothing: the context was not made to be cancelled.
Exit ==
    /\ At("quit", "exit")
    /\ End("exited")
    /\ UNCHANGED <<pc, kafka, configs, broker, flow>>

\* There is no port, or no configuration of Nacos.
Fatal ==
    /\ End("fatal")
    /\ UNCHANGED <<pc, kafka, configs, broker, flow>>

-----------------------------------------------------------------------------
(* The others *)

\* Somebody edits a configuration in the console of Nacos, perhaps between the
\* requests of the two clients.
EditConfig(which, url) ==
    /\ configs' = [configs EXCEPT ![which] = url]
    /\ UNCHANGED <<process, pc, kafka, broker, flow>>

OthersPush(m) ==
    /\ clients["group"] # None
    /\ Write(clients["group"], m)
    /\ UNCHANGED <<process, pc, kafka, configs, flow>>

Shutdown == CallStopHolmes \/ CloseKafkaClient \/ GroupClosed \/ CloseKafkaProducer \/ Exit
Consumption == GetKafkaConsumer \/ Consume \/ Send

ExportNext ==
    /\ fate = "running"
    /\ \/ Tick \/ GetKafkaProducer \/ SentTopicMessage
       \/ Consumption \/ Take \/ EndSession \/ Receive
       \/ Shutdown \/ Signal \/ CloseClient \/ Fatal
       \/ \E m \in Messages : OthersPush(m)
       \/ \E which \in {"own", "common"}, url \in Urls : EditConfig(which, url)

ExportFairness ==
    /\ WF_exportVars(Shutdown /\ fate = "running")
    /\ WF_exportVars(Consumption /\ fate = "running")
    /\ WF_exportVars(EndSession /\ "group" \in closed /\ fate = "running")
    /\ WF_exportVars(Receive /\ fate = "running")

ExportSpec == ExportInit /\ [][ExportNext]_exportVars

-----------------------------------------------------------------------------
\* Once the shutdown has closed the group, the process does not end before the
\* session has: ConsumeClaim is not cut off with a message in hand, whether the
\* end is an exit or a panic of the pushing loop.  (What it has handed over may
\* still be in the channel, unread.)
Released ==
    fate \in {"exited", "panicked"} /\ "group" \in closed =>
        held = None /\ ~At("claim", "session")

\* The shutdown comes to its end, unless the channel has no receiver any more
\* because of a message that is no number.
Exits == signalled ~> fate # "running" \/ At("collect", "ended")
=============================================================================
