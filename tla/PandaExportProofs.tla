-------------------------- MODULE PandaExportProofs --------------------------
(***************************************************************************)
(* Theorems about what a process runs beside its requests.  PandaExport:   *)
(* the shutdown does not cut a session off with a message in hand, for any *)
(* brokers, capacities, numbers of messages and edits.  HolmesManager: as  *)
(* long as handlers do not overlap, there is one profiler at most, the one *)
(* that the configuration asks for, and no crash but that of a null in it, *)
(* for any number of callbacks and of changes.                             *)
(***************************************************************************)
EXTENDS PandaExport, HolmesManager, TLAPS

-----------------------------------------------------------------------------
(* The counts *)

Asked == {"closing", "producer", "exit"}

\* How far the shutdown has come, and what it has done by then.
Stopping ==
    /\ ~signalled => pc["quit"] = "idle"
    /\ "group" \in closed => pc["quit"] \in Asked
    /\ "producer" \in closed => pc["quit"] = "exit"
    /\ "group" \in closed /\ pc["quit"] # "closing" => pc["claim"] # "session"
    /\ held # None => pc["claim"] = "session"
    /\ fate \in {"exited", "panicked"} => pc["quit"] = "exit"

ExportIInv == ExportTypeOK /\ Stopping

-----------------------------------------------------------------------------
\* What holds at first.
THEOREM ExportInitially == ExportInit => ExportIInv
  <1> SUFFICES ASSUME ExportInit PROVE ExportIInv
    OBVIOUS
  <1> USE ExportAssumption DEF ExportInit
  <1>1. ExportTypeOK
    <2>1. topic \in Seq(Messages) /\ channel \in Seq(Messages) /\ Len(channel) <= Capacity
      OBVIOUS
    <2>2. pc \in [Goroutines -> {"idle", "get", "send", "consume", "session", "receive", "holmes",
                                 "group", "closing", "producer", "exit", "ended"}]
      BY DEF Goroutines
    <2>3. signalled \in BOOLEAN
      BY Zenon
    <2>4. fate \in {"running", "fatal", "panicked", "exited"} /\ closed \in SUBSET {"producer", "group"}
      OBVIOUS
    <2>5. nacos \in {"none", "made", "signalled", "closed"}
      OBVIOUS
    <2>6. clients \in [{"producer", "group"} -> Brokers \cup {None}]
      OBVIOUS
    <2>7. configs \in [{"own", "common"} -> Urls] /\ written \in 0..MaxMessages /\ held \in Messages \cup {None}
      OBVIOUS
    <2> QED BY ONLY <2>1, <2>2, <2>3, <2>4, <2>5, <2>6, <2>7 DEF ExportTypeOK
  <1>2. Stopping
    BY DEF Stopping
  <1> QED BY <1>1, <1>2 DEF ExportIInv

LEMMA StepTypes == ExportIInv /\ ExportNext => ExportTypeOK'
  <1> SUFFICES ASSUME ExportIInv, ExportNext PROVE ExportTypeOK'
    OBVIOUS
  <1> USE ExportAssumption DEF process, kafka, broker, flow, Goto, At, End, Goroutines
  <1>0. ExportTypeOK /\ Stopping
    BY DEF ExportIInv
  <1>1. ASSUME NEW c \in {"producer", "group"}, Bootstrap(c)
        PROVE  /\ fate' \in {"running", "fatal", "panicked", "exited"}
               /\ nacos' \in {"none", "made", "signalled", "closed"}
               /\ clients' \in [{"producer", "group"} -> Brokers \cup {None}]
    <2>1. fate' = fate \/ fate' = "fatal"
      BY <1>1 DEF Bootstrap
    <2>2. clients' \in [{"producer", "group"} -> Brokers \cup {None}]
      BY <1>0, <1>1 DEF Bootstrap, ExportTypeOK
    <2> QED BY <1>0, <1>1, <2>1, <2>2 DEF Bootstrap, GetNacosClient, ExportTypeOK
  <1>2. ASSUME NEW b, NEW m \in Messages, Write(b, m)
        PROVE  written' \in 0..MaxMessages /\ topic' \in Seq(Messages)
    <2>1. written \in 0..MaxMessages /\ topic \in Seq(Messages)
      BY <1>0 DEF ExportTypeOK
    <2>2. Append(topic, m) \in Seq(Messages)
      BY <1>2, <2>1
    <2> QED BY <1>2, <2>1, <2>2 DEF Write
  <1>3. CASE Tick
    BY <1>0, <1>3 DEF Tick, ExportTypeOK
  <1>4. CASE GetKafkaProducer
    BY <1>0, <1>1, <1>4 DEF GetKafkaProducer, Bootstrap, ExportTypeOK
  <1>5. CASE SentTopicMessage
    <2>1. UNCHANGED broker \/ Write(clients["producer"], "count")
      BY <1>5 DEF SentTopicMessage
    <2>2. written' \in 0..MaxMessages /\ topic' \in Seq(Messages)
      BY <1>0, <1>2, <2>1 DEF Messages, ExportTypeOK
    <2> QED BY <1>0, <1>5, <2>2 DEF SentTopicMessage, ExportTypeOK
  <1>6. CASE GetKafkaConsumer
    BY <1>0, <1>1, <1>6 DEF GetKafkaConsumer, Bootstrap, ExportTypeOK
  <1>7. CASE Consume
    BY <1>0, <1>7 DEF Consume, ExportTypeOK
  <1>8. CASE Take
    <2>1. Head(topic) \in Messages /\ Tail(topic) \in Seq(Messages)
      BY <1>0, <1>8 DEF Take, ExportTypeOK
    <2> QED BY <1>0, <1>8, <2>1 DEF Take, ExportTypeOK
  <1>9. CASE Send
    <2>1. channel' \in Seq(Messages) /\ Len(channel') <= Capacity
      BY <1>0, <1>9 DEF Send, ExportTypeOK
    <2> QED BY <1>0, <1>9, <2>1 DEF Send, ExportTypeOK
  <1>10. CASE EndSession
    BY <1>0, <1>10 DEF EndSession, ExportTypeOK
  <1>11. CASE Receive
    <2>1. channel' \in Seq(Messages) /\ Len(channel') <= Capacity
      BY <1>0, <1>11 DEF Receive, ExportTypeOK
    <2> QED BY <1>0, <1>11, <2>1 DEF Receive, ExportTypeOK
  <1>12. CASE Shutdown
    <2>1. closed' \in SUBSET {"producer", "group"}
      BY <1>0, <1>12 DEF Shutdown, CallStopHolmes, CloseKafkaClient, GroupClosed, CloseKafkaProducer,
                         Exit, ExportTypeOK
    <2> QED BY <1>0, <1>12, <2>1 DEF Shutdown, CallStopHolmes, CloseKafkaClient, GroupClosed,
                         CloseKafkaProducer, Exit, ExportTypeOK
  <1>13. CASE Signal \/ CloseClient \/ Fatal
    BY <1>0, <1>13 DEF Signal, CloseClient, Fatal, ExportTypeOK
  <1>14. ASSUME NEW m \in Messages, OthersPush(m) PROVE ExportTypeOK'
    BY <1>0, <1>2, <1>14 DEF OthersPush, ExportTypeOK
  <1>15. ASSUME NEW which \in {"own", "common"}, NEW url \in Urls, EditConfig(which, url)
         PROVE  ExportTypeOK'
    BY <1>0, <1>15 DEF EditConfig, ExportTypeOK
  <1> QED BY <1>3, <1>4, <1>5, <1>6, <1>7, <1>8, <1>9, <1>10, <1>11, <1>12, <1>13, <1>14, <1>15
          DEF ExportNext, Consumption

LEMMA StepStopping == ExportIInv /\ ExportNext => Stopping'
  <1> SUFFICES ASSUME ExportIInv, ExportNext PROVE Stopping'
    OBVIOUS
  <1> USE DEF process, kafka, broker, flow, Goto, At, End
  <1>0. Stopping /\ fate = "running"
    BY DEF ExportIInv, ExportNext
  <1>1. /\ pc \in [Goroutines -> {"idle", "get", "send", "consume", "session", "receive", "holmes",
                                  "group", "closing", "producer", "exit", "ended"}]
        /\ closed \in SUBSET {"producer", "group"}
        /\ {"push", "claim", "collect", "quit"} = Goroutines
    BY DEF ExportIInv, ExportTypeOK, Goroutines
  <1>2. CASE Tick \/ SentTopicMessage
    BY <1>0, <1>1, <1>2 DEF Tick, SentTopicMessage, Stopping
  <1>3. CASE GetKafkaProducer \/ GetKafkaConsumer
    <2>1. fate' \in {"running", "fatal"} /\ UNCHANGED <<signalled, closed, held>>
      BY <1>0, <1>3 DEF GetKafkaProducer, GetKafkaConsumer, Bootstrap
    <2> QED BY <1>0, <1>1, <1>3, <2>1 DEF GetKafkaProducer, GetKafkaConsumer, Stopping
  <1>4. CASE Consume
    BY <1>0, <1>1, <1>4 DEF Consume, Stopping
  <1>5. CASE Take \/ Send \/ EndSession \/ Receive
    BY <1>0, <1>1, <1>5 DEF Take, Send, EndSession, Receive, Stopping
  <1>6. CASE CallStopHolmes \/ GroupClosed \/ Exit
    BY <1>0, <1>1, <1>6 DEF CallStopHolmes, GroupClosed, Exit, Stopping, Asked
  <1>7. CASE CloseKafkaClient
    <2>1. \/ closed' = closed
          \/ closed' = closed \cup {"group"} /\ pc'["quit"] = "closing"
      <3>1. CASE clients["group"] = None
        <4>1. \A x : x \in closed' <=> x \in closed
          BY <1>7, <3>1, Zenon DEF CloseKafkaClient
        <4>2. closed' = closed
          BY <4>1, Zenon
        <4> QED BY <4>2
      <3>2. CASE clients["group"] # None
        <4>1. closed' = closed \cup {"group"}
          BY <1>7, <3>2 DEF CloseKafkaClient
        <4>2. pc'["quit"] = "closing"
          BY <1>1, <1>7, <3>2 DEF CloseKafkaClient
        <4> QED BY <4>1, <4>2
      <3> QED BY <3>1, <3>2
    <2> QED BY <1>0, <1>1, <1>7, <2>1 DEF CloseKafkaClient, Stopping, Asked
  <1>8. CASE CloseKafkaProducer
    <2>1. closed' = closed \/ closed' = closed \cup {"producer"}
      BY <1>1, <1>8 DEF CloseKafkaProducer
    <2> QED BY <1>0, <1>1, <1>8, <2>1 DEF CloseKafkaProducer, Stopping, Asked
  <1>9. CASE Signal \/ CloseClient \/ Fatal
    BY <1>0, <1>1, <1>9 DEF Signal, CloseClient, Fatal, Stopping, Asked
  <1>10. ASSUME NEW m \in Messages, OthersPush(m) PROVE Stopping'
    BY <1>0, <1>10 DEF OthersPush, Stopping
  <1>11. ASSUME NEW which \in {"own", "common"}, NEW url \in Urls, EditConfig(which, url)
         PROVE  Stopping'
    BY <1>0, <1>11 DEF EditConfig, Stopping
  <1> QED BY <1>2, <1>3, <1>4, <1>5, <1>6, <1>7, <1>8, <1>9, <1>10, <1>11
          DEF ExportNext, Consumption, Shutdown

\* The invariant holds in every reachable state.
THEOREM ExportInvariance == ExportSpec => []ExportIInv
  <1>1. ExportIInv /\ [ExportNext]_exportVars => ExportIInv'
    <2>1. ExportIInv /\ UNCHANGED exportVars => ExportIInv'
      BY DEF ExportIInv, ExportTypeOK, Stopping,
             exportVars, process, kafka, broker, flow
    <2> QED BY <2>1, StepTypes, StepStopping DEF ExportIInv
  <1> QED BY <1>1, ExportInitially, PTL DEF ExportSpec

\* Clients, goroutines and what is on its way keep their types, and the channel
\* its capacity.
THEOREM ExportTyping == ExportSpec => []ExportTypeOK
  <1>1. ExportIInv => ExportTypeOK
    BY DEF ExportIInv
  <1> QED BY <1>1, ExportInvariance, PTL

\* When the shutdown has closed the group, the process does not end before the
\* session has, which hands over the message that it has taken.
THEOREM AlwaysReleased == ExportSpec => []Released
  <1>1. ExportIInv => Released
    BY DEF ExportIInv, Stopping, Released, At
  <1> QED BY <1>1, ExportInvariance, PTL

-----------------------------------------------------------------------------
(* The profiler *)

\* The handler is alone, and handles the latest content.
Exclusive(g) ==
    step[g] \in Inside =>
        /\ val[g] = handled
        /\ \A h \in Handlers : step[h] \in Inside => h = g

\* How far the handler has come.
Progress(g) ==
    /\ step[g] = "stop" => trigger # 0
    /\ step[g] = "clear" => running = {}
    /\ step[g] \in {"parse", "create"} => trigger = 0
    /\ step[g] \in {"create", "start"} => holmesConfig = val[g]
    /\ step[g] = "start" =>
        /\ trigger = Len(profilers) /\ trigger # 0
        /\ profilers[trigger] = holmesConfig
        /\ holmesConfig \in Profiles
        /\ running = {} /\ tracing

\* No handler is at work.
Resting == \A g \in Handlers : step[g] \notin Inside

Orderly ==
    /\ \A g \in Handlers : Exclusive(g) /\ Progress(g)
    /\ running \subseteq {trigger}
    /\ running = {} \/ tracing
    /\ Resting => {profilers[p] : p \in running} = {handled} \cap Profiles
    /\ panicked => handled \in {"null", "null item"}

HolmesIInv == HolmesTypeOK /\ (overlapped \/ Orderly)

-----------------------------------------------------------------------------
THEOREM HolmesInitially == HolmesInit => HolmesIInv
  <1> SUFFICES ASSUME HolmesInit PROVE HolmesTypeOK /\ Orderly
    BY DEF HolmesIInv
  <1>1. HolmesTypeOK
    <2>1. /\ trigger \in 0..Len(profilers) /\ profilers \in Seq(Profiles)
          /\ Len(profilers) <= MaxProfilers /\ running = {} /\ changes \in 0..MaxChanges
      <3>1. trigger = 0 /\ profilers = <<>> /\ running = {} /\ changes = 0
        BY DEF HolmesInit
      <3> QED BY <3>1, HolmesAssumption
    <2>2. step \in [Handlers -> Inside \cup {"idle", "get", "publish", "watch", "trace", "ended"}]
      BY DEF HolmesInit
    <2> QED BY <2>1, <2>2 DEF HolmesInit, HolmesTypeOK, Contents, Useless
  <1>2. Resting
    BY DEF HolmesInit, Resting, Inside, Starter
  <1>3. {handled} \cap Profiles = {}
    BY HolmesAssumption DEF HolmesInit, Useless
  <1> QED BY <1>1, <1>2, <1>3 DEF HolmesInit, Orderly, Exclusive, Progress, Inside, Starter

-----------------------------------------------------------------------------
(* Types *)

LEMMA Leaving ==
    ASSUME HolmesTypeOK, NEW g \in Handlers, Leave(g)
    PROVE  /\ step' \in [Handlers -> Inside \cup {"idle", "get", "publish", "watch", "trace", "ended"}]
           /\ val' \in [Handlers -> Contents]
           /\ step'[g] \notin Inside
           /\ \A h \in Handlers \ {g} : step'[h] = step[h] /\ val'[h] = val[h]
  <1>1. After(g) \in {"watch", "ended", "idle"}
    BY DEF After
  <1>2. "" \in Contents
    BY DEF Contents, Useless
  <1> QED BY <1>1, <1>2 DEF Leave, HolmesTypeOK, Inside

LEMMA HandlerTypes ==
    ASSUME HolmesTypeOK, NEW g \in Handlers, HolmesStep(g)
    PROVE  HolmesTypeOK'
  <1> DEFINE Where ==
        /\ step \in [Handlers -> Inside \cup {"idle", "get", "publish", "watch", "trace", "ended"}]
        /\ val \in [Handlers -> Contents]
  <1> USE DEF environment, ghosts, manager
  <1>a. Where'
    <2>1. ASSUME NEW next \in Inside, Go(g, next) PROVE Where'
      BY <2>1 DEF HolmesTypeOK, Go
    <2>2. Leave(g) => Where'
      BY Leaving
    <2>3. Panic => Where'
      BY DEF Panic, HolmesTypeOK
    <2>4. {"check", "stop", "clear", "parse", "create", "store", "start"} \subseteq Inside
      BY DEF Inside
    <2> HIDE DEF Where
    <2>5. stopTriggerHolmes(g) => Where'
      BY <2>1, <2>4 DEF stopTriggerHolmes
    <2>6. StopProfiler(g) => Where'
      BY <2>1, <2>3, <2>4 DEF StopProfiler
    <2>7. ClearTrigger(g) => Where'
      BY <2>1, <2>4 DEF ClearTrigger
    <2>8. Parse(g) => Where'
      BY <2>1, <2>2, <2>3, <2>4 DEF Parse
    <2>9. createTriggerHolmes(g) => Where'
      BY <2>1, <2>2, <2>3, <2>4 DEF createTriggerHolmes
    <2>10. StartProfiler(g) => Where'
      BY <2>2, <2>3 DEF StartProfiler
    <2> QED BY <2>5, <2>6, <2>7, <2>8, <2>9, <2>10 DEF HolmesStep
  <1>1. CASE stopTriggerHolmes(g)
    BY <1>1, <1>a DEF stopTriggerHolmes, HolmesTypeOK
  <1>2. CASE StopProfiler(g)
    BY <1>2, <1>a DEF Panic, StopProfiler, HolmesTypeOK
  <1>3. CASE ClearTrigger(g)
    <2>1. 0 \in 0..Len(profilers)
      BY DEF HolmesTypeOK
    <2> QED BY <1>3, <1>a, <2>1 DEF ClearTrigger, HolmesTypeOK
  <1>4. CASE Parse(g)
    <2>1. holmesConfig' \in Contents /\ panicked' \in BOOLEAN
      BY <1>4 DEF Parse, Panic, HolmesTypeOK
    <2> QED BY <1>4, <1>a, <2>1 DEF Parse, HolmesTypeOK
  <1>5. CASE createTriggerHolmes(g)
    <2>1. tracing' \in BOOLEAN /\ panicked' \in BOOLEAN
      BY <1>5 DEF createTriggerHolmes, Panic, HolmesTypeOK
    <2>2. /\ profilers' \in Seq(Profiles) /\ Len(profilers') <= MaxProfilers
          /\ Len(profilers') >= Len(profilers) /\ trigger' \in 0..Len(profilers')
      <3>1. /\ profilers \in Seq(Profiles) /\ Len(profilers) <= MaxProfilers
            /\ trigger \in 0..Len(profilers)
        BY DEF HolmesTypeOK
      <3>2. CASE UNCHANGED <<profilers, trigger>>
        BY <3>1, <3>2
      <3>3. CASE /\ newHolmes /\ Len(profilers) < MaxProfilers
                 /\ profilers' = Append(profilers, holmesConfig)
                 /\ trigger' = Len(profilers) + 1
        BY <3>1, <3>3, HolmesAssumption DEF newHolmes
      <3> QED BY <1>5, <3>2, <3>3 DEF createTriggerHolmes
    <2>3. running' \in SUBSET (1..Len(profilers'))
      <3>1. /\ profilers \in Seq(Profiles) /\ running \in SUBSET (1..Len(profilers))
            /\ running' = running
        BY <1>5 DEF createTriggerHolmes, HolmesTypeOK
      <3> QED BY <2>2, <3>1
    <2> QED BY <1>5, <1>a, <2>1, <2>2, <2>3 DEF createTriggerHolmes, HolmesTypeOK
  <1>6. CASE StartProfiler(g)
    <2>1. trigger # 0 => trigger \in 1..Len(profilers)
      BY DEF HolmesTypeOK
    <2>2. running' \in SUBSET (1..Len(profilers)) /\ panicked' \in BOOLEAN
      BY <1>6, <2>1 DEF StartProfiler, Panic, HolmesTypeOK
    <2> QED BY <1>6, <1>a, <2>2 DEF StartProfiler, HolmesTypeOK
  <1> QED BY <1>1, <1>2, <1>3, <1>4, <1>5, <1>6 DEF HolmesStep

LEMMA OtherTypes ==
    ASSUME HolmesTypeOK,
           \/ GetConfig \/ PublishDefault \/ WatchConfig \/ SetRates \/ StopHolmes
           \/ \E c \in Contents : Change(c)
           \/ \E c \in Callbacks : Notify(c)
    PROVE  HolmesTypeOK'
  <1> USE DEF Inside, Go, environment, ghosts, manager
  <1>1. Starter \in Handlers /\ Quit \in Handlers /\ Callbacks \subseteq Handlers /\ "" \in Contents
    BY DEF Handlers, Contents, Useless
  <1>2. ASSUME NEW g \in Handlers, NEW content \in Contents, Enter(g, content)
        PROVE  /\ step' \in [Handlers -> Inside \cup {"idle", "get", "publish", "watch", "trace", "ended"}]
               /\ val' \in [Handlers -> Contents]
               /\ handled' \in Contents /\ overlapped' \in BOOLEAN
    BY <1>2 DEF HolmesTypeOK, Enter
  <1>3. CASE GetConfig
    BY <1>1, <1>2, <1>3 DEF GetConfig, HolmesTypeOK
  <1>4. CASE PublishDefault
    <2>1. Default \in Contents
      BY HolmesAssumption DEF Contents
    <2> QED BY <1>1, <1>2, <1>4, <2>1 DEF PublishDefault, HolmesTypeOK
  <1>5. CASE WatchConfig
    BY <1>1, <1>5 DEF WatchConfig, HolmesTypeOK
  <1>6. CASE SetRates
    BY <1>1, <1>6 DEF SetRates, HolmesTypeOK
  <1>7. CASE StopHolmes
    BY <1>1, <1>2, <1>7 DEF StopHolmes, HolmesTypeOK
  <1>8. ASSUME NEW c \in Contents, Change(c) PROVE HolmesTypeOK'
    BY <1>8, HolmesAssumption DEF Change, HolmesTypeOK
  <1>9. ASSUME NEW c \in Callbacks, Notify(c) PROVE HolmesTypeOK'
    BY <1>1, <1>2, <1>9 DEF Notify, HolmesTypeOK
  <1> QED BY <1>3, <1>4, <1>5, <1>6, <1>7, <1>8, <1>9

-----------------------------------------------------------------------------
(* Order *)

\* A step of the handler of g, while it is the only one.
LEMMA HandlerOrder ==
    ASSUME HolmesTypeOK, Orderly, NEW g \in Handlers, HolmesStep(g)
    PROVE  Orderly'
  <1> USE DEF Inside, Go, Panic, environment, ghosts, manager
  <1>1. /\ Exclusive(g) /\ Progress(g) /\ step[g] \in Inside /\ val[g] = handled
        /\ \A h \in Handlers \ {g} : step[h] \notin Inside
    BY DEF Orderly, Exclusive, HolmesStep, stopTriggerHolmes, StopProfiler, ClearTrigger,
           Parse, createTriggerHolmes, StartProfiler
  <1>2. /\ step \in [Handlers -> Inside \cup {"idle", "get", "publish", "watch", "trace", "ended"}]
        /\ val \in [Handlers -> Contents]
        /\ trigger \in 0..Len(profilers) /\ profilers \in Seq(Profiles)
        /\ running \subseteq {trigger} /\ running \in SUBSET (1..Len(profilers))
    BY DEF HolmesTypeOK, Orderly
  <1>3. trigger = 0 => running = {}
    BY <1>2
  <1>4. \A h \in Handlers \ {g} : step'[h] = step[h] /\ val'[h] = val[h] /\ step'[h] \notin Inside
    BY <1>1, <1>2, Leaving DEF HolmesStep, stopTriggerHolmes, StopProfiler, ClearTrigger,
           Parse, createTriggerHolmes, StartProfiler
  \* It is enough to look at g.
  <1>5. ASSUME Progress(g)', step'[g] \in Inside => val'[g] = handled',
               running' \subseteq {trigger'}, running' = {} \/ tracing',
               step'[g] \notin Inside =>
                   {profilers'[p] : p \in running'} = {handled'} \cap Profiles,
               panicked' => handled' \in {"null", "null item"}
        PROVE  Orderly'
    <2>1. \A h \in Handlers : Exclusive(h)'
      BY <1>4, <1>5 DEF Exclusive
    <2>2. \A h \in Handlers : Progress(h)'
      BY <1>4, <1>5 DEF Progress
    <2>3. Resting' => step'[g] \notin Inside
      BY DEF Resting
    <2> QED BY <1>5, <2>1, <2>2, <2>3 DEF Orderly
  <1>6. CASE stopTriggerHolmes(g)
    BY <1>1, <1>2, <1>5, <1>6 DEF stopTriggerHolmes, Progress, Orderly
  <1>7. CASE StopProfiler(g)
    BY <1>1, <1>2, <1>5, <1>7 DEF StopProfiler, Progress, Orderly
  <1>8. CASE ClearTrigger(g)
    BY <1>1, <1>2, <1>5, <1>8 DEF ClearTrigger, Progress, Orderly
  <1>9. CASE Parse(g)
    <2>1. running = {} /\ trigger = 0
      BY <1>1, <1>3, <1>9 DEF Parse, Progress
    <2>2. val[g] \in {"", "unreadable"} => {handled} \cap Profiles = {}
      BY <1>1, HolmesAssumption DEF Useless
    <2>3. CASE val[g] = "null"
      BY <1>1, <1>2, <1>5, <1>9, <2>1, <2>3 DEF Parse, Progress, Orderly
    <2>4. CASE val[g] \in {"", "unreadable"}
      BY <1>1, <1>2, <1>5, <1>9, <2>1, <2>2, <2>4, Leaving DEF Parse, Progress, Orderly
    <2>5. CASE val[g] \notin {"", "unreadable", "null"}
      BY <1>1, <1>2, <1>5, <1>9, <2>1, <2>5 DEF Parse, Progress, Orderly
    <2> QED BY <2>3, <2>4, <2>5
  <1>10. CASE createTriggerHolmes(g)
    <2>1. running = {} /\ trigger = 0 /\ holmesConfig = handled
      BY <1>1, <1>3, <1>10 DEF createTriggerHolmes, Progress
    <2>2. CASE newHolmes
      <3>1. holmesConfig # "disabled"
        BY <2>2, HolmesAssumption DEF newHolmes, Useless
      <3>2. /\ Len(profilers') = Len(profilers) + 1 /\ trigger' = Len(profilers')
            /\ trigger' # 0 /\ profilers'[trigger'] = holmesConfig /\ tracing'
        <4>1. /\ profilers' = Append(profilers, holmesConfig)
              /\ trigger' = Len(profilers) + 1 /\ tracing'
          BY <1>10, <2>2, <3>1 DEF createTriggerHolmes
        <4>2. profilers \in Seq(Profiles) /\ holmesConfig \in Profiles
          BY <1>2, <2>2 DEF newHolmes
        <4> QED BY <4>1, <4>2
      <3> QED BY <1>1, <1>2, <1>5, <1>10, <2>1, <2>2, <3>2
              DEF createTriggerHolmes, newHolmes, Progress, Orderly
    <2>3. CASE ~newHolmes
      <3>1. {handled} \cap Profiles = {}
        BY <2>1, <2>3 DEF newHolmes
      <3>2. CASE holmesConfig = "null item"
        BY <1>1, <1>2, <1>5, <1>10, <2>1, <2>3, <3>2 DEF createTriggerHolmes, Progress, Orderly
      <3>3. CASE holmesConfig # "null item"
        BY <1>1, <1>2, <1>5, <1>10, <2>1, <2>3, <3>1, <3>3, Leaving
           DEF createTriggerHolmes, Progress, Orderly
      <3> QED BY <3>2, <3>3
    <2> QED BY <2>2, <2>3
  <1>11. CASE StartProfiler(g)
    <2>1. /\ trigger # 0 /\ running = {} /\ tracing
          /\ profilers[trigger] = handled /\ handled \in Profiles
      BY <1>1, <1>11 DEF StartProfiler, Progress
    <2>2. holmesConfig # "null item"
      BY <1>1, <1>11, HolmesAssumption DEF StartProfiler, Progress, Useless
    <2>3. {profilers[p] : p \in {trigger}} = {handled} \cap Profiles
      BY <2>1
    <2>4. Leave(g) /\ running' = running \cup {trigger} /\ UNCHANGED <<panicked, trigger, profilers, tracing>>
      BY <1>11, <2>1, <2>2 DEF StartProfiler
    <2>5. ~panicked' \/ handled' \in {"null", "null item"}
      BY <1>11, <2>4 DEF StartProfiler, Orderly
    <2>6. step'[g] \notin Inside /\ running' = {trigger} /\ handled' = handled
      BY <1>11, <2>1, <2>4, Leaving DEF StartProfiler
    <2>7. Progress(g)'
      BY <2>6 DEF Progress
    <2> QED BY <1>5, <2>1, <2>3, <2>4, <2>5, <2>6, <2>7
  <1> QED BY <1>6, <1>7, <1>8, <1>9, <1>10, <1>11 DEF HolmesStep

\* A handler that begins while no other is at work.
LEMMA EnterOrder ==
    ASSUME HolmesTypeOK, Orderly, NEW g \in Handlers, NEW content, Enter(g, content),
           step[g] \notin Inside, ~overlapped', UNCHANGED <<manager, panicked>>, ~panicked
    PROVE  Orderly'
  <1>1. Resting
    BY DEF Enter, Resting
  <1>2. step \in [Handlers -> Inside \cup {"idle", "get", "publish", "watch", "trace", "ended"}]
        /\ val \in [Handlers -> Contents]
    BY DEF HolmesTypeOK
  <1>3. /\ step'[g] = "check" /\ val'[g] = handled'
        /\ \A h \in Handlers \ {g} : step'[h] = step[h] /\ step'[h] \notin Inside
    BY <1>1, <1>2 DEF Enter, Resting
  <1>4. \A h \in Handlers : Exclusive(h)' /\ Progress(h)'
    BY <1>3 DEF Exclusive, Progress, Inside
  <1>5. ~Resting'
    BY <1>3 DEF Resting, Inside
  <1> QED BY <1>4, <1>5 DEF Orderly, manager

\* Nobody enters or leaves.
LEMMA OutsideOrder ==
    ASSUME HolmesTypeOK, Orderly, UNCHANGED <<trigger, holmesConfig, profilers, running, ghosts, panicked, val>>,
           tracing => tracing',
           \A g \in Handlers : step'[g] = step[g] \/ (step[g] \notin Inside /\ step'[g] \notin Inside)
    PROVE  Orderly'
  <1>1. \A g \in Handlers : Exclusive(g)'
    BY DEF Orderly, Exclusive, ghosts
  <1>2. \A g \in Handlers : Progress(g)'
    BY DEF Orderly, Progress, Inside
  <1>3. Resting' = Resting
    BY DEF Resting
  <1> QED BY <1>1, <1>2, <1>3 DEF Orderly, ghosts

LEMMA OtherOrder ==
    ASSUME HolmesTypeOK, Orderly, ~panicked, ~overlapped',
           \/ GetConfig \/ PublishDefault \/ WatchConfig \/ SetRates \/ StopHolmes
           \/ \E c \in Contents : Change(c)
           \/ \E c \in Callbacks : Notify(c)
    PROVE  Orderly'
  <1> USE DEF Go, manager, environment
  <1>1. Starter \in Handlers /\ Quit \in Handlers /\ Callbacks \subseteq Handlers
    BY DEF Handlers
  <1>2. step \in [Handlers -> Inside \cup {"idle", "get", "publish", "watch", "trace", "ended"}]
    BY DEF HolmesTypeOK
  <1>3. CASE GetConfig
    <2>1. CASE Enter(Starter, published)
      BY <1>1, <1>3, <2>1, EnterOrder DEF GetConfig, Inside
    <2>2. CASE Go(Starter, "publish") /\ UNCHANGED ghosts
      BY <1>1, <1>2, <1>3, <2>2, OutsideOrder DEF GetConfig, Inside
    <2> QED BY <1>3, <2>1, <2>2 DEF GetConfig
  <1>4. CASE PublishDefault
    <2>1. CASE Enter(Starter, Default)
      BY <1>1, <1>4, <2>1, EnterOrder DEF PublishDefault, Inside
    <2>2. CASE Go(Starter, "ended") /\ UNCHANGED ghosts
      BY <1>1, <1>2, <1>4, <2>2, OutsideOrder DEF PublishDefault, Inside
    <2> QED BY <1>4, <2>1, <2>2 DEF PublishDefault
  <1>5. CASE WatchConfig
    BY <1>1, <1>2, <1>5, OutsideOrder DEF WatchConfig, Inside
  <1>6. CASE SetRates
    BY <1>1, <1>2, <1>6, OutsideOrder DEF SetRates, Inside
  <1>7. CASE StopHolmes
    BY <1>1, <1>7, EnterOrder DEF StopHolmes, Inside
  <1>8. ASSUME NEW c \in Contents, Change(c) PROVE Orderly'
    BY <1>8, OutsideOrder DEF Change
  <1>9. ASSUME NEW c \in Callbacks, Notify(c) PROVE Orderly'
    BY <1>1, <1>9, EnterOrder DEF Notify, Inside
  <1> QED BY <1>3, <1>4, <1>5, <1>6, <1>7, <1>8, <1>9

-----------------------------------------------------------------------------
THEOREM HolmesStepwise ==
    ASSUME HolmesIInv, [HolmesNext]_holmesVars
    PROVE  HolmesIInv'
  <1>1. CASE UNCHANGED holmesVars
    <2>1. HolmesTypeOK'
      BY <1>1 DEF HolmesIInv, HolmesTypeOK, holmesVars
    <2>2. overlapped' = overlapped /\ (Orderly => Orderly')
      BY <1>1 DEF holmesVars, Orderly, Exclusive, Progress, Resting
    <2> QED BY <2>1, <2>2 DEF HolmesIInv
  <1>2. ASSUME NEW g \in Handlers, HolmesStep(g) PROVE HolmesIInv'
    <2>1. overlapped' = overlapped
      BY <1>2 DEF HolmesStep, stopTriggerHolmes, StopProfiler, ClearTrigger, Parse,
                  createTriggerHolmes, StartProfiler, ghosts
    <2> QED BY <1>2, <2>1, HandlerTypes, HandlerOrder DEF HolmesIInv
  <1>3. ASSUME \/ GetConfig \/ PublishDefault \/ WatchConfig \/ SetRates \/ StopHolmes
               \/ \E c \in Contents : Change(c)
               \/ \E c \in Callbacks : Notify(c),
               ~panicked
        PROVE  HolmesIInv'
    <2>1. overlapped => overlapped'
      BY <1>3 DEF GetConfig, PublishDefault, WatchConfig, SetRates, StopHolmes, Change,
                  Notify, Enter, ghosts
    <2> QED BY <1>3, <2>1, OtherTypes, OtherOrder DEF HolmesIInv
  <1> QED BY <1>1, <1>2, <1>3 DEF HolmesNext

THEOREM HolmesInvariance == HolmesSpec => []HolmesIInv
  BY HolmesInitially, HolmesStepwise, PTL DEF HolmesSpec

\* The fields of the manager, the handlers' steps and contents keep their types.
THEOREM HolmesTyping == HolmesSpec => []HolmesTypeOK
  <1>1. HolmesIInv => HolmesTypeOK
    BY DEF HolmesIInv
  <1> QED BY <1>1, HolmesInvariance, PTL

\* Unless handlers overlap, no profiler runs that the manager cannot stop.
THEOREM AlwaysManaged == HolmesSpec => []Managed
  <1>1. HolmesIInv => Managed
    BY DEF HolmesIInv, Orderly, Managed
  <1> QED BY <1>1, HolmesInvariance, PTL

\* Unless handlers overlap, what runs is what the latest content asks for.
THEOREM AlwaysFollows == HolmesSpec => []Follows
  <1>1. HolmesIInv => Follows
    BY DEF HolmesIInv, Orderly, Resting, Follows
  <1> QED BY <1>1, HolmesInvariance, PTL

\* Unless handlers overlap, a profiler that runs has something to sample.
THEOREM AlwaysTraced == HolmesSpec => []Traced
  <1>1. HolmesIInv => Traced
    BY DEF HolmesIInv, Orderly, Traced
  <1> QED BY <1>1, HolmesInvariance, PTL

\* Only overlapping handlers, or a null in the content, crash the process.
THEOREM AlwaysSurvives == HolmesSpec => []Survives
  <1>1. HolmesIInv => Survives
    BY DEF HolmesIInv, Orderly, Survives
  <1> QED BY <1>1, HolmesInvariance, PTL
=============================================================================
