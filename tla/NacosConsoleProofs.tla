-------------------------- MODULE NacosConsoleProofs --------------------------
(***************************************************************************)
(* Theorems about ConfigPublish, for any number of clients, whatever the   *)
(* configuration is at first and however it is edited, and about           *)
(* NacosConsole, for any administrators and namespaces beside them, and    *)
(* for any order in which requests arrive.                                 *)
(***************************************************************************)
EXTENDS NacosConsole, FiniteSetTheorems, TLAPS

-----------------------------------------------------------------------------
(* The clients that publish *)

\* A conditional call that has changed the configuration has put its own
\* update there, and had read a content without it: unless the update is
\* removed, its condition cannot hold again.
Spent ==
    \A c \in Clients :
        oldData[c] # {} /\ c \notin overwritten =>
            /\ changes[c] \in {0, 1}
            /\ changes[c] = 1 => c \in server /\ c \notin oldData[c]

IInv == TypeOK /\ Spent /\ Kept

\* A conditional publication only adds to the configuration; what any other
\* removes is recorded.
LEMMA Grows ==
    ASSUME TypeOK, NEW c \in Clients, Accept(c)
    PROVE  /\ server' = oldData[c] \cup {c}
           /\ oldData[c] # {} => server = oldData[c] /\ overwritten' = overwritten
           /\ overwritten \subseteq overwritten'
           /\ server \subseteq server' \cup overwritten'
           /\ server' \in SUBSET Updates /\ overwritten' \in SUBSET Updates
  BY DEF TypeOK, Accept, CasHolds, Content, Updates

\* How an attempt ends leaves everything but pc and attempt alone, and no
\* other call than its own.
LEMMA Ends ==
    ASSUME TypeOK, NEW c \in Clients,
           Retry(c) \/ \E how \in {"success", "refused"} : Return(c, how)
    PROVE  /\ pc' \in [Clients -> Ended \cup {"request"}]
           /\ attempt' \in [Clients -> 1..Attempts]
           /\ \A d \in Clients \ {c} : pc'[d] = pc[d]
  BY DEF TypeOK, Retry, Return, Ended, Attempts

THEOREM Initially == Init => IInv
  <1> SUFFICES ASSUME Init PROVE IInv
    OBVIOUS
  <1>1. TypeOK
    <2>1. server \in SUBSET Updates
      BY ConfigPublishAssumption DEF Init
    <2>2. pc \in [Clients -> Ended \cup {"request"}]
      BY DEF Init, Ended
    <2>3. oldData \in [Clients -> SUBSET Updates] /\ overwritten \in SUBSET Updates
      BY DEF Init
    <2>4. attempt \in [Clients -> 1..Attempts] /\ changes \in [Clients -> Nat]
      BY DEF Init, Attempts
    <2> QED BY <2>1, <2>2, <2>3, <2>4 DEF TypeOK
  <1>2. Spent /\ Kept
    BY DEF Init, Spent, Kept
  <1> QED BY <1>1, <1>2 DEF IInv

LEMMA CallStep == ASSUME IInv, NEW c \in Clients, Call(c) PROVE IInv'
  <1>1. TypeOK'
    BY DEF IInv, TypeOK, Call, Ended, Attempts
  <1>2. Spent'
    BY DEF IInv, TypeOK, Spent, Call
  <1>3. Kept'
    BY DEF IInv, TypeOK, Kept, Call
  <1> QED BY <1>1, <1>2, <1>3 DEF IInv

LEMMA AcceptStep == ASSUME IInv, NEW c \in Clients, Accept(c) PROVE IInv'
  <1>1. /\ server' = oldData[c] \cup {c}
        /\ oldData[c] # {} => server = oldData[c] /\ overwritten' = overwritten
        /\ overwritten \subseteq overwritten'
        /\ server \subseteq server' \cup overwritten'
        /\ server' \in SUBSET Updates /\ overwritten' \in SUBSET Updates
    BY Grows DEF IInv
  <1>2. /\ pc' \in [Clients -> Ended \cup {"request"}]
        /\ attempt' \in [Clients -> 1..Attempts]
        /\ \A d \in Clients \ {c} : pc'[d] = pc[d]
    BY Ends DEF IInv, Accept
  <1>3. /\ changes' = [changes EXCEPT ![c] = IF server = server' THEN @ ELSE @ + 1]
        /\ UNCHANGED oldData
    BY DEF Accept
  <1>4. TypeOK'
    BY <1>1, <1>2, <1>3 DEF IInv, TypeOK
  <1>5. Spent'
    <2> SUFFICES ASSUME NEW d \in Clients, oldData[d] # {}, d \notin overwritten'
                 PROVE  /\ changes'[d] \in {0, 1}
                        /\ changes'[d] = 1 => d \in server' /\ d \notin oldData[d]
      BY <1>3 DEF Spent
    <2>1. /\ changes[d] \in {0, 1}
          /\ changes[d] = 1 => d \in server /\ d \notin oldData[d]
      BY <1>1 DEF IInv, Spent
    <2>2. CASE d = c
      <3>1. changes[c] = 0 /\ server = oldData[c]
        BY <1>1, <2>1, <2>2
      <3>2. changes'[c] = IF server = server' THEN 0 ELSE 1
        BY <1>3, <3>1 DEF IInv, TypeOK
      <3> QED BY <1>1, <2>2, <3>1, <3>2
    <2>3. CASE d # c
      <3>1. changes'[d] = changes[d]
        BY <1>3, <2>3 DEF IInv, TypeOK
      <3> QED BY <1>1, <2>1, <3>1
    <2> QED BY <2>2, <2>3
  <1>6. Kept'
    BY <1>1, <1>2 DEF IInv, Kept
  <1> QED BY <1>4, <1>5, <1>6 DEF IInv

LEMMA FailStep ==
    ASSUME IInv, NEW c \in Clients, Refuse(c) \/ Lose(c)
    PROVE  IInv'
  <1>1. /\ pc' \in [Clients -> Ended \cup {"request"}]
        /\ attempt' \in [Clients -> 1..Attempts]
        /\ \A d \in Clients \ {c} : pc'[d] = pc[d]
    BY Ends DEF IInv, Refuse, Lose
  <1>2. pc[c] = "request" /\ pc'[c] # "success"
    BY DEF IInv, TypeOK, Refuse, Lose, Retry, Return
  <1>3. UNCHANGED <<server, oldData, changes, overwritten>>
    BY DEF Refuse, Lose
  <1> QED BY <1>1, <1>2, <1>3 DEF IInv, TypeOK, Spent, Kept

LEMMA OverwriteStep ==
    ASSUME IInv, NEW content \in SUBSET Updates, Overwrite(content)
    PROVE  IInv'
  <1>1. TypeOK'
    BY DEF IInv, TypeOK, Overwrite
  <1>2. Spent' /\ Kept'
    BY DEF IInv, TypeOK, Spent, Kept, Overwrite
  <1> QED BY <1>1, <1>2 DEF IInv

\* Every step preserves the invariant.
THEOREM Stepwise == ASSUME IInv, [Next]_vars PROVE IInv'
  <1>1. ASSUME NEW c \in Clients, Call(c) PROVE IInv'
    BY <1>1, CallStep
  <1>2. ASSUME NEW c \in Clients, Accept(c) PROVE IInv'
    BY <1>2, AcceptStep
  <1>3. ASSUME NEW c \in Clients, Refuse(c) \/ Lose(c) PROVE IInv'
    BY <1>3, FailStep
  <1>4. ASSUME NEW content \in SUBSET Updates, Overwrite(content) PROVE IInv'
    BY <1>4, OverwriteStep
  <1>5. CASE UNCHANGED vars
    BY <1>5 DEF IInv, TypeOK, Spent, Kept, vars
  <1> QED BY <1>1, <1>2, <1>3, <1>4, <1>5 DEF Next, Publisher

THEOREM Invariance == Spec => []IInv
  <1>1. Init => IInv
    BY Initially
  <1>2. IInv /\ [Next]_vars => IInv'
    BY Stepwise
  <1> QED BY <1>1, <1>2, PTL DEF Spec

\* Typing of PublishConfig: no more than two attempts are made.
THEOREM Typing == Spec => []TypeOK
  <1>1. IInv => TypeOK
    BY DEF IInv
  <1> QED BY <1>1, Invariance, PTL

\* An update that PublishConfig has reported as successful stays in the
\* configuration, unless somebody overwrites it without a condition.
THEOREM UpdatesKept == Spec => []Kept
  <1>1. IInv => Kept
    BY DEF IInv
  <1> QED BY <1>1, Invariance, PTL

\* A conditional call of PublishConfig changes the configuration at most
\* once, although it retries when it has had no reply.
THEOREM OnceOnly == Spec => []AppliedOnce
  <1>1. IInv => AppliedOnce
    <2> SUFFICES ASSUME IInv, NEW c \in Clients,
                        oldData[c] # {}, c \notin overwritten
                 PROVE  changes[c] <= 1
      BY DEF AppliedOnce
    <2>1. changes[c] = 0 \/ changes[c] = 1
      BY DEF IInv, Spent
    <2> QED BY <2>1
  <1> QED BY <1>1, Invariance, PTL

-----------------------------------------------------------------------------
(* The administrators *)

\* An operation that is called leaves the configuration alone, and sends a
\* request to the namespace of its client, if that has one.
LEMMA Calls ==
    ASSUME OthersTypeOK, NEW a \in Admins, Operate(a)
    PROVE  \/ \E k \in Kinds, n \in Namespaces, x \in Contents :
                ReqConfigApi(a, k, n, x)
           \/ Conclude(a)
           \/ Fail(a)
  <1> USE NacosConsoleAssumption
  <1>1. \A asked \in Namespaces : Scope(a, asked) \in Namespaces
    BY DEF Scope
  <1>2. ASSUME NEW k \in Kinds, NEW asked \in Namespaces, Ask(a, k, asked)
        PROVE  ReqConfigApi(a, k, Scope(a, asked), {})
    BY <1>2 DEF Ask
  <1>3. {} \in Contents
    BY DEF Contents
  <1>4. CASE SearchNamespaces(a)
    BY <1>3, <1>4 DEF SearchNamespaces, Kinds
  <1>5. ASSUME NEW asked \in Namespaces, EditNacosConfigDetail(a, asked)
        PROVE  \E n \in Namespaces, x \in Contents : ReqConfigApi(a, "edit", n, x)
    <2>1. detail[a] \cup {Base} \in Contents
      BY <1>5 DEF EditNacosConfigDetail, OthersTypeOK, Contents, Updates
    <2> QED BY <1>1, <1>5, <2>1 DEF EditNacosConfigDetail
  <1>6. ASSUME NEW asked \in Namespaces, NEW k \in Kinds, Ask(a, k, asked)
        PROVE  \E n \in Namespaces, x \in Contents : ReqConfigApi(a, k, n, x)
    BY <1>1, <1>2, <1>3, <1>6
  <1>7. "inspect" \in Kinds /\ "update" \in Kinds /\ "create" \in Kinds
        /\ "delete" \in Kinds /\ "detail" \in Kinds /\ "edit" \in Kinds
    BY DEF Kinds
  <1> QED
    BY <1>4, <1>5, <1>6, <1>7 DEF Operate,
        SearchHistoryNacosConfig, GetHistoryNacosConfigDetail, SearchListenConfig,
        SearchNacosServiceList, GetNacosServiceInfo, UpdateNacosServiceInstance,
        ListNacosServiceInstance, SearchNacosSubscriberList, CreateNacosService,
        UpdateNacosService, DeleteNacosService, GetNacosConfigDetail

LEMMA CallTyped ==
    ASSUME OthersTypeOK, NEW a \in Admins, NEW k \in Kinds, NEW n \in Namespaces,
           NEW x \in Contents, ReqConfigApi(a, k, n, x)
    PROVE  OthersTypeOK'
  <1>1. operations + 1 \in 1..MaxOperations
    BY NacosConsoleAssumption DEF ReqConfigApi, OthersTypeOK
  <1>2. [id |-> operations + 1, admin |-> a, kind |-> k, namespace |-> n,
         content |-> x] \in Requests
    BY <1>1 DEF Requests
  <1> QED BY <1>1, <1>2 DEF ReqConfigApi, OthersTypeOK

LEMMA EndTyped ==
    ASSUME OthersTypeOK, NEW a \in Admins, Conclude(a) \/ Fail(a)
    PROVE  OthersTypeOK'
  <1>1. CASE Fail(a)
    BY <1>1 DEF Fail, OthersTypeOK
  <1>2. CASE Conclude(a)
    <2>1. answer[a].held \in Contents /\ {} \in Contents
      BY <1>2 DEF Conclude, OthersTypeOK, Contents
    <2>2. Shown(a) \in Contents
      BY <2>1 DEF Shown
    <2>3. detail' \in [Admins -> {None} \cup Contents]
      BY <1>2, <2>2 DEF Conclude, OthersTypeOK
    <2>4. told' \in [Namespaces -> Int]
      <3>1. operation[a] \in Requests
        BY <1>2 DEF Conclude, OthersTypeOK
      <3>2. operation[a].namespace \in Namespaces
        BY <3>1 DEF Requests
      <3> QED BY <1>2, <3>2 DEF Conclude, OthersTypeOK
    <2> QED BY <1>2, <2>3, <2>4 DEF Conclude, OthersTypeOK
  <1> QED BY <1>1, <1>2

LEMMA DeliverTyped ==
    ASSUME ConsoleTypeOK, NEW r \in requests, Deliver(r)
    PROVE  OthersTypeOK'
  <1>1. /\ r.admin \in Admins /\ r.namespace \in Namespaces
        /\ r.content \in Contents
    BY DEF ConsoleTypeOK, OthersTypeOK, Requests
  <1>2. ContentOf(r.namespace) \in Contents
    BY <1>1 DEF ContentOf, ConsoleTypeOK, TypeOK, OthersTypeOK, Contents
  <1>3. {} \in Contents
    BY DEF Contents
  <1>4. ASSUME NEW how \in {"accepted", "refused", "unreadable"}, Answer(r, how)
        PROVE  answer' \in [Admins -> {None} \cup
                     [how : {"accepted", "refused", "unreadable"}, held : Contents]]
    <2>1. [how |-> how, held |-> IF r.kind = "detail" THEN ContentOf(r.namespace) ELSE {}]
              \in [how : {"accepted", "refused", "unreadable"}, held : Contents]
      BY <1>2, <1>3
    <2> QED BY <1>1, <1>4, <2>1 DEF Answer, ConsoleTypeOK, OthersTypeOK
  <1>5. answer' \in [Admins -> {None} \cup
                     [how : {"accepted", "refused", "unreadable"}, held : Contents]]
    BY <1>4 DEF Deliver
  <1>6. /\ elsewhere' \in [Namespaces -> Contents]
        /\ services' \in SUBSET Namespaces
        /\ told' \in [Namespaces -> Int]
    <2>1. CASE Apply(r)
      BY <1>1, <2>1 DEF Apply, ConsoleTypeOK, OthersTypeOK
    <2>2. CASE UNCHANGED <<services, told, elsewhere>>
      BY <2>2 DEF ConsoleTypeOK, OthersTypeOK
    <2> QED BY <2>1, <2>2 DEF Deliver
  <1>7. requests' \in SUBSET Requests
    BY DEF Deliver, ConsoleTypeOK, OthersTypeOK
  <1>8. deliveries' \in 0..MaxDeliveries
    BY NacosConsoleAssumption DEF Deliver, ConsoleTypeOK, OthersTypeOK
  <1>9. UNCHANGED <<operation, detail, operations>>
    BY DEF Deliver
  <1> QED BY <1>5, <1>6, <1>7, <1>8, <1>9 DEF ConsoleTypeOK, OthersTypeOK

\* To the clients that publish, an administrator is somebody who edits.
LEMMA StepImplements ==
    ASSUME ConsoleTypeOK, [ConsoleNext]_<<vars, others>>
    PROVE  [Next]_vars
  <1>1. ASSUME NEW c \in Clients, Publisher(c) PROVE [Next]_vars
    BY <1>1 DEF Next
  <1>2. ASSUME NEW a \in Admins, Operate(a) PROVE UNCHANGED vars
    <2>1. \/ \E k \in Kinds, n \in Namespaces, x \in Contents : ReqConfigApi(a, k, n, x)
          \/ Conclude(a)
          \/ Fail(a)
      BY <1>2, Calls DEF ConsoleTypeOK
    <2> QED BY <2>1 DEF ReqConfigApi, Conclude, Fail
  <1>3. ASSUME NEW r \in requests, Deliver(r) PROVE [Next]_vars
    <2>1. r.content \in SUBSET Updates
      BY DEF ConsoleTypeOK, OthersTypeOK, Requests, Contents
    <2>2. UNCHANGED vars \/ Overwrite(r.content)
      BY <1>3 DEF Deliver, Apply
    <2> QED BY <2>1, <2>2 DEF Next
  <1> QED BY <1>1, <1>2, <1>3 DEF ConsoleNext

ConsoleIInv == ConsoleTypeOK /\ IInv

THEOREM ConsoleInitially == ConsoleInit => ConsoleIInv
  <1> SUFFICES ASSUME ConsoleInit PROVE ConsoleIInv
    OBVIOUS
  <1>1. IInv
    BY Initially DEF ConsoleInit
  <1>2. OthersTypeOK
    <2>1. {Base} \in Contents
      BY DEF Contents, Updates
    <2>2. 0 \in 0..MaxOperations /\ 0 \in 0..MaxDeliveries /\ 0 \in Int
      BY NacosConsoleAssumption
    <2> QED BY <2>1, <2>2 DEF ConsoleInit, OthersTypeOK
  <1> QED BY <1>1, <1>2 DEF ConsoleIInv, ConsoleTypeOK, IInv

THEOREM ConsoleStepwise ==
    ASSUME ConsoleIInv, [ConsoleNext]_<<vars, others>>
    PROVE  ConsoleIInv'
  <1>1. IInv'
    <2>1. [Next]_vars
      BY StepImplements DEF ConsoleIInv
    <2> QED BY <2>1, Stepwise DEF ConsoleIInv
  <1>2. OthersTypeOK'
    <2>1. CASE UNCHANGED others
      BY <2>1 DEF ConsoleIInv, ConsoleTypeOK, OthersTypeOK, others
    <2>2. ASSUME NEW a \in Admins, Operate(a) PROVE OthersTypeOK'
      BY <2>2, Calls, CallTyped, EndTyped DEF ConsoleIInv, ConsoleTypeOK
    <2>3. ASSUME NEW r \in requests, Deliver(r) PROVE OthersTypeOK'
      BY <2>3, DeliverTyped DEF ConsoleIInv
    <2> QED BY <2>1, <2>2, <2>3 DEF ConsoleNext
  <1> QED BY <1>1, <1>2 DEF ConsoleIInv, ConsoleTypeOK, IInv

THEOREM ConsoleInvariance == ConsoleSpec => []ConsoleIInv
  <1>1. ConsoleInit => ConsoleIInv
    BY ConsoleInitially
  <1>2. ConsoleIInv /\ [ConsoleNext]_<<vars, others>> => ConsoleIInv'
    BY ConsoleStepwise
  <1> QED BY <1>1, <1>2, PTL DEF ConsoleSpec

\* Requests, answers and what administrators are shown are what the code of
\* NacosClient can send and get.
THEOREM ConsoleTyping == ConsoleSpec => []ConsoleTypeOK
  <1>1. ConsoleIInv => ConsoleTypeOK
    BY DEF ConsoleIInv
  <1> QED BY <1>1, ConsoleInvariance, PTL

\* Whatever administrators do, PublishConfig works as it does by itself.
THEOREM ConsoleImplements == ConsoleSpec => Spec
  <1>1. ConsoleInit => Init
    BY DEF ConsoleInit
  <1>2. ConsoleIInv /\ [ConsoleNext]_<<vars, others>> => [Next]_vars
    BY StepImplements DEF ConsoleIInv
  <1> QED BY <1>1, <1>2, ConsoleInvariance, PTL DEF ConsoleSpec, Spec

\* Whatever administrators do, an update reported as successful is lost only
\* to somebody who has overwritten it without a condition.
THEOREM ConsoleKeeps == ConsoleSpec => []Kept
  BY ConsoleImplements, UpdatesKept, PTL

\* Nor do they make a conditional publication take effect twice.
THEOREM ConsoleAppliesOnce == ConsoleSpec => []AppliedOnce
  BY ConsoleImplements, OnceOnly, PTL

-----------------------------------------------------------------------------
\* A request that may change something goes to its administrator's namespace.
Own ==
    \A r \in requests :
        r.kind # "inspect" => NamespaceId[r.admin] \in {r.namespace, Public}

LEMMA CallOwn ==
    ASSUME OthersTypeOK, Own, NEW a \in Admins, Operate(a)
    PROVE  Own'
  <1>1. ASSUME NEW k, NEW asked \in Namespaces, NEW x,
               ReqConfigApi(a, k, Scope(a, asked), x)
        PROVE  Own'
    BY <1>1 DEF ReqConfigApi, Own, Scope
  <1>2. ASSUME Conclude(a) \/ Fail(a) PROVE Own'
    BY <1>2 DEF Conclude, Fail, Own
  <1>3. ASSUME SearchNamespaces(a) PROVE Own'
    BY <1>3 DEF SearchNamespaces, ReqConfigApi, Own
  <1> QED
    BY <1>1, <1>2, <1>3 DEF Operate, Ask,
        SearchHistoryNacosConfig, GetHistoryNacosConfigDetail, SearchListenConfig,
        SearchNacosServiceList, GetNacosServiceInfo, UpdateNacosServiceInstance,
        ListNacosServiceInstance, SearchNacosSubscriberList, CreateNacosService,
        UpdateNacosService, DeleteNacosService, GetNacosConfigDetail,
        EditNacosConfigDetail

\* A request that is delivered changes its own namespace only.
LEMMA DeliverScoped ==
    ASSUME ConsoleTypeOK, Own, NEW q \in requests, Deliver(q), NEW n \in Namespaces,
           ContentOf(n)' # ContentOf(n) \/ (n \in services) # (n \in services')
    PROVE  \E r \in requests : r.namespace = n /\ NamespaceId[r.admin] \in {n, Public}
  <1>1. Apply(q)
    BY DEF Deliver, ContentOf, vars
  <1>2. q.namespace = n
    BY <1>1 DEF Apply, ContentOf, ConsoleTypeOK, OthersTypeOK, vars
  <1>3. q.kind # "inspect"
    BY <1>1 DEF Apply, ContentOf, vars
  <1> QED BY <1>2, <1>3 DEF Own

\* Administrators change only the namespace of their client, if it has one.
THEOREM OwnNamespaces == ConsoleSpec => Scoped
  <1> DEFINE ChangesOwn ==
        \A n \in Namespaces :
            /\ deliveries' # deliveries
            /\ ContentOf(n)' # ContentOf(n) \/ (n \in services) # (n \in services')
            => \E r \in requests : r.namespace = n /\ NamespaceId[r.admin] \in {n, Public}
  <1>1. ConsoleInit => Own
    BY DEF ConsoleInit, Own
  <1>2. ConsoleIInv /\ Own /\ [ConsoleNext]_<<vars, others>> => Own'
    <2> SUFFICES ASSUME ConsoleIInv, Own, [ConsoleNext]_<<vars, others>> PROVE Own'
      OBVIOUS
    <2>1. CASE UNCHANGED others
      BY <2>1 DEF Own, others
    <2>2. ASSUME NEW a \in Admins, Operate(a) PROVE Own'
      BY <2>2, CallOwn DEF ConsoleIInv, ConsoleTypeOK
    <2>3. ASSUME NEW r \in requests, Deliver(r) PROVE Own'
      BY <2>3 DEF Deliver, Own
    <2> QED BY <2>1, <2>2, <2>3 DEF ConsoleNext
  <1>3. ConsoleIInv /\ Own /\ [ConsoleNext]_<<vars, others>> => [ChangesOwn]_<<vars, others>>
    <2> SUFFICES ASSUME ConsoleIInv, Own, ConsoleNext, deliveries' # deliveries,
                        NEW n \in Namespaces,
                        ContentOf(n)' # ContentOf(n) \/ (n \in services) # (n \in services')
                 PROVE  \E r \in requests :
                            r.namespace = n /\ NamespaceId[r.admin] \in {n, Public}
      OBVIOUS
    <2>1. PICK r \in requests : Deliver(r)
      <3>1. ASSUME NEW a \in Admins, Operate(a) PROVE UNCHANGED deliveries
        BY <3>1, Calls DEF ConsoleIInv, ConsoleTypeOK, ReqConfigApi, Conclude, Fail
      <3> QED BY <3>1 DEF ConsoleNext, others
    <2> QED BY <2>1, DeliverScoped DEF ConsoleIInv
  <1> QED BY <1>1, <1>2, <1>3, ConsoleInvariance, PTL DEF ConsoleSpec, Scoped

-----------------------------------------------------------------------------
\* Administrators that have been told of a creation in the namespace, but have
\* not reported it yet.
Pending(n) == {a \in Admins :
    /\ operation[a] # None /\ operation[a].kind = "create" /\ operation[a].namespace = n
    /\ answer[a] # None /\ answer[a].how = "accepted"}

\* Reports and those that are to come, less deletions, are one at most while
\* the service is there, and none at all while it is not.
Reported ==
    /\ \A a \in Admins : operation[a] = None => answer[a] = None
    /\ \A n \in Namespaces :
        /\ IsFiniteSet(Pending(n))
        /\ told[n] + Cardinality(Pending(n)) <= IF n \in services THEN 1 ELSE 0

\* An operation that begins or fails leaves the reports alone.
LEMMA CallReported ==
    ASSUME ConsoleTypeOK, Reported, NEW a \in Admins,
           (\E k \in Kinds, n \in Namespaces, x \in Contents : ReqConfigApi(a, k, n, x)) \/ Fail(a)
    PROVE  Reported'
  <1>1. /\ answer[a] = None /\ UNCHANGED <<answer, services, told>>
        /\ \E new \in Requests \cup {None} : operation' = [operation EXCEPT ![a] = new]
    <2>1. CASE Fail(a)
      BY <2>1 DEF Fail
    <2>2. ASSUME NEW k \in Kinds, NEW n \in Namespaces, NEW x \in Contents, ReqConfigApi(a, k, n, x)
          PROVE  \E new \in Requests : operation' = [operation EXCEPT ![a] = new]
      <3>1. operations + 1 \in 1..MaxOperations
        BY <2>2, NacosConsoleAssumption DEF ReqConfigApi, ConsoleTypeOK, OthersTypeOK
      <3>2. [id |-> operations + 1, admin |-> a, kind |-> k, namespace |-> n, content |-> x] \in Requests
        BY <3>1 DEF Requests
      <3> QED BY <2>2, <3>2 DEF ReqConfigApi
    <2> QED BY <2>1, <2>2 DEF ReqConfigApi, Reported
  <1>2. \A i \in Admins : i # a => operation'[i] = operation[i]
    BY <1>1 DEF ConsoleTypeOK, OthersTypeOK
  <1>3. ASSUME NEW n PROVE Pending(n)' = Pending(n)
    BY <1>1, <1>2 DEF Pending
  <1>4. \A i \in Admins : operation'[i] = None => answer'[i] = None
    BY <1>1, <1>2 DEF Reported
  <1> QED BY <1>1, <1>3, <1>4 DEF Reported

\* What is reported has been pending.
LEMMA ConcludeReported ==
    ASSUME ConsoleTypeOK, Reported, NEW a \in Admins, Conclude(a)
    PROVE  Reported'
  <1> DEFINE r == operation[a]
             reports == r.kind = "create" /\ answer[a].how = "accepted"
  <1>1. /\ operation[a] # None /\ answer[a] # None /\ UNCHANGED services
        /\ operation' = [operation EXCEPT ![a] = None] /\ answer' = [answer EXCEPT ![a] = None]
        /\ told' = IF reports THEN [told EXCEPT ![r.namespace] = @ + 1] ELSE told
    BY DEF Conclude, Succeeds
  <1>2. /\ \A i \in Admins : operation'[i] = IF i = a THEN None ELSE operation[i]
        /\ \A i \in Admins : answer'[i] = IF i = a THEN None ELSE answer[i]
        /\ told \in [Namespaces -> Int] /\ r.namespace \in Namespaces
    BY <1>1 DEF ConsoleTypeOK, OthersTypeOK, Requests
  <1>3. ASSUME NEW n \in Namespaces
        PROVE  /\ Pending(n)' = Pending(n) \ {a}
               /\ a \in Pending(n) <=> reports /\ n = r.namespace
    BY <1>1, <1>2 DEF Pending
  <1>4. ASSUME NEW n \in Namespaces
        PROVE  /\ told'[n] = told[n] + (IF a \in Pending(n) THEN 1 ELSE 0)
               /\ IsFiniteSet(Pending(n)')
               /\ Cardinality(Pending(n)') = Cardinality(Pending(n)) - (IF a \in Pending(n) THEN 1 ELSE 0)
    <2>1. told'[n] = told[n] + (IF a \in Pending(n) THEN 1 ELSE 0)
      BY <1>1, <1>2, <1>3
    <2>2. IsFiniteSet(Pending(n)) /\ Cardinality(Pending(n)) \in Nat
      BY FS_CardinalityType DEF Reported
    <2>3. /\ IsFiniteSet(Pending(n) \ {a})
          /\ Cardinality(Pending(n) \ {a}) =
                IF a \in Pending(n) THEN Cardinality(Pending(n)) - 1 ELSE Cardinality(Pending(n))
      BY <2>2, FS_RemoveElement
    <2>4. IsFiniteSet(Pending(n)') /\ Cardinality(Pending(n)') = Cardinality(Pending(n) \ {a})
      BY <1>3, <2>3
    <2> QED BY <2>1, <2>2, <2>3, <2>4
  <1>5. ASSUME NEW n \in Namespaces
        PROVE  told'[n] + Cardinality(Pending(n)') <= IF n \in services' THEN 1 ELSE 0
    <2>1. told[n] \in Int /\ Cardinality(Pending(n)) \in Nat
      BY <1>2, FS_CardinalityType DEF Reported
    <2> QED BY <1>1, <1>4, <2>1 DEF Reported
  <1> QED BY <1>1, <1>2, <1>4, <1>5 DEF Reported

\* The answer of a request may make its administrator pending, for a creation.
LEMMA AnswerPending ==
    ASSUME ConsoleTypeOK, NEW r \in requests, NEW how, Answer(r, how), UNCHANGED operation,
           NEW n \in Namespaces
    PROVE  \/ Pending(n)' = Pending(n)
           \/ /\ Pending(n)' = Pending(n) \cup {r.admin}
              /\ r.kind = "create" /\ r.namespace = n /\ how = "accepted"
  <1>1. CASE UNCHANGED answer
    BY <1>1 DEF Pending
  <1>2. CASE operation[r.admin] = r /\ answer[r.admin] = None /\ ~UNCHANGED answer
    <2> DEFINE new == [how |-> how, held |-> IF r.kind = "detail" THEN ContentOf(r.namespace) ELSE {}]
    <2>1. answer' = [answer EXCEPT ![r.admin] = new] /\ new.how = how
      BY <1>2 DEF Answer
    <2>2. answer \in [Admins -> {None} \cup [how : {"accepted", "refused", "unreadable"}, held : Contents]]
      BY DEF ConsoleTypeOK, OthersTypeOK
    <2>3. r.admin \in Admins /\ r.admin \notin Pending(n)
      BY <1>2 DEF Pending, ConsoleTypeOK, OthersTypeOK, Requests
    <2> HIDE DEF new
    <2>4. \A i \in Admins : answer'[i] = IF i = r.admin THEN new ELSE answer[i]
      BY <2>1, <2>2
    <2>5. \A i \in Admins \ {r.admin} : i \in Pending(n)' <=> i \in Pending(n)
      BY <2>4 DEF Pending
    <2>6. r.admin \in Pending(n)' => r.kind = "create" /\ r.namespace = n /\ how = "accepted"
      BY <1>2, <2>1, <2>3, <2>4 DEF Pending
    <2>7. Pending(n)' \subseteq Admins /\ Pending(n) \subseteq Admins
      BY DEF Pending
    <2> QED BY <2>3, <2>5, <2>6, <2>7
  <1> QED BY <1>1, <1>2 DEF Answer

\* A creation is accepted where the service is not, a deletion where it is.
LEMMA DeliverReported ==
    ASSUME ConsoleTypeOK, Reported, NEW r \in requests, Deliver(r)
    PROVE  Reported'
  <1>1. PICK how \in {"accepted", "unreadable", "refused"} :
            /\ Answer(r, how) /\ UNCHANGED operation
            /\ \/ Accepts(r) /\ Apply(r)
               \/ how = "refused" /\ UNCHANGED <<services, told>>
    BY DEF Deliver
  <1>2. /\ r \in Requests /\ r.namespace \in Namespaces
        /\ told \in [Namespaces -> Int] /\ services \in SUBSET Namespaces
    BY DEF ConsoleTypeOK, OthersTypeOK, Requests
  <1>3. \A a \in Admins : operation'[a] = None => answer'[a] = None
    <2>1. CASE UNCHANGED answer
      BY <1>1, <2>1 DEF Reported
    <2>2. CASE operation[r.admin] = r /\ ~UNCHANGED answer
      BY <1>1, <1>2, <2>2, NoRequest DEF Reported, Answer, ConsoleTypeOK, OthersTypeOK
    <2> QED BY <1>1, <2>1, <2>2 DEF Answer
  <1>4. ASSUME NEW n \in Namespaces
        PROVE  /\ IsFiniteSet(Pending(n)')
               /\ told'[n] + Cardinality(Pending(n)') <= IF n \in services' THEN 1 ELSE 0
    <2>1. /\ told[n] \in Int /\ IsFiniteSet(Pending(n)) /\ Cardinality(Pending(n)) \in Nat
          /\ told[n] + Cardinality(Pending(n)) <= IF n \in services THEN 1 ELSE 0
      BY <1>2, FS_CardinalityType DEF Reported
    <2>2. CASE Pending(n)' = Pending(n)
      <3>1. CASE UNCHANGED <<services, told>>
        BY <2>1, <2>2, <3>1
      <3>2. CASE Accepts(r) /\ Apply(r)
        <4>1. CASE r.kind = "delete" /\ r.namespace = n
          <5>1. n \in services /\ n \notin services' /\ told'[n] = told[n] - 1
            BY <1>2, <3>2, <4>1 DEF Accepts, Apply
          <5> QED BY <2>1, <2>2, <5>1
        <4>2. CASE ~(r.kind = "delete" /\ r.namespace = n)
          <5>1. (n \in services => n \in services') /\ told'[n] = told[n]
            BY <1>2, <3>2, <4>2 DEF Apply
          <5> QED BY <2>1, <2>2, <5>1
        <4> QED BY <4>1, <4>2
      <3> QED BY <1>1, <3>1, <3>2
    <2>3. CASE /\ Pending(n)' = Pending(n) \cup {r.admin}
               /\ r.kind = "create" /\ r.namespace = n /\ how = "accepted"
      <3>1. n \notin services /\ n \in services' /\ told' = told
        BY <1>1, <2>3 DEF Accepts, Apply
      <3>2. /\ IsFiniteSet(Pending(n) \cup {r.admin})
            /\ Cardinality(Pending(n) \cup {r.admin}) \in {Cardinality(Pending(n)), Cardinality(Pending(n)) + 1}
        BY <2>1, FS_AddElement
      <3> QED BY <2>1, <2>3, <3>1, <3>2
    <2> QED BY <1>1, <2>2, <2>3, AnswerPending
  <1> QED BY <1>3, <1>4 DEF Reported

\* However often requests are sent and however late they arrive, whoever makes
\* them and in however many namespaces, a creation is reported once.
THEOREM ReportedOnce == ConsoleSpec => []CreatedOnce
  <1>1. ConsoleInit => Reported
    <2> SUFFICES ASSUME ConsoleInit PROVE Reported
      OBVIOUS
    <2>1. \A n \in Namespaces : Pending(n) = {} /\ told[n] = 0
      BY DEF ConsoleInit, Pending
    <2>2. \A n \in Namespaces : IsFiniteSet(Pending(n)) /\ told[n] + Cardinality(Pending(n)) = 0
      BY <2>1, FS_EmptySet
    <2> QED BY <2>2 DEF ConsoleInit, Reported
  <1>2. ConsoleIInv /\ Reported /\ [ConsoleNext]_<<vars, others>> => Reported'
    <2> SUFFICES ASSUME ConsoleIInv, Reported, [ConsoleNext]_<<vars, others>> PROVE Reported'
      OBVIOUS
    <2>1. CASE UNCHANGED others
      BY <2>1 DEF Reported, Pending, others
    <2>2. ASSUME NEW a \in Admins, Operate(a) PROVE Reported'
      BY <2>2, Calls, CallReported, ConcludeReported DEF ConsoleIInv, ConsoleTypeOK
    <2>3. ASSUME NEW r \in requests, Deliver(r) PROVE Reported'
      BY <2>3, DeliverReported DEF ConsoleIInv
    <2> QED BY <2>1, <2>2, <2>3 DEF ConsoleNext
  <1>3. ConsoleIInv /\ Reported => CreatedOnce
    <2> SUFFICES ASSUME ConsoleIInv, Reported, NEW n \in Namespaces PROVE told[n] <= 1
      BY DEF CreatedOnce
    <2>1. told[n] \in Int /\ Cardinality(Pending(n)) \in Nat
      BY FS_CardinalityType DEF ConsoleIInv, ConsoleTypeOK, OthersTypeOK, Reported
    <2> QED BY <2>1 DEF Reported
  <1> QED BY <1>1, <1>2, <1>3, ConsoleInvariance, PTL DEF ConsoleSpec
=============================================================================
