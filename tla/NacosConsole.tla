----------------------------- MODULE NacosConsole -----------------------------
(***************************************************************************)
(* The operations of NacosClient that go to the REST interface of the      *)
(* Nacos console, beside clients that publish with PublishConfig.  Each    *)
(* sends one request in the client's own namespace, and interprets the     *)
(* answer.  A request may arrive late, when its caller has given up, more  *)
(* than once, because the library sends it again, or never.                *)
(*                                                                         *)
(* Each namespace has one configuration, that of Home being the one of     *)
(* ConfigPublish, and the service or not.  An administrator only adds to   *)
(* what GetNacosConfigDetail has shown.                                    *)
(***************************************************************************)
EXTENDS ConfigPublish, Integers

CONSTANTS Admins,
          Namespaces, Home, Public, \* Public is the one with the empty name
          NamespaceId,              \* of the client of an administrator
          None,
          MaxOperations, MaxDeliveries \* bounds

ASSUME NacosConsoleAssumption ==
    /\ Home \in Namespaces /\ Public \in Namespaces \ {Home}
    /\ NamespaceId \in [Admins -> Namespaces]
    /\ MaxOperations \in Nat /\ MaxDeliveries \in Nat

VARIABLES
    elsewhere,  \* content of the configuration of the other namespaces
    services,   \* namespaces that have the service
    requests,   \* under way
    operation,  \* per administrator, the request of its operation or None
    answer,     \* per administrator, the answer to it or None
    detail,     \* per administrator, what the last detail has shown, or None
    told,       \* ghost: creations reported, less deletions, per namespace
    operations, deliveries

others == <<elsewhere, services, requests, operation, answer, detail, told,
            operations, deliveries>>

Contents == SUBSET Updates
\* "inspect" stands for every operation that only looks at what is there,
\* "update" for changes of a service that exists.
Kinds == {"inspect", "detail", "create", "update", "delete", "edit"}

Requests == [id : 1..MaxOperations, admin : Admins, kind : Kinds,
             namespace : Namespaces, content : Contents]

ASSUME NoRequest == None \notin Requests

OthersTypeOK ==
    /\ elsewhere \in [Namespaces -> Contents]
    /\ services \in SUBSET Namespaces
    /\ requests \in SUBSET Requests
    /\ operation \in [Admins -> Requests \cup {None}]
    /\ answer \in [Admins -> {None} \cup
                     [how : {"accepted", "refused", "unreadable"}, held : Contents]]
    /\ detail \in [Admins -> {None} \cup Contents]
    /\ told \in [Namespaces -> Int]
    /\ operations \in 0..MaxOperations
    /\ deliveries \in 0..MaxDeliveries

ConsoleTypeOK == TypeOK /\ OthersTypeOK

ConsoleInit ==
    /\ Init
    /\ elsewhere = [n \in Namespaces |-> {Base}]
    /\ services = {}
    /\ requests = {}
    /\ operation = [a \in Admins |-> None]
    /\ answer = [a \in Admins |-> None]
    /\ detail = [a \in Admins |-> None]
    /\ told = [n \in Namespaces |-> 0]
    /\ operations = 0
    /\ deliveries = 0

-----------------------------------------------------------------------------
\* The namespace is left to the parameters of the caller.
BugScope(a, asked) == asked

\* The client's namespace replaces what the caller asks for, if it has one.
Scope(a, asked) == IF NamespaceId[a] = Public THEN asked ELSE NamespaceId[a]

ReqConfigApi(a, kind, namespace, content) ==
    LET request == [id |-> operations + 1, admin |-> a, kind |-> kind,
                    namespace |-> namespace, content |-> content]
    IN /\ operation[a] = None
       /\ operations < MaxOperations
       /\ operations' = operations + 1
       /\ operation' = [operation EXCEPT ![a] = request]
       /\ requests' = requests \cup {request}
       /\ UNCHANGED <<vars, elsewhere, services, answer, detail, told, deliveries>>

Ask(a, kind, asked) == ReqConfigApi(a, kind, Scope(a, asked), {})

SearchHistoryNacosConfig(a, asked) == Ask(a, "inspect", asked)
\* Without a nid nothing is asked, and nothing changes.
GetHistoryNacosConfigDetail(a, asked) == Ask(a, "inspect", asked)
SearchListenConfig(a, asked) == Ask(a, "inspect", asked)
SearchNamespaces(a) == ReqConfigApi(a, "inspect", Public, {})
SearchNacosServiceList(a, asked) == Ask(a, "inspect", asked)
GetNacosServiceInfo(a, asked) == Ask(a, "inspect", asked)
UpdateNacosServiceInstance(a, asked) == Ask(a, "update", asked)
ListNacosServiceInstance(a, asked) == Ask(a, "inspect", asked)
SearchNacosSubscriberList(a, asked) == Ask(a, "inspect", asked)
CreateNacosService(a, asked) == Ask(a, "create", asked)
UpdateNacosService(a, asked) == Ask(a, "update", asked)
DeleteNacosService(a, asked) == Ask(a, "delete", asked)
GetNacosConfigDetail(a, asked) == Ask(a, "detail", asked)

EditNacosConfigDetail(a, asked) ==
    /\ detail[a] # None
    /\ ReqConfigApi(a, "edit", Scope(a, asked), detail[a] \cup {Base})

-----------------------------------------------------------------------------
(* The server *)

ContentOf(n) == IF n = Home THEN server ELSE elsewhere[n]

Accepts(r) ==
    CASE r.kind = "create" -> r.namespace \notin services
      [] r.kind \in {"update", "delete"} -> r.namespace \in services
      [] OTHER -> TRUE

Apply(r) ==
    /\ services' = CASE r.kind = "create" -> services \cup {r.namespace}
                     [] r.kind = "delete" -> services \ {r.namespace}
                     [] OTHER -> services
    /\ told' = IF r.kind = "delete" THEN [told EXCEPT ![r.namespace] = @ - 1] ELSE told
    /\ IF r.kind = "edit" /\ r.namespace = Home
       THEN Overwrite(r.content)
       ELSE UNCHANGED vars
    /\ elsewhere' = IF r.kind = "edit" /\ r.namespace # Home
                    THEN [elsewhere EXCEPT ![r.namespace] = r.content]
                    ELSE elsewhere

\* The answer reaches the operation that waits for it, or gets lost.
Answer(r, how) ==
    \/ /\ operation[r.admin] = r
       /\ answer[r.admin] = None
       /\ answer' = [answer EXCEPT ![r.admin] =
                        [how |-> how,
                         held |-> IF r.kind = "detail" THEN ContentOf(r.namespace) ELSE {}]]
    \/ UNCHANGED answer

\* The request stays under way if the library sends it once more.
Deliver(r) ==
    /\ deliveries < MaxDeliveries
    /\ deliveries' = deliveries + 1
    /\ requests' \in {requests, requests \ {r}}
    /\ \/ /\ Accepts(r)
          /\ Apply(r)
          /\ Answer(r, "accepted") \/ Answer(r, "unreadable")
       \/ /\ ~Accepts(r)
          /\ Answer(r, "refused")
          /\ UNCHANGED <<vars, services, told, elsewhere>>
    /\ UNCHANGED <<operation, detail, operations>>

-----------------------------------------------------------------------------
\* What the answer says is not looked at.
BugSucceeds(kind, how) == TRUE

\* An answer has to say "ok" or "true", or has to be readable: only
\* GetNacosConfigDetail does not mind.
Succeeds(kind, how) == how = "accepted" \/ (kind = "detail" /\ how = "unreadable")

Shown(a) == IF answer[a].how = "unreadable" THEN {} ELSE answer[a].held

Conclude(a) ==
    LET kind == operation[a].kind
        ok == Succeeds(kind, answer[a].how)
    IN /\ operation[a] # None /\ answer[a] # None
       /\ operation' = [operation EXCEPT ![a] = None]
       /\ detail' = IF kind = "detail" /\ ok
                    THEN [detail EXCEPT ![a] = Shown(a)]
                    ELSE detail
       /\ told' = IF kind = "create" /\ ok
                  THEN [told EXCEPT ![operation[a].namespace] = @ + 1] ELSE told
       /\ answer' = [answer EXCEPT ![a] = None]
       /\ UNCHANGED <<vars, elsewhere, services, requests, operations, deliveries>>

\* ReqConfigApi returns an error.
Fail(a) ==
    /\ operation[a] # None /\ answer[a] = None
    /\ operation' = [operation EXCEPT ![a] = None]
    /\ UNCHANGED <<vars, elsewhere, services, requests, answer, detail, told,
                   operations, deliveries>>

Operate(a) ==
    \/ \E asked \in Namespaces :
        \/ SearchHistoryNacosConfig(a, asked) \/ GetHistoryNacosConfigDetail(a, asked)
        \/ SearchListenConfig(a, asked) \/ SearchNacosServiceList(a, asked)
        \/ GetNacosServiceInfo(a, asked) \/ UpdateNacosServiceInstance(a, asked)
        \/ ListNacosServiceInstance(a, asked) \/ SearchNacosSubscriberList(a, asked)
        \/ CreateNacosService(a, asked) \/ UpdateNacosService(a, asked)
        \/ DeleteNacosService(a, asked) \/ GetNacosConfigDetail(a, asked)
        \/ EditNacosConfigDetail(a, asked)
    \/ SearchNamespaces(a)
    \/ Conclude(a) \/ Fail(a)

ConsoleNext ==
    \/ (\E c \in Clients : Publisher(c)) /\ UNCHANGED others
    \/ \E a \in Admins : Operate(a)
    \/ \E r \in requests : Deliver(r)

ConsoleSpec == ConsoleInit /\ [][ConsoleNext]_<<vars, others>>

-----------------------------------------------------------------------------
\* Only administrators of a namespace change it, and those whose client has
\* none, in whatever order their requests arrive.
Scoped == [][
    \A n \in Namespaces :
        /\ deliveries' # deliveries
        /\ ContentOf(n)' # ContentOf(n) \/ (n \in services) # (n \in services')
        => \E r \in requests : r.namespace = n /\ NamespaceId[r.admin] \in {n, Public}
    ]_<<vars, others>>

\* However often requests are sent and however late they arrive, a service
\* is reported as created once, unless it has been deleted in between.
CreatedOnce == \A n \in Namespaces : told[n] <= 1
=============================================================================
