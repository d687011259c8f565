----------------------------- MODULE K8sResolver -----------------------------
(***************************************************************************)
(* component/k8s/k8s.go: choosing the namespace of a service.              *)
(*                                                                         *)
(* GetNewServiceEntity runs entirely under mapLock, so the module is a set *)
(* of operators: what one call reads from the cache entry and from the     *)
(* listing, and what it leaves in the cache.  GrpcCall makes actions of    *)
(* them.  A namespace is its rank in the lexicographic order of the names; *)
(* None is the empty string.                                               *)
(***************************************************************************)
EXTENDS Naturals

CONSTANTS Namespaces, \* namespaces a Kubernetes service may be created in
          Default,    \* rank of the namespace called "default"
          None        \* "": no namespace known

ASSUME NamespacesAssumption ==
    /\ Namespaces \subseteq Nat
    /\ Default \in Nat
    /\ None \notin Nat

\* A cached list: its members, and the first of them as it was last sorted.
NoEntry == [head |-> None, all |-> {}]

Entries == [head : Namespaces \cup {None}, all : SUBSET Namespaces]

-----------------------------------------------------------------------------
\* The comparator f: the special namespace first, then by name.
Before(m, n, special) ==
    \/ m = special
    \/ n # special /\ m < n

\* "default" is taken for granted.
BugFirstNamespace(all, special) == special

\* namespaces[0] after the sort.  all is not empty.
FirstNamespace(all, special) ==
    CHOOSE m \in all : \A n \in all \ {m} : Before(m, n, special)

\* The namespace the sort puts first, when the service has it.
HeadNamespace(all, originNamespace) ==
    IF originNamespace \in all THEN originNamespace ELSE Default

\* The cached namespace is not compared with the one that failed.
BugCacheAnswers(entry, originNamespace) == entry.all # {}

\* The cache answers when it knows the service and not the namespace that
\* has just failed.
CacheAnswers(entry, originNamespace) ==
    entry.all # {} /\ originNamespace \notin entry.all

\* What a successful listing leaves in the cache: also for a service that
\* was not found, whose entry becomes the empty list.
ListedEntry(all, originNamespace) ==
    [head |-> IF all = {} THEN None
              ELSE FirstNamespace(all, HeadNamespace(all, originNamespace)),
     all  |-> all]
=============================================================================
