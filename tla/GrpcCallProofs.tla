--------------------------- MODULE GrpcCallProofs ---------------------------
(***************************************************************************)
(* Proofs about GrpcCall, for any pods, goroutines, services, namespaces   *)
(* and placements, and any number of disruptions.                          *)
(***************************************************************************)
EXTENDS GrpcCall, FiniteSetTheorems, WellFoundedInduction, TLAPS

-----------------------------------------------------------------------------
(***************************************************************************)
(* The inductive invariant behind CalmCallsAnswer.                         *)
(***************************************************************************)
\* The first of a cached list is one of its members.
CacheInv == \A p \in Pods, s \in Services :
    LET entry == service2NamespacesMp[p][s] IN entry.all # {} => entry.head \in entry.all

\* The caller has found a namespace, and carries it to the retry loop.
Redialing(c) == pc[c] \in {"store", "snapshot", "publish"} /\ isConnChange[c]

\* The next request of the call is the one numbered i, counting from 0.
NextRequestIs(c, i) ==
    \/ pc[c] = "invoke" /\ tries[c] = i
    \/ Redialing(c) /\ tries[c] + 1 = i

\* The cache will not answer with a stale namespace once cc has failed.
CacheSpent(c) == cc[c] \in Entry(c).all \/ Entry(c).all = listed[svc[c]]

\* While c is calm: its second request goes to a reachable namespace or uses
\* up the stale cache, so that its third goes to a reachable one.
Progress(c) ==
    /\ listed[svc[c]] # {} /\ ready[svc[c]] = listed[svc[c]]
    /\ pc[c] \notin Failed
    /\ pc[c] \in {"dial", "recheck", "cache"} => ~isConnChange[c]
    /\ ~isConnChange[c] => tries[c] = 0
    /\ pc[c] = "resolve" \/ Redialing(c) => tries[c] < 2
    /\ NextRequestIs(c, 1) => Reachable(c) \/ CacheSpent(c)
    /\ pc[c] = "resolve" /\ tries[c] = 1 => CacheSpent(c)
    /\ NextRequestIs(c, 2) => Reachable(c)

CalmInv == \A c \in Callers : calm[c] => Progress(c)

IInv == TypeOK /\ CacheInv /\ CalmInv

-----------------------------------------------------------------------------
(***************************************************************************)
(* The resolver.                                                           *)
(***************************************************************************)
\* A nonempty set of namespaces has a first one by name.
LEMMA LeastNamespace ==
    ASSUME NEW all \in SUBSET Namespaces, all # {}
    PROVE  \E m \in all : \A n \in all \ {m} : m < n
<1> DEFINE R == {ss \in Nat \X Nat : ss[1] < ss[2]}
<1>1. all \subseteq Nat
  BY NamespacesAssumption
<1>2. IsWellFoundedOn(R, Nat)
  BY NatLessThanWellFounded DEF OpToRel
<1>3. PICK m \in all : \A n \in all : <<n, m>> \notin R
  <2> HIDE DEF R
  <2>. QED
    BY <1>1, <1>2, WFMin
<1>4. ASSUME NEW n \in all \ {m} PROVE m < n
  <2>1. m \in Nat /\ n \in Nat /\ n # m
    BY <1>1
  <2>2. n < m => <<n, m>> \in R
    BY <2>1
  <2>3. ~(n < m)
    BY <1>3, <2>2
  <2>. QED
    BY <2>1, <2>3
<1>. QED
  BY <1>4

\* The head of a sorted list is in the list, wherever the special name sorts.
LEMMA FirstNamespaceListed ==
    ASSUME NEW all \in SUBSET Namespaces, all # {}, NEW special
    PROVE  FirstNamespace(all, special) \in all
<1>1. \E m \in all : \A n \in all \ {m} : Before(m, n, special)
  <2>1. CASE special \in all
    BY <2>1 DEF Before
  <2>2. CASE special \notin all
    BY <2>2, LeastNamespace DEF Before
  <2>. QED
    BY <2>1, <2>2
<1>. QED
  BY <1>1 DEF FirstNamespace

\* What GetNewServiceEntity caches is the list it was given, led by a member.
LEMMA ListedEntryHead ==
    ASSUME NEW all \in SUBSET Namespaces, NEW originNamespace
    PROVE  /\ ListedEntry(all, originNamespace) \in Entries
           /\ ListedEntry(all, originNamespace).all = all
           /\ all # {} => ListedEntry(all, originNamespace).head \in all
<1>1. CASE all = {}
  BY <1>1 DEF ListedEntry, Entries
<1>2. CASE all # {}
  <2>1. FirstNamespace(all, HeadNamespace(all, originNamespace)) \in all
    BY <1>2, FirstNamespaceListed
  <2>. QED
    BY <1>2, <2>1 DEF ListedEntry, Entries
<1>. QED
  BY <1>1, <1>2

-----------------------------------------------------------------------------
(***************************************************************************)
(* Typing.                                                                 *)
(***************************************************************************)
\* The initial tables and goroutines have their types.
LEMMA TypingInit == Init => TypeOK
BY GrpcCallAssumption DEF Init, TypeOK, LoopOK, Entries, NoEntry, Maybe, Unknown, Done, Retries

\* A call that ends, or goes round the loop, is well typed.
LEMMA DisruptType ==
    ASSUME TypeOK, Disrupt \/ UNCHANGED <<disruptions, calm>>
    PROVE  disruptions' \in 0..MaxDisruptions /\ calm' \in [Callers -> BOOLEAN]
<1>1. disruptions \in 0..MaxDisruptions /\ calm \in [Callers -> BOOLEAN]
  BY DEF TypeOK
<1>2. CASE Disrupt
  BY <1>1, <1>2, GrpcCallAssumption DEF Disrupt
<1>3. CASE UNCHANGED <<disruptions, calm>>
  BY <1>1, <1>3
<1>. QED
  BY <1>2, <1>3

\* A call that returns leaves its local variables in their types.
LEMMA ReturnType ==
    ASSUME TypeOK, NEW c \in Callers, NEW how \in Done, Return(c, how)
    PROVE  LoopOK'
BY DEF TypeOK, LoopOK, Return, Maybe, Done, Failed, Retries

\* The loop goes round with an attempt that is within its bound, or gives up.
LEMMA NextAttemptType ==
    ASSUME TypeOK, NEW c \in Callers, NextAttempt(c)
    PROVE  LoopOK'
<1>1. CASE tries[c] + 1 = Retries
  BY <1>1, ReturnType DEF NextAttempt, Done, Failed
<1>2. CASE tries[c] + 1 # Retries
  <2>1. tries[c] + 1 \in 0..(Retries - 1)
    <3>1. tries[c] \in 0..2
      BY DEF TypeOK, LoopOK, Retries
    <3>. QED
      BY <1>2, <3>1 DEF Retries
  <2>2. /\ tries' = [tries EXCEPT ![c] = tries[c] + 1]
        /\ pc' = [pc EXCEPT ![c] = "invoke"]
        /\ UNCHANGED <<cc, isConnChange>>
    BY <1>2 DEF NextAttempt
  <2>. QED
    BY <2>1, <2>2 DEF TypeOK, LoopOK
<1>. QED
  BY <1>1, <1>2

\* Every step of callers, callbacks and the environment keeps the types.
LEMMA TypingNext == TypeOK /\ [Next]_vars => TypeOK'
<1> SUFFICES ASSUME TypeOK, [Next]_vars PROVE TypeOK'
  OBVIOUS
<1> USE GrpcCallAssumption
    DEF TypeOK, LoopOK, Done, Failed, Maybe, Unknown, Retries,
        vars, cluster, tables, nacos, callbacks, call
<1>1. ASSUME NEW s \in Services, MoveService(s) PROVE TypeOK'
  BY <1>1 DEF MoveService, Disrupt
<1>2. ASSUME NEW p \in Pods, PodRestart(p) PROVE TypeOK'
  <2>1. /\ hpc' \in [Handlers -> {"idle", "diff", "delete", "store"}]
        /\ hnew' \in [Handlers -> [Services -> Maybe]]
        /\ hdiff' \in [Handlers -> SUBSET Services]
    <3>1. /\ OnPod(p, hpc, "idle") \in [Handlers -> {"idle", "diff", "delete", "store"}]
          /\ OnPod(p, hnew, Unknown) \in [Handlers -> [Services -> Maybe]]
          /\ OnPod(p, hdiff, {}) \in [Handlers -> SUBSET Services]
      BY DEF OnPod
    <3>. QED
      BY <1>2, <3>1 DEF PodRestart
  <2>2. LoopOK' /\ snap' \in [Callers -> [Services -> Maybe]]
    <3>1. /\ OnPod(p, pc, "idle") \in [Callers -> Done \cup
                {"dial", "resolve", "store", "snapshot", "publish",
                 "recheck", "cache", "invoke", "remember"}]
          /\ OnPod(p, cc, None) \in [Callers -> Maybe]
          /\ OnPod(p, tries, 0) \in [Callers -> 0..(Retries - 1)]
          /\ OnPod(p, snap, Unknown) \in [Callers -> [Services -> Maybe]]
      BY DEF OnPod
    <3>2. OnPod(p, isConnChange, FALSE) \in [Callers -> BOOLEAN]
      BY DEF OnPod
    <3>. QED
      BY <1>2, <3>1, <3>2 DEF PodRestart
  <2>3. /\ service2NamespacesMp' \in [Pods -> [Services -> Entries]]
        /\ service2NamespaceMap' \in [Pods -> [Services -> Maybe]]
        /\ serviceName2ConnMap' \in [Pods -> [Services -> Maybe]]
        /\ seen' \in [Pods -> [Services -> Maybe]]
    BY <1>2 DEF PodRestart, NoEntry, Entries
  <2>4. disruptions' \in 0..MaxDisruptions /\ calm' \in [Callers -> BOOLEAN]
    BY <1>2, DisruptType DEF PodRestart
  <2> HIDE DEF LoopOK, Done, Maybe, Unknown
  <2>. QED
    BY <1>2, <2>1, <2>2, <2>3, <2>4 DEF PodRestart
<1>3. ASSUME NEW c \in Callers, NEW s \in Services, GetConn(c, s) PROVE TypeOK'
  BY <1>3 DEF GetConn
<1>4. ASSUME NEW c \in Callers, CallStep(c) PROVE TypeOK'
  <2>1. CASE DialWrapper(c)
    BY <2>1 DEF DialWrapper
  <2>2. CASE Recheck(c)
    BY <2>2 DEF Recheck
  <2>3. CASE CacheConn(c)
    BY <2>3 DEF CacheConn, SetServiceName2ConnMap
  <2>4. CASE ResolveFromCache(c)
    <3>1. Entry(c) \in Entries
      BY DEF Entry
    <3>. QED
      BY <2>4, <3>1 DEF ResolveFromCache, Entries
  <2>5. CASE ResolveFromList(c)
    <3> DEFINE entry == ListedEntry(listed[svc[c]], cc[c])
    <3>1. entry \in Entries
      <4>1. listed[svc[c]] \in SUBSET Namespaces
        OBVIOUS
      <4>. QED
        BY <4>1, ListedEntryHead
    <3> HIDE DEF entry
    <3>2. service2NamespacesMp' \in [Pods -> [Services -> Entries]]
      BY <2>5, <3>1 DEF ResolveFromList, entry
    <3>3. LoopOK'
      <4>1. CASE entry.all = {}
        BY <2>5, <4>1, ReturnType DEF ResolveFromList, entry
      <4>2. CASE entry.all # {}
        BY <2>5, <4>2, <3>1 DEF ResolveFromList, entry, Entries
      <4>. QED
        BY <4>1, <4>2
    <3> HIDE DEF LoopOK
    <3>. QED
      BY <2>5, <3>2, <3>3 DEF ResolveFromList
  <2>6. CASE ResolveFails(c)
    BY <2>6 DEF ResolveFails, Disrupt, Return
  <2>7. CASE StoreNamespace(c)
    BY <2>7 DEF StoreNamespace
  <2>8. CASE SnapshotNamespaces(c)
    BY <2>8 DEF SnapshotNamespaces
  <2>9. CASE PublishNamespaces(c)
    <3>1. LoopOK'
      <4>1. CASE isConnChange[c]
        BY <2>9, <4>1, NextAttemptType DEF PublishNamespaces
      <4>2. CASE ~isConnChange[c]
        BY <2>9, <4>2 DEF PublishNamespaces
      <4>. QED
        BY <4>1, <4>2
    <3> HIDE DEF LoopOK
    <3>. QED
      BY <2>9, <3>1 DEF PublishNamespaces
  <2>10. CASE Answered(c)
    <3>1. LoopOK' /\ calm' \in [Callers -> BOOLEAN]
      <4>1. CASE isConnChange[c]
        BY <2>10, <4>1 DEF Answered
      <4>2. CASE ~isConnChange[c]
        BY <2>10, <4>2, ReturnType DEF Answered
      <4>. QED
        BY <4>1, <4>2
    <3> HIDE DEF LoopOK
    <3>. QED
      BY <2>10, <3>1 DEF Answered
  <2>11. CASE Remember(c)
    BY <2>11 DEF Remember, SetServiceName2ConnMap, Return
  <2>12. CASE Unavailable(c)
    <3>1. disruptions' \in 0..MaxDisruptions /\ calm' \in [Callers -> BOOLEAN]
      BY <2>12, DisruptType DEF Unavailable
    <3>2. LoopOK'
      BY <2>12 DEF Unavailable
    <3> HIDE DEF LoopOK
    <3>. QED
      BY <2>12, <3>1, <3>2 DEF Unavailable
  <2>13. CASE OtherError(c)
    <3>1. disruptions' \in 0..MaxDisruptions /\ calm' \in [Callers -> BOOLEAN]
      BY <2>13, DisruptType DEF OtherError
    <3>2. LoopOK'
      BY <2>13, NextAttemptType DEF OtherError
    <3> HIDE DEF LoopOK
    <3>. QED
      BY <2>13, <3>1, <3>2 DEF OtherError
  <2>. QED
    BY <1>4, <2>1, <2>2, <2>3, <2>4, <2>5, <2>6, <2>7, <2>8, <2>9, <2>10,
       <2>11, <2>12, <2>13 DEF CallStep
<1>5. ASSUME NEW h \in Handlers, Callback(h) PROVE TypeOK'
  <2>1. CASE Notify(h)
    BY <2>1 DEF Notify
  <2>2. CASE HandlerDiff(h)
    BY <2>2 DEF HandlerDiff
  <2>3. CASE DeleteByServiceKeys(h)
    BY <2>3 DEF DeleteByServiceKeys
  <2>4. CASE StorSyncMapFromNormalMap(h)
    BY <2>4 DEF StorSyncMapFromNormalMap
  <2>. QED
    BY <1>5, <2>1, <2>2, <2>3, <2>4 DEF Callback
<1>6. CASE UNCHANGED vars
  BY <1>6
<1>. QED
  BY <1>1, <1>2, <1>3, <1>4, <1>5, <1>6 DEF Next, Environment

\* The tables, the goroutines and the retry counter stay in their types: a
\* call makes no fourth attempt, whatever it is answered.
THEOREM Typing == Spec => []TypeOK
BY TypingInit, TypingNext, PTL DEF Spec

-----------------------------------------------------------------------------
(***************************************************************************)
(* Three attempts suffice.                                                 *)
(***************************************************************************)
\* A step of another goroutine leaves d where it is; it may refresh the
\* list cached for d's service.
Untouched(d) ==
    /\ UNCHANGED <<listed, ready>>
    /\ pc'[d] = pc[d] /\ svc'[d] = svc[d] /\ cc'[d] = cc[d]
    /\ tries'[d] = tries[d] /\ isConnChange'[d] = isConnChange[d]
    /\ Entry(d)' = Entry(d) \/ Entry(d)'.all = listed[svc[d]]

\* What a call has achieved depends on its own variables and cache entry only.
LEMMA UntouchedProgress ==
    ASSUME NEW d \in Callers, Progress(d), Untouched(d)
    PROVE  Progress(d)'
BY DEF Progress, Untouched, NextRequestIs, Redialing, CacheSpent, Reachable

\* A caller does not disturb another one.
LEMMA OtherCaller ==
    ASSUME TypeOK, NEW c \in Callers, CallStep(c),
           NEW d \in Callers \ {c}, calm'[d]
    PROVE  calm[d] /\ Untouched(d)
<1> USE DEF Untouched, Entry, TypeOK, LoopOK, Return, cluster, tables, call
<1>1. CASE DialWrapper(c)
  BY <1>1 DEF DialWrapper
<1>2. CASE Recheck(c)
  BY <1>2 DEF Recheck
<1>3. CASE CacheConn(c)
  BY <1>3 DEF CacheConn, SetServiceName2ConnMap
<1>4. CASE ResolveFromCache(c)
  BY <1>4 DEF ResolveFromCache
<1>5. CASE ResolveFromList(c)
  <2> DEFINE entry == ListedEntry(listed[svc[c]], cc[c])
  <2>1. entry.all = listed[svc[c]]
    BY DEF ListedEntry
  <2> HIDE DEF entry
  <2>2. service2NamespacesMp' = [service2NamespacesMp EXCEPT ![PodOf[c]][svc[c]] = entry]
    BY <1>5 DEF ResolveFromList, entry
  <2>3. Entry(d)' = Entry(d) \/ Entry(d)'.all = listed[svc[d]]
    BY <2>1, <2>2, <1>5, GrpcCallAssumption DEF ResolveFromList
  <2>4. /\ pc'[d] = pc[d] /\ cc'[d] = cc[d] /\ tries'[d] = tries[d]
        /\ isConnChange'[d] = isConnChange[d]
    BY <1>5 DEF ResolveFromList
  <2>. QED
    BY <1>5, <2>3, <2>4 DEF ResolveFromList
<1>6. CASE ResolveFails(c)
  BY <1>6 DEF ResolveFails, Disrupt
<1>7. CASE StoreNamespace(c)
  BY <1>7 DEF StoreNamespace
<1>8. CASE SnapshotNamespaces(c)
  BY <1>8 DEF SnapshotNamespaces
<1>9. CASE PublishNamespaces(c)
  BY <1>9 DEF PublishNamespaces, NextAttempt
<1>10. CASE Answered(c)
  BY <1>10 DEF Answered
<1>11. CASE Remember(c)
  BY <1>11 DEF Remember, SetServiceName2ConnMap
<1>12. CASE Unavailable(c)
  BY <1>12 DEF Unavailable, Disrupt
<1>13. CASE OtherError(c)
  BY <1>13 DEF OtherError, Disrupt
<1>. QED
  BY <1>1, <1>2, <1>3, <1>4, <1>5, <1>6, <1>7, <1>8, <1>9, <1>10,
     <1>11, <1>12, <1>13 DEF CallStep

\* A calm caller makes progress: its own step uses up the stale cache, or
\* reaches the service.
LEMMA OwnStep ==
    ASSUME IInv, NEW c \in Callers, CallStep(c), calm'[c]
    PROVE  Progress(c)'
<1> DEFINE p == PodOf[c]
           s == svc[c]
<1>0. /\ p \in Pods /\ s \in Services
      /\ Entry(c) \in Entries
      /\ listed[s] \in SUBSET Namespaces /\ tries[c] \in 0..2 /\ isConnChange[c] \in BOOLEAN
  BY GrpcCallAssumption DEF IInv, TypeOK, LoopOK, Entry, Retries
<1>1. calm[c]
  BY DEF IInv, TypeOK, CallStep, DialWrapper, Recheck, CacheConn, ResolveFromCache,
         ResolveFromList, ResolveFails, StoreNamespace, SnapshotNamespaces,
         PublishNamespaces, Answered, Remember, Unavailable, OtherError, Disrupt
<1>2. Progress(c)
  BY <1>1 DEF IInv, CalmInv
<1>3. ~Disrupt
  BY DEF Disrupt
<1> USE <1>0, <1>1, <1>2
    DEF IInv, TypeOK, LoopOK, Progress, NextRequestIs, Redialing, CacheSpent, Reachable,
        Entry, Done, Failed, cluster, tables, call
<1>4. CASE DialWrapper(c)
  BY <1>4 DEF DialWrapper
<1>5. CASE Recheck(c)
  BY <1>5 DEF Recheck
<1>6. CASE CacheConn(c)
  BY <1>6 DEF CacheConn, SetServiceName2ConnMap
<1>7. CASE ResolveFromCache(c)
  <2>1. Entry(c).head \in Entry(c).all
    BY <1>7 DEF ResolveFromCache, CacheAnswers, CacheInv
  <2>2. Entry(c)' = Entry(c)
    BY <1>7 DEF ResolveFromCache
  <2>. QED
    BY <1>7, <2>1, <2>2 DEF ResolveFromCache, CacheAnswers
<1>8. CASE ResolveFromList(c)
  <2> DEFINE entry == ListedEntry(listed[s], cc[c])
  <2>1. entry.all = listed[s] /\ entry.head \in listed[s]
    BY ListedEntryHead
  <2> HIDE DEF entry
  <2>2. Entry(c)' = entry
    BY <1>8 DEF ResolveFromList, entry
  <2>3. cc'[c] = entry.head /\ pc'[c] = "store" /\ UNCHANGED <<tries, isConnChange>>
    BY <1>8, <2>1 DEF ResolveFromList, entry
  <2>. QED
    BY <1>8, <2>1, <2>2, <2>3 DEF ResolveFromList
<1>9. CASE ResolveFails(c)
  BY <1>9, <1>3 DEF ResolveFails
<1>10. CASE StoreNamespace(c)
  BY <1>10 DEF StoreNamespace
<1>11. CASE SnapshotNamespaces(c)
  BY <1>11 DEF SnapshotNamespaces
<1>12. CASE PublishNamespaces(c)
  <2>1. CASE isConnChange[c]
    BY <1>12, <2>1 DEF PublishNamespaces, NextAttempt, Retries
  <2>2. CASE ~isConnChange[c]
    BY <1>12, <2>2 DEF PublishNamespaces
  <2>. QED
    BY <2>1, <2>2
<1>13. CASE Answered(c)
  BY <1>13 DEF Answered, Return
<1>14. CASE Remember(c)
  BY <1>14 DEF Remember, Return, SetServiceName2ConnMap
<1>15. CASE Unavailable(c)
  BY <1>15, <1>3 DEF Unavailable
<1>16. CASE OtherError(c)
  BY <1>16, <1>3 DEF OtherError
<1>. QED
  BY <1>4, <1>5, <1>6, <1>7, <1>8, <1>9, <1>10, <1>11, <1>12, <1>13,
     <1>14, <1>15, <1>16 DEF CallStep

\* Listing leaves a list whose head is a member; nothing else writes the cache.
LEMMA CacheNext == TypeOK /\ CacheInv /\ [Next]_vars => CacheInv'
<1> SUFFICES ASSUME TypeOK, CacheInv, [Next]_vars PROVE CacheInv'
  OBVIOUS
<1>1. CASE UNCHANGED service2NamespacesMp
  BY <1>1 DEF CacheInv
<1>2. ASSUME NEW p \in Pods, PodRestart(p) PROVE CacheInv'
  BY <1>2 DEF PodRestart, CacheInv, NoEntry, TypeOK
<1>3. ASSUME NEW c \in Callers, ResolveFromList(c) PROVE CacheInv'
  <2> DEFINE entry == ListedEntry(listed[svc[c]], cc[c])
  <2>1. listed[svc[c]] \in SUBSET Namespaces
    BY DEF TypeOK
  <2>2. entry.all # {} => entry.head \in entry.all
    BY <2>1, ListedEntryHead
  <2> HIDE DEF entry
  <2>3. service2NamespacesMp' = [service2NamespacesMp EXCEPT ![PodOf[c]][svc[c]] = entry]
    BY <1>3 DEF ResolveFromList, entry
  <2>. QED
    BY <2>2, <2>3 DEF CacheInv, TypeOK
<1>4. ASSUME ~UNCHANGED service2NamespacesMp
      PROVE  \/ \E p \in Pods : PodRestart(p)
             \/ \E c \in Callers : ResolveFromList(c)
  BY <1>4 DEF Next, Environment, CallStep, Callback, MoveService, GetConn, DialWrapper,
         Recheck, CacheConn, SetServiceName2ConnMap, ResolveFromCache, ResolveFails,
         StoreNamespace, SnapshotNamespaces, PublishNamespaces, Answered, Remember,
         Unavailable, OtherError, Notify, HandlerDiff, DeleteByServiceKeys,
         StorSyncMapFromNormalMap, vars, tables
<1>. QED
  BY <1>1, <1>2, <1>3, <1>4

\* Calm calls keep their progress, through their own steps and those of others.
LEMMA CalmNext == IInv /\ [Next]_vars => CalmInv'
<1> SUFFICES ASSUME IInv, [Next]_vars, NEW d \in Callers, calm'[d] PROVE Progress(d)'
  BY DEF CalmInv
<1> USE DEF IInv
<1>1. ASSUME NEW s \in Services, MoveService(s) PROVE Progress(d)'
  BY <1>1 DEF MoveService, Disrupt
<1>2. ASSUME NEW p \in Pods, PodRestart(p) PROVE Progress(d)'
  BY <1>2 DEF PodRestart, Disrupt
<1>3. ASSUME NEW c \in Callers, NEW s \in Services, GetConn(c, s) PROVE Progress(d)'
  <2>1. CASE d = c
    <3>1. calm'[c] = (listed[s] # {} /\ ready[s] = listed[s])
      BY <1>3 DEF GetConn, TypeOK
    <3>2. /\ svc'[c] = s /\ tries'[c] = 0 /\ isConnChange'[c] = FALSE
          /\ pc'[c] \in {"dial", "invoke"}
          /\ UNCHANGED cluster
      BY <1>3 DEF GetConn, TypeOK, LoopOK
    <3>3. listed[s] # {} /\ ready[s] = listed[s]
      BY <2>1, <3>1
    <3>. QED
      BY <2>1, <3>2, <3>3 DEF Progress, NextRequestIs, Redialing, Failed, cluster
  <2>2. CASE d # c
    <3>1. calm[d] /\ Untouched(d)
      BY <1>3, <2>2 DEF GetConn, Untouched, Entry, TypeOK, LoopOK, cluster, tables
    <3>. QED
      BY <3>1, UntouchedProgress DEF CalmInv
  <2>. QED
    BY <2>1, <2>2
<1>4. ASSUME NEW c \in Callers, CallStep(c) PROVE Progress(d)'
  <2>1. CASE d = c
    BY <1>4, <2>1, OwnStep
  <2>2. CASE d # c
    BY <1>4, <2>2, OtherCaller, UntouchedProgress DEF CalmInv
  <2>. QED
    BY <2>1, <2>2
<1>5. ASSUME NEW h \in Handlers, Callback(h) PROVE Progress(d)'
  <2>1. calm[d] /\ Untouched(d)
    BY <1>5 DEF Callback, Notify, HandlerDiff, DeleteByServiceKeys, StorSyncMapFromNormalMap,
           Untouched, Entry, cluster, tables, call
  <2>. QED
    BY <2>1, UntouchedProgress DEF CalmInv
<1>6. CASE UNCHANGED vars
  <2>1. calm[d] /\ Untouched(d)
    BY <1>6 DEF vars, Untouched, Entry, cluster, tables, call
  <2>. QED
    BY <2>1, UntouchedProgress DEF CalmInv
<1>. QED
  BY <1>1, <1>2, <1>3, <1>4, <1>5, <1>6 DEF Next, Environment

\* Three attempts of the retry loop suffice for a call that nothing disrupts,
\* however stale the tables of its pod: two requests use up the stale
\* connection and the stale list, and the third follows a fresh listing.
THEOREM CalmCalls == Spec => []CalmCallsAnswer
<1>1. Init => IInv
  BY TypingInit DEF Init, IInv, CacheInv, CalmInv, NoEntry
<1>2. IInv /\ [Next]_vars => IInv'
  BY TypingNext, CacheNext, CalmNext DEF IInv
<1>3. IInv => CalmCallsAnswer
  BY DEF IInv, CalmInv, Progress, CalmCallsAnswer
<1>. QED
  BY <1>1, <1>2, <1>3, PTL DEF Spec

-----------------------------------------------------------------------------
(***************************************************************************)
(* Only namespaces a service has been listed in travel between the tables. *)
(***************************************************************************)
\* A table with no namespace of another service, and none that is made up.
Sound(table) == \A s \in Services : table[s] \in Placed(s)

ListedInv ==
    /\ \A s \in Services : listed[s] \subseteq Placed(s)
    /\ Sound(config)
    /\ \A p \in Pods : Sound(service2NamespaceMap[p]) /\ Sound(serviceName2ConnMap[p])
    /\ \A p \in Pods, s \in Services : service2NamespacesMp[p][s].all \subseteq Placed(s)
    /\ \A h \in Handlers : Sound(hnew[h])
    /\ \A c \in Callers : Sound(snap[c]) /\ cc[c] \in Placed(svc[c])

\* The empty table names no namespace at all.
LEMMA UnknownSound == Sound(Unknown) /\ \A s \in Services : None \in Placed(s)
<1>1. \A s \in Services : None \in Placed(s)
  BY DEF Placed
<1>. QED
  BY <1>1 DEF Sound, Unknown

\* Every step copies namespaces from a table, or takes one from a listing.
LEMMA ListedNext == TypeOK /\ CacheInv /\ ListedInv /\ [Next]_vars => ListedInv'
<1> SUFFICES ASSUME TypeOK, CacheInv, ListedInv, [Next]_vars PROVE ListedInv'
  OBVIOUS
<1>0. Sound(Unknown) /\ \A s \in Services : None \in Placed(s)
  BY UnknownSound
<1> USE <1>0, GrpcCallAssumption
    DEF ListedInv, Sound, TypeOK, LoopOK, vars, cluster, tables, nacos, callbacks, call
<1>1. ASSUME NEW s \in Services, MoveService(s) PROVE ListedInv'
  BY <1>1 DEF MoveService, Placed
<1>2. ASSUME NEW p \in Pods, PodRestart(p) PROVE ListedInv'
  BY <1>2 DEF PodRestart, OnPod, NoEntry
<1>3. ASSUME NEW c \in Callers, NEW s \in Services, GetConn(c, s) PROVE ListedInv'
  BY <1>3 DEF GetConn
<1>4. ASSUME NEW c \in Callers, CallStep(c) PROVE ListedInv'
  <2> USE DEF Return
  <2>1. CASE DialWrapper(c)
    BY <2>1 DEF DialWrapper
  <2>2. CASE Recheck(c)
    BY <2>2 DEF Recheck
  <2>3. CASE CacheConn(c)
    BY <2>3 DEF CacheConn, SetServiceName2ConnMap
  <2>4. CASE ResolveFromCache(c)
    <3>1. Entry(c).head \in Placed(svc[c])
      BY <2>4 DEF ResolveFromCache, CacheAnswers, CacheInv, Entry
    <3>. QED
      BY <2>4, <3>1 DEF ResolveFromCache
  <2>5. CASE ResolveFromList(c)
    <3> DEFINE entry == ListedEntry(listed[svc[c]], cc[c])
    <3>1. listed[svc[c]] \in SUBSET Namespaces /\ listed[svc[c]] \subseteq Placed(svc[c])
      OBVIOUS
    <3>2. entry.all \subseteq Placed(svc[c]) /\ (entry.all # {} => entry.head \in Placed(svc[c]))
      BY <3>1, ListedEntryHead
    <3> HIDE DEF entry
    <3>3. service2NamespacesMp' = [service2NamespacesMp EXCEPT ![PodOf[c]][svc[c]] = entry]
      BY <2>5 DEF ResolveFromList, entry
    <3>4. cc' = [cc EXCEPT ![c] = IF entry.all = {} THEN None ELSE entry.head]
      BY <2>5 DEF ResolveFromList, entry
    <3>. QED
      BY <2>5, <3>2, <3>3, <3>4 DEF ResolveFromList
  <2>6. CASE ResolveFails(c)
    BY <2>6 DEF ResolveFails
  <2>7. CASE StoreNamespace(c)
    BY <2>7 DEF StoreNamespace
  <2>8. CASE SnapshotNamespaces(c)
    BY <2>8 DEF SnapshotNamespaces
  <2>9. CASE PublishNamespaces(c)
    BY <2>9 DEF PublishNamespaces, NextAttempt
  <2>10. CASE Answered(c)
    <3>1. svc' = svc /\ (cc' = cc \/ cc' = [cc EXCEPT ![c] = None])
      BY <2>10 DEF Answered
    <3>2. ASSUME NEW d \in Callers PROVE cc'[d] \in Placed(svc'[d])
      <4>1. svc'[d] = svc[d] /\ svc[d] \in Services /\ cc'[d] \in {cc[d], None}
        BY <3>1
      <4>. QED
        BY <4>1
    <3> HIDE DEF Sound, TypeOK
    <3>. QED
      BY <2>10, <3>2 DEF Answered
  <2>11. CASE Remember(c)
    BY <2>11 DEF Remember, SetServiceName2ConnMap
  <2>12. CASE Unavailable(c)
    BY <2>12 DEF Unavailable
  <2>13. CASE OtherError(c)
    <3>1. svc' = svc /\ (cc' = cc \/ cc' = [cc EXCEPT ![c] = None])
      BY <2>13 DEF OtherError, NextAttempt
    <3>2. ASSUME NEW d \in Callers PROVE cc'[d] \in Placed(svc'[d])
      <4>1. svc'[d] = svc[d] /\ svc[d] \in Services /\ cc'[d] \in {cc[d], None}
        BY <3>1
      <4>. QED
        BY <4>1
    <3> HIDE DEF Sound, TypeOK
    <3>. QED
      BY <2>13, <3>2 DEF OtherError
  <2>. QED
    BY <1>4, <2>1, <2>2, <2>3, <2>4, <2>5, <2>6, <2>7, <2>8, <2>9, <2>10,
       <2>11, <2>12, <2>13 DEF CallStep
<1>5. ASSUME NEW h \in Handlers, Callback(h) PROVE ListedInv'
  <2>1. CASE Notify(h)
    BY <2>1 DEF Notify
  <2>2. CASE HandlerDiff(h)
    BY <2>2 DEF HandlerDiff
  <2>3. CASE DeleteByServiceKeys(h)
    BY <2>3 DEF DeleteByServiceKeys
  <2>4. CASE StorSyncMapFromNormalMap(h)
    BY <2>4 DEF StorSyncMapFromNormalMap
  <2>. QED
    BY <1>5, <2>1, <2>2, <2>3, <2>4 DEF Callback
<1>6. CASE UNCHANGED vars
  BY <1>6
<1>. QED
  BY <1>1, <1>2, <1>3, <1>4, <1>5, <1>6 DEF Next, Environment

\* What a pod dials, believes or publishes for a service is a namespace that
\* Kubernetes has listed the service in, whoever discovered it.
THEOREM ListedOnly == Spec => []OnlyListed
<1> DEFINE Inv == TypeOK /\ CacheInv /\ ListedInv
<1>1. Init => Inv
  <2> SUFFICES ASSUME Init PROVE Inv
    OBVIOUS
  <2>1. TypeOK /\ CacheInv
    BY TypingInit DEF Init, CacheInv, NoEntry
  <2>2. \A s \in Services : listed[s] \subseteq Placed(s)
    <3> SUFFICES ASSUME NEW s \in Services PROVE listed[s] \subseteq Placed(s)
      OBVIOUS
    <3> DEFINE q == [listed |-> listed[s], ready |-> ready[s]]
    <3>1. q \in Placements[s] /\ q.listed = listed[s]
      BY DEF Init
    <3>. QED
      BY <3>1 DEF Placed
  <2>3. /\ Sound(config)
        /\ \A p \in Pods : Sound(service2NamespaceMap[p]) /\ Sound(serviceName2ConnMap[p])
        /\ \A h \in Handlers : Sound(hnew[h])
        /\ \A c \in Callers : Sound(snap[c])
    BY UnknownSound DEF Init
  <2>4. \A p \in Pods, s \in Services : service2NamespacesMp[p][s].all \subseteq Placed(s)
    BY DEF Init, NoEntry
  <2>5. \A c \in Callers : cc[c] \in Placed(svc[c])
    BY UnknownSound DEF Init
  <2>. QED
    BY <2>1, <2>2, <2>3, <2>4, <2>5 DEF ListedInv
<1>2. Inv /\ [Next]_vars => Inv'
  BY TypingNext, CacheNext, ListedNext
<1>3. Inv => OnlyListed
  BY DEF ListedInv, Sound, OnlyListed
<1>. QED
  BY <1>1, <1>2, <1>3, PTL DEF Spec
=============================================================================
