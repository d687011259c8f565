-------------------------- MODULE NacosClientProofs --------------------------
(***************************************************************************)
(* Theorems about NacosClient, for any number of callbacks, contents and   *)
(* failures: as long as no two goroutines have a content in hand at the    *)
(* same time, the handler is never taken back to an older content, and if  *)
(* no change is missed either, what the client library knows the handler   *)
(* has got.                                                                *)
(***************************************************************************)
EXTENDS NacosClient, TLAPS

\* Until it listens nobody but GetAndWatchConfig is at work, and the refresh
\* begins when that is done.
Starting ==
    /\ spc \in {"get", "store", "handle", "listen"} => ~listening
    /\ ~listening => \A k \in Callbacks : kpc[k] = "idle"
    /\ watched => spc = "done"
    /\ ~watched => rpc = "get"

\* What GetAndWatchConfig has given to the handler.
Begun ==
    /\ spc \in {"get", "store", "handle"} => handled = Absent
    /\ spc = "get" => sdata = Absent
    /\ spc = "listen" => handled = sdata

\* Nobody has a content that the server has not had yet.
Past ==
    /\ handled <= server /\ sdata <= server /\ seen <= server /\ rdata <= server
    /\ \A k \in Callbacks : kdata[k] <= server

ClientIInv == TypeOK /\ Starting /\ Begun /\ Past

\* What is going to be handled is not older than what has been.
Newer ==
    /\ \A k \in Callbacks : kpc[k] = "handle" => handled <= kdata[k]
    /\ rpc # "get" => handled <= rdata

\* No callback has its content before it.
Told == \A k \in Callbacks : kpc[k] # "handle"

\* What the library knows has been handled, or a callback is about to.
Known ==
    /\ \A k \in Callbacks : kpc[k] = "handle" => kdata[k] = seen
    /\ listening /\ Told => seen <= handled

-----------------------------------------------------------------------------
\* At first nobody has fetched anything.
LEMMA ClientInitially == Init => ClientIInv /\ Newer /\ Known
  <1> SUFFICES ASSUME Init PROVE ClientIInv /\ Newer /\ Known
    OBVIOUS
  <1> USE NacosClientAssumption DEF Init
  <1>1. TypeOK
    <2>1. handled \in Contents /\ server \in Versions /\ 0 \in 0..MaxFailures
      BY DEF Contents, Versions, Absent
    <2>2. listening \in BOOLEAN /\ missed \in BOOLEAN /\ watched \in BOOLEAN
      BY Zenon
    <2> QED BY <2>1, <2>2 DEF TypeOK
  <1>2. Starting /\ Begun /\ Newer /\ Known
    BY DEF Starting, Begun, Newer, Known
  <1>3. Past
    BY DEF Past, Absent, Versions
  <1> QED BY <1>1, <1>2, <1>3 DEF ClientIInv

\* GetAndWatchConfig keeps the invariant.
LEMMA StartStep == ClientIInv /\ Start => ClientIInv'
  <1> SUFFICES ASSUME ClientIInv, Start PROVE ClientIInv'
    OBVIOUS
  <1> USE NacosClientAssumption
      DEF ClientIInv, starter, callbacks, refresher, subscription, Contents, Versions, Absent
  <1>1. CASE StartGet
    BY <1>1 DEF StartGet, Fail, TypeOK, Starting, Begun, Past
  <1>2. CASE StartStore
    BY <1>2 DEF StartStore, TypeOK, Starting, Begun, Past
  <1>3. CASE StartHandle
    BY <1>3 DEF StartHandle, TypeOK, Starting, Begun, Past
  <1>4. CASE StartListen
    <2>1. TypeOK'
      <3>1. listening' \in BOOLEAN /\ missed' \in BOOLEAN /\ seen' \in Contents
        <4>1. CASE ListenConfig
          <5>1. listening' \in BOOLEAN
            BY <4>1, Zenon DEF ListenConfig
          <5> QED BY <4>1, <5>1 DEF ListenConfig, TypeOK
        <4>2. CASE UNCHANGED subscription
          BY <4>2 DEF TypeOK
        <4> QED BY <1>4, <4>1, <4>2 DEF StartListen
      <3>2. failures' \in 0..MaxFailures /\ spc' \in {"watch", "done"}
        BY <1>4 DEF StartListen, Fail, TypeOK
      <3> QED BY <1>4, <3>1, <3>2 DEF StartListen, TypeOK
    <2>2. Starting' /\ Begun' /\ Past'
      BY <1>4 DEF StartListen, ListenConfig, Fail, TypeOK, Starting, Begun, Past
    <2> QED BY <2>1, <2>2
  <1>5. CASE StartWatch
    BY <1>5 DEF StartWatch, TypeOK, Starting, Begun, Past
  <1> QED BY <1>1, <1>2, <1>3, <1>4, <1>5 DEF Start

\* So does the subscription.
LEMMA CallbackStep ==
    ASSUME ClientIInv, Miss \/ \E k \in Callbacks : OnChange(k)
    PROVE  ClientIInv'
  <1> USE NacosClientAssumption
      DEF ClientIInv, starter, callbacks, refresher, subscription, Contents, Versions, Absent
  <1>1. CASE Miss
    BY <1>1 DEF Miss, TypeOK, Starting, Begun, Past
  <1>2. ASSUME NEW k \in Callbacks, Notify(k) PROVE ClientIInv'
    <2>1. TypeOK'
      BY <1>2 DEF Notify, TypeOK
    <2>2. Starting' /\ Begun'
      BY <1>2 DEF Notify, TypeOK, Starting, Begun
    <2>3. Past'
      BY <1>2 DEF Notify, TypeOK, Past
    <2> QED BY <2>1, <2>2, <2>3
  <1>3. ASSUME NEW k \in Callbacks, OnChangeHandle(k) PROVE ClientIInv'
    <2>1. TypeOK'
      BY <1>3 DEF OnChangeHandle, TypeOK
    <2>2. Starting' /\ Begun'
      BY <1>3 DEF OnChangeHandle, TypeOK, Starting, Begun
    <2>3. Past'
      BY <1>3 DEF OnChangeHandle, TypeOK, Past
    <2> QED BY <2>1, <2>2, <2>3
  <1>4. ASSUME NEW k \in Callbacks, OnChangeStore(k) PROVE ClientIInv'
    <2>1. TypeOK'
      BY <1>4 DEF OnChangeStore, TypeOK
    <2>2. Starting' /\ Begun'
      BY <1>4 DEF OnChangeStore, TypeOK, Starting, Begun
    <2>3. Past'
      BY <1>4 DEF OnChangeStore, TypeOK, Past
    <2> QED BY <2>1, <2>2, <2>3
  <1> QED BY <1>1, <1>2, <1>3, <1>4 DEF OnChange

\* And so do the refresh and the server.
LEMMA RefreshStep == ClientIInv /\ (RefreshConfig \/ Change) => ClientIInv'
  <1> SUFFICES ASSUME ClientIInv, RefreshConfig \/ Change PROVE ClientIInv'
    OBVIOUS
  <1> USE NacosClientAssumption
      DEF ClientIInv, starter, callbacks, refresher, subscription, Contents, Versions, Absent
  <1>1. CASE RefreshGet
    BY <1>1 DEF RefreshGet, Fail, TypeOK, Starting, Begun, Past
  <1>2. CASE RefreshStore \/ RefreshRestore
    BY <1>2 DEF RefreshStore, RefreshRestore, TypeOK, Starting, Begun, Past
  <1>3. CASE RefreshCompare
    BY <1>3 DEF RefreshCompare, TypeOK, Starting, Begun, Past
  <1>4. CASE RefreshHandle
    BY <1>4 DEF RefreshHandle, TypeOK, Starting, Begun, Past
  <1>5. CASE Change
    BY <1>5 DEF Change, TypeOK, Starting, Begun, Past
  <1> QED BY <1>1, <1>2, <1>3, <1>4, <1>5 DEF RefreshConfig

LEMMA ClientInvariance == Spec => []ClientIInv
  <1>1. ASSUME ClientIInv, [Next]_vars PROVE ClientIInv'
    <2>1. CASE UNCHANGED vars
      BY <1>1, <2>1 DEF vars, starter, callbacks, refresher, subscription, ClientIInv, TypeOK, Starting,
         Begun, Past
    <2> QED BY <1>1, <2>1, StartStep, CallbackStep, RefreshStep DEF Next
  <1> QED BY <1>1, ClientInitially, PTL DEF Spec

\* Contents, the steps of the goroutines and what each has in hand keep their
\* types, whatever fails and whatever is missed.
THEOREM ClientTyping == Spec => []TypeOK
  <1>1. ClientIInv => TypeOK
    BY DEF ClientIInv
  <1> QED BY <1>1, ClientInvariance, PTL

-----------------------------------------------------------------------------
\* As long as no goroutines overlap, a step does not make what has been handled
\* newer than what is going to be.
LEMMA NewerStep ==
    ASSUME ClientIInv, Newer, ~Overlap, [Next]_vars
    PROVE  Newer' /\ handled' >= handled
  <1> USE DEF ClientIInv, starter, callbacks, refresher, subscription, Contents, Versions, Absent
  <1>0. handled \in Int /\ server \in Int /\ rdata \in Int /\ \A k \in Callbacks : kdata[k] \in Int
    BY NacosClientAssumption DEF TypeOK
  <1>1. CASE Start
    <2>1. CASE StartHandle
      BY <1>0, <2>1 DEF StartHandle, Starting, Begun, Newer, TypeOK
    <2>2. CASE ~StartHandle
      <3>1. UNCHANGED <<handled, kpc, kdata, rpc, rdata>>
        BY <1>1, <2>2 DEF Start, StartGet, StartStore, StartListen, StartWatch
      <3> QED BY <1>0, <3>1 DEF Newer
    <2> QED BY <2>1, <2>2
  <1>2. ASSUME NEW k \in Callbacks, Notify(k) PROVE Newer' /\ handled' >= handled
    BY <1>0, <1>2 DEF Notify, Past, Newer, TypeOK
  <1>3. ASSUME NEW k \in Callbacks, OnChangeHandle(k) PROVE Newer' /\ handled' >= handled
    <2>1. rpc = "get" /\ \A j \in Callbacks \ {k} : kpc[j] = "idle"
      BY <1>3 DEF OnChangeHandle, Overlap
    <2> QED BY <1>0, <1>3, <2>1 DEF OnChangeHandle, Newer, TypeOK
  <1>4. ASSUME NEW k \in Callbacks, OnChangeStore(k) PROVE Newer' /\ handled' >= handled
    BY <1>0, <1>4 DEF OnChangeStore, Newer, TypeOK
  <1>5. CASE RefreshConfig
    <2>1. CASE RefreshGet
      BY <1>0, <2>1 DEF RefreshGet, Past, Newer
    <2>2. CASE RefreshHandle
      <3>1. \A k \in Callbacks : kpc[k] = "idle"
        BY <2>2 DEF RefreshHandle, Overlap
      <3> QED BY <1>0, <2>2, <3>1 DEF RefreshHandle, Newer
    <2>3. CASE RefreshStore \/ RefreshCompare \/ RefreshRestore
      BY <1>0, <2>3 DEF RefreshStore, RefreshCompare, RefreshRestore, Newer
    <2> QED BY <1>5, <2>1, <2>2, <2>3 DEF RefreshConfig
  <1>6. CASE Change \/ Miss \/ UNCHANGED vars
    BY <1>0, <1>6 DEF Change, Miss, vars, Newer
  <1> QED BY <1>1, <1>2, <1>3, <1>4, <1>5, <1>6 DEF Next, OnChange

\* As long as no goroutine has a content in hand while another one has, the
\* handler is never given a content older than the one before.
THEOREM NeverTakenBack == Spec /\ []~Overlap => [][handled' >= handled]_handled
  <1>1. ClientIInv /\ Newer /\ ~Overlap /\ [Next]_vars => Newer' /\ [handled' >= handled]_handled
    BY NewerStep
  <1> QED BY <1>1, ClientInitially, ClientInvariance, PTL DEF Spec

-----------------------------------------------------------------------------
\* What the library knows does not get ahead of what is handled.
LEMMA KnownStep ==
    ASSUME ClientIInv, Newer, Known, ~Overlap, ~Overlap', ~missed', [Next]_vars
    PROVE  Known'
  <1> USE DEF ClientIInv, starter, callbacks, refresher, subscription, Contents, Versions, Absent
  <1>0. /\ handled \in Int /\ server \in Int /\ rdata \in Int /\ seen \in Int
        /\ \A k \in Callbacks : kdata[k] \in Int
    BY NacosClientAssumption DEF TypeOK
  <1>1. CASE Start
    <2>1. CASE StartListen
      BY <1>0, <2>1 DEF StartListen, ListenConfig, Starting, Begun, Known, Told
    <2>2. CASE StartHandle
      BY <2>2 DEF StartHandle, Starting, Known, Told
    <2>3. CASE StartGet \/ StartStore \/ StartWatch
      BY <2>3 DEF StartGet, StartStore, StartWatch, Known, Told
    <2> QED BY <1>1, <2>1, <2>2, <2>3 DEF Start
  <1>2. ASSUME NEW k \in Callbacks, Notify(k) PROVE Known'
    <2>1. \A j \in Callbacks : kpc'[j] = IF j = k THEN "handle" ELSE kpc[j]
      BY <1>2 DEF Notify, TypeOK
    <2>2. \A j \in Callbacks \ {k} : kpc'[j] = "idle"
      BY <2>1 DEF Overlap
    <2>3. kdata'[k] = server /\ seen' = server
      BY <1>2 DEF Notify, TypeOK
    <2> QED BY <2>1, <2>2, <2>3 DEF Known, Told
  <1>3. ASSUME NEW k \in Callbacks, OnChangeHandle(k) PROVE Known'
    <2>1. \A j \in Callbacks : kpc'[j] = IF j = k THEN "store" ELSE kpc[j]
      BY <1>3 DEF OnChangeHandle, TypeOK
    <2>2. handled' = seen /\ UNCHANGED <<seen, kdata>>
      BY <1>3 DEF OnChangeHandle, Known
    <2> QED BY <1>0, <2>1, <2>2 DEF Known
  <1>4. ASSUME NEW k \in Callbacks, OnChangeStore(k) PROVE Known'
    <2>1. \A j \in Callbacks : kpc'[j] = IF j = k THEN "idle" ELSE kpc[j]
      BY <1>4 DEF OnChangeStore, TypeOK
    <2>2. kpc[k] = "store" /\ UNCHANGED <<handled, seen, listening>>
          /\ \A j \in Callbacks \ {k} : kdata'[j] = kdata[j]
      BY <1>4 DEF OnChangeStore, TypeOK
    <2> QED BY <2>1, <2>2 DEF Known, Told
  <1>5. CASE RefreshConfig
    <2>1. UNCHANGED <<seen, listening, kpc, kdata>>
      BY <1>5 DEF RefreshConfig, RefreshGet, RefreshStore, RefreshCompare, RefreshRestore, RefreshHandle
    <2>2. handled' >= handled /\ handled' \in Int
      <3>1. handled' \in {handled, rdata}
        BY <1>5 DEF RefreshConfig, RefreshGet, RefreshStore, RefreshCompare, RefreshRestore, RefreshHandle
      <3> QED BY <1>0, <3>1, NewerStep
    <2> QED BY <1>0, <2>1, <2>2 DEF Known, Told
  <1>6. CASE Change \/ UNCHANGED vars
    BY <1>6 DEF Change, vars, Known, Told
  <1>7. ~Miss
    BY DEF Miss
  <1> QED BY <1>1, <1>2, <1>3, <1>4, <1>5, <1>6, <1>7 DEF Next, OnChange

\* As long as nothing overlaps and nothing is missed, a content that the library
\* has compared with the server's has been handled, unless a callback is about
\* to: what Delivered needs beside fairness.
THEOREM KnownIsHandled ==
    Spec /\ []~(Overlap \/ missed) => [](listening /\ seen = server /\ Told => handled = server)
  <1>1. /\ ClientIInv /\ Newer /\ Known /\ ~(Overlap \/ missed) /\ ~(Overlap \/ missed)' /\ [Next]_vars
        => Newer' /\ Known'
    BY NewerStep, KnownStep
  <1>2. ClientIInv /\ Known => (listening /\ seen = server /\ Told => handled = server)
    <2>1. ClientIInv => handled \in Int /\ server \in Int /\ handled <= server
      BY NacosClientAssumption DEF ClientIInv, TypeOK, Past, Contents, Versions, Absent
    <2> QED BY <2>1 DEF Known
  <1> QED BY <1>1, <1>2, ClientInitially, ClientInvariance, PTL DEF Spec
=============================================================================
