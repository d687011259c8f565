-------------------------- MODULE RequestPathProofs --------------------------
(***************************************************************************)
(* Theorems about the path of a request, for any levels of the log and any *)
(* number of broken connections; about downloads of the file, for any      *)
(* number of them; and about what is logged, for texts of any length.      *)
(***************************************************************************)
EXTENDS RequestPath, FileDownloads, Redaction, FiniteSetTheorems, SequenceTheorems, TLAPS
-----------------------------------------------------------------------------
(* The tree of the executions *)

\* Executions that may make calls.
Inner == {n \in Executions : Len(n) < 2}

\* An execution that a call begins is one, and tells who has called.
LEMMA Children ==
    ASSUME NEW n \in Inner, NEW k \in 1..3
    PROVE  /\ Append(n, k) \in Executions \ {Root}
           /\ Len(Append(n, k)) = Len(n) + 1
           /\ Parent(Append(n, k)) = n
           /\ \A m \in Inner, j \in 1..3 : Append(m, j) = Append(n, k) => m = n /\ j = k
  <1> USE DEF Executions, Inner, Parent, Root
  <1>1. PICK d \in 0..2 : n \in [1..d -> 1..3]
    OBVIOUS
  <1>2. n \in Seq(1..3) /\ Len(n) = d /\ d < 2
    BY <1>1
  <1>3. Append(n, k) \in Seq(1..3) /\ Len(Append(n, k)) = d + 1
    BY <1>2
  <1>4. Append(n, k) \in Executions
    <2>1. Append(n, k) \in [1..(d + 1) -> 1..3]
      BY <1>3, LenProperties
    <2> QED BY <1>2, <2>1
  <1>5. Parent(Append(n, k)) = n
    BY <1>2, <1>3
  <1>6. ASSUME NEW m \in Inner, NEW j \in 1..3, Append(m, j) = Append(n, k) PROVE m = n /\ j = k
    <2>1. PICK e \in 0..2 : m \in [1..e -> 1..3]
      OBVIOUS
    <2>2. m \in Seq(1..3) /\ Len(m) = e
      BY <2>1
    <2> QED BY <1>2, <1>6, <2>2
  <1>7. Append(n, k) # Root
    <2>1. Len(Root) = 0
      OBVIOUS
    <2> HIDE DEF Root
    <2> QED BY <1>1, <1>2, <1>3, <2>1
  <1>8. Len(Append(n, k)) = Len(n) + 1
    BY <1>2, <1>3
  <1> HIDE DEF Executions, Inner, Parent, Root
  <1> QED BY <1>4, <1>5, <1>6, <1>7, <1>8, Zenon

\* Every other execution has been called by one.
LEMMA Parents ==
    ASSUME NEW n \in Executions \ {Root}
    PROVE  /\ Parent(n) \in Inner
           /\ \E k \in 1..3 : n = Append(Parent(n), k)
  <1> USE DEF Executions, Inner, Parent, Root
  <1>1. PICK d \in 0..2 : n \in [1..d -> 1..3]
    OBVIOUS
  <1>2. n \in Seq(1..3) /\ Len(n) = d /\ d # 0
    BY <1>1
  <1>3. SubSeq(n, 1, d - 1) \in Seq(1..3) /\ Len(SubSeq(n, 1, d - 1)) = d - 1
    BY <1>2
  <1>4. SubSeq(n, 1, d - 1) \in [1..(d - 1) -> 1..3]
    BY <1>3, LenProperties
  <1>5. n[d] \in 1..3 /\ n = Append(SubSeq(n, 1, d - 1), n[d])
    BY <1>1, <1>2
  <1> QED BY <1>2, <1>3, <1>4, <1>5

\* The HTTP handler is the first one, and the only one without a caller.
LEMMA First ==
    /\ Root \in Inner /\ Len(Root) = 0
    /\ \A n \in Executions : Len(n) \in 0..2 /\ (Len(n) = 0 => n = Root)
  <1>1. ASSUME NEW n \in Executions PROVE Len(n) \in 0..2 /\ (Len(n) = 0 => n = Root)
    <2>1. PICK d \in 0..2 : n \in [1..d -> 1..3]
      BY DEF Executions
    <2>2. n \in Seq(1..3) /\ Len(n) = d
      BY <2>1
    <2> QED BY <2>1, <2>2, EmptySeq DEF Root
  <1>2. Root \in Inner /\ Len(Root) = 0
    BY DEF Executions, Inner, Root
  <1> QED BY <1>1, <1>2

-----------------------------------------------------------------------------
(* The inductive invariant *)

\* Who calls may call, and makes an attempt; who has been sent has been so by
\* one that called, in an attempt it has made.
Shape ==
    /\ \A n \in Executions : phase[n] = "calling" => n \in Inner /\ attempt[n] \in 1..Attempts
    /\ \A n \in Inner, k \in 1..3 :
        phase[Append(n, k)] # "none" => phase[n] \in {"calling", "over"} /\ k <= attempt[n]

\* Nothing has failed but connections.
Calm == Unary /\ ~hopeless /\ request.level \in Levels

\* Executions whose caller has lost the connection.
Unavailable == {n \in Executions : result[n] = "unavailable"}

\* Each of them is one fault.
Counted == IsFiniteSet(Unavailable) /\ faults = Cardinality(Unavailable)

\* All attempts have lost their connections.
Exhausted(n) == \A k \in 1..3 : result[Append(n, k)] = "unavailable"

\* An execution that is awaited has lost the connection in every attempt but
\* the last; only attempts of one that is not awaited any more are cancelled.
Tried ==
    /\ result[Root] = "none"
    /\ \A n \in Inner : result[n] = "none" => \A k \in 1..3 :
        /\ result[Append(n, k)] # "error"
        /\ k < attempt[n] => result[Append(n, k)] = "unavailable"

\* A service that makes no call has no excuse, and another one has none but
\* lost connections.
Excused ==
    \A n \in Executions : result[n] = "excuse" =>
        /\ Len(n) = 1
        /\ Exhausted(n)

\* The same is true of the answer.
Failed == http \notin {"none", "reply"} => \E n \in Inner : Exhausted(n)

PathIInv ==
    /\ PathTypeOK /\ Shape /\ OneTrace /\ Counted
    /\ Calm => Tried /\ Excused /\ Failed

-----------------------------------------------------------------------------
(* What a step does *)

\* An execution passes on what it has got in the end.
Ended(n, what) ==
    /\ phase[n] = "calling"
    /\ Got(n) \in {"reply", "excuse"} \/ (Got(n) # "none" /\ (~Unary \/ attempt[n] = Attempts))
    /\ what \in Forward(n, Got(n))

Begins ==
    \/ Begin(Root, GetSpanCtxFromCtxB3KV(request.b3))
    \/ \E n \in Executions \ {Root} : Begin(n, Outgoing(Parent(n)))

Calls == \E n \in Inner : Running(n) /\ \E spans \in SUBSET {<<"client", n>>} : Call(n, spans)

Answers ==
    \E what \in {"reply", "excuse", "empty", "error", "panic"} :
        /\ phase[Root] \in {"running", "calling"}
        /\ Answer(what)
        /\ GivenUp \/ (UNCHANGED hopeless /\ (what = "reply" \/ Ended(Root, what)))

Returns ==
    \E n \in Executions \ {Root}, what \in {"reply", "excuse", "error"} :
        /\ phase[n] \in {"running", "calling"}
        /\ Return(n, what)
        /\ level' \in Levels
        /\ GivenUp \/ (UNCHANGED hopeless /\ (what = "reply" \/ ~Calm \/ Ended(n, what)))

\* What Forward makes of what was got.
LEMMA Forwards ==
    ASSUME NEW n, NEW got \in {"reply", "excuse", "error", "unavailable"}, NEW what \in Forward(n, got)
    PROVE  /\ what \in {"reply", "excuse", "empty", "error", "panic"}
           /\ n # Root => what \in {"reply", "excuse"}
           /\ what = "reply" <=> got = "reply"
           /\ got = "excuse" => what = "excuse"
  BY DEF Forward

\* A call of an execution that is running.
LEMMA Sent ==
    ASSUME NEW n \in Inner, Running(n), Send(n)
    PROVE  Calls
  <1>1. {} \in SUBSET {<<"client", n>>} /\ {<<"client", n>>} \in SUBSET {<<"client", n>>}
    OBVIOUS
  <1>2. CASE JaegerGrpcUnaryClientInterceptor(n)
    BY <1>1, <1>2 DEF Calls, JaegerGrpcUnaryClientInterceptor
  <1>3. CASE JaegerGrpcStreamClientInterceptor(n)
    BY <1>1, <1>3 DEF Calls, JaegerGrpcStreamClientInterceptor
  <1> QED BY <1>2, <1>3 DEF Send

\* The handlers begin calls, answer or return.
LEMMA Handles == PathTypeOK /\ Handler => Calls \/ Answers \/ Returns
  <1> SUFFICES ASSUME PathTypeOK, Handler PROVE Calls \/ Answers \/ Returns
    OBVIOUS
  <1>1. ASSUME NEW what \in {"error", "panic", "excuse"}, phase[Root] \in {"running", "calling"},
               Answer(what), GivenUp
        PROVE  Answers
    BY <1>1 DEF Answers
  <1>2. ASSUME NEW route, NEW failure \in {"error", "panic"}, Sends(route, failure)
        PROVE  Calls \/ Answers
    BY <1>1, <1>2, First, Sent DEF Sends, Running
  <1>3. ASSUME NEW routes, AnnotateContext(routes) PROVE Answers
    BY <1>1, <1>3 DEF AnnotateContext, Running
  <1>4. ASSUME NEW route, Serves(route) PROVE Answers
    BY <1>4 DEF Serves, Answers, Running
  <1>5. ASSUME NotRegistered PROVE Answers
    BY <1>1, <1>5 DEF NotRegistered, Running
  <1>6. ASSUME handleTest PROVE Calls \/ Answers
    BY <1>1, <1>6, First, Sent DEF handleTest, CreateClientWrapper, Running
  <1>7. CASE \/ NotRegistered \/ RegisterPandaAuthHandlerClient \/ RegisterPandaAccountHandlerClient
             \/ RegisterCommonServiceHandlerClientWithServiceName
             \/ serveK8sApi \/ serveSwaggerFile \/ handleTest \/ handlerPostTest
    BY <1>2, <1>3, <1>4, <1>5, <1>6, <1>7
       DEF RegisterPandaAuthHandlerClient, RegisterPandaAccountHandlerClient,
           RegisterCommonServiceHandlerClientWithServiceName, request_PandaAuth_SayHello_0,
           request_PandaAccount_SayHello2DemoClient_0, request_PandaAccount_UploadFile_0,
           request_PandaAccount_DownloadFile_0, request_CommonService_SetLogLevel_0,
           request_CommonService_DownloadPprofFile_0, serveK8sApi, serveSwaggerFile, handlerPostTest
  <1>8. ASSUME NEW n \in Executions, Len(n) \in {1, 2}, Running(n),
               NEW what \in {"reply", "excuse", "error"}, Return(n, what), level' \in Levels,
               GivenUp \/ (UNCHANGED hopeless /\ (what = "reply" \/ ~Calm))
        PROVE  Returns
    BY <1>8, First DEF Returns, Running
  <1>9. level \in Levels /\ "info" \in Levels
    BY PathAssumption DEF PathTypeOK
  <1>10. ASSUME NEW n \in Executions, SayHello(n) PROVE Calls \/ Returns
    <2>1. n \in Inner
      BY <1>10 DEF SayHello, Inner
    <2> QED BY <1>8, <1>9, <1>10, <2>1, Sent DEF SayHello, CreateClientWrapper
  <1>11. ASSUME NEW n \in Executions, SayHello2DemoClient(n) PROVE Returns
    BY <1>8, <1>9, <1>11 DEF SayHello2DemoClient
  <1>12. ASSUME NEW n \in Executions, SetLogLevel(n) PROVE Returns
    <2>1. SetLevel(request.level).level \in Levels
      BY <1>9 DEF SetLevel
    <2>2. \/ SetLevel(request.level).answer = "reply"
          \/ SetLevel(request.level).answer = "error" /\ ~Calm
      BY DEF SetLevel, Calm
    <2> QED BY <1>8, <1>12, <2>1, <2>2 DEF SetLogLevel
  <1>13. ASSUME NEW n \in Executions, DownloadPprofFile(n) \/ UploadFile(n) \/ DownloadFile(n)
         PROVE  Returns
    <2>1. ~Calm
      BY <1>13 DEF DownloadPprofFile, UploadFile, DownloadFile, Is, Calm, Unary, Streams
    <2> QED BY <1>8, <1>9, <1>13, <2>1 DEF DownloadPprofFile, UploadFile, DownloadFile
  <1> QED BY <1>7, <1>10, <1>11, <1>12, <1>13 DEF Handler

\* Every step is a span that begins, a call, an answer, a return, a failure of
\* the connection, or another attempt.
LEMMA Steps ==
    PathIInv /\ PathNext =>
        \/ Begins \/ Calls \/ Answers \/ Returns
        \/ \E n \in Inner : Break(n) \/ Cancel(n) \/ Again(n)
  <1> SUFFICES ASSUME PathIInv, PathNext
               PROVE  \/ Begins \/ Calls \/ Answers \/ Returns
                      \/ \E n \in Inner : Break(n) \/ Cancel(n) \/ Again(n)
    OBVIOUS
  <1>0. PathTypeOK /\ Shape
    BY DEF PathIInv
  <1>1. ASSUME NEW n \in Executions, phase[n] = "calling"
        PROVE  n \in Inner /\ result[Current(n)] \in {"none", "reply", "excuse", "error", "unavailable"}
    <2>1. n \in Inner /\ attempt[n] \in 1..3
      BY <1>0, <1>1 DEF Shape, Attempts
    <2> QED BY <1>0, <2>1, Children DEF PathTypeOK, Current
  <1>2. ASSUME NEW n \in Executions, Got(n) # "none"
        PROVE  /\ phase[n] = "calling" /\ n \in Inner
               /\ Got(n) \in {"reply", "excuse", "error", "unavailable"}
    BY <1>1, <1>2 DEF Got
  <1>3. level \in Levels
    BY <1>0 DEF PathTypeOK
  <1>4. ASSUME NEW n \in Executions, NEW got \in {"reply", "excuse", "error", "unavailable"},
               phase[n] = "calling", Resume(n, got),
               GivenUp \/ (UNCHANGED hopeless /\ \A what \in Forward(n, got) : Ended(n, what))
        PROVE  Answers \/ Returns
    <2>1. PICK what \in Forward(n, got) :
            IF n = Root THEN Answer(what) ELSE Return(n, what) /\ UNCHANGED level
      BY <1>4 DEF Resume
    <2>2. CASE n = Root
      BY <1>4, <2>1, <2>2, Forwards DEF Answers
    <2>3. CASE n # Root
      BY <1>3, <1>4, <2>1, <2>3, Forwards DEF Returns
    <2> QED BY <2>2, <2>3
  <1>5. ASSUME NEW n \in Executions, Proceed(n) PROVE Answers \/ Returns
    <2>1. Got(n) # "none"
      BY <1>5 DEF Proceed
    <2>2. \A what \in Forward(n, Got(n)) : Ended(n, what)
      BY <1>2, <1>5, <2>1 DEF Proceed, Ended
    <2> QED BY <1>2, <1>4, <1>5, <2>1, <2>2 DEF Proceed
  <1>6. ASSUME NEW n \in Executions, Unresolved(n) PROVE Answers \/ Returns
    <2>1. Got(n) # "none"
      BY <1>6 DEF Unresolved
    <2> QED BY <1>2, <1>4, <1>6, <2>1 DEF Unresolved
  <1>7. ASSUME NEW n \in Executions, Again(n) PROVE n \in Inner
    <2>1. Got(n) # "none"
      BY <1>7 DEF Again
    <2> QED BY <1>2, <2>1
  <1>8. ASSUME NEW n \in Executions, Break(n) \/ Cancel(n) PROVE n \in Inner
    BY <1>1, <1>8 DEF Break, Cancel
  <1>9. ASSUME NEW n \in Executions, Receive(n) PROVE Begins
    BY <1>9 DEF Receive, JaegerGrpcUnaryServerInterceptor, JaegerGrpcStreamServerInterceptor, Begins
  <1>10. ASSUME BadUpload PROVE Answers
    BY <1>10 DEF BadUpload, Answers
  <1>11. JaegerHTTPServerInterceptor => Begins
    BY DEF JaegerHTTPServerInterceptor, Begins
  <1> QED BY <1>0, <1>5, <1>6, <1>7, <1>8, <1>9, <1>10, <1>11, Handles
          DEF PathNext, RetryGrpcUnaryClientInterceptor

-----------------------------------------------------------------------------
(* The steps keep the invariant *)

\* The trace that an execution joins.
LEMMA Joins ==
    /\ \A n : Joined(n, {}) = n
    /\ \A n, t : Joined(n, {t}) = t
  BY DEF Joined

\* The headers name the caller's trace if they are complete.
LEMMA Context ==
    ASSUME NEW header \in Headers
    PROVE  GetSpanCtxFromCtxB3KV(header) = IF Complete(header) THEN {Caller} ELSE {}
  <1> DEFINE s == B3TraceIdToUberTraceId(header)
  <1>1. /\ header.sampled \in {"", "1", "true"}
        /\ s.span = header.span
        /\ s.sampled = IF header.sampled = "" THEN "0" ELSE header.sampled
    BY DEF Headers, B3TraceIdToUberTraceId
  <1>2. ContextFromString(s) = IF header.span /\ header.sampled # "true" THEN {Caller} ELSE {}
    BY <1>1 DEF ContextFromString
  <1>3. GetSpanCtxFromCtxB3KV(header) = IF header.trace THEN ContextFromString(s) ELSE {}
    BY DEF GetSpanCtxFromCtxB3KV, B3CombineTraceId
  <1> QED BY <1>2, <1>3 DEF Complete

\* A span that begins joins the trace of the request, but for streams.
LEMMA BeginsTypes ==
    ASSUME PathIInv, Begins
    PROVE  PathTypeOK' /\ Shape' /\ OneTrace'
  <1> USE DEF PathIInv
  <1>0. PICK n \in Executions : \E b3 :
            /\ Begin(n, b3)
            /\ n = Root => b3 = GetSpanCtxFromCtxB3KV(request.b3)
            /\ n # Root => b3 = Outgoing(Parent(n))
    BY First DEF Begins, Inner
  <1>1. PICK b3 :
            /\ Begin(n, b3)
            /\ n = Root => b3 = GetSpanCtxFromCtxB3KV(request.b3)
            /\ n # Root => b3 = Outgoing(Parent(n))
    BY <1>0
  <1>2. n \notin DOMAIN trace /\ phase[n] = "sent"
    BY <1>1 DEF Begin, PathTypeOK
  <1>3. ASSUME n # Root PROVE Parent(n) \in DOMAIN trace
    <2>1. PICK k \in 1..3 : Parent(n) \in Inner /\ n = Append(Parent(n), k)
      BY <1>3, Parents
    <2>2. phase[Parent(n)] \in {"calling", "over"}
      BY <1>2, <2>1 DEF Shape
    <2> QED BY <2>1, <2>2 DEF PathTypeOK, Inner
  <1>4. \/ b3 = {} /\ Joined(n, b3) = n
        \/ b3 = {Caller} /\ Joined(n, b3) = Caller
        \/ n # Root /\ b3 = {trace[Parent(n)]} /\ Joined(n, b3) = trace[Parent(n)]
    <2>1. CASE n = Root
      <3>1. request.b3 \in Headers
        BY DEF PathTypeOK
      <3>2. b3 \in {{}, {Caller}}
        BY <1>1, <2>1, <3>1, Context
      <3> QED BY <3>2, Joins
    <2>2. CASE n # Root
      <3>1. b3 = {} \/ b3 = {trace[Parent(n)]}
        BY <1>1, <2>2 DEF Outgoing, SetContextWithB3, StartSpanWrapper
      <3>2. Joined(n, {trace[Parent(n)]}) = trace[Parent(n)] /\ Joined(n, {}) = n
        BY Joins
      <3> QED BY <2>2, <3>1, <3>2
    <2> QED BY <2>1, <2>2
  <1>5. Joined(n, b3) \in Executions \cup {Caller}
    BY <1>3, <1>4 DEF PathTypeOK
  <1>6. /\ DOMAIN trace' = DOMAIN trace \cup {n}
        /\ trace'[n] = Joined(n, b3)
        /\ \A m \in DOMAIN trace : trace'[m] = trace[m]
    BY <1>1, <1>2 DEF Begin
  <1>7. phase' = [phase EXCEPT ![n] = "running"] /\ open' = open \cup {<<"server", n>>}
        /\ UNCHANGED <<request, routed, attempt, result, http, level, faults, hopeless>>
    BY <1>1 DEF Begin
  <1>8. PathTypeOK'
    BY <1>2, <1>5, <1>6, <1>7 DEF PathTypeOK
  <1>9. Shape'
    <2>1. phase \in [Executions -> {"none", "sent", "running", "calling", "over"}]
      BY DEF PathTypeOK
    <2>2. \A m \in Executions : phase'[m] = phase[m] \/ (m = n /\ phase'[m] = "running")
      BY <1>7, <2>1
    <2>3. \A m \in Inner, k \in 1..3 : Append(m, k) \in Executions /\ m \in Executions
      BY Children DEF Inner
    <2> QED BY <1>2, <1>7, <2>2, <2>3 DEF Shape
  <1>10. OneTrace'
    <2>1. ASSUME n = Root
          PROVE  trace'[n] = Joined(Root, IF Complete(request.b3) THEN {Caller} ELSE {})
      BY <1>1, <1>6, <2>1, Context DEF PathTypeOK
    <2>2. ASSUME n # Root, Unary
          PROVE  trace'[n] = Joined(Root, IF Complete(request.b3) THEN {Caller} ELSE {})
      <3>1. b3 = {trace[Parent(n)]}
        BY <1>1, <2>2 DEF Outgoing, SetContextWithB3, StartSpanWrapper
      <3>2. trace'[n] = trace[Parent(n)]
        BY <1>6, <3>1, Joins
      <3> QED BY <1>3, <2>2, <3>2 DEF OneTrace
    <2>3. ASSUME n # Root, ~Unary PROVE trace'[n] = n
      BY <1>1, <1>6, <2>3, Joins DEF Outgoing
    <2>4. Unary' <=> Unary
      BY <1>7 DEF Unary
    <2> QED BY <1>6, <1>7, <2>1, <2>2, <2>3, <2>4 DEF OneTrace
  <1> QED BY <1>8, <1>9, <1>10

\* Spans that have begun keep their trace.
LEMMA TracesStay ==
    ASSUME PathTypeOK, OneTrace, UNCHANGED <<request, trace>>
    PROVE  OneTrace'
  BY DEF OneTrace, Unary

LEMMA CallsTypes ==
    ASSUME PathIInv, Calls
    PROVE  PathTypeOK' /\ Shape' /\ OneTrace'
  <1> USE DEF PathIInv
  <1>1. PICK n \in Inner : Running(n) /\ \E spans \in SUBSET {<<"client", n>>} : Call(n, spans)
    BY DEF Calls
  <1>2. PICK spans \in SUBSET {<<"client", n>>} : Call(n, spans)
    BY <1>1
  <1> DEFINE c == Append(n, 1)
  <1>3. /\ n \in Executions /\ c \in Executions /\ c # n
        /\ phase[n] = "running" /\ phase[c] = "none"
    <2>1. Len(c) # Len(n)
      BY Children DEF Inner, Executions
    <2> QED BY <1>1, <2>1, Children DEF Inner, Running, Shape
  <1>4. /\ phase' = [phase EXCEPT ![n] = "calling", ![c] = "sent"]
        /\ attempt' = [attempt EXCEPT ![n] = 1]
        /\ open' = open \cup spans
        /\ UNCHANGED <<request, routed, result, trace, http, level, faults, hopeless>>
    BY <1>2 DEF Call
  <1>5. /\ phase'[n] = "calling" /\ phase'[c] = "sent"
        /\ \A m \in Executions \ {n, c} : phase'[m] = phase[m]
        /\ phase' \in [Executions -> {"none", "sent", "running", "calling", "over"}]
    BY <1>3, <1>4 DEF PathTypeOK
  <1>6. PathTypeOK'
    <2>1. DOMAIN trace' = {m \in Executions : phase'[m] \notin {"none", "sent"}}
      BY <1>3, <1>4, <1>5 DEF PathTypeOK
    <2>2. open' \subseteq {"server", "client"} \X {m \in Executions : phase'[m] \in {"running", "calling"}}
      <3>1. open \subseteq {"server", "client"} \X {m \in Executions : phase[m] \in {"running", "calling"}}
        BY DEF PathTypeOK
      <3>2. \A m \in Executions : phase[m] \in {"running", "calling"} => phase'[m] \in {"running", "calling"}
        BY <1>3, <1>5
      <3>3. spans \subseteq {"server", "client"} \X {m \in Executions : phase'[m] \in {"running", "calling"}}
        BY <1>3, <1>5
      <3> QED BY <1>4, <3>1, <3>2, <3>3
    <2>3. attempt' \in [Executions -> 0..Attempts]
      <3>1. attempt \in [Executions -> 0..Attempts] /\ 1 \in 0..Attempts
        BY DEF PathTypeOK, Attempts
      <3> QED BY <1>4, <3>1
    <2> QED BY <1>4, <1>5, <2>1, <2>2, <2>3 DEF PathTypeOK
  <1>7. Shape'
    <2>1. ASSUME NEW m \in Executions, phase'[m] = "calling"
          PROVE  m \in Inner /\ attempt'[m] \in 1..Attempts
      BY <1>3, <1>4, <1>5, <2>1 DEF Shape, PathTypeOK, Attempts
    <2>2. ASSUME NEW m \in Inner, NEW k \in 1..3, phase'[Append(m, k)] # "none"
          PROVE  phase'[m] \in {"calling", "over"} /\ k <= attempt'[m]
      <3>1. Append(m, k) \in Executions /\ m \in Executions
        BY Children DEF Inner
      <3>2. CASE Append(m, k) = c
        <4>1. m = n /\ k = 1
          BY <3>2, Children
        <4> QED BY <1>3, <1>4, <1>5, <4>1 DEF PathTypeOK
      <3>3. CASE Append(m, k) # c
        <4>1. phase[Append(m, k)] # "none"
          BY <1>3, <1>5, <2>2, <3>1, <3>3
        <4>2. phase[m] \in {"calling", "over"} /\ k <= attempt[m]
          BY <4>1 DEF Shape
        <4> QED BY <1>3, <1>4, <1>5, <3>1, <4>2 DEF PathTypeOK
      <3> QED BY <3>2, <3>3
    <2> QED BY <2>1, <2>2 DEF Shape
  <1> QED BY <1>4, <1>6, <1>7, TracesStay

\* An execution that is over.
LEMMA DoneTypes ==
    ASSUME PathIInv, NEW n \in Executions, NEW what,
           phase[n] \in {"running", "calling"}, Done(n, what)
    PROVE  /\ phase' \in [Executions -> {"none", "sent", "running", "calling", "over"}]
           /\ DOMAIN trace = {m \in Executions : phase'[m] \notin {"none", "sent"}}
           /\ open' \subseteq {"server", "client"} \X {m \in Executions : phase'[m] \in {"running", "calling"}}
           /\ attempt' = attempt => Shape'
  <1> USE DEF PathIInv
  <1>1. /\ phase' = [phase EXCEPT ![n] = "over"]
        /\ open' = open \ ({"server", "client"} \X {n})
    BY DEF Done, Finish
  <1>2. /\ phase' \in [Executions -> {"none", "sent", "running", "calling", "over"}]
        /\ phase'[n] = "over" /\ \A m \in Executions \ {n} : phase'[m] = phase[m]
    BY <1>1 DEF PathTypeOK
  <1>3. DOMAIN trace = {m \in Executions : phase'[m] \notin {"none", "sent"}}
    BY <1>2 DEF PathTypeOK
  <1>4. open' \subseteq {"server", "client"} \X {m \in Executions : phase'[m] \in {"running", "calling"}}
    BY <1>1, <1>2 DEF PathTypeOK
  <1>5. attempt' = attempt => Shape'
    <2>1. \A m \in Inner, k \in 1..3 : Append(m, k) \in Executions /\ m \in Executions
      BY Children DEF Inner
    <2> QED BY <1>2, <2>1 DEF Shape
  <1> QED BY <1>2, <1>3, <1>4, <1>5

LEMMA AnswersTypes ==
    ASSUME PathIInv, Answers
    PROVE  PathTypeOK' /\ Shape' /\ OneTrace'
  <1> USE DEF PathIInv
  <1>1. PICK what \in {"reply", "excuse", "empty", "error", "panic"} :
            phase[Root] \in {"running", "calling"} /\ Answer(what) /\ hopeless' \in BOOLEAN
    BY DEF Answers, GivenUp, PathTypeOK
  <1>2. Done(Root, what) /\ http' = what
        /\ UNCHANGED <<request, routed, attempt, result, trace, level, faults>>
    BY <1>1 DEF Answer
  <1>3. Root \in Executions
    BY First DEF Inner
  <1>4. PathTypeOK' /\ Shape'
    BY <1>1, <1>2, <1>3, DoneTypes DEF PathTypeOK
  <1> QED BY <1>2, <1>4, TracesStay

LEMMA ReturnsTypes ==
    ASSUME PathIInv, Returns
    PROVE  PathTypeOK' /\ Shape' /\ OneTrace'
  <1> USE DEF PathIInv
  <1>1. PICK n \in Executions \ {Root}, what \in {"reply", "excuse", "error"} :
            /\ phase[n] \in {"running", "calling"} /\ Return(n, what)
            /\ level' \in Levels /\ hopeless' \in BOOLEAN
    <2>1. hopeless \in BOOLEAN
      BY DEF PathTypeOK
    <2> QED BY <2>1 DEF Returns, GivenUp
  <1>2. Done(n, what) /\ UNCHANGED <<request, routed, attempt, trace, http, faults>>
        /\ result' = [result EXCEPT ![n] = IF @ = "none" THEN what ELSE @]
    BY <1>1 DEF Return
  <1>3. result' \in [Executions -> {"none", "reply", "excuse", "error", "unavailable"}]
    BY <1>2 DEF PathTypeOK
  <1>4. PathTypeOK' /\ Shape'
    BY <1>1, <1>2, <1>3, DoneTypes DEF PathTypeOK
  <1> QED BY <1>2, <1>4, TracesStay

LEMMA AttemptsTypes ==
    ASSUME PathIInv, NEW n \in Inner, Break(n) \/ Cancel(n) \/ Again(n)
    PROVE  PathTypeOK' /\ Shape' /\ OneTrace'
  <1> USE DEF PathIInv
  <1>1. CASE Break(n) \/ Cancel(n)
    <2>1. /\ UNCHANGED <<request, routed, phase, attempt, trace, open, http, level, hopeless>>
          /\ \E what \in {"unavailable", "error"} : result' = [result EXCEPT ![Current(n)] = what]
          /\ faults' \in 0..MaxFaults
      BY <1>1, PathAssumption DEF Break, Cancel, PathTypeOK
    <2>2. result' \in [Executions -> {"none", "reply", "excuse", "error", "unavailable"}]
      BY <2>1 DEF PathTypeOK
    <2>3. PathTypeOK'
      BY <2>1, <2>2 DEF PathTypeOK
    <2>4. Shape'
      BY <2>1 DEF Shape
    <2> QED BY <2>1, <2>3, <2>4, TracesStay
  <1>2. CASE Again(n)
    <2> DEFINE k == attempt[n] + 1
               c == Append(n, k)
    <2>1. phase[n] = "calling" /\ attempt[n] \in 0..2 /\ k \in 1..3 /\ n \in Executions
      BY <1>2 DEF Again, Got, PathTypeOK, Attempts, Inner
    <2>2. c \in Executions /\ phase[c] = "none" /\ c # n
      BY <2>1, Children DEF Shape, PathTypeOK
    <2>3. /\ phase' = [phase EXCEPT ![c] = "sent"]
          /\ attempt' = [attempt EXCEPT ![n] = k]
          /\ UNCHANGED <<request, routed, result, trace, open, http, level, faults, hopeless>>
      BY <1>2 DEF Again, PathTypeOK
    <2>4. /\ phase'[c] = "sent" /\ \A m \in Executions \ {c} : phase'[m] = phase[m]
          /\ phase' \in [Executions -> {"none", "sent", "running", "calling", "over"}]
      BY <2>2, <2>3 DEF PathTypeOK
    <2>5. /\ attempt'[n] = k /\ \A m \in Executions \ {n} : attempt'[m] = attempt[m]
          /\ attempt' \in [Executions -> 0..Attempts]
      BY <2>1, <2>3 DEF PathTypeOK, Attempts
    <2>6. PathTypeOK'
      <3>1. DOMAIN trace' = {m \in Executions : phase'[m] \notin {"none", "sent"}}
        BY <2>2, <2>3, <2>4 DEF PathTypeOK
      <3>2. open' \subseteq {"server", "client"} \X {m \in Executions : phase'[m] \in {"running", "calling"}}
        <4>1. open \subseteq {"server", "client"} \X {m \in Executions : phase[m] \in {"running", "calling"}}
          BY DEF PathTypeOK
        <4> QED BY <2>2, <2>3, <2>4, <4>1
      <3> QED BY <2>3, <2>4, <2>5, <3>1, <3>2 DEF PathTypeOK
    <2>7. Shape'
      <3>1. ASSUME NEW m \in Executions, phase'[m] = "calling"
            PROVE  m \in Inner /\ attempt'[m] \in 1..Attempts
        <4>1. phase[m] = "calling"
          BY <2>2, <2>4, <3>1
        <4>2. m \in Inner /\ attempt[m] \in 1..Attempts
          BY <4>1 DEF Shape
        <4> QED BY <2>1, <2>5, <4>2 DEF Attempts
      <3>2. ASSUME NEW m \in Inner, NEW j \in 1..3, phase'[Append(m, j)] # "none"
            PROVE  phase'[m] \in {"calling", "over"} /\ j <= attempt'[m]
        <4>1. Append(m, j) \in Executions /\ m \in Executions
          BY Children DEF Inner
        <4>2. CASE Append(m, j) = c
          <5>1. m = n /\ j = k
            BY <2>1, <4>2, Children
          <5> QED BY <2>1, <2>2, <2>4, <2>5, <5>1
        <4>3. CASE Append(m, j) # c
          <5>1. phase[Append(m, j)] # "none"
            BY <2>2, <2>4, <3>2, <4>1, <4>3
          <5>2. phase[m] \in {"calling", "over"} /\ j <= attempt[m]
            BY <5>1 DEF Shape
          <5>3. attempt[m] \in 0..Attempts /\ attempt[n] \in 0..Attempts
            BY <2>1, <4>1 DEF PathTypeOK
          <5>4. attempt[m] <= attempt'[m]
            BY <2>1, <2>5, <4>1, <5>3 DEF Attempts
          <5>5. phase'[m] \in {"calling", "over"}
            BY <2>2, <2>4, <4>1, <5>2
          <5> QED BY <2>5, <4>1, <5>2, <5>3, <5>4, <5>5 DEF Attempts
        <4> QED BY <4>2, <4>3
      <3> QED BY <3>1, <3>2 DEF Shape
    <2> QED BY <2>3, <2>6, <2>7, TracesStay
  <1> QED BY <1>1, <1>2

\* An execution gets one result, and keeps it.  An awaited one whose calls are
\* calm has one other than a reply only when it is exhausted.
LEMMA Exhausts ==
    ASSUME PathTypeOK, Shape, Tried, Excused, Calm, NEW n \in Inner, result[n] = "none",
           NEW what, Ended(n, what), what # "reply"
    PROVE  /\ \E m \in Inner : Exhausted(m)
           /\ n # Root => what = "excuse" /\ Len(n) = 1 /\ Exhausted(n)
  <1> DEFINE k == attempt[n]
             c == Append(n, k)
  <1>1. phase[n] = "calling" /\ k \in 1..3 /\ n \in Executions
    BY DEF Ended, Shape, Inner, Attempts
  <1>2. c \in Executions /\ Len(c) = Len(n) + 1 /\ Got(n) = result[c]
    BY <1>1, Children DEF Got, Current
  <1>3. result[c] \in {"reply", "excuse", "error", "unavailable"}
    BY <1>2 DEF Ended, PathTypeOK
  <1>4. what \in Forward(n, result[c]) /\ result[c] # "reply" /\ (n # Root => what = "excuse")
    BY <1>2, <1>3, Forwards DEF Ended
  <1>5. Len(n) \in {0, 1} /\ (n # Root => Len(n) = 1)
    BY <1>1, First DEF Inner
  <1>6. result[c] # "error"
    BY <1>1 DEF Tried
  <1>7. ASSUME result[c] = "excuse" PROVE c \in Inner /\ Exhausted(c) /\ n = Root
    <2>1. Len(c) = 1 /\ Exhausted(c)
      BY <1>2, <1>7 DEF Excused
    <2>2. c \in Inner
      BY <1>2, <2>1 DEF Inner
    <2> HIDE DEF c
    <2> QED BY <1>2, <1>5, <2>1, <2>2
  <1>8. ASSUME result[c] = "unavailable" PROVE Exhausted(n)
    <2>1. k = 3
      BY <1>2, <1>8 DEF Ended, Calm, Attempts
    <2>2. \A j \in 1..2 : result[Append(n, j)] = "unavailable"
      BY <2>1 DEF Tried
    <2> QED BY <1>8, <2>1, <2>2 DEF Exhausted
  <1>9. result[c] \in {"excuse", "unavailable"}
    BY <1>3, <1>4, <1>6
  <1> HIDE DEF c, k
  <1> QED BY <1>4, <1>5, <1>7, <1>8, <1>9

\* What is known of results, when some execution may have got one.
LEMMA ResultsStay ==
    ASSUME PathIInv, Calm, NEW c \in Executions, NEW what \in {"reply", "excuse", "error", "unavailable"},
           result' = [result EXCEPT ![c] = IF @ = "none" THEN what ELSE @]
    PROVE  /\ \A m \in Executions : result[m] # "none" => result'[m] = result[m]
           /\ \A m \in Executions : result'[m] \in {result[m], what}
           /\ \A m \in Executions \ {c} : result'[m] = result[m]
           /\ \A m \in Inner : Exhausted(m) => Exhausted(m)'
  <1> USE DEF PathIInv
  <1>1. result \in [Executions -> {"none", "reply", "excuse", "error", "unavailable"}]
    BY DEF PathTypeOK
  <1>2. \A m \in Executions : result[m] # "none" => result'[m] = result[m]
    BY <1>1
  <1>3. \A m \in Inner : Exhausted(m) => Exhausted(m)'
    <2>1. \A m \in Inner, k \in 1..3 : Append(m, k) \in Executions
      BY Children
    <2> QED BY <1>2, <2>1 DEF Exhausted
  <1> QED BY <1>1, <1>2, <1>3

LEMMA CallsCalm ==
    ASSUME PathIInv, Calm, Calls
    PROVE  Tried' /\ Excused' /\ Failed'
  <1> USE DEF PathIInv
  <1>1. PICK n \in Inner : \E spans : Call(n, spans)
    BY DEF Calls
  <1>2. attempt' = [attempt EXCEPT ![n] = 1] /\ UNCHANGED <<result, http>>
    BY <1>1 DEF Call
  <1>3. \A m \in Inner : m \in Executions /\ (attempt'[m] = attempt[m] \/ attempt'[m] = 1)
    BY <1>2 DEF Inner, PathTypeOK
  <1>4. Tried'
    BY <1>2, <1>3 DEF Tried
  <1> QED BY <1>2, <1>4 DEF Excused, Failed, Exhausted

LEMMA AnswersCalm ==
    ASSUME PathIInv, Calm, Answers, ~hopeless'
    PROVE  Tried' /\ Excused' /\ Failed'
  <1> USE DEF PathIInv
  <1>1. PICK what \in {"reply", "excuse", "empty", "error", "panic"} :
            Answer(what) /\ (what = "reply" \/ Ended(Root, what))
    BY DEF Answers, GivenUp
  <1>2. http' = what /\ UNCHANGED <<result, attempt>>
    BY <1>1 DEF Answer
  <1>3. ASSUME what # "reply" PROVE \E m \in Inner : Exhausted(m)
    <2>1. PathTypeOK /\ Shape /\ Tried /\ Excused /\ Calm
      OBVIOUS
    <2>2. Root \in Inner /\ result[Root] = "none" /\ Ended(Root, what)
      BY <1>1, <1>3, First DEF Tried
    <2> QED BY ONLY <1>3, <2>1, <2>2, Exhausts
  <1>4. Failed'
    BY <1>2, <1>3 DEF Failed, Exhausted
  <1> QED BY <1>2, <1>4 DEF Tried, Excused, Exhausted

LEMMA ReturnsCalm ==
    ASSUME PathIInv, Calm, Returns, ~hopeless'
    PROVE  Tried' /\ Excused' /\ Failed'
  <1> USE DEF PathIInv
  <1>1. PICK n \in Executions \ {Root}, what \in {"reply", "excuse", "error"} :
            Return(n, what) /\ (what = "reply" \/ Ended(n, what))
    BY DEF Returns, GivenUp
  <1>2. /\ result' = [result EXCEPT ![n] = IF @ = "none" THEN what ELSE @]
        /\ UNCHANGED <<attempt, http>>
    BY <1>1 DEF Return
  <1>3. /\ \A m \in Executions : result[m] # "none" => result'[m] = result[m]
        /\ \A m \in Executions : result'[m] \in {result[m], what}
        /\ \A m \in Executions \ {n} : result'[m] = result[m]
        /\ \A m \in Inner : Exhausted(m) => Exhausted(m)'
    BY <1>2, ResultsStay
  <1>4. result[n] = "none" /\ what # "reply" => what = "excuse" /\ Len(n) = 1 /\ Exhausted(n)
    <2> SUFFICES ASSUME result[n] = "none", what # "reply"
                 PROVE  what = "excuse" /\ Len(n) = 1 /\ Exhausted(n)
      OBVIOUS
    <2>1. Ended(n, what) /\ n \in Inner /\ n # Root
      BY <1>1 DEF Ended, Shape
    <2>2. PathTypeOK /\ Shape /\ Tried /\ Excused /\ Calm /\ result[n] = "none" /\ what # "reply"
      OBVIOUS
    <2> QED BY ONLY <2>1, <2>2, Exhausts
  <1>5. Tried'
    <2>1. result'[Root] = "none"
      BY <1>3, First DEF Tried, Inner
    <2>2. ASSUME NEW m \in Inner, result'[m] = "none", NEW k \in 1..3
          PROVE  /\ result'[Append(m, k)] # "error"
                 /\ k < attempt'[m] => result'[Append(m, k)] = "unavailable"
      <3>1. m \in Executions /\ Append(m, k) \in Executions
        BY Children DEF Inner
      <3>2. result[m] = "none"
        BY <1>3, <2>2, <3>1
      <3>3. /\ result[Append(m, k)] # "error"
            /\ k < attempt[m] => result[Append(m, k)] = "unavailable"
        BY <3>2 DEF Tried
      <3>4. result'[Append(m, k)] # "error"
        BY <1>3, <1>4, <3>1, <3>3
      <3> QED BY <1>2, <1>3, <3>1, <3>3, <3>4
    <2> QED BY <2>1, <2>2 DEF Tried
  <1>6. Excused'
    <2>1. ASSUME NEW m \in Executions, result'[m] = "excuse" PROVE Len(m) = 1 /\ Exhausted(m)
      BY <1>3, <1>4, <2>1 DEF Excused
    <2>2. \A m \in Executions : Len(m) = 1 => m \in Inner
      BY DEF Inner
    <2> QED BY <1>3, <2>1, <2>2 DEF Excused
  <1>7. Failed'
    BY <1>2, <1>3 DEF Failed
  <1> QED BY <1>5, <1>6, <1>7

LEMMA AttemptsCalm ==
    ASSUME PathIInv, Calm, NEW n \in Inner, Break(n) \/ Cancel(n) \/ Again(n)
    PROVE  Tried' /\ Excused' /\ Failed'
  <1> USE DEF PathIInv
  <1> DEFINE c == Current(n)
  <1>1. attempt[n] \in 1..3 /\ c = Append(n, attempt[n]) /\ c \in Executions /\ n \in Executions
    BY Children DEF Break, Cancel, Again, Got, Shape, Attempts, Current, Inner
  <1>2. CASE Break(n) \/ Cancel(n)
    <2>1. PICK what \in {"unavailable", "error"} :
            /\ result[c] = "none" /\ result' = [result EXCEPT ![c] = what]
            /\ what = "error" => result[n] # "none"
            /\ UNCHANGED <<attempt, http>>
      BY <1>2 DEF Break, Cancel
    <2>2. result' = [result EXCEPT ![c] = IF @ = "none" THEN what ELSE @]
      BY <1>1, <2>1 DEF PathTypeOK
    <2>3. /\ \A m \in Executions : result[m] # "none" => result'[m] = result[m]
          /\ \A m \in Executions : result'[m] \in {result[m], what}
          /\ \A m \in Executions \ {c} : result'[m] = result[m]
          /\ \A m \in Inner : Exhausted(m) => Exhausted(m)'
      BY <1>1, <2>2, ResultsStay
    <2>4. Tried'
      <3>1. result'[Root] = "none"
        BY <1>1, <2>3, Children, First DEF Tried, Inner
      <3>2. ASSUME NEW m \in Inner, result'[m] = "none", NEW k \in 1..3
            PROVE  /\ result'[Append(m, k)] # "error"
                   /\ k < attempt'[m] => result'[Append(m, k)] = "unavailable"
        <4>1. m \in Executions /\ Append(m, k) \in Executions
          BY Children DEF Inner
        <4>2. result[m] = "none"
          BY <2>3, <3>2, <4>1
        <4>3. /\ result[Append(m, k)] # "error"
              /\ k < attempt[m] => result[Append(m, k)] = "unavailable"
          BY <4>2 DEF Tried
        <4>4. Append(m, k) = c => m = n
          BY <1>1, Children
        <4>5. result'[Append(m, k)] # "error"
          BY <2>1, <2>3, <4>1, <4>2, <4>3, <4>4
        <4> QED BY <2>1, <2>3, <4>1, <4>3, <4>5
      <3> QED BY <3>1, <3>2 DEF Tried
    <2>5. Excused'
      <3>1. \A m \in Executions : Len(m) = 1 => m \in Inner
        BY ONLY First DEF Inner
      <3> QED BY <2>3, <3>1 DEF Excused
    <2>6. Failed'
      BY <2>1, <2>3 DEF Failed
    <2> QED BY <2>4, <2>5, <2>6
  <1>3. CASE Again(n)
    <2>1. /\ attempt' = [attempt EXCEPT ![n] = attempt[n] + 1] /\ UNCHANGED <<result, http>>
          /\ result[c] \in {"error", "unavailable"}
      BY <1>3 DEF Again, Got, PathTypeOK
    <2>2. ASSUME NEW m \in Inner, result[m] = "none", NEW k \in 1..3, k < attempt'[m]
          PROVE  result[Append(m, k)] = "unavailable"
      <3>1. m \in Executions /\ attempt \in [Executions -> 0..Attempts]
        BY DEF Inner, PathTypeOK
      <3>2. CASE m # n
        BY <2>1, <2>2, <3>1, <3>2 DEF Tried
      <3>3. CASE m = n
        <4>1. k <= attempt[n]
          BY <1>1, <2>1, <2>2, <3>1, <3>3
        <4> QED BY <1>1, <2>1, <2>2, <3>3, <4>1 DEF Tried
      <3> QED BY <3>2, <3>3
    <2>3. Tried'
      BY <2>1, <2>2 DEF Tried
    <2> QED BY <2>1, <2>3 DEF Excused, Failed, Exhausted
  <1> QED BY <1>2, <1>3

\* Only a connection that breaks is counted.
LEMMA StepCounted ==
    ASSUME PathIInv, PathNext
    PROVE  Counted'
  <1> USE DEF PathIInv
  <1>1. ASSUME UNCHANGED <<result, faults>> PROVE Counted'
    BY <1>1 DEF Counted, Unavailable
  <1>2. ASSUME NEW c \in Executions, NEW what \in {"reply", "excuse", "error"}, UNCHANGED faults,
               result' = [result EXCEPT ![c] = IF @ = "none" THEN what ELSE @]
        PROVE  Counted'
    <2>1. \A m \in Executions : result'[m] = "unavailable" <=> result[m] = "unavailable"
      BY <1>2 DEF PathTypeOK
    <2>2. Unavailable' = Unavailable
      BY <2>1 DEF Unavailable
    <2> QED BY <1>2, <2>2 DEF Counted
  <1>3. ASSUME NEW n \in Inner, Break(n) \/ Cancel(n)
        PROVE  /\ Current(n) \in Executions /\ result[Current(n)] = "none"
               /\ result \in [Executions -> {"none", "reply", "excuse", "error", "unavailable"}]
    BY <1>3, Children DEF Break, Cancel, Shape, Attempts, Current, PathTypeOK, Inner
  <1>4. ASSUME NEW n \in Inner, Break(n) PROVE Counted'
    <2>1. result' = [result EXCEPT ![Current(n)] = "unavailable"] /\ faults' = faults + 1
      BY <1>4 DEF Break
    <2>2. Unavailable' = Unavailable \cup {Current(n)} /\ Current(n) \notin Unavailable
      BY <1>3, <1>4, <2>1 DEF Unavailable
    <2> QED BY <2>1, <2>2, FS_AddElement DEF Counted
  <1>5. ASSUME NEW n \in Inner, Cancel(n) PROVE Counted'
    <2>1. result' = [result EXCEPT ![Current(n)] = IF @ = "none" THEN "error" ELSE @] /\ UNCHANGED faults
      BY <1>3, <1>5 DEF Cancel
    <2> QED BY <1>2, <1>3, <1>5, <2>1
  <1>6. CASE Returns
    <2>1. PICK n \in Executions, what \in {"reply", "excuse", "error"} : Return(n, what)
      BY <1>6 DEF Returns
    <2> QED BY <1>2, <2>1 DEF Return
  <1>7. CASE Begins \/ Calls \/ Answers
    BY <1>1, <1>7 DEF Begins, Begin, Calls, Call, Answers, Answer
  <1>8. ASSUME NEW n \in Inner, Again(n) PROVE Counted'
    BY <1>1, <1>8 DEF Again
  <1> QED BY <1>4, <1>5, <1>6, <1>7, <1>8, Steps

\* Every step keeps the invariant.
LEMMA StepPath == PathIInv /\ PathNext => PathIInv'
  <1> SUFFICES ASSUME PathIInv, PathNext PROVE PathIInv'
    OBVIOUS
  <1>1. PathTypeOK' /\ Shape' /\ OneTrace'
    BY Steps, BeginsTypes, CallsTypes, AnswersTypes, ReturnsTypes, AttemptsTypes
  <1>2. ASSUME Calm' PROVE Tried' /\ Excused' /\ Failed'
    <2>1. ~hopeless' /\ UNCHANGED request /\ (hopeless' \/ UNCHANGED hopeless)
      BY <1>2, Steps DEF Calm, Begins, Begin, Calls, Call, Answers, Answer, Returns, Return, Break, Cancel,
         Again, GivenUp
    <2>2. Calm
      BY <1>2, <2>1 DEF Calm, Unary
    <2>3. CASE Begins
      <3>1. UNCHANGED <<result, attempt, http>>
        BY <2>3 DEF Begins, Begin
      <3> QED BY <2>2, <3>1 DEF PathIInv, Tried, Excused, Failed, Exhausted
    <2> QED BY <2>1, <2>2, <2>3, Steps, CallsCalm, AnswersCalm, ReturnsCalm, AttemptsCalm
  <1> QED BY <1>1, <1>2, StepCounted DEF PathIInv

-----------------------------------------------------------------------------
(* The theorems *)

\* At first nothing has been sent but the request.
LEMMA PathInitially == PathInit => PathIInv
  <1> SUFFICES ASSUME PathInit PROVE PathIInv
    OBVIOUS
  <1> USE PathAssumption DEF PathInit
  <1>1. Root \in Executions /\ \A n \in Inner, k \in 1..3 : Append(n, k) \in Executions \ {Root}
    BY First, Children DEF Inner
  <1>2. PathTypeOK
    <2>1. request \in [route : Routes, b3 : Headers, level : Levels \cup {"unknown"}]
      OBVIOUS
    <2>2. phase \in [Executions -> {"none", "sent", "running", "calling", "over"}]
      OBVIOUS
    <2>3. /\ attempt \in [Executions -> 0..Attempts]
          /\ result \in [Executions -> {"none", "reply", "excuse", "error", "unavailable"}]
      BY DEF Attempts
    <2>4. DOMAIN trace = {} /\ {n \in Executions : phase[n] \notin {"none", "sent"}} = {}
      OBVIOUS
    <2>5. routed \in BOOLEAN /\ hopeless \in BOOLEAN
      BY Zenon
    <2>6. open = {} /\ http = "none" /\ level \in Levels /\ faults \in 0..MaxFaults
      OBVIOUS
    <2> QED BY ONLY <2>1, <2>2, <2>3, <2>4, <2>5, <2>6 DEF PathTypeOK
  <1>3. Shape
    BY <1>1 DEF Shape, Inner
  <1>4. OneTrace
    BY DEF OneTrace
  <1>5. Counted
    <2>1. Unavailable = {}
      BY DEF Unavailable
    <2> QED BY <2>1, FS_EmptySet DEF Counted
  <1>6. Tried /\ Excused /\ Failed
    <2>1. \A n \in Executions : result[n] = "none" /\ attempt[n] = 0
      OBVIOUS
    <2> QED BY <1>1, <2>1 DEF Tried, Excused, Failed, Inner
  <1> QED BY <1>2, <1>3, <1>4, <1>5, <1>6 DEF PathIInv

\* The invariant of a request holds in every reachable state.
THEOREM PathInvariance == PathSpec => []PathIInv
  <1>1. ASSUME PathIInv, UNCHANGED pathVars PROVE PathIInv'
    <2> USE <1>1 DEF pathVars, PathIInv
    <2>1. PathTypeOK'
      BY DEF PathTypeOK
    <2>2. Shape' /\ Counted'
      BY DEF Shape, Counted, Unavailable
    <2>3. OneTrace'
      BY DEF OneTrace, Unary
    <2>4. Calm' => Tried' /\ Excused' /\ Failed'
      BY DEF Calm, Unary, Tried, Excused, Failed, Exhausted
    <2> QED BY <2>1, <2>2, <2>3, <2>4
  <1> QED BY <1>1, PathInitially, StepPath, PTL DEF PathSpec

\* Executions, spans and results keep their types: spans that are not finished
\* are those of executions that are not over, for any number of faults.
THEOREM PathTyping == PathSpec => []PathTypeOK
  <1>1. PathIInv => PathTypeOK
    BY DEF PathIInv
  <1> QED BY <1>1, PathInvariance, PTL

\* However often connections break and attempts are made again, all executions
\* of a request are in one trace, unless the gateway opens a stream.
THEOREM AlwaysOneTrace == PathSpec => []OneTrace
  <1>1. PathIInv => OneTrace
    BY DEF PathIInv
  <1> QED BY <1>1, PathInvariance, PTL

\* Log lines name the trace that their execution is in, but for the cases that
\* Logged excepts.
THEOREM AlwaysLogged == PathSpec => []Logged
  <1>1. PathIInv => Logged
    <2> SUFFICES ASSUME PathIInv, NEW n \in DOMAIN trace, NEW inHandler \in BOOLEAN
                 PROVE  \/ extractCtxInfo(n, inHandler) = {trace[n]}
                        \/ IF n = Root THEN ~inHandler /\ ~Complete(request.b3)
                                       ELSE ~Unary /\ extractCtxInfo(n, inHandler) = {}
      BY DEF Logged
    <2>1. n \in Executions /\ phase[n] # "none"
      BY DEF PathIInv, PathTypeOK
    <2>2. CASE n = Root
      <3>1. Complete(request.b3) => request.b3.trace /\ trace[n] = Caller
        BY <2>2, Joins DEF PathIInv, OneTrace, Complete
      <3> QED BY <2>2, <3>1 DEF extractCtxInfo, GetTraceIdFromCtx
    <2>3. CASE n # Root
      <3>1. PICK k \in 1..3 : Parent(n) \in Inner /\ n = Append(Parent(n), k)
        BY <2>1, <2>3, Parents
      <3>2. phase[Parent(n)] \in {"calling", "over"} /\ Parent(n) \in Executions
        BY <2>1, <3>1 DEF PathIInv, Shape, Inner
      <3>3. Parent(n) \in DOMAIN trace
        BY <3>2 DEF PathIInv, PathTypeOK
      <3>4. Unary => Outgoing(Parent(n)) = {trace[n]}
        BY <3>3 DEF PathIInv, OneTrace, Outgoing, SetContextWithB3, StartSpanWrapper
      <3>5. ~Unary => Outgoing(Parent(n)) = {}
        BY DEF Outgoing
      <3> QED BY <2>3, <3>4, <3>5 DEF extractCtxInfo, GetTraceIdFromCtx
    <2> QED BY <2>2, <2>3
  <1> QED BY <1>1, PathInvariance, PTL

\* Wherever on the path two connections break, the answer is good: a bad one
\* takes three that break in the attempts of one call.
THEOREM AlwaysTolerates == PathSpec => []Tolerates
  <1>1. PathIInv => Tolerates
    <2> SUFFICES ASSUME PathIInv, Calm, http \notin {"none", "reply"} PROVE ~(faults < 3)
      BY DEF Tolerates, Calm
    <2>1. PICK n \in Inner : Exhausted(n)
      BY DEF PathIInv, Failed
    <2> DEFINE Three == {Append(n, 1)} \cup {Append(n, 2)} \cup {Append(n, 3)}
    <2>2. Three \subseteq Unavailable
      BY <2>1, Children DEF Exhausted, Unavailable
    <2>3. Append(n, 1) # Append(n, 2) /\ Append(n, 1) # Append(n, 3) /\ Append(n, 2) # Append(n, 3)
      BY Children
    <2>4. IsFiniteSet(Three) /\ Cardinality(Three) = 3
      <3>1. ASSUME NEW S, IsFiniteSet(S), NEW x, x \notin S
            PROVE  IsFiniteSet(S \cup {x}) /\ Cardinality(S \cup {x}) = Cardinality(S) + 1
        BY <3>1, FS_AddElement
      <3> DEFINE One == {Append(n, 1)}
                 Two == One \cup {Append(n, 2)}
      <3>2. Append(n, 2) \notin One /\ Append(n, 3) \notin Two
        BY <2>3
      <3>3. Three = Two \cup {Append(n, 3)} /\ IsFiniteSet(One) /\ Cardinality(One) = 1
        BY FS_Singleton
      <3> HIDE DEF One, Three
      <3>4. IsFiniteSet(Two) /\ Cardinality(Two) = Cardinality(One) + 1
        BY <3>1, <3>2, <3>3, Zenon
      <3> HIDE DEF Two
      <3>5. IsFiniteSet(Three) /\ Cardinality(Three) = Cardinality(Two) + 1
        BY <3>1, <3>2, <3>3, <3>4, Zenon
      <3> QED BY <3>3, <3>4, <3>5
    <2>5. IsFiniteSet(Unavailable) /\ faults = Cardinality(Unavailable) /\ faults \in Nat
      BY FS_CardinalityType DEF PathIInv, Counted
    <2>6. Cardinality(Three) <= Cardinality(Unavailable)
      BY <2>2, <2>5, FS_Subset
    <2> QED BY <2>4, <2>5, <2>6
  <1> QED BY <1>1, PathInvariance, PTL

-----------------------------------------------------------------------------
(* FileDownloads *)

\* Downloads that run at the same time know of it.
Separate == \A d, e \in Active : d # e => d \in disturbed

\* What an undisturbed download has reached shows in the file.
Reached ==
    \A d \in Downloads \ (disturbed \cup broken) :
        /\ down[d] \in {"open", "read", "send"} => file = "full"
        /\ down[d] = "over" => sent[d] = "content"

FilesIInv == FilesTypeOK /\ Separate /\ Reached

\* No step of a download breaks what is known of it and of the others.
LEMMA FilesStep == FilesIInv /\ FilesNext => FilesIInv'
  <1> SUFFICES ASSUME FilesIInv, NEW d \in Downloads, DownloadStep(d) PROVE FilesIInv'
    BY DEF FilesNext
  <1> USE DEF FilesIInv, FilesTypeOK, Separate, Reached, Active, Move, Fails
  <1>1. CASE Start(d)
    BY <1>1 DEF Start
  <1>2. CASE Create(d)
    BY <1>2 DEF Create
  <1>3. CASE WriteString(d)
    BY <1>3 DEF WriteString
  <1>4. CASE Open(d)
    BY <1>4 DEF Open
  <1>5. CASE ReadFile(d)
    BY <1>5 DEF ReadFile
  <1>6. CASE SendChunk(d)
    BY <1>6 DEF SendChunk
  <1> QED BY <1>1, <1>2, <1>3, <1>4, <1>5, <1>6 DEF DownloadStep

\* The invariant of the downloads holds in every reachable state.
THEOREM FilesInvariance == FilesSpec => []FilesIInv
  <1>1. FilesInit => FilesIInv
    BY DEF FilesInit, FilesIInv, FilesTypeOK, Separate, Reached, Active
  <1>2. FilesIInv /\ UNCHANGED fileVars => FilesIInv'
    BY DEF fileVars, FilesIInv, FilesTypeOK, Separate, Reached, Active
  <1> QED BY <1>1, <1>2, FilesStep, PTL DEF FilesSpec

\* For any number of downloads, the file never vanishes under one that works on it.
THEOREM FilesTyping == FilesSpec => []FilesTypeOK
  <1>1. FilesIInv => FilesTypeOK
    BY DEF FilesIInv
  <1> QED BY <1>1, FilesInvariance, PTL

\* For any number of downloads, one that runs alone and of which no step fails
\* sends the whole content, whatever others have left behind.
THEOREM AlwaysWhole == FilesSpec => []Whole
  <1>1. FilesIInv => Whole
    BY DEF FilesIInv, Reached, Whole
  <1> QED BY <1>1, FilesInvariance, PTL

-----------------------------------------------------------------------------
(* What is logged *)

\* Texts, some of them masked, and what has such texts.
Texts == Seq({"x", "*"})

Kinds == {"string", "pointer", "strings", "uint", "private", "nil", "struct", "structPointer", "slice", "map", "interface"}

Inside == [kind : Kinds, name : {"Password", "Phone", "Note"}, text : Texts, of : {{}}]
Fields == [kind : Kinds, name : {"Password", "Phone", "Note"}, text : Texts, of : SUBSET Inside]

\* A field with a secret that the copy shares.
Shares(f) == f.kind = "pointer" /\ f.name \in Secret

\* The value is the original one, but for what is shared.
LogIInv ==
    /\ original \in [top : {"proto", "struct", "list", "string"}, fields : SUBSET Fields]
    /\ value \in [top : {original.top}, fields : SUBSET Fields]
    /\ original.top = "string" => \A f \in value.fields : f.kind = "string"
    /\ value = original \/ (original.top = "struct" /\ \E f \in original.fields : Shares(f))
    /\ Public(value.fields) = Public(original.fields)
    /\ ~HasZeroed(original.fields) => ~HasZeroed(value.fields)
    /\ Redacted /\ Harmless

\* A mask leaves the length of a text, and what it shows are the first two or
\* three characters and the last two.
LEMMA Masks ==
    ASSUME NEW t \in Texts
    PROVE  /\ MaskPhone(t) \in Texts /\ Len(MaskPhone(t)) = Len(t)
           /\ Cardinality({i \in DOMAIN MaskPhone(t) : MaskPhone(t)[i] # "*"})
                <= (IF Len(t) >= 10 THEN 5 ELSE 4)
  <1> DEFINE n == Len(t)
             pre == IF n >= 10 THEN 3 ELSE 2
             m == MaskPhone(t)
             shown == {i \in DOMAIN m : m[i] # "*"}
  <1>1. n \in Nat /\ DOMAIN t = 1..n /\ \A i \in 1..n : t[i] \in {"x", "*"}
    BY DEF Texts
  <1>2. m = [i \in 1..n |-> IF i \in (pre + 1)..(n - 2) THEN "*" ELSE t[i]]
    BY <1>1 DEF MaskPhone
  <1>3. m \in Texts /\ Len(m) = n
    BY <1>1, <1>2 DEF Texts
  <1>4. DOMAIN m = 1..n /\ \A i \in 1..n : i \in (pre + 1)..(n - 2) => m[i] = "*"
    BY <1>1, <1>2
  <1>5. shown \subseteq (1..pre) \cup ((n - 1)..n)
    BY <1>1, <1>4
  <1> HIDE DEF m
  <1> DEFINE S == 1..pre
             T == (n - 1)..n
  <1>6. /\ IsFiniteSet(S) /\ Cardinality(S) = pre
        /\ IsFiniteSet(T) /\ Cardinality(T) = 2
    <2>1. pre \in 2..3
      OBVIOUS
    <2> HIDE DEF pre
    <2>2. IsFiniteSet(S) /\ Cardinality(S) = pre
      BY <2>1, FS_Interval
    <2>3. IsFiniteSet(T) /\ Cardinality(T) = 2
      BY <1>1, FS_Interval
    <2> QED BY <2>2, <2>3
  <1>7. IsFiniteSet(S \cup T) /\ Cardinality(S \cup T) <= pre + 2
    <2> HIDE DEF S, T
    <2>1. IsFiniteSet(S \cap T)
      BY <1>6, FS_Subset
    <2>2. Cardinality(S \cap T) \in Nat
      BY <2>1, FS_CardinalityType
    <2>3. IsFiniteSet(S \cup T) /\ Cardinality(S \cup T) = Cardinality(S) + Cardinality(T) - Cardinality(S \cap T)
      BY <1>6, FS_Union
    <2> QED BY <1>6, <2>2, <2>3
  <1>8. Cardinality(shown) <= Cardinality(S \cup T)
    <2> HIDE DEF S, T, shown
    <2> QED BY <1>5, <1>7, FS_Subset DEF S, T
  <1>9. Cardinality(shown) \in Nat /\ Cardinality(S \cup T) \in Nat
    <2>1. IsFiniteSet(shown)
      BY <1>5, <1>7, FS_Subset
    <2> QED BY <1>7, <2>1, FS_CardinalityType
  <1>10. Cardinality(shown) <= pre + 2
    <2> HIDE DEF S, T, shown
    <2> QED BY <1>1, <1>7, <1>8, <1>9
  <1> HIDE DEF shown
  <1>11. Cardinality(shown) <= (IF n >= 10 THEN 5 ELSE 4)
    BY <1>1, <1>10
  <1> QED BY <1>3, <1>11 DEF m, shown

\* A text that the rules have been applied to is hidden, and of a field without
\* a secret it is left.
LEMMA Rules ==
    ASSUME NEW f \in Fields
    PROVE  /\ dsRules(f.name, f.text) \in Texts
           /\ f.name \notin Secret => dsRules(f.name, f.text) = f.text
           /\ Hidden([f EXCEPT !.text = dsRules(f.name, @)])
  <1> DEFINE t == dsRules(f.name, f.text)
             g == [f EXCEPT !.text = t]
  <1>1. f.text \in Texts /\ f.name \in {"Password", "Phone", "Note"}
    BY DEF Fields
  <1>2. g.text = t /\ g.name = f.name
    BY DEF Fields
  <1>3. Len(f.text) \in Nat /\ DOMAIN f.text = 1..Len(f.text)
    BY <1>1 DEF Texts
  <1>4. CASE f.name = "Password"
    <2>1. t = [i \in 1..Len(f.text) |-> "*"]
      BY <1>3, <1>4 DEF dsRules, Password, Phone
    <2>2. t \in Texts
      BY <1>3, <2>1 DEF Texts
    <2>3. {i \in DOMAIN t : t[i] # "*"} = {}
      BY <2>1
    <2> HIDE DEF t
    <2>4. Visible(g) = 0
      BY <1>2, <2>3, FS_EmptySet DEF Visible
    <2>5. Hidden(g)
      BY <1>2, <1>4, <2>4 DEF Hidden, Password, Phone
    <2> QED BY <1>4, <2>2, <2>5 DEF Secret, Password, t
  <1>5. CASE f.name = "Phone"
    <2>1. t = MaskPhone(f.text)
      BY <1>5 DEF dsRules, Password, Phone
    <2>2. /\ t \in Texts /\ Len(t) = Len(f.text)
          /\ Visible(g) <= (IF Len(t) >= 10 THEN 5 ELSE 4)
      <3>1. Visible(g) = Cardinality({i \in DOMAIN t : t[i] # "*"})
        BY <1>2 DEF Visible
      <3> HIDE DEF t, g
      <3>2. /\ t \in Texts /\ Len(t) = Len(f.text)
            /\ Cardinality({i \in DOMAIN t : t[i] # "*"}) <= (IF Len(f.text) >= 10 THEN 5 ELSE 4)
        BY <1>1, <2>1, Masks
      <3> QED BY <3>1, <3>2
    <2> HIDE DEF t
    <2>3. Hidden(g)
      BY <1>2, <1>5, <2>2 DEF Hidden, Password, Phone
    <2> QED BY <1>5, <2>2, <2>3 DEF Secret, Phone, t
  <1>6. CASE f.name = "Note"
    <2>1. t = f.text
      BY <1>6 DEF dsRules, Password, Phone
    <2>2. Visible(g) <= Len(t)
      <3>1. {i \in DOMAIN t : t[i] # "*"} \subseteq 1..Len(t)
        BY <1>3, <2>1
      <3>2. IsFiniteSet(1..Len(t)) /\ Cardinality(1..Len(t)) = Len(t)
        BY <1>3, <2>1, FS_Interval
      <3> QED BY <1>2, <3>1, <3>2, FS_Subset DEF Visible
    <2>3. Hidden(g)
      BY <1>2, <1>6, <2>2 DEF Hidden, Password, Phone
    <2> QED BY <1>1, <1>6, <2>1, <2>3
  <1> QED BY <1>1, <1>4, <1>5, <1>6

\* What is left of a field without its secrets.
Bare(f) == [Erase(f) EXCEPT !.of = {Erase(g) : g \in f.of}]

\* A field that the copy of a list, a message or a struct has transformed.
Written(f, settable) == Transformed(f, settable, {Transformed(g, TRUE, {}) : g \in f.of})

\* A record is determined by its fields, and a replaced field is the only one
\* that differs.
LEMMA Records ==
    ASSUME NEW f \in Fields
    PROVE  /\ \A t \in Texts : [f EXCEPT !.text = t] \in Fields
           /\ \A t \in Texts : /\ [f EXCEPT !.text = t].kind = f.kind
                               /\ [f EXCEPT !.text = t].name = f.name
                               /\ [f EXCEPT !.text = t].text = t
                               /\ [f EXCEPT !.text = t].of = f.of
           /\ \A o \in SUBSET Inside : /\ [f EXCEPT !.of = o] \in Fields
                                       /\ [f EXCEPT !.of = o].kind = f.kind
                                       /\ [f EXCEPT !.of = o].name = f.name
                                       /\ [f EXCEPT !.of = o].text = f.text
                                       /\ [f EXCEPT !.of = o].of = o
           /\ [f EXCEPT !.text = f.text] = f
           /\ [f EXCEPT !.of = f.of] = f
           /\ \A g \in Fields : f.kind = g.kind /\ f.name = g.name /\ f.text = g.text /\ f.of = g.of => f = g
  BY DEF Fields

\* A text that the rules replace is no loss.
LEMMA Ruled ==
    ASSUME NEW f \in Fields
    PROVE  LET g == [f EXCEPT !.text = dsRules(f.name, @)]
           IN  /\ g \in Fields /\ Hidden(g) /\ Bare(g) = Bare(f)
               /\ g.kind = f.kind /\ g.name = f.name /\ g.of = f.of
               /\ f.name \notin Secret => g = f
  <1> DEFINE t == dsRules(f.name, f.text)
             g == [f EXCEPT !.text = t]
  <1>1. t \in Texts /\ (f.name \notin Secret => t = f.text) /\ Hidden(g)
    BY Rules
  <1> HIDE DEF t
  <1>2. g \in Fields /\ g.kind = f.kind /\ g.name = f.name /\ g.of = f.of /\ g.text = t
    BY <1>1, Records
  <1>3. f.name \notin Secret => g = f
    BY <1>1, Records
  <1>4. Erase(g) = Erase(f)
    <2>1. CASE f.name \notin Secret
      BY <1>3, <2>1
    <2>2. CASE f.name \in Secret
      <3>1. [g EXCEPT !.text = <<>>] = [f EXCEPT !.text = <<>>]
        BY DEF Fields
      <3> QED BY <1>2, <2>2, <3>1 DEF Erase
    <2> QED BY <2>1, <2>2
  <1>5. Bare(g) = Bare(f)
    BY <1>2, <1>4 DEF Bare
  <1> HIDE DEF g
  <1> QED BY <1>1, <1>2, <1>3, <1>5 DEF t, g

\* What is inside of a field is one itself.
LEMMA Insides ==
    ASSUME NEW g \in Inside
    PROVE  g \in Fields /\ g.of = {}
  BY DEF Inside, Fields

\* What is inside of a field, when it is transformed.
LEMMA InsideWritten ==
    ASSUME NEW g \in Inside
    PROVE  /\ Transformed(g, TRUE, {}) \in Inside
           /\ Erase(Transformed(g, TRUE, {})) = Erase(g)
           /\ Transformed(g, TRUE, {}).kind = g.kind
           /\ g.kind \in {"string", "pointer"} => Hidden(Transformed(g, TRUE, {}))
  <1> DEFINE w == Transformed(g, TRUE, {})
  <1>1. g \in Fields /\ g.of = {}
    BY Insides
  <1>2. CASE g.kind \in {"string", "pointer"}
    <2>1. w = [g EXCEPT !.text = dsRules(g.name, @)]
      BY <1>2 DEF Transformed
    <2>2. w \in Fields /\ Hidden(w) /\ Bare(w) = Bare(g) /\ w.kind = g.kind /\ w.of = {} /\ w.name = g.name
          /\ (g.name \notin Secret => w = g)
      BY <1>1, <2>1, Ruled
    <2>3. w \in Inside
      BY <2>2 DEF Inside, Fields
    <2>4. Erase(w) = Erase(g)
      <3>1. CASE g.name \in Secret
        <4>1. [w EXCEPT !.text = <<>>] = [g EXCEPT !.text = <<>>]
          BY <1>1, <2>1 DEF Fields
        <4> QED BY <2>2, <3>1, <4>1 DEF Erase
      <3> QED BY <2>2, <3>1
    <2> QED BY <2>2, <2>3, <2>4
  <1>3. CASE g.kind \notin {"string", "pointer"}
    <2>1. [g EXCEPT !.of = {}] = g
      BY <1>1, Records
    <2>2. w = g
      BY <1>3, <2>1 DEF Transformed
    <2> QED BY <1>3, <2>2
  <1> QED BY <1>2, <1>3

\* A field that is transformed loses nothing but secrets, and loses them where
\* it can be set.
LEMMA FieldWritten ==
    ASSUME NEW f \in Fields, NEW settable \in BOOLEAN
    PROVE  /\ Written(f, settable).kind = f.kind
           /\ Bare(Written(f, settable)) = Bare(f)
           /\ f.kind = "pointer" \/ (settable /\ f.kind = "string") => Hidden(Written(f, settable))
           /\ settable /\ f.kind \in {"structPointer", "slice"} =>
                \A g \in Strings(Written(f, settable).of) : Hidden(g)
  <1> DEFINE w == Written(f, settable)
             of == {Transformed(g, TRUE, {}) : g \in f.of}
  <1>1. \A g \in f.of : g \in Inside
    BY DEF Fields
  <1>2. of \in SUBSET Inside
    BY <1>1, InsideWritten
  <1>3. {Erase(g) : g \in of} = {Erase(g) : g \in f.of}
    <2>1. \A g \in f.of : Erase(Transformed(g, TRUE, {})) = Erase(g)
      BY <1>1, InsideWritten
    <2> QED BY <2>1
  <1>4. \A g \in Strings(of) : Hidden(g)
    <2>1. \A g \in f.of : /\ Transformed(g, TRUE, {}).kind = g.kind
                          /\ g.kind \in {"string", "pointer"} => Hidden(Transformed(g, TRUE, {}))
      BY <1>1, InsideWritten
    <2> QED BY <2>1 DEF Strings
  <1> HIDE DEF of
  <1>5. CASE ~(settable \/ f.kind \in {"pointer", "structPointer"})
    <2>1. w = f
      BY <1>5 DEF Written, Transformed
    <2> QED BY <1>5, <2>1
  <1>6. CASE (settable \/ f.kind = "pointer") /\ f.kind \in {"string", "pointer"}
    <2>1. w = [f EXCEPT !.text = dsRules(f.name, @)]
      BY <1>6 DEF Written, Transformed
    <2> QED BY <1>6, <2>1, Ruled
  <1>7. CASE (settable \/ f.kind = "structPointer") /\ f.kind \in {"struct", "structPointer", "slice"}
    <2>1. w = [f EXCEPT !.of = of]
      BY <1>7 DEF Written, Transformed, of
    <2>2. w.kind = f.kind /\ w.of = of
      BY <1>2, <2>1, Records
    <2>3. Bare(w) = Bare(f)
      <3>1. [Erase(w) EXCEPT !.of = {Erase(g) : g \in of}] = [Erase(f) EXCEPT !.of = {Erase(g) : g \in of}]
        BY <1>2, <2>1 DEF Erase, Fields, Texts
      <3> QED BY <1>3, <2>2, <3>1 DEF Bare
    <2> QED BY <1>4, <1>7, <2>2, <2>3
  <1>8. CASE settable /\ f.kind \notin {"string", "pointer", "struct", "structPointer", "slice"}
    <2>1. w = f
      BY <1>8 DEF Written, Transformed
    <2> QED BY <1>8, <2>1
  <1> QED BY <1>5, <1>6, <1>7, <1>8

\* A field is copied as it is, unless there is something in it that comes out zero.
LEMMA FieldCopied ==
    ASSUME NEW f \in Fields
    PROVE  /\ Copied(f, {Copied(g, {}) : g \in f.of}) \in Fields
           /\ Copied(f, {Copied(g, {}) : g \in f.of}).kind = f.kind
           /\ f.kind \notin Zeroed /\ (\A g \in f.of : g.kind \notin Zeroed) =>
                Copied(f, {Copied(g, {}) : g \in f.of}) = f
  <1> DEFINE of == {Copied(g, {}) : g \in f.of}
             c == Copied(f, of)
  <1>1. <<>> \in Texts
    BY DEF Texts
  <1>2. ASSUME NEW g \in f.of PROVE Copied(g, {}) \in Inside /\ (g.kind \notin Zeroed => Copied(g, {}) = g)
    <2>1. g \in Inside /\ g \in Fields /\ g.of = {}
      BY Insides DEF Fields
    <2>2. [g EXCEPT !.of = {}] = g
      BY <2>1, Records
    <2>3. [g EXCEPT !.text = <<>>] \in Inside
      BY <1>1, <2>1 DEF Inside
    <2> QED BY <2>1, <2>2, <2>3 DEF Copied
  <1>3. of \in SUBSET Inside
    BY <1>2
  <1>4. (\A g \in f.of : g.kind \notin Zeroed) => of = f.of
    BY <1>2
  <1> HIDE DEF of
  <1>5. CASE f.kind \in Zeroed
    <2>1. c = [f EXCEPT !.text = <<>>]
      BY <1>5 DEF Copied, Zeroed
    <2> HIDE DEF c
    <2>2. c \in Fields /\ c.kind = f.kind
      BY <1>1, <2>1, Records
    <2> QED BY <1>5, <2>2 DEF c, of
  <1>6. CASE f.kind \in {"struct", "interface"}
    <2>1. c = [f EXCEPT !.of = of]
      BY <1>6 DEF Copied
    <2> HIDE DEF c
    <2>2. c \in Fields /\ c.kind = f.kind
      BY <1>3, <2>1, Records
    <2>3. (\A g \in f.of : g.kind \notin Zeroed) => c = f
      BY <1>4, <2>1, Records
    <2> QED BY <2>2, <2>3 DEF c, of
  <1>7. CASE f.kind \notin Zeroed \cup {"struct", "interface"}
    <2>1. c = f
      BY <1>7 DEF Copied
    <2> HIDE DEF c
    <2> QED BY <2>1 DEF c, of
  <1> QED BY <1>5, <1>6, <1>7

\* The fields that the log gets lose nothing but secrets and what comes out zero,
\* and hide the secrets that Redacted promises to hide.
LEMMA FieldsFiltered ==
    ASSUME NEW v \in [top : {"proto", "struct", "list", "string"}, fields : SUBSET Fields],
           v.top = "string" => \A f \in v.fields : f.kind = "string"
    PROVE  /\ \A w \in FilterField(v) :
                /\ v.top \in {"proto", "string"} /\ w.kind \in {"string", "pointer"} => Hidden(w)
                /\ v.top = "proto" /\ w.kind \in {"structPointer", "slice"} =>
                    \A g \in Strings(w.of) : Hidden(g)
                /\ v.top = "struct" /\ w.kind = "pointer" => Hidden(w)
           /\ (v.top = "struct" => ~HasZeroed(v.fields)) => Public(FilterField(v)) = Public(v.fields)
  <1>1. /\ Public(FilterField(v)) = {Bare(w) : w \in FilterField(v)}
        /\ Public(v.fields) = {Bare(f) : f \in v.fields}
    BY DEF Public, Bare
  <1>2. \A f \in v.fields : f \in Fields
    OBVIOUS
  <1>3. CASE v.top = "list"
    BY <1>3 DEF FilterField, desensitization
  <1>4. CASE v.top = "string"
    <2> DEFINE ruled(f) == [f EXCEPT !.text = dsRules(f.name, @)]
    <2>1. FilterField(v) = {ruled(f) : f \in v.fields}
      BY <1>4 DEF FilterField
    <2>2. \A f \in v.fields : Hidden(ruled(f)) /\ Bare(ruled(f)) = Bare(f)
      BY <1>2, Ruled
    <2> HIDE DEF ruled
    <2>3. {Bare(w) : w \in FilterField(v)} = {Bare(f) : f \in v.fields}
      BY <2>1, <2>2
    <2>4. Public(FilterField(v)) = Public(v.fields)
      BY <1>1, <2>3, Zenon
    <2> QED BY <1>4, <2>1, <2>2, <2>4
  <1>5. CASE v.top = "proto"
    <2>1. FilterField(v) = {Written(f, TRUE) : f \in v.fields}
      BY <1>5 DEF FilterField, desensitization, findAndTransform, Written
    <2>2. \A f \in v.fields :
            /\ Bare(Written(f, TRUE)) = Bare(f)
            /\ Written(f, TRUE).kind \in {"string", "pointer"} => Hidden(Written(f, TRUE))
            /\ Written(f, TRUE).kind \in {"structPointer", "slice"} =>
                \A g \in Strings(Written(f, TRUE).of) : Hidden(g)
      BY <1>2, FieldWritten
    <2>3. {Bare(w) : w \in FilterField(v)} = {Bare(f) : f \in v.fields}
      <3>1. \A w \in FilterField(v) : \E f \in v.fields : Bare(w) = Bare(f)
        BY <2>1, <2>2, Zenon
      <3>2. \A f \in v.fields : \E w \in FilterField(v) : Bare(w) = Bare(f)
        BY <2>1, <2>2
      <3> QED BY <3>1, <3>2
    <2>4. Public(FilterField(v)) = Public(v.fields)
      BY <1>1, <2>3, Zenon
    <2> QED BY <1>5, <2>1, <2>2, <2>4
  <1>6. CASE v.top = "struct"
    <2> DEFINE c(f) == Copied(f, {Copied(g, {}) : g \in f.of})
    <2>1. FilterField(v) = {Written(c(f), FALSE) : f \in v.fields}
      BY <1>6 DEF FilterField, desensitization, findAndTransform, DeepCopyV2, Written
    <2>2. ASSUME NEW f \in v.fields
          PROVE  /\ Written(c(f), FALSE).kind = "pointer" => Hidden(Written(c(f), FALSE))
                 /\ ~HasZeroed(v.fields) => Bare(Written(c(f), FALSE)) = Bare(f)
      <3>1. c(f) \in Fields /\ (~HasZeroed(v.fields) => c(f) = f)
        BY <1>2, FieldCopied DEF HasZeroed
      <3> HIDE DEF c
      <3> QED BY <3>1, FieldWritten
    <2> HIDE DEF c
    <2>3. ~HasZeroed(v.fields) => {Bare(w) : w \in FilterField(v)} = {Bare(f) : f \in v.fields}
      <3>1. ~HasZeroed(v.fields) => \A w \in FilterField(v) : \E f \in v.fields : Bare(w) = Bare(f)
        BY <2>1, <2>2, Zenon
      <3>2. ~HasZeroed(v.fields) => \A f \in v.fields : \E w \in FilterField(v) : Bare(w) = Bare(f)
        BY <2>1, <2>2
      <3> QED BY <3>1, <3>2
    <2>4. ~HasZeroed(v.fields) => Public(FilterField(v)) = Public(v.fields)
      BY <1>1, <2>3, Zenon
    <2> QED BY <1>6, <2>1, <2>2, <2>4
  <1> QED BY <1>3, <1>4, <1>5, <1>6

\* What becomes of the fields that the copy shares.
LEMMA FieldsShared ==
    ASSUME NEW v \in [top : {"proto", "struct", "list", "string"}, fields : SUBSET Fields]
    PROVE  /\ Shared(v) \in SUBSET Fields
           /\ Public(Shared(v)) = Public(v.fields)
           /\ ~HasZeroed(v.fields) => ~HasZeroed(Shared(v))
           /\ (\A f \in v.fields : f.kind = "string") => \A f \in Shared(v) : f.kind = "string"
           /\ (v.top = "struct" => \A f \in v.fields : ~Shares(f)) => Shared(v) = v.fields
  <1> DEFINE s(f) == IF v.top = "struct" /\ f.kind = "pointer" THEN [f EXCEPT !.text = dsRules(f.name, @)] ELSE f
  <1>1. Shared(v) = {s(f) : f \in v.fields}
    BY DEF Shared
  <1>2. /\ Public(Shared(v)) = {Bare(w) : w \in Shared(v)}
        /\ Public(v.fields) = {Bare(f) : f \in v.fields}
    BY DEF Public, Bare
  <1>3. ASSUME NEW f \in v.fields
        PROVE  /\ s(f) \in Fields /\ Bare(s(f)) = Bare(f) /\ s(f).kind = f.kind /\ s(f).of = f.of
               /\ (v.top = "struct" => ~Shares(f)) => s(f) = f
    BY Ruled DEF Shares
  <1> HIDE DEF s
  <1>4. ~HasZeroed(v.fields) => ~HasZeroed(Shared(v))
    BY <1>1, <1>3 DEF HasZeroed
  <1>5. Public(Shared(v)) = Public(v.fields)
    <2>1. {Bare(w) : w \in Shared(v)} = {Bare(f) : f \in v.fields}
      BY <1>1, <1>3
    <2> QED BY <1>2, <2>1, Zenon
  <1> QED BY <1>1, <1>3, <1>4, <1>5

\* At first nothing is logged, and the value is one of those that there are.
LEMMA LogInitially == RedactionInit => LogIInv
  <1> SUFFICES ASSUME RedactionInit PROVE LogIInv
    OBVIOUS
  <1>1. Plain \subseteq Texts /\ <<"x">> \in Texts /\ <<>> \in Texts
    <2>1. \A n \in Nat : [i \in 1..n |-> "x"] \in Seq({"x", "*"})
      OBVIOUS
    <2>2. <<"x">> \in Seq({"x", "*"}) /\ <<>> \in Seq({"x", "*"})
      OBVIOUS
    <2> QED BY <2>1, <2>2, RedactionAssumption DEF Plain, Texts
  <1>2. Leaves \subseteq Inside
    BY <1>1 DEF Leaves, Inside, Kinds
  <1>3. Composed \subseteq Fields
    BY <1>1, <1>2 DEF Composed, Fields, Kinds
  <1>4. \A l \in Leaves : l \in Fields
    BY <1>2, Insides
  <1>5. Values \subseteq [top : {"proto", "struct", "list", "string"}, fields : SUBSET Fields]
    BY <1>3, <1>4 DEF Values
  <1>6. \A v \in Values : v.top = "string" => \A f \in v.fields : f.kind = "string"
    BY DEF Values
  <1>7. value \in [top : {original.top}, fields : SUBSET Fields]
    BY <1>5 DEF RedactionInit
  <1> QED BY <1>5, <1>6, <1>7 DEF RedactionInit, LogIInv, Redacted, Harmless

\* Logging keeps the invariant.
LEMMA LogStep == LogIInv /\ doLog => LogIInv'
  <1> SUFFICES ASSUME LogIInv, doLog PROVE LogIInv'
    OBVIOUS
  <1>0. /\ original \in [top : {"proto", "struct", "list", "string"}, fields : SUBSET Fields]
        /\ value \in [top : {"proto", "struct", "list", "string"}, fields : SUBSET Fields]
        /\ value.top = original.top /\ value.fields \in SUBSET Fields
        /\ original' = original
    BY DEF LogIInv, doLog
  <1>1. CASE Panics(value)
    <2>1. value' = value /\ logged' = [how |-> "panic", fields |-> {}]
      BY <1>1 DEF doLog
    <2> QED BY <1>0, <2>1 DEF LogIInv, Redacted, Harmless
  <1>2. CASE ~Panics(value)
    <2>1. /\ logged' = [how |-> "written", fields |-> FilterField(value)]
          /\ value' = [value EXCEPT !.fields = Shared(value)]
      BY <1>2 DEF doLog
    <2>2. value'.top = value.top /\ value'.fields = Shared(value)
      BY <1>0, <2>1
    <2>3. value' \in [top : {original'.top}, fields : SUBSET Fields]
      <3>1. Shared(value) \in SUBSET Fields
        BY <1>0, FieldsShared
      <3> QED BY <1>0, <2>1, <3>1 DEF LogIInv
    <2>4. original'.top = "string" => \A f \in value'.fields : f.kind = "string"
      BY <1>0, <2>2, FieldsShared DEF LogIInv
    <2>5. value' = original' \/ (original'.top = "struct" /\ \E f \in original'.fields : Shares(f))
      <3>1. CASE value = original /\ (value.top = "struct" => \A f \in value.fields : ~Shares(f))
        <4>1. Shared(value) = value.fields
          BY <1>0, <3>1, FieldsShared
        <4>2. value' = value
          BY <1>0, <2>1, <4>1
        <4> QED BY <1>0, <3>1, <4>2
      <3> QED BY <1>0, <3>1 DEF LogIInv
    <2>6. Public(value'.fields) = Public(original'.fields)
      BY <1>0, <2>2, FieldsShared DEF LogIInv
    <2>7. ~HasZeroed(original'.fields) => ~HasZeroed(value'.fields)
      BY <1>0, <2>2, FieldsShared DEF LogIInv
    <2>8. Redacted'
      BY <1>0, <2>1, <2>2, FieldsFiltered DEF LogIInv, Redacted
    <2>9. Harmless'
      <3>1. (value.top = "struct" => ~HasZeroed(original.fields)) =>
                Public(FilterField(value)) = Public(original.fields)
        BY <1>0, FieldsFiltered DEF LogIInv
      <3>2. logged'.fields = FilterField(value)
        BY <2>1
      <3>3. value' = original' \/ (value'.top = "struct" /\ \E f \in original'.fields : f.kind = "pointer" /\ f.name \in Secret)
        BY <1>0, <2>2, <2>5 DEF Shares
      <3> QED BY <1>0, <2>2, <3>1, <3>2, <3>3 DEF Harmless
    <2> QED BY <1>0, <2>3, <2>4, <2>5, <2>6, <2>7, <2>8, <2>9 DEF LogIInv
  <1> QED BY <1>1, <1>2

\* The invariant of the log holds in every reachable state.
LEMMA LogInvariance == RedactionSpec => []LogIInv
  <1>1. LogIInv /\ UNCHANGED logVars => LogIInv'
    BY DEF logVars, LogIInv, Redacted, Harmless
  <1> QED BY <1>1, LogInitially, LogStep, PTL DEF RedactionSpec

\* What is written hides the passwords, and of phone numbers what MaskPhone's
\* comment says, where the reflection gets to them: for texts of any length and
\* however often a value is logged.
THEOREM AlwaysRedacted == RedactionSpec => []Redacted
  <1>1. LogIInv => Redacted
    BY DEF LogIInv
  <1> QED BY <1>1, LogInvariance, PTL

\* And it loses nothing else, nor does the application's value, but for what
\* Harmless excepts.
THEOREM AlwaysHarmless == RedactionSpec => []Harmless
  <1>1. LogIInv => Harmless
    BY DEF LogIInv
  <1> QED BY <1>1, LogInvariance, PTL
=============================================================================
