----------------------------- MODULE RequestPath -----------------------------
(***************************************************************************)
(* One HTTP request on its way through the interceptors and the services:  *)
(* the gateway, or panda-account's own HTTP server, calls a service, which *)
(* may call another; every unary call is tried up to three times.          *)
(*                                                                         *)
(* An execution of a handler is named by the attempts that lead to it: <<>>*)
(* is the HTTP handler, <<2>> the second attempt of its call, <<2, 1>> the *)
(* first attempt of the call that one makes.  The connections that the     *)
(* calls use are in GrpcCall.                                              *)
(***************************************************************************)
EXTENDS Integers, Sequences

CONSTANTS Levels,     \* of the log
          MaxFaults   \* a bound

ASSUME PathAssumption == "info" \in Levels /\ MaxFaults \in Nat

VARIABLES
    request,  \* the route, the B3 headers, the level asked for
    routed,   \* the gateway had a connection when it registered its routes
    phase,    \* per execution
    attempt,  \* per execution, the attempt of its call that is made
    result,   \* per execution, what its caller has got
    trace,    \* per execution that has begun, its trace
    open,     \* spans that are not finished
    http,     \* the answer
    level,    \* of the log, where SetLogLevel runs
    faults,
    hopeless  \* ghost: something failed that is not tried again

pathVars == <<request, routed, phase, attempt, result, trace, open, http, level, faults, hopeless>>

\* Attempts that the interceptor makes.
BugAttempts == 2
Attempts == 3

Root == <<>>
Executions == UNION {[1..d -> 1..3] : d \in 0..2}

ByGateway == {"hello", "demo", "level", "pprof", "upload", "download"}
Streams == {"pprof", "upload", "download"}
Routes == ByGateway \cup {"test", "post", "k8s", "swagger"}
Caller == <<0>>  \* the trace that the headers name

\* B3 headers: a trace and a span may be there, and whether it is sampled.
Headers == [trace : BOOLEAN, span : BOOLEAN, sampled : {"", "1", "true"}]

Is(route) == request.route = route
Current(n) == Append(n, attempt[n])
Parent(n) == SubSeq(n, 1, Len(n) - 1)
Unary == request.route \notin Streams

PathTypeOK ==
    /\ request \in [route : Routes, b3 : Headers, level : Levels \cup {"unknown"}]
    /\ routed \in BOOLEAN
    /\ phase \in [Executions -> {"none", "sent", "running", "calling", "over"}]
    /\ attempt \in [Executions -> 0..Attempts]
    /\ result \in [Executions -> {"none", "reply", "excuse", "error", "unavailable"}]
    /\ DOMAIN trace = {n \in Executions : phase[n] \notin {"none", "sent"}}
    /\ \A n \in DOMAIN trace : trace[n] \in Executions \cup {Caller}
    /\ open \subseteq {"server", "client"} \X {n \in Executions : phase[n] \in {"running", "calling"}}
    /\ http \in {"none", "reply", "excuse", "empty", "error", "panic"}
    /\ level \in Levels
    /\ faults \in 0..MaxFaults
    /\ hopeless \in BOOLEAN

PathInit ==
    /\ request \in [route : Routes, b3 : Headers, level : Levels \cup {"unknown"}]
    /\ routed \in BOOLEAN
    /\ phase = [n \in Executions |-> IF n = Root THEN "sent" ELSE "none"]
    /\ attempt = [n \in Executions |-> 0]
    /\ result = [n \in Executions |-> "none"]
    /\ trace = <<>>
    /\ open = {}
    /\ http = "none"
    /\ level = "info"
    /\ faults = 0
    /\ hopeless = FALSE

-----------------------------------------------------------------------------
(* The interceptors *)

\* Without a span in the headers it is written as nought, and "true" is left.
B3TraceIdToUberTraceId(b3) == [b3 EXCEPT !.sampled = IF @ = "" THEN "0" ELSE @]

B3CombineTraceId(header) == IF header.trace THEN {B3TraceIdToUberTraceId(header)} ELSE {}

\* A span that is nought is none, and "true" no number.
ContextFromString(s) == IF s.span /\ s.sampled \in {"0", "1"} THEN {Caller} ELSE {}

GetSpanCtxFromCtxB3KV(header) == UNION {ContextFromString(s) : s \in B3CombineTraceId(header)}

\* The span of an execution continues the trace that its metadata name, or
\* begins one.
Joined(n, b3) == IF b3 = {} THEN n ELSE CHOOSE t \in b3 : TRUE

\* The span of a call is a child of the handler's.
StartSpanWrapper(n) == trace[n]

\* The metadata are left as they are.
BugSetContextWithB3(n) == {}

\* What the interceptor of unary calls writes to the metadata.
SetContextWithB3(n) == {StartSpanWrapper(n)}

\* What the metadata of a call name: the gateway has replaced those that the
\* HTTP interceptor wrote, and for streams nobody writes them again.
Outgoing(n) == IF Unary THEN SetContextWithB3(n) ELSE {}

\* The metadata alone are looked at.
BugGetTraceIdFromCtx(span, metadata) == metadata

\* A span in the context goes before the metadata.
GetTraceIdFromCtx(span, metadata) == IF span # {} THEN span ELSE metadata

\* The trace that a log line of an execution names: the interceptors log with
\* the context that they have got themselves, and for a stream it is all there is.
extractCtxInfo(n, inHandler) ==
    GetTraceIdFromCtx(
        IF inHandler /\ (Unary \/ n = Root) THEN {trace[n]} ELSE {},
        IF n # Root THEN Outgoing(Parent(n)) ELSE IF request.b3.trace THEN {Caller} ELSE {})

Begin(n, b3) ==
    /\ phase[n] = "sent"
    /\ phase' = [phase EXCEPT ![n] = "running"]
    /\ trace' = [m \in DOMAIN trace \cup {n} |-> IF m = n THEN Joined(n, b3) ELSE trace[m]]
    /\ open' = open \cup {<<"server", n>>}
    /\ UNCHANGED <<request, routed, attempt, result, http, level, faults, hopeless>>

JaegerHTTPServerInterceptor == Begin(Root, GetSpanCtxFromCtxB3KV(request.b3))

JaegerGrpcUnaryServerInterceptor(n) == Unary /\ n # Root /\ Begin(n, Outgoing(Parent(n)))

JaegerGrpcStreamServerInterceptor(n) == ~Unary /\ n # Root /\ Begin(n, Outgoing(Parent(n)))

Receive(n) == JaegerGrpcUnaryServerInterceptor(n) \/ JaegerGrpcStreamServerInterceptor(n)

\* The deferred functions finish the spans, whatever has happened.
Finish(n, what) == open' = open \ ({"server", "client"} \X {n})

Done(n, what) ==
    /\ phase' = [phase EXCEPT ![n] = "over"]
    /\ Finish(n, what)

\* What an execution returns is lost when its caller has given it up.
Return(n, what) ==
    /\ Done(n, what)
    /\ result' = [result EXCEPT ![n] = IF @ = "none" THEN what ELSE @]
    /\ UNCHANGED <<request, routed, attempt, trace, http, faults>>

Answer(what) ==
    /\ Done(Root, what)
    /\ http' = what
    /\ UNCHANGED <<request, routed, attempt, result, trace, level, faults>>

Call(n, spans) ==
    /\ phase' = [phase EXCEPT ![n] = "calling", ![Append(n, 1)] = "sent"]
    /\ attempt' = [attempt EXCEPT ![n] = 1]
    /\ open' = open \cup spans
    /\ UNCHANGED <<request, routed, result, trace, http, level, faults, hopeless>>

JaegerGrpcUnaryClientInterceptor(n) == Unary /\ Call(n, {<<"client", n>>})

JaegerGrpcStreamClientInterceptor(n) == ~Unary /\ Call(n, {})

Send(n) == JaegerGrpcUnaryClientInterceptor(n) \/ JaegerGrpcStreamClientInterceptor(n)

Running(n) == phase[n] = "running"
GivenUp == hopeless' = TRUE

-----------------------------------------------------------------------------
(* The handlers *)

\* A service that could not be dialled at the start has no routes.
NotRegistered == ~routed /\ Running(Root) /\ request.route \in ByGateway /\ Answer("error") /\ GivenUp

\* The headers are no good.
AnnotateContext(routes) ==
    /\ routed /\ Running(Root) /\ request.route \in routes
    /\ Answer("error") /\ GivenUp

\* Without a request that can be decoded there is no call.
Sends(route, failure) ==
    /\ routed /\ Running(Root) /\ Is(route)
    /\ Send(Root) \/ (Answer(failure) /\ GivenUp)

request_PandaAuth_SayHello_0 == Sends("hello", "error")

RegisterPandaAuthHandlerClient == AnnotateContext({"hello"}) \/ request_PandaAuth_SayHello_0

request_PandaAccount_SayHello2DemoClient_0 == Sends("demo", "error")

request_PandaAccount_UploadFile_0 == Sends("upload", "error")

\* What is uploaded may turn out to be no good when the call has begun.
BadUpload == phase[Root] = "calling" /\ Is("upload") /\ Answer("error") /\ GivenUp

request_PandaAccount_DownloadFile_0 == Sends("download", "error")

RegisterPandaAccountHandlerClient ==
    \/ AnnotateContext({"demo", "upload", "download"})
    \/ request_PandaAccount_SayHello2DemoClient_0
    \/ request_PandaAccount_UploadFile_0
    \/ request_PandaAccount_DownloadFile_0

request_CommonService_SetLogLevel_0 == Sends("level", "error")

\* The error is overwritten, and the stream that there is not is read.
request_CommonService_DownloadPprofFile_0 == Sends("pprof", "panic")

RegisterCommonServiceHandlerClientWithServiceName ==
    \/ AnnotateContext({"level", "pprof"})
    \/ request_CommonService_SetLogLevel_0
    \/ request_CommonService_DownloadPprofFile_0

\* What the gateway hands out itself, or has the Kubernetes API answer.
Serves(route) ==
    /\ Running(Root) /\ Is(route)
    /\ (Answer("reply") /\ UNCHANGED hopeless) \/ (Answer("error") /\ GivenUp)

serveK8sApi == Serves("k8s")
serveSwaggerFile == Serves("swagger")

\* Without a client, both callers behave as if there were nothing to call.
CreateClientWrapper(n, otherwise) == Send(n) \/ (otherwise /\ GivenUp)

handleTest ==
    /\ Running(Root) /\ Is("test")
    /\ CreateClientWrapper(Root, Answer("excuse"))

handlerPostTest == Serves("post")

SayHello(n) ==
    /\ Running(n) /\ Len(n) = 1 /\ request.route \in {"hello", "test"}
    /\ CreateClientWrapper(n, Return(n, "excuse") /\ UNCHANGED level)

SayHello2DemoClient(n) ==
    /\ Running(n)
    /\ Len(n) = 2 \/ (Len(n) = 1 /\ Is("demo"))
    /\ Return(n, "reply")
    /\ UNCHANGED <<level, hopeless>>

SetLevel(asked) ==
    IF asked \in Levels THEN [level |-> asked, answer |-> "reply"]
                        ELSE [level |-> "info", answer |-> "error"]

SetLogLevel(n) ==
    /\ Running(n) /\ Len(n) = 1 /\ Is("level")
    /\ level' = SetLevel(request.level).level
    /\ Return(n, SetLevel(request.level).answer)
    /\ UNCHANGED hopeless

\* There is no profile of the last type, and all are sent unless some are
\* asked for; what Lookup gives for it is used all the same.
DownloadPprofFile(n) ==
    /\ Running(n) /\ Len(n) = 1 /\ Is("pprof")
    /\ \E what \in {"reply", "error"} : Return(n, what)
    /\ UNCHANGED <<level, hopeless>>

UploadFile(n) ==
    /\ Running(n) /\ Len(n) = 1 /\ Is("upload")
    /\ Return(n, "error")
    /\ UNCHANGED <<level, hopeless>>

\* Its errors are only logged; FileDownloads has the file.
DownloadFile(n) ==
    /\ Running(n) /\ Len(n) = 1 /\ Is("download")
    /\ Return(n, "reply")
    /\ UNCHANGED <<level, hopeless>>

Handler ==
    \/ NotRegistered \/ RegisterPandaAuthHandlerClient \/ RegisterPandaAccountHandlerClient
    \/ RegisterCommonServiceHandlerClientWithServiceName
    \/ serveK8sApi \/ serveSwaggerFile \/ handleTest \/ handlerPostTest
    \/ \E n \in Executions :
        \/ SayHello(n) \/ SayHello2DemoClient(n) \/ SetLogLevel(n)
        \/ DownloadPprofFile(n) \/ UploadFile(n) \/ DownloadFile(n)

-----------------------------------------------------------------------------
(* The calls *)

\* The caller is told that the connection is gone; an execution that has been
\* sent may go on, or begin, after that.
Break(n) ==
    /\ phase[n] = "calling" /\ result[Current(n)] = "none"
    /\ faults < MaxFaults
    /\ faults' = faults + 1
    /\ result' = [result EXCEPT ![Current(n)] = "unavailable"]
    /\ UNCHANGED <<request, routed, phase, attempt, trace, open, http, level, hopeless>>

\* The context of a call ends with that of the execution that makes it, when
\* that has been given up.
Cancel(n) ==
    /\ phase[n] = "calling" /\ result[n] # "none"
    /\ result[Current(n)] = "none"
    /\ result' = [result EXCEPT ![Current(n)] = "error"]
    /\ UNCHANGED <<request, routed, phase, attempt, trace, open, http, level, faults, hopeless>>

Got(n) == IF phase[n] = "calling" THEN result[Current(n)] ELSE "none"

\* The loop does not count.
BugAgain(n) ==
    /\ Unary /\ Got(n) \in {"error", "unavailable"} /\ attempt[n] < Attempts
    /\ phase' = [phase EXCEPT ![Current(n)] = "sent"]
    /\ result' = [result EXCEPT ![Current(n)] = "none"]
    /\ UNCHANGED <<request, routed, attempt, trace, open, http, level, faults, hopeless>>

\* One attempt too many.
BugAgainLate(n) ==
    /\ Unary /\ Got(n) \in {"error", "unavailable"} /\ attempt[n] <= Attempts
    /\ attempt' = [attempt EXCEPT ![n] = @ + 1]
    /\ UNCHANGED <<request, routed, phase, result, trace, open, http, level, faults, hopeless>>

\* Every error is worth another attempt, at another pod if the connection
\* was gone and the service can be found.
Again(n) ==
    /\ Unary /\ Got(n) \in {"error", "unavailable"} /\ attempt[n] < Attempts
    /\ attempt' = [attempt EXCEPT ![n] = @ + 1]
    /\ phase' = [phase EXCEPT ![Append(n, attempt[n] + 1)] = "sent"]
    /\ UNCHANGED <<request, routed, result, trace, open, http, level, faults, hopeless>>

\* What a handler may make of what it got.  The gateway's handler for profiles
\* fails by the missing stream, or when it reads from it.
Forward(n, got) ==
    IF got \in {"reply", "excuse"} THEN {got}
    ELSE IF n # Root THEN {"excuse"}
    ELSE CASE Is("test") -> {"empty"}
           [] Is("pprof") -> IF got = "unavailable" THEN {"panic", "error"} ELSE {"error"}
           [] OTHER -> {"error"}

Resume(n, got) ==
    \E what \in Forward(n, got) :
        IF n = Root THEN Answer(what) ELSE Return(n, what) /\ UNCHANGED level

Proceed(n) ==
    /\ Got(n) \in {"reply", "excuse"} \/ (Got(n) # "none" /\ (~Unary \/ attempt[n] = Attempts))
    /\ Resume(n, Got(n))
    /\ UNCHANGED hopeless

\* The error of the resolution takes the place of the first one.
Unresolved(n) ==
    /\ Unary /\ Got(n) = "unavailable"
    /\ Resume(n, "error")
    /\ GivenUp

RetryGrpcUnaryClientInterceptor(n) == Again(n) \/ Proceed(n) \/ Unresolved(n)

-----------------------------------------------------------------------------
PathNext ==
    \/ JaegerHTTPServerInterceptor
    \/ Handler \/ BadUpload
    \/ \E n \in Executions :
        Receive(n) \/ Break(n) \/ Cancel(n) \/ RetryGrpcUnaryClientInterceptor(n)

\* As long as a server has something awaited to run, or a caller can go on,
\* one of them does; no connection must break.
PathFairness ==
    WF_pathVars(Handler \/ \E n \in Executions :
        (result[n] = "none" /\ Receive(n)) \/ RetryGrpcUnaryClientInterceptor(n))

PathSpec == PathInit /\ [][PathNext]_pathVars

-----------------------------------------------------------------------------
Complete(header) == header.trace /\ header.span /\ header.sampled # "true"

\* All executions of a request are in one trace, the caller's if its headers
\* name it and a span, unless the gateway opens a stream, which has a trace of its own.
OneTrace ==
    \A n \in DOMAIN trace :
        trace[n] = IF Unary \/ n = Root THEN Joined(Root, IF Complete(request.b3) THEN {Caller} ELSE {}) ELSE n

\* Log lines name the trace that their execution is in.  Only those of streams
\* name none, and what is logged outside of the HTTP handler, for a request
\* with incomplete headers, may name none or another.
Logged ==
    \A n \in DOMAIN trace, inHandler \in BOOLEAN :
        \/ extractCtxInfo(n, inHandler) = {trace[n]}
        \/ IF n = Root THEN ~inHandler /\ ~Complete(request.b3)
                       ELSE ~Unary /\ extractCtxInfo(n, inHandler) = {}

\* Two connections may break, wherever on the path, and the answer is good.
Tolerates ==
    Unary /\ faults < 3 /\ ~hopeless /\ request.level \in Levels => http \in {"none", "reply"}

\* Every request that the HTTP server takes is answered.
Answered == phase[Root] = "running" ~> http # "none"
=============================================================================
