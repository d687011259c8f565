---------------------------- MODULE RateLimiters ----------------------------
(***************************************************************************)
(* The two rate limiters of base/main.go, TokenBucket and LeakyBucket,     *)
(* each with its own tokens and one clock.  Allow runs under mu, so a call *)
(* is one step.  Time is counted in units and tokens are whole numbers.    *)
(*                                                                         *)
(* The operators named Bug... are deliberate faults, as in GrpcCall.       *)
(***************************************************************************)
EXTENDS Integers

CONSTANTS Rate,      \* tokens that flow in, or leak, in a unit of time
          Capacity,  \* of either bucket
          Requests,  \* what a call may ask for
          Age,       \* the longest duration that Sub reports
          MaxTime    \* bound: how long the program runs

ASSUME RateLimitersAssumption ==
    /\ Rate \in Nat
    /\ Capacity \in Nat
    /\ Requests \subseteq Nat
    /\ Age \in Nat \ {0}
    /\ MaxTime \in Nat

VARIABLES
    now,
    tokens,           \* in the token bucket
    lastRefill,       \* -Age, the zero time, until a request is allowed
    first,            \* ghost: when the token bucket allowed its first request
    granted,          \* ghost: tokens it has given away after that request
    storage2Process,  \* in the leaky bucket
    lastLeakTime,
    start,            \* ghost: any earlier moment
    passed            \* ghost: tokens the leaky bucket has let through since then

tokenBucket == <<tokens, lastRefill, first, granted>>
leakyBucket == <<storage2Process, lastLeakTime, start, passed>>
limiterVars == <<now, tokenBucket, leakyBucket>>

TokenTypeOK ==
    /\ tokens \in 0..Capacity
    /\ lastRefill \in {-Age} \cup (0..now)
    /\ first \in 0..now
    /\ granted \in Nat

LeakyTypeOK ==
    /\ storage2Process \in 0..Capacity
    /\ lastLeakTime \in 0..now
    /\ start \in 0..now
    /\ passed \in Nat

LimitersTypeOK == now \in 0..MaxTime /\ TokenTypeOK /\ LeakyTypeOK

NewTokenBucket ==
    /\ tokens = Capacity
    /\ lastRefill = -Age
    /\ first = 0
    /\ granted = 0

NewLeakyBucket ==
    /\ storage2Process = 0
    /\ lastLeakTime = 0
    /\ start = 0
    /\ passed = 0

LimitersInit == now = 0 /\ NewTokenBucket /\ NewLeakyBucket

Tick ==
    /\ now < MaxTime
    /\ now' = now + 1
    /\ \/ UNCHANGED <<start, passed>>
       \/ start' = now + 1 /\ passed' = 0
    /\ UNCHANGED <<tokenBucket, storage2Process, lastLeakTime>>

-----------------------------------------------------------------------------
(* TokenBucket *)

\* Sub from the zero time is the longest duration there is, at any moment.
elapsed == IF lastRefill = -Age THEN Age ELSE now - lastRefill

tmpToken(need) == tokens + Rate * elapsed - need

Clamp(left) == IF left > Capacity THEN Capacity ELSE left

\* The call that allows a request, as the ghosts see it.
Grant(need) ==
    IF lastRefill = -Age
    THEN first' = now /\ UNCHANGED granted
    ELSE granted' = granted + need /\ UNCHANGED first

\* The time of the refill is not noted.
BugTokenAllow(need) ==
    /\ tmpToken(need) >= 0
    /\ tokens' = Clamp(tmpToken(need))
    /\ lastRefill' = IF lastRefill = -Age THEN now ELSE lastRefill
    /\ Grant(need)
    /\ UNCHANGED <<now, leakyBucket>>

\* A refused request changes nothing.
TokenAllow(need) ==
    /\ tmpToken(need) >= 0
    /\ tokens' = Clamp(tmpToken(need))
    /\ lastRefill' = now
    /\ Grant(need)
    /\ UNCHANGED <<now, leakyBucket>>

-----------------------------------------------------------------------------
(* LeakyBucket *)

\* What has leaked is added to what is in store.
tmpStorage2Process(need) == storage2Process + Rate * (now - lastLeakTime) + need

Fits(need) == tmpStorage2Process(need) <= Capacity

\* What is in store is replaced by the request.
BugPut(need) == storage2Process' = need

Put(need) == storage2Process' = tmpStorage2Process(need)

\* A refused request changes nothing, not even lastLeakTime.
LeakyAllow(need) ==
    /\ Fits(need)
    /\ Put(need)
    /\ lastLeakTime' = now
    /\ passed' = passed + need
    /\ UNCHANGED <<now, tokenBucket, start>>

LimitersNext == Tick \/ \E need \in Requests : TokenAllow(need) \/ LeakyAllow(need)

LimitersSpec == LimitersInit /\ [][LimitersNext]_limiterVars

-----------------------------------------------------------------------------
\* In the long run the token bucket gives away no more than its capacity and
\* what has flowed in, except for the first request.
LongRun == granted <= Capacity + Rate * (now - first)

\* In any stretch of time the leaky bucket lets through no more than it holds
\* and what could leak meanwhile.
Smooths == passed <= Capacity + Rate * (now - start)
=============================================================================
