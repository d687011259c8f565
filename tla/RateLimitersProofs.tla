-------------------------- MODULE RateLimitersProofs --------------------------
(***************************************************************************)
(* Theorems about RateLimiters, for any rate, capacity and requests.       *)
(***************************************************************************)
EXTENDS RateLimiters, TLAPS

\* What is left and what was given away since the first request came from the
\* capacity and from what has flowed in up to the last refill.
Balance == lastRefill # -Age =>
    /\ first <= lastRefill
    /\ granted + tokens <= Capacity + Rate * (lastRefill - first)

\* Before the first request nothing has been given away.
Fresh == lastRefill = -Age => granted = 0 /\ first = 0

TokenInv == TokenTypeOK /\ Balance /\ Fresh

\* Whatever was let through since the start of the window is in store.
LeakyInv == LeakyTypeOK /\ passed <= storage2Process

IInv == now \in 0..MaxTime /\ TokenInv /\ LeakyInv

\* Inflow adds up over adjoining stretches of time.
LEMMA Inflow ==
  ASSUME NEW t1 \in Int, NEW t2 \in Int, NEW t3 \in Int
  PROVE  Rate * (t3 - t1) = Rate * (t3 - t2) + Rate * (t2 - t1)
BY RateLimitersAssumption

\* No time brings no loss.
LEMMA InflowPositive ==
  ASSUME NEW t1 \in Int, NEW t2 \in Int, t1 <= t2
  PROVE  Rate * (t2 - t1) \in Nat
BY RateLimitersAssumption

\* New buckets satisfy the inductive invariant.
LEMMA InitIInv == LimitersInit => IInv
<1> USE RateLimitersAssumption
<1>1. NewTokenBucket /\ now = 0 => TokenInv
  BY DEF NewTokenBucket, TokenInv, TokenTypeOK, Balance, Fresh
<1>2. NewLeakyBucket /\ now = 0 => LeakyInv
  BY DEF NewLeakyBucket, LeakyInv, LeakyTypeOK
<1>. QED
  BY <1>1, <1>2 DEF LimitersInit, IInv

\* Time passes, and the window may start anew.
LEMMA TickIInv == IInv /\ Tick => IInv'
<1> SUFFICES ASSUME IInv, Tick PROVE IInv'
  OBVIOUS
<1> USE RateLimitersAssumption
<1>1. now \in Nat /\ now' = now + 1 /\ now' \in 0..MaxTime
  BY DEF IInv, Tick
<1>2. TokenInv'
  BY <1>1 DEF IInv, Tick, tokenBucket, TokenInv, TokenTypeOK, Balance, Fresh
<1>3. LeakyInv'
  BY <1>1 DEF IInv, Tick, LeakyInv, LeakyTypeOK
<1>. QED
  BY <1>1, <1>2, <1>3 DEF IInv

\* The token bucket allows a request.
LEMMA TokenAllowIInv ==
  ASSUME IInv, NEW need \in Requests, TokenAllow(need)
  PROVE  TokenInv'
<1> USE RateLimitersAssumption
<1> DEFINE left == tmpToken(need)
           rest == Clamp(left)
<1>0. now' = now /\ now \in Nat /\ TokenTypeOK
  BY DEF TokenAllow, IInv, TokenInv
<1>1. need \in Nat /\ lastRefill \in Int /\ now \in Nat /\ lastRefill <= now
  BY <1>0 DEF TokenTypeOK
<1>2. Rate * (now - lastRefill) \in Nat
  BY <1>1, InflowPositive
<1>3. left \in Nat /\ left = tokens + Rate * elapsed - need
  <2>1. elapsed \in Nat
    BY <1>1 DEF elapsed
  <2>2. Rate * elapsed \in Int
    BY <2>1
  <2>. QED
    BY <1>0, <1>1, <2>2 DEF TokenTypeOK, TokenAllow, tmpToken
<1>4. rest \in Nat /\ rest <= Capacity /\ rest <= left
  BY <1>3 DEF Clamp
<1>5. tokens' = rest /\ lastRefill' = now
  BY DEF TokenAllow
<1> HIDE DEF left, rest
<1>6. TokenTypeOK'
  BY <1>0, <1>1, <1>4, <1>5 DEF TokenTypeOK, TokenAllow, Grant
<1>7. Fresh'
  BY <1>1, <1>5 DEF Fresh
<1>8. Balance'
  <2>1. CASE lastRefill = -Age
    <3>1. first' = now /\ granted' = 0
      BY <2>1 DEF IInv, TokenInv, Fresh, TokenAllow, Grant
    <3>2. Rate * (now - now) = 0 /\ 0 + rest <= Capacity + 0 /\ now <= now
      BY <1>1, <1>4
    <3>. QED
      BY <3>1, <3>2, <1>5 DEF Balance
  <2>2. CASE lastRefill # -Age
    <3> DEFINE before == Rate * (lastRefill - first)
               since == Rate * (now - lastRefill)
    <3>1. first' = first /\ granted' = granted + need
      BY <2>2 DEF TokenAllow, Grant
    <3>2. /\ first \in Int /\ first <= lastRefill /\ first <= now
          /\ granted \in Nat /\ tokens \in Nat
      BY <2>2, <1>0, <1>1 DEF IInv, TokenInv, TokenTypeOK, Balance
    <3>3. Rate * (now - first) = since + before
      BY <3>2, <1>1, Inflow
    <3>4. before \in Nat /\ since \in Nat
      BY <3>2, <1>1, <1>2, InflowPositive
    <3>5. granted + tokens <= Capacity + before /\ left = tokens + since - need
      BY <2>2, <1>3 DEF IInv, TokenInv, Balance, elapsed
    <3> HIDE DEF before, since
    <3>6. granted + need + rest <= Capacity + (since + before)
      BY <3>2, <3>4, <3>5, <1>1, <1>4
    <3>. QED
      BY <3>1, <3>2, <3>3, <3>6, <1>5 DEF Balance
  <2>. QED
    BY <2>1, <2>2
<1>. QED
  BY <1>6, <1>7, <1>8 DEF TokenInv

\* The leaky bucket allows a request that fits.
LEMMA LeakyAllowIInv ==
  ASSUME IInv, NEW need \in Requests, LeakyAllow(need)
  PROVE  LeakyInv'
<1> USE RateLimitersAssumption
<1>1. now \in Nat /\ LeakyTypeOK /\ passed <= storage2Process
  BY DEF IInv, LeakyInv
<1>2. need \in Nat /\ Rate * (now - lastLeakTime) \in Nat
  BY <1>1 DEF LeakyTypeOK
<1>3. storage2Process' = storage2Process + Rate * (now - lastLeakTime) + need
  BY DEF LeakyAllow, Put, tmpStorage2Process
<1>4. storage2Process' <= Capacity
  BY <1>3 DEF LeakyAllow, Fits, tmpStorage2Process
<1>. QED
  BY <1>1, <1>2, <1>3, <1>4 DEF LeakyAllow, LeakyInv, LeakyTypeOK

\* The buckets share nothing but the clock.
LEMMA Apart ==
  ASSUME UNCHANGED now
  PROVE  /\ TokenInv /\ UNCHANGED tokenBucket => TokenInv'
         /\ LeakyInv /\ UNCHANGED leakyBucket => LeakyInv'
<1>1. TokenInv /\ UNCHANGED tokenBucket => TokenInv'
  BY DEF TokenInv, TokenTypeOK, Balance, Fresh, tokenBucket
<1>2. LeakyInv /\ UNCHANGED leakyBucket => LeakyInv'
  BY DEF LeakyInv, LeakyTypeOK, leakyBucket
<1>. QED
  BY <1>1, <1>2

\* The inductive invariant holds whatever is asked for, and when.
LEMMA Invariance == LimitersSpec => []IInv
<1>1. ASSUME IInv, NEW need \in Requests, TokenAllow(need) PROVE IInv'
  <2>1. UNCHANGED <<now, leakyBucket>>
    BY <1>1 DEF TokenAllow
  <2>. QED
    BY <1>1, <2>1, TokenAllowIInv, Apart DEF IInv
<1>2. ASSUME IInv, NEW need \in Requests, LeakyAllow(need) PROVE IInv'
  <2>1. UNCHANGED <<now, tokenBucket>>
    BY <1>2 DEF LeakyAllow
  <2>. QED
    BY <1>2, <2>1, LeakyAllowIInv, Apart DEF IInv
<1>3. IInv /\ UNCHANGED limiterVars => IInv'
  BY Apart DEF limiterVars, IInv
<1>4. IInv /\ [LimitersNext]_limiterVars => IInv'
  BY <1>1, <1>2, <1>3, TickIInv DEF LimitersNext
<1>. QED
  BY <1>4, InitIInv, PTL DEF LimitersSpec

\* Neither bucket ever holds less than nothing or more than its capacity.
THEOREM Typing == LimitersSpec => []LimitersTypeOK
<1>1. IInv => LimitersTypeOK
  BY DEF IInv, TokenInv, LeakyInv, LimitersTypeOK
<1>. QED
  BY <1>1, Invariance, PTL

\* In the long run the token bucket gives away its capacity and what flows in,
\* and no more: only the first request is for nothing.
THEOREM LongRunBounded == LimitersSpec => []LongRun
<1>1. ASSUME IInv PROVE LongRun
  <2>0. now \in Nat /\ TokenTypeOK
    BY <1>1 DEF IInv, TokenInv
  <2>1. CASE lastRefill = -Age
    <3>1. Rate * (now - first) \in Nat
      BY <2>0, InflowPositive DEF TokenTypeOK
    <3>. QED
      BY <1>1, <2>1, <3>1, RateLimitersAssumption DEF IInv, TokenInv, Fresh, LongRun
  <2>2. CASE lastRefill # -Age
    <3> DEFINE before == Rate * (lastRefill - first)
               since == Rate * (now - lastRefill)
    <3>1. first \in Int /\ lastRefill \in Int /\ now \in Int
          /\ first <= lastRefill /\ lastRefill <= now
      BY <1>1, <2>0, <2>2 DEF IInv, TokenInv, TokenTypeOK, Balance
    <3>2. Rate * (now - first) = since + before
      BY <3>1, Inflow
    <3>3. since \in Nat /\ before \in Nat
      BY <3>1, InflowPositive
    <3>4. granted \in Nat /\ tokens \in Nat /\ granted + tokens <= Capacity + before
      BY <1>1, <2>0, <2>2 DEF IInv, TokenInv, TokenTypeOK, Balance
    <3> HIDE DEF before, since
    <3>5. granted <= Capacity + (since + before)
      BY <3>3, <3>4, RateLimitersAssumption
    <3>. QED
      BY <3>2, <3>5 DEF LongRun
  <2>. QED
    BY <2>1, <2>2
<1>. QED
  BY <1>1, Invariance, PTL

\* No stretch of time, whenever it starts, lets more through the leaky bucket
\* than its size and what could leak meanwhile.
THEOREM Smoothing == LimitersSpec => []Smooths
<1>1. ASSUME IInv PROVE Smooths
  <2>1. now \in Nat /\ LeakyTypeOK /\ passed <= storage2Process
    BY <1>1 DEF IInv, LeakyInv
  <2>2. Rate * (now - start) \in Nat
    BY <2>1, RateLimitersAssumption DEF LeakyTypeOK
  <2>. QED
    BY <2>1, <2>2, RateLimitersAssumption DEF LeakyTypeOK, Smooths
<1>. QED
  BY <1>1, Invariance, PTL
=============================================================================
