----------------------------- MODULE MCPrograms -----------------------------
(***************************************************************************)
(* The programs that stand by themselves, the two publish/subscribe        *)
(* servers and the rate limiters: a behaviour is one of one of them.       *)
(***************************************************************************)
EXTENDS PubSubV2, PubSubV1, RateLimiters

CONSTANTS a, b, c3, t1, t2, m1, m2

VARIABLE program

Programs == /\ Init /\ NewPubSubServer /\ LimitersInit
            /\ program \in {"v1", "v2", "limiters"}

ProgramStep ==
    \/ program = "v2" /\ Next /\ UNCHANGED <<v1Vars, limiterVars>>
    \/ program = "v1" /\ V1Next /\ UNCHANGED <<vars, limiterVars>>
    \/ program = "limiters" /\ LimitersNext /\ UNCHANGED <<vars, v1Vars>>

Running == Programs /\ [][ProgramStep /\ UNCHANGED program]_<<vars, v1Vars, limiterVars, program>>

RunningFair == Running /\ WF_vars(~crashed /\ Broadcast) /\ V1Fairness
=============================================================================
