----------------------------- MODULE MCGrpcCall -----------------------------
(***************************************************************************)
(* Instances of GrpcCall for TLC.                                          *)
(***************************************************************************)
EXTENDS GrpcCall

CONSTANTS p1, p2, c1, c2, h1, h2, s1, s2

TwoNamespaces == {1, 2}
ThreeNamespaces == {1, 2, 3}

\* A caller on each of two pods.  Only p1 subscribes to the configuration.
TwoPods == [g \in Callers \cup Handlers |-> IF g = c2 THEN p2 ELSE p1]

\* Two callers and the callback share the tables of one pod.
OnePod == [g \in Callers \cup Handlers |-> p1]

Reached(all) == [listed |-> all, ready |-> all]

\* Always in one namespace, which may be any.
Moving == [s \in Services |-> { Reached({n}) : n \in Namespaces }]

\* Or in none, or in two.  "default" need not be among them.
Roaming == [s \in Services |-> Moving[s] \cup { Reached({}), Reached({1, 3}) }]

\* Besides, listed in one where it is not reachable.
Anywhere == [s \in Services |->
    Roaming[s] \cup { [listed |-> {1, 2}, ready |-> {1}] }]

\* s1 may besides be listed where it is not reachable.
HalfwayS1 == [s \in Services |->
    Moving[s] \cup IF s = s1 THEN { [listed |-> {1}, ready |-> {}] } ELSE {}]
=============================================================================
