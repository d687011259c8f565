---------------------------- MODULE MCPandaExport ----------------------------
(***************************************************************************)
(* The two halves of the process share nothing but its end, so that a      *)
(* behaviour is one of either half.  In the second one only the service's  *)
(* own configuration is edited; the common one names the broker l.         *)
(***************************************************************************)
EXTENDS PandaExport, HolmesManager

CONSTANTS k, l, c1, c2, p, q

VARIABLE half

Init ==
    /\ half \in {"profiler", "counter"}
    /\ ExportInit /\ HolmesInit
    /\ half = "profiler" => configs = [which \in {"own", "common"} |-> k]
    /\ half = "counter" => published = "missing" /\ configs["common"] = l

Next ==
    \/ half = "profiler" /\ HolmesNext /\ UNCHANGED exportVars
    \/ half = "counter" /\ ExportNext /\ configs'["common"] = l /\ UNCHANGED holmesVars

Spec ==
    /\ Init /\ [][Next /\ UNCHANGED half]_<<exportVars, holmesVars, half>>
    /\ half = "counter" => ExportFairness
=============================================================================
