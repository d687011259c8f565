---------------------------- MODULE MCRequestPath ----------------------------
(***************************************************************************)
(* A request, downloads of the file, or what is logged: a behaviour is one *)
(* of one part.                                                            *)
(* Requests that differ only in what their route does not look at are one, *)
(* and the two routes that end in the same calls differ in the header.     *)
(***************************************************************************)
EXTENDS RequestPath, FileDownloads, Redaction

CONSTANTS d1, d2, d3

VARIABLE part

TwoLevels == {"info", "debug"}

Nothing == CHOOSE v \in Values : v.top = "string"

Init ==
    /\ part \in {"request", "files", "log"}
    /\ PathInit /\ FilesInit /\ RedactionInit
    /\ Is("level") \/ request.level = "info"
    /\ request.route \in ByGateway \/ routed
    /\ request.route \in {"hello", "test"} =>
        request.b3 = [trace |-> Is("test"), span |-> TRUE, sampled |-> ""]
    /\ part # "request" => Is("swagger") /\ request.b3 = [trace |-> FALSE, span |-> FALSE, sampled |-> ""]
    /\ part # "files" => file = "absent"
    /\ part # "log" => value = Nothing

Next ==
    \/ part = "request" /\ PathNext /\ UNCHANGED <<fileVars, logVars>>
    \/ part = "files" /\ FilesNext /\ UNCHANGED <<pathVars, logVars>>
    \/ part = "log" /\ doLog /\ UNCHANGED <<pathVars, fileVars>>

Spec ==
    /\ Init /\ [][Next /\ UNCHANGED part]_<<pathVars, fileVars, logVars, part>>
    /\ PathFairness
=============================================================================
