------------------------- MODULE MCGrpcCallSettings -------------------------
(***************************************************************************)
(* Two small settings of GrpcCall for the properties under fairness: two   *)
(* callers of one service race beside a callback; or one caller calls two  *)
(* services beside two callbacks that may overlap.                         *)
(***************************************************************************)
EXTENDS MCGrpcCall

VARIABLE setting

\* s1 may be listed where it is not reachable.
Racing ==
    \/ MoveService(s1) \/ PodRestart(p1)
    \/ \E c \in Callers : CallStep(c) \/ GetConn(c, s1)
    \/ Callback(h1)

\* Whole tables are published and delivered; services move.
Mixing ==
    /\ \/ Environment
       \/ CallStep(c1) \/ \E s \in Services : GetConn(c1, s)
       \/ \E h \in Handlers : Callback(h)
    /\ Healthy'

SettingInit ==
    /\ Init
    /\ svc[c2] = s1
    /\ \/ setting = "racing" /\ \A s \in Services : listed[s] = {1}
       \/ setting = "mixing" /\ Healthy

SettingNext ==
    /\ IF setting = "racing" THEN Racing ELSE Mixing
    /\ UNCHANGED setting

\* The fairness of FairSpec: h1 may run every callback of the first setting.
SettingSpec ==
    /\ SettingInit /\ [][SettingNext]_<<vars, setting>>
    /\ \A c \in Callers : WF_vars(CallStep(c))
    /\ \A h \in Handlers : WF_vars(Callback(h))
=============================================================================
