----------------------------- MODULE MCAdmission -----------------------------
(***************************************************************************)
(* A small instance of Admission: one pod in m and the vnet h/net, which   *)
(* admits namespaces labelled team.  The pod is yet to be created, or it   *)
(* was resolved while the vnet did not exist and the operator has just     *)
(* started.                                                                *)
(***************************************************************************)
EXTENDS Admission

CONSTANTS h, m, none, net, cluster, team, app, p1

MCNamespaces == {h, m}
MCNames      == {net, cluster}
MCPodNS      == [x \in {p1} |-> m]
NoFunction   == [x \in {} |-> h]

Net == <<h, net>>
JoinNet == {<<Net, "both">>}

NsObj(disabled, labels) == [present |-> TRUE, disabled |-> disabled, labels |-> labels]

NoVnet   == [present |-> FALSE, all |-> FALSE, names |-> {}, selector |-> {}]
TeamVnet == [NoVnet EXCEPT !.present = TRUE, !.selector = {team}]

Absent  == [present |-> FALSE, terminating |-> FALSE, labels |-> app, joins |-> {},
            stamps |-> NoStamps, resolved |-> FALSE]
Waiting == [Absent EXCEPT !.present = TRUE, !.joins = JoinNet, !.resolved = TRUE]

MCInitApis ==
    {[ns |-> [n \in Namespaces |-> NsObj(FALSE, team)],
      vnet |-> [v \in Vnets |-> IF v = Net THEN TeamVnet ELSE NoVnet],
      cb |-> {}, nb |-> [n \in Namespaces |-> {}],
      bind |-> [x \in Bindings |-> x],
      pod |-> [x \in Pods |-> pod]] : pod \in {Absent, Waiting}}

MCNsValues   == [n \in Namespaces |-> IF n = m THEN {NsObj(TRUE, team)} ELSE {}]
MCVnetValues == [v \in Vnets |-> IF v = Net THEN {NoVnet} ELSE {}]
Nothing      == {}
NoBaselines  == [n \in Namespaces |-> {}]

(* Honest joining and leaving, a stamp for a vnet that never exists, and a *)
(* stamp taken away.                                                       *)
MCRequests ==
    [labels : {app}, joins : {{}, JoinNet}, forged : {{}}]
    \cup [labels : {app}, joins : {JoinNet},
          forged : {{<<<<m, net>>, "both">>}, {<<Net, "none">>}}]
=============================================================================
