---------------------------- MODULE MCBindingStatus ----------------------------
(***************************************************************************)
(* An instance of BindingStatus: a binding of namespace m refers to h/net  *)
(* or to the cluster vnet, whose home op the operator excludes.  It        *)
(* selects two pods; the label of one of them keeps it out of h/net.       *)
(***************************************************************************)
EXTENDS BindingStatus

CONSTANTS h, m, op, net, cluster, plain, team, app, other, pa, pb, b

MCNames     == {net, cluster}
MCPodNS     == [x \in Pods |-> m]
MCBindingNS == [x \in Bindings |-> m]

Net        == <<h, net>>
ClusterNet == <<op, cluster>>
MCOperatorManaged == {ClusterNet}

NsObj(disabled, labels) == [present |-> TRUE, disabled |-> disabled, labels |-> labels]

NoVnet   == [present |-> FALSE, all |-> FALSE, names |-> {}, selector |-> {}]
TeamVnet == [NoVnet EXCEPT !.present = TRUE, !.selector = {team}]
AllVnet  == [NoVnet EXCEPT !.present = TRUE, !.all = TRUE]

ToNet     == [present |-> TRUE, ref |-> Net, selector |-> {app}, direction |-> ""]
ToCluster == [ToNet EXCEPT !.ref = ClusterKey, !.direction = "ingress"]

MCPod(l) == [present |-> TRUE, terminating |-> FALSE, labels |-> l, joins |-> {},
             stamps |-> NoStamps, resolved |-> FALSE]
Gone     == [MCPod(other) EXCEPT !.present = FALSE]

Start(o) ==
    [ns     |-> [n \in Namespaces |-> NsObj(FALSE, team)],
     vnet   |-> [v \in Vnets |-> IF v = Net THEN TeamVnet
                                 ELSE IF v = ClusterNet THEN AllVnet ELSE NoVnet],
     dying  |-> {},
     cb     |-> {},
     nb     |-> [n \in Namespaces |-> {}],
     bind   |-> [x \in Bindings |-> o],
     pod    |-> [x \in Pods |-> IF x = pa THEN MCPod(app)
                                ELSE [MCPod(app) EXCEPT !.joins = {<<Net, "none">>}]],
     status |-> [x \in Bindings |-> NoStatus]]

(* The operator knows the pods and has yet to see the binding.             *)
Resolved(c) ==
    [c EXCEPT !.pod = [x \in Pods |->
        [c.pod[x] EXCEPT !.stamps = DesiredLabels(c, c.pod[x], m), !.resolved = TRUE]]]

MCInitApis == {Resolved(Start(ToNet)), Resolved(Start(ToCluster))}

MCNsValues ==
    [n \in Namespaces |-> CASE n = h -> {NsObj(TRUE, team)}
                            [] n = m -> {NsObj(FALSE, plain), NsObj(TRUE, team)}
                            [] OTHER -> {}]
MCVnetValues == [v \in Vnets |-> IF v = Net THEN {NoVnet, TeamVnet}
                                 ELSE IF v = ClusterNet THEN {NoVnet} ELSE {}]
MCBindingValues ==
    [x \in Bindings |-> {[ToNet EXCEPT !.present = FALSE],
                         [ToNet EXCEPT !.direction = InvalidDirection],
                         [ToNet EXCEPT !.selector = {Malformed}], ToCluster}]
MCPodValues ==
    [x \in Pods |-> IF x = pa THEN {Gone, MCPod(other), MCPod(app)} ELSE {}]
=============================================================================
