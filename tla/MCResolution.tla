---------------------------- MODULE MCResolution ----------------------------
(***************************************************************************)
(* Small instances of Resolution: a home namespace h and a member          *)
(* namespace m, the vnet h/net and the cluster vnet, and a pod of m.       *)
(***************************************************************************)
EXTENDS Resolution

CONSTANTS h, m, none, net, cluster, plain, team, app, other, p1, b1

MCNamespaces == {h, m}
MCNames      == {net, cluster}
MCNsLabels   == {plain, team}
MCPodLabels  == {app, other}
OnePod       == [x \in {p1} |-> m]
MCBindingNS  == [x \in {b1} |-> m]

Net     == <<h, net>>
NetRule(d)     == <<Net, d>>
ClusterRule(d) == <<<<none, cluster>>, d>>

NsObj(disabled, labels) == [present |-> TRUE, disabled |-> disabled, labels |-> labels]

NoVnet          == [present |-> FALSE, all |-> FALSE, names |-> {}, selector |-> {}]
VnetNamed(S)    == [NoVnet EXCEPT !.present = TRUE, !.names = S]
VnetSelected(S) == [NoVnet EXCEPT !.present = TRUE, !.selector = S]

NoBinding == [present |-> FALSE, ref |-> Net, selector |-> {}, direction |-> ""]
BindNet(S, d) == [present |-> TRUE, ref |-> Net, selector |-> S, direction |-> d]

NoPod(l) == [present |-> FALSE, terminating |-> FALSE, labels |-> l, joins |-> {},
             stamps |-> NoStamps, resolved |-> FALSE]
PodJoining(l, J) == [NoPod(l) EXCEPT !.present = TRUE, !.joins = J]

Cluster0(ns, vnet, cb, nb, bind, pod) ==
    [ns |-> ns, vnet |-> vnet, cb |-> cb, nb |-> nb, bind |-> bind, pod |-> pod]

NetOnly(o) == [v \in Vnets |-> IF v = Net THEN o ELSE NoVnet]

OnlyM(S)   == [n \in Namespaces |-> IF n = m THEN S ELSE {}]
OnlyNet(S) == [v \in Vnets |-> IF v = Net THEN S ELSE {}]
NoBaselines == [n \in Namespaces |-> {}]

Gone == [NsObj(FALSE, team) EXCEPT !.present = FALSE]

(* A pod in m joins h/net, which admits namespaces labelled team; or a     *)
(* binding brings it there, while a baseline speaks about the cluster vnet;*)
(* or it has yet to be created.                                            *)
MCInitApis ==
    {Cluster0([n \in Namespaces |-> NsObj(FALSE, team)],
              NetOnly(VnetSelected({team})), {}, NoBaselines,
              [x \in Bindings |-> NoBinding],
              [x \in Pods |-> PodJoining(app, {NetRule("both")})]),
     Cluster0([n \in Namespaces |-> NsObj(FALSE, plain)],
              NetOnly(VnetNamed({m})), {ClusterRule("default-both")},
              NoBaselines,
              [x \in Bindings |-> BindNet({app}, "")],
              [x \in Pods |-> PodJoining(app, {})]),
     Cluster0([n \in Namespaces |-> NsObj(FALSE, team)],
              NetOnly(VnetSelected({team})), {}, NoBaselines,
              [x \in Bindings |-> BindNet({app}, "")],
              [x \in Pods |-> NoPod(app)])}

(* What becomes of the namespace, the vnet, the baselines, the binding and *)
(* the pod.                                                                *)
MCNsValues       == OnlyM({NsObj(FALSE, plain), NsObj(TRUE, team), Gone})
MCVnetValues     == OnlyNet({NoVnet, VnetSelected({team})})
MCClusterBaselineValues == {{ClusterRule("default-both"), NetRule("ingress")}}
MCBaselineValues == OnlyM({{ClusterRule("none"), NetRule("default-both")}})
MCBindingValues  == {NoBinding, BindNet({app}, "egress")}
MCPodValues      == {[labels |-> other, joins |-> {NetRule("ingress")}],
                     [labels |-> app, joins |-> {ClusterRule("none")}]}

=============================================================================
