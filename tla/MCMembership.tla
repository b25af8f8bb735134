---------------------------- MODULE MCMembership ----------------------------
(***************************************************************************)
(* Small instances of Membership: the vnet h/net, a pod pa in its home and *)
(* a pod pb in a member namespace m; the operator's own namespace op,      *)
(* which the operator excludes, is the home of the cluster vnet.           *)
(***************************************************************************)
EXTENDS Membership

CONSTANTS h, m, op, none, net, cluster, plain, team, app, pa, pb

ThreeNamespaces == {h, m, op}
MCNames      == {net, cluster}
MCPodNS      == [x \in Pods |-> IF x = pa THEN h ELSE m]
NoFunction   == [x \in {} |-> h]

Net        == <<h, net>>
ClusterNet == <<op, cluster>>

MCLabelled == {ClusterNet} \cap Vnets

NsObj(disabled, labels) == [present |-> TRUE, disabled |-> disabled, labels |-> labels]

Deleted == [NsObj(FALSE, team) EXCEPT !.present = FALSE]

NoVnet    == [present |-> FALSE, all |-> FALSE, names |-> {}, selector |-> {}]
AllVnet   == [NoVnet EXCEPT !.present = TRUE, !.all = TRUE]
HomeVnet  == [NoVnet EXCEPT !.present = TRUE]
TeamVnet  == [NoVnet EXCEPT !.present = TRUE, !.selector = {team}]

JoinNet(d)  == {<<Net, d>>}

Joining(J) == [present |-> TRUE, terminating |-> FALSE, labels |-> app, joins |-> J,
               stamps |-> NoStamps, resolved |-> FALSE]
Stamped(J, k) == [Joining(J) EXCEPT !.stamps[k] = "both", !.resolved = TRUE]

Fresh(homes, vnet, pod) ==
    [ns     |-> [n \in Namespaces |->
                    [NsObj(FALSE, team) EXCEPT !.present = (n \in homes)]],
     dying  |-> {},
     vnet   |-> vnet,
     cb     |-> {},
     nb     |-> [n \in Namespaces |-> {}],
     bind   |-> [x \in Bindings |-> x],
     pod    |-> pod,
     pol    |-> [v \in Vnets |-> [n \in Namespaces |-> NoPolicy]],
     status |-> [v \in Vnets |-> NoStatus]]

(* The policies and the status an earlier run of the operator left of v.   *)
Serving(c, v, members) ==
    [c EXCEPT !.pol[v] = Generate(members),
              !.status[v] = [ready |-> "PoliciesGenerated", invalid |-> {},
                             members |-> DOMAIN members,
                             refs |-> PoliciesIn(Generate(members)), observed |-> TRUE]]

OnlyNet(x)  == [v \in Vnets |-> IF v = Net THEN x ELSE NoVnet]
NetEdits(S) == [v \in Vnets |-> IF v = Net THEN S ELSE {}]

(* h/net admits namespaces labelled team; both pods are in it.             *)
TeamApi == Serving(Fresh({h, m}, OnlyNet(TeamVnet), [x \in Pods |-> Stamped(JoinNet("both"), Net)]),
                   Net, [x \in Pods |-> "both"])

(* m is being torn down; the pods are gone, not the policies.  m may come  *)
(* back.                                                                   *)
TeardownApi == [TeamApi EXCEPT !.dying = {m},
                               !.pod = [x \in Pods |-> [TeamApi.pod[x] EXCEPT !.present = FALSE]]]

(* The cluster vnet: pods join by its bare name, from h and from m; its    *)
(* home is excluded and it is served nevertheless.  The pod of m is yet to *)
(* come and may ask for an invalid direction.                              *)
JoinCluster(d) == {<<ClusterKey, d>>}
ClusterApis ==
    {Fresh({h, m, op}, [v \in Vnets |-> IF v = ClusterNet THEN AllVnet ELSE NoVnet],
           [x \in Pods |-> [Joining(JoinCluster("egress")) EXCEPT !.present = (x = pa)]])}

(* A pod of m joins h/net with an invalid direction.                       *)
InvalidApi == Fresh({h, m}, OnlyNet(TeamVnet),
                    [x \in Pods |-> [Joining(JoinNet(InvalidDirection)) EXCEPT !.present = (x = pb)]])

(* Either vnet, one edit of any kind, and calls that fail.                 *)
FaultApis  == {TeamApi, TeardownApi, InvalidApi} \cup ClusterApis
FaultNs    == [x \in Namespaces |-> CASE x = h -> {NsObj(TRUE, team)}
                                     [] x = m -> {NsObj(FALSE, plain), Deleted}
                                     [] OTHER -> {}]
FaultVnets == NetEdits({NoVnet, HomeVnet})
FaultPods  == [x \in Pods |-> IF x = pa THEN {{}}
                              ELSE {JoinCluster("both"), JoinCluster(InvalidDirection)}]

Damage   == {NoPolicy, [present |-> TRUE, peers |-> {}]}
=============================================================================
