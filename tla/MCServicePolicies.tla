-------------------------- MODULE MCServicePolicies --------------------------
(***************************************************************************)
(* Instances of ServicePolicies: one Service that is exposed, renamed to a *)
(* named port, or a webhook's, with pods that come and go behind it.       *)
(***************************************************************************)
EXTENDS ServicePolicies

CONSTANTS web, pod, hook, app, other

MCPorts == {443, 8080}

Spec0 == [uid |-> 0, type |-> "exposed", selector |-> app, ports |-> {<<443, 8080>>},
          optOut |-> FALSE, optIn |-> FALSE]

Fixed    == Spec0
ByName   == [Spec0 EXCEPT !.ports = {<<443, Named>>}]
Internal == [ByName EXCEPT !.type = "internal", !.optIn = TRUE]

MCServiceEdits == {ByName, [Internal EXCEPT !.optOut = TRUE]}

MCPodEdits == {[label |-> app, port |-> 443]}

MCDiscoveryEdits == {{}}

NoPolicies == [n \in PolicyNames |-> NoPolicy]

Leftover == [NoPolicies EXCEPT ![<<web, "legacy">>] =
                [owner |-> 1, selector |-> app, ports |-> {443}]]

(* The policy of a Service that is gone.                                   *)
Orphan == [NoPolicies EXCEPT ![<<web, "svc">>] =
              [owner |-> 1, selector |-> app, ports |-> {8080}]]

Cluster(o, p, d, pol) ==
    [ns |-> "open", svc |-> [s \in Services |-> o], pod |-> [q \in Pods |-> p],
     disc |-> [e \in Discoveries |-> d], policy |-> pol]

Stored(o) == [o EXCEPT !.uid = 1]

MCInitApis ==
    {Cluster(Stored(Fixed), [label |-> app, port |-> 0], {<<web, 443>>}, Leftover),
     Cluster(Stored(ByName), [label |-> app, port |-> 8080], {<<web, 443>>}, NoPolicies),
     Cluster(Stored(ByName), NoPod, {}, NoPolicies),
     Cluster(Stored(Internal), NoPod, {}, NoPolicies),
     Cluster(ByName, [label |-> app, port |-> 8080], {}, Orphan)}

(* A Service with a numbered port, and a pod that declares no named one.   *)
RenamedApis == {Cluster(Stored(Fixed), [label |-> app, port |-> 0], {}, NoPolicies)}
=============================================================================
