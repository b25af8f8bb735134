------------------------------ MODULE MCHostPort ------------------------------
(***************************************************************************)
(* An instance of HostPort: one namespace with a pod that comes with the   *)
(* rollout of another, and two ports, one of them left by an earlier pod.  *)
(***************************************************************************)
EXTENDS HostPort

CONSTANTS team, http, dns, p1, p2

MCPodNS == [p \in Pods |-> team]

Active(disabled) == [phase |-> "active", disabled |-> disabled]

Drifted == [Desired EXCEPT !.owned = FALSE]

With(a, b) == [x \in Names |-> IF x = http THEN a ELSE b]

(* New, with a port of an earlier pod, or opted out with policies left.    *)
MCInitApis ==
    {[ns |-> [n \in Namespaces |-> Active(t[1])], obj |-> [n \in Namespaces |-> t[2]]] :
        t \in {<<FALSE, With(None, Drifted)>>, <<TRUE, With(Desired, None)>>}}

MCPodSpecs ==
    {[ports |-> {http}, hostNetwork |-> FALSE], [ports |-> {http, dns}, hostNetwork |-> FALSE],
     [ports |-> {dns}, hostNetwork |-> TRUE]}

MCInitPods ==
    {[p \in Pods |-> IF p = p1 THEN o ELSE NoPod] : o \in {NoPod} \cup MCPodSpecs}

DeleteOrDrift == {None, Drifted}
=============================================================================
