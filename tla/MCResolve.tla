------------------------------ MODULE MCResolve ------------------------------
(* Resolve on every input of a small instance: for v1 a cluster baseline   *)
(* with at most one rule, a namespace baseline with up to two and a pod    *)
(* tier with up to three; v2 is asked for by the lower two tiers.          *)
EXTENDS Resolve, FiniteSets

CONSTANTS v1, v2

MCVnets == {v1, v2}

SeqsUpTo(S, n) == UNION {[1 .. k -> S] : k \in 0 .. n}

BaselineDirections ==
    {"both", "ingress", "none", "default-both", "default-egress"}

MCInputs ==
    {[s \in Scopes |-> [v \in MCVnets |->
        CASE v = v1 /\ s = ScopeClusterBaseline   -> a
          [] v = v1 /\ s = ScopeNamespaceBaseline -> b
          [] v = v1 /\ s = ScopePod               -> c
          [] v = v2 /\ s = ScopeNamespaceBaseline -> <<d>>
          [] v = v2 /\ s = ScopePod               -> <<"ingress">>
          [] OTHER                                -> <<>>]] :
        a \in SeqsUpTo(BaselineDirections, 1),
        b \in SeqsUpTo(BaselineDirections, 2),
        c \in SeqsUpTo(BareDirections, 3),
        d \in {"none", "default-none"}}

=============================================================================
