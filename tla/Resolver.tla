------------------------------- MODULE Resolver -------------------------------
(***************************************************************************)
(* What a pod's memberships should be, as a pure function of a view of the *)
(* cluster (permits.go, resolver.go, namespace.go).  A view is a record of *)
(* the objects of each kind; the reconcilers compute over their informer   *)
(* cache, the properties over the API server's state.                      *)
(*                                                                         *)
(* Labels are abstract values: a selector is the set of label values it    *)
(* matches (empty when it is nil or malformed).  A reference to a vnet is  *)
(* a pair <<namespace, name>>, with NoNS for an omitted namespace; a join  *)
(* label's suffix is such a pair too.                                      *)
(***************************************************************************)
EXTENDS Direction

CONSTANTS
    Namespaces,   \* namespace names
    NoNS,         \* the empty namespace of a reference
    Names,        \* VirtualNetwork names
    Cluster,      \* the name of the cluster singleton
    NsLabels,     \* values a namespace's labels can have
    PodLabels,    \* values a pod's own labels can have
    Pods,         \* pod names
    PodNS,        \* the namespace of each pod
    Bindings,     \* VirtualNetworkBinding names
    BindingNS,    \* the namespace of each binding
    Excluded      \* --disabled-namespaces

ASSUME NamesAssumption ==
    /\ NoNS \notin Namespaces
    /\ Cluster \in Names
    /\ PodNS \in [Pods -> Namespaces]
    /\ BindingNS \in [Bindings -> Namespaces]
    /\ Excluded \subseteq Namespaces

Vnets      == Namespaces \X Names
ClusterKey == <<NoNS, Cluster>>
Keys       == Vnets \cup {ClusterKey}
Refs       == (Namespaces \cup {NoNS}) \X Names

(* A rule as a user writes it: a reference and a string meant as direction. *)
Values      == Directions \cup {InvalidDirection}
UserRules   == Refs \X Values
Stamps      == [Keys -> BareDirections]
NoStamps    == [k \in Keys |-> "none"]    \* "none" stands for no label

NamespaceObj == [present : BOOLEAN, disabled : BOOLEAN, labels : NsLabels]
VnetObj      == [present : BOOLEAN, all : BOOLEAN, names : SUBSET Namespaces,
                 selector : SUBSET NsLabels]
BindingObj   == [present : BOOLEAN, ref : Refs, selector : SUBSET PodLabels,
                 direction : Values \cup {""}]
PodObj       == [present : BOOLEAN, terminating : BOOLEAN, labels : PodLabels,
                 joins : SUBSET UserRules, stamps : Stamps, resolved : BOOLEAN]

Views == [ns   : [Namespaces -> NamespaceObj],
          vnet : [Vnets -> VnetObj],
          cb   : SUBSET UserRules,                  \* no rules: no baseline
          nb   : [Namespaces -> SUBSET UserRules],
          bind : [Bindings -> BindingObj],
          pod  : [Pods -> PodObj]]

-----------------------------------------------------------------------------
(* Vnet keys.                                                              *)

canonicalVnetKey(ref, podNS) ==
    IF ref[1] # NoNS THEN ref
    ELSE IF ref[2] = Cluster THEN ClusterKey ELSE <<podNS, ref[2]>>

(* A join label's suffix is canonicalized like a reference.                *)
CanonicalSuffix(suffix, scopeNS) == canonicalVnetKey(suffix, scopeNS)

isPrefixedClusterSuffix(suffix) == suffix[1] # NoNS /\ suffix[2] = Cluster

stampedVnetKey(k) == IF k[2] = Cluster THEN ClusterKey ELSE k

-----------------------------------------------------------------------------
(* Permission.                                                             *)

IsManaged(view, n) ==
    view.ns[n].present /\ n \notin Excluded /\ ~view.ns[n].disabled

matchesAllowedNamespaces(view, spec, n) ==
    \/ spec.all
    \/ n \in spec.names
    \/ view.ns[n].present /\ view.ns[n].labels \in spec.selector

(* spec is the vnet object v the caller holds, not necessarily view's.     *)
PermitsForVnet(view, v, spec, n) ==
    n = v[1] \/ matchesAllowedNamespaces(view, spec, n)

Permits(view, k, n) ==
    \/ k = ClusterKey
    \/ /\ k \in Vnets
       /\ view.vnet[k].present
       /\ PermitsForVnet(view, k, view.vnet[k], n)

NamespacesAdmittedBy(view, v, spec) ==
    {n \in Namespaces : spec.present /\ view.ns[n].present
                        /\ PermitsForVnet(view, v, spec, n)}

-----------------------------------------------------------------------------
(* The three tiers.  A rule is a pair <<key, direction>>.                  *)

baselineRules(memberships, podNS) ==
    {<<canonicalVnetKey(m[1], podNS), m[2]>> :
        m \in {q \in memberships : ParseDirection(q[2])}}

clusterBaselineRules(view, podNS) == baselineRules(view.cb, podNS)

namespaceBaselineRules(view, podNS) == baselineRules(view.nb[podNS], podNS)

bindingDirection(b) == IF b.direction = "" THEN "both" ELSE b.direction

bindingRules(view, pod, podNS) ==
    {<<canonicalVnetKey(view.bind[b].ref, podNS), bindingDirection(view.bind[b])>> :
        b \in {c \in Bindings : /\ BindingNS[c] = podNS
                                /\ view.bind[c].present
                                /\ pod.labels \in view.bind[c].selector
                                /\ ParseBareDirection(bindingDirection(view.bind[c]))}}

podLabelRules(pod, podNS) ==
    {<<CanonicalSuffix(j[1], podNS), j[2]>> :
        j \in {q \in pod.joins : /\ ParseBareDirection(q[2])
                                 /\ ~isPrefixedClusterSuffix(q[1])}}

(* Mutant: rules are not filtered by permission.                           *)
filterNothing(view, rules, podNS) == {<<stampedVnetKey(r[1]), r[2]>> : r \in rules}

(* Permission is decided on the full key, identity is the stamped key.     *)
filterPermittedRules(view, rules, podNS) ==
    {<<stampedVnetKey(r[1]), r[2]>> : r \in {q \in rules : Permits(view, q[1], podNS)}}

tierRules(view, s, pod, podNS) ==
    CASE s = ScopeClusterBaseline   -> clusterBaselineRules(view, podNS)
      [] s = ScopeNamespaceBaseline -> namespaceBaselineRules(view, podNS)
      [] OTHER -> bindingRules(view, pod, podNS) \cup podLabelRules(pod, podNS)

(* One layer of buildLayers.                                               *)
Layer(view, s, pod, podNS) ==
    filterPermittedRules(view, tierRules(view, s, pod, podNS), podNS)

(* The directions tier s asks for key k.                                   *)
AskedFor(layers, k) ==
    [s \in Scopes |-> {r[2] : r \in {q \in layers[s] : q[1] = k}}]

(* The stamps Resolve yields for the layers.                               *)
DesiredStamps(layers) ==
    [k \in Keys |-> EffectiveDirection(AskedFor(layers, k))]

(* DesiredLabels: the stamps of pod, in namespace podNS, under view.       *)
DesiredLabels(view, pod, podNS) ==
    DesiredStamps([s \in Scopes |-> Layer(view, s, pod, podNS)])

-----------------------------------------------------------------------------
(* Writing the result.                                                     *)

(* A merge patch against base changes only what new changes of base.       *)
MergePatch(old, base, new) ==
    [old EXCEPT !.stamps = [k \in Keys |-> IF new.stamps[k] # base.stamps[k]
                                           THEN new.stamps[k] ELSE old.stamps[k]],
                !.resolved = IF new.resolved # base.resolved THEN new.resolved ELSE @]

(* Pod p carries the stamps and the marker its reconcile would give it.    *)
Settled(view, p) ==
    LET o == view.pod[p]
        n == PodNS[p]
    IN o.present /\ ~o.terminating /\ view.ns[n].present =>
          IF IsManaged(view, n)
          THEN o.resolved /\ o.stamps = DesiredLabels(view, o, n)
          ELSE ~o.resolved /\ o.stamps = NoStamps

=============================================================================
