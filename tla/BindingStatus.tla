----------------------------- MODULE BindingStatus -----------------------------
(***************************************************************************)
(* The binding controller (virtualnetworkbinding_controller.go): it says   *)
(* in a VirtualNetworkBinding's status whether resolution takes the        *)
(* binding into account and which of the pods it selects are members.  It  *)
(* decides this by itself, from the namespaces, the vnet, and the stamps   *)
(* on the pods; resolution is seen from outside, as Restamp.               *)
(***************************************************************************)
EXTENDS Resolver, FiniteSets, Naturals

CONSTANTS
    OperatorNS,        \* the home of the cluster vnet, if configured
    OperatorManaged,   \* the vnets with the operator's managed-by label
    Malformed,         \* in a selector that does not parse; on no pod
    InitApis,          \* the clusters the operator can be started in
    NsValues,          \* what users may make of each namespace
    VnetValues,        \* of each VirtualNetwork
    BindingValues,     \* of each binding
    PodValues,         \* the labels and joins of each pod
    MaxEdits,          \* bound on user edits
    MaxFaults          \* bound on failed calls and operator restarts

NotReady == {"NamespaceExcluded", "InvalidDirection", "VNetMissing", "VNetTerminating",
             "HomeNamespaceExcluded", "VNetNotPermitted", "InvalidSelector"}

(* VNetMissing and VNetNotPermitted are two messages of one reason.        *)
Ready == {"NoPodsMatch", "NoPodsAttached", "PodsAttached"}

(* selected: the number of pods the message gives.  observed:              *)
(* observedGeneration is the binding's generation.                         *)
Status == [reason : NotReady \cup Ready \cup {"Unknown"}, attached : SUBSET Pods,
           selected : 0 .. Cardinality(Pods), observed : BOOLEAN]

NoStatus == [reason |-> "Unknown", attached |-> {}, selected |-> 0, observed |-> FALSE]

(* Users cannot edit the cluster vnet, which the operator opens to all.    *)
ClusterVnet == <<OperatorNS, Cluster>>
VnetObjs(v) == {o \in VnetObj : v = ClusterVnet /\ o.present => o.all}

(* A selector parses or does not.                                          *)
BindingObjs == {o \in BindingObj : Malformed \in o.selector => o.selector = {Malformed}}
PodObjs     == {o \in PodObj : o.labels # Malformed}

(* The views of Resolver with the vnets under deletion and the statuses.   *)
Clusters == [ns     : [Namespaces -> NamespaceObj],
             vnet   : {f \in [Vnets -> VnetObj] : \A v \in Vnets : f[v] \in VnetObjs(v)},
             dying  : SUBSET Vnets,
             cb     : {{}},
             nb     : {[n \in Namespaces |-> {}]},
             bind   : [Bindings -> BindingObjs],
             pod    : [Pods -> PodObjs],
             status : [Bindings -> Status]]

ASSUME BindingsAssumption ==
    /\ OperatorNS \in Namespaces \cup {NoNS}
    /\ OperatorManaged \subseteq Vnets
    /\ Malformed \in PodLabels
    /\ IsFiniteSet(Pods)
    /\ InitApis \subseteq Clusters
    /\ NsValues \in [Namespaces -> SUBSET NamespaceObj]
    /\ \A v \in Vnets : VnetValues[v] \subseteq VnetObjs(v)
    /\ BindingValues \in [Bindings -> SUBSET BindingObjs]
    /\ PodValues \in [Pods -> SUBSET PodObjs]
    /\ MaxEdits \in Nat /\ MaxFaults \in Nat

VARIABLES
    api,     \* the objects as the API server stores them
    cache,   \* the informers' copies
    behind,  \* the objects with versions the cache has not seen
    queue,   \* the workqueue: bindings to reconcile
    job,     \* the reconcile in progress
    edits,   \* user edits so far
    faults   \* failures so far

vars == <<api, cache, behind, queue, job, edits, faults>>

Objects == ({"ns"} \X Namespaces) \cup ({"vnet"} \X Vnets)
              \cup ({"bind"} \X Bindings) \cup ({"pod"} \X Pods)

Idle == [pc |-> "idle"]

Work ==
    [pc     : {"target", "pods", "write"}, bind : Bindings,
     latest : BOOLEAN,       \* the version read is still the API server's
     spec   : BindingObjs,   \* the binding as read
     stored : Status,        \* its status as read
     new    : Status]

Jobs == {Idle} \cup Work

-----------------------------------------------------------------------------
(* What a binding refers to, and the watches.                              *)

(* Mutant: an omitted namespace is always the binding's own.               *)
bindingTargetLocal(b, o) == IF o.ref[1] # NoNS THEN o.ref ELSE <<BindingNS[b], o.ref[2]>>

bindingTarget(b, o) ==
    IF o.ref[1] # NoNS THEN o.ref
    ELSE <<IF o.ref[2] = Cluster THEN OperatorNS ELSE BindingNS[b], o.ref[2]>>

InCache == {b \in Bindings : cache.bind[b].present}

bindingsInNamespaceOf(p) == {b \in InCache : BindingNS[b] = PodNS[p]}

(* Mutant: the namespace of the target is not watched.                     *)
nsToOwnBindings(n) == {b \in InCache : BindingNS[b] = n}

nsToBindings(n) ==
    {b \in InCache : BindingNS[b] = n \/ bindingTarget(b, cache.bind[b])[1] = n}

vnetToBindings(v) == {b \in InCache : bindingTarget(b, cache.bind[b]) = v}

Seen(x) ==
    /\ x \in behind /\ behind' = behind \ {x}
    /\ UNCHANGED <<api, job, edits, faults>>

(* The mappings read the binding cache; a binding that arrives later       *)
(* enqueues itself.                                                        *)
DeliverNamespace(n) ==
    /\ Seen(<<"ns", n>>)
    /\ cache' = [cache EXCEPT !.ns[n] = api.ns[n]]
    /\ queue' = queue \cup nsToBindings(n)

DeliverVnet(v) ==
    /\ Seen(<<"vnet", v>>)
    /\ cache' = [cache EXCEPT !.vnet[v] = api.vnet[v],
                              !.dying = (@ \ {v}) \cup (api.dying \cap {v})]
    /\ queue' = queue \cup vnetToBindings(v)

(* Pod events are not filtered.                                            *)
DeliverPod(p) ==
    /\ Seen(<<"pod", p>>)
    /\ cache' = [cache EXCEPT !.pod[p] = api.pod[p]]
    /\ queue' = queue \cup bindingsInNamespaceOf(p)

DeliverBinding(b) ==
    /\ Seen(<<"bind", b>>)
    /\ cache' = [cache EXCEPT !.bind[b] = api.bind[b], !.status[b] = api.status[b]]
    /\ queue' = queue \cup {b}

Deliver ==
    \/ \E b \in Bindings : DeliverBinding(b)
    \/ \E p \in Pods : DeliverPod(p)
    \/ \E v \in Vnets : DeliverVnet(v)
    \/ \E n \in Namespaces : DeliverNamespace(n)

StartQueue(view) == {b \in Bindings : view.bind[b].present}

Init ==
    /\ api \in InitApis
    /\ cache = api /\ behind = {}
    /\ queue = StartQueue(api) /\ job = Idle
    /\ edits = 0 /\ faults = 0

-----------------------------------------------------------------------------
(* The API server's other users, and resolution.                           *)

Edit(x) ==
    /\ edits < MaxEdits /\ edits' = edits + 1
    /\ api' # api /\ behind' = behind \cup {x}
    /\ UNCHANGED <<cache, queue, faults>>

EditNamespace(n) ==
    /\ \E o \in NsValues[n] : api' = [api EXCEPT !.ns[n] = o]
    /\ Edit(<<"ns", n>>) /\ UNCHANGED job

(* A vnet on which somebody has put a finalizer is deleted in two steps.   *)
EditVnet(v) ==
    /\ \/ \E o \in VnetValues[v] : /\ o.present => v \notin api.dying
                                   /\ api' = [api EXCEPT !.vnet[v] = o, !.dying = @ \ {v}]
       \/ api.vnet[v].present /\ api' = [api EXCEPT !.dying = @ \cup {v}]
    /\ Edit(<<"vnet", v>>) /\ UNCHANGED job

(* A change of the spec makes a generation the status has not observed.    *)
EditBinding(b) ==
    /\ \E o \in BindingValues[b] :
          /\ o # api.bind[b]
          /\ api' = [api EXCEPT !.bind[b] = o,
                                !.status[b] = IF o.present THEN [@ EXCEPT !.observed = FALSE]
                                              ELSE NoStatus]
    /\ job' = IF job # Idle /\ job.bind = b THEN [job EXCEPT !.latest = FALSE] ELSE job
    /\ Edit(<<"bind", b>>)

EditPod(p) ==
    /\ \E o \in PodValues[p] :
          api' = [api EXCEPT !.pod[p] = IF @.present /\ o.present
                                        THEN [@ EXCEPT !.labels = o.labels, !.joins = o.joins]
                                        ELSE o]
    /\ Edit(<<"pod", p>>) /\ UNCHANGED job

Users ==
    \/ \E n \in Namespaces : EditNamespace(n)
    \/ \E v \in Vnets : EditVnet(v)
    \/ \E b \in Bindings : EditBinding(b)
    \/ \E p \in Pods : EditPod(p)

(* The resolution controller patches pod p with what its caches call for.  *)
Restamp(p) ==
    LET o == cache.pod[p]
        n == PodNS[p]
        stamps == IF IsManaged(cache, n) THEN DesiredLabels(cache, o, n) ELSE NoStamps
    IN /\ UNCHANGED <<cache, queue, job, edits, faults>>
       /\ api.pod[p].present /\ o.present /\ ~Settled(cache, p)
       /\ \E new \in {[o EXCEPT !.stamps = stamps, !.resolved = IsManaged(cache, n)]} :
             api' = [api EXCEPT !.pod[p] = MergePatch(@, o, new)]
       /\ api' # api
       /\ behind' = behind \cup {<<"pod", p>>}

-----------------------------------------------------------------------------
(* Reconcile.                                                              *)

Done == job' = Idle /\ UNCHANGED queue

Fail == job' = Idle /\ queue' = queue \cup {job.bind}

Reads == UNCHANGED <<api, cache, behind, edits, faults>>

Begin(b) ==
    /\ job = Idle /\ b \in queue
    /\ queue' = queue \ {b}
    /\ job' = IF ~cache.bind[b].present THEN Idle
              ELSE [pc |-> "target", bind |-> b, latest |-> <<"bind", b>> \notin behind,
                    spec |-> cache.bind[b], stored |-> cache.status[b], new |-> NoStatus]
    /\ Reads

(* Mutant: the home namespace is not looked at.                            *)
homeIgnored(view, n, v) == FALSE

(* The vnet reconciler does not serve the vnets of an unmanaged home.      *)
homeExcluded(view, n, v) ==
    v \notin OperatorManaged /\ v[1] # n /\ ~IsManaged(view, v[1])

(* The first of the checks that the binding fails, in the code's order.    *)
verdict(view, b, o) ==
    LET n == BindingNS[b]
        v == bindingTarget(b, o)
    IN IF ~IsManaged(view, n) THEN "NamespaceExcluded"
       ELSE IF ~ParseBareDirection(bindingDirection(o)) THEN "InvalidDirection"
       ELSE IF v \notin Vnets \/ ~view.vnet[v].present THEN "VNetMissing"
       ELSE IF v \in view.dying THEN "VNetTerminating"
       ELSE IF homeExcluded(view, n, v) THEN "HomeNamespaceExcluded"
       ELSE IF ~PermitsForVnet(view, v, view.vnet[v], n) THEN "VNetNotPermitted"
       ELSE IF Malformed \in o.selector THEN "InvalidSelector"
       ELSE "Accepted"

notReady(r) == [reason |-> r, attached |-> {}, selected |-> 0, observed |-> TRUE]

CheckTarget ==
    /\ job.pc = "target"
    /\ \E r \in {verdict(cache, job.bind, job.spec)} :
          job' = IF r = "Accepted" THEN [job EXCEPT !.pc = "pods"]
                 ELSE [job EXCEPT !.pc = "write", !.new = notReady(r)]
    /\ UNCHANGED queue /\ Reads

isStampedMember(o, v) == o.resolved /\ o.stamps[stampedVnetKey(v)] # "none"

selects(view, b, o) ==
    {p \in Pods : /\ view.pod[p].present /\ PodNS[p] = BindingNS[b]
                  /\ view.pod[p].labels \in o.selector}

accepted(view, b, o) ==
    LET selected == selects(view, b, o)
        attached == {p \in selected : isStampedMember(view.pod[p], bindingTarget(b, o))}
    IN [reason   |-> IF selected = {} THEN "NoPodsMatch"
                     ELSE IF attached = {} THEN "NoPodsAttached" ELSE "PodsAttached",
        attached |-> attached, selected |-> Cardinality(selected), observed |-> TRUE]

ListPods ==
    /\ job.pc = "pods"
    /\ job' = [job EXCEPT !.pc = "write", !.new = accepted(cache, job.bind, job.spec)]
    /\ UNCHANGED queue /\ Reads

(* Mutant: the status is written whether it differs or not.                *)
noopNever(stored, new) == FALSE

noop(stored, new) == stored = new

(* Nothing is written when nothing changed; an update of a version that is *)
(* not the latest fails with a conflict.                                   *)
writeStatus ==
    /\ job.pc = "write"
    /\ IF ~noop(job.stored, job.new) /\ job.latest
       THEN /\ api' = [api EXCEPT !.status[job.bind] = job.new]
            /\ behind' = behind \cup {<<"bind", job.bind>>}
       ELSE UNCHANGED <<api, behind>>
    /\ IF noop(job.stored, job.new) \/ job.latest THEN Done ELSE Fail
    /\ UNCHANGED <<cache, edits, faults>>

Reconcile == (\E b \in Bindings : Begin(b)) \/ CheckTarget \/ ListPods \/ writeStatus

Fault == faults < MaxFaults /\ faults' = faults + 1 /\ UNCHANGED <<api, edits>>

(* A read or the update fails.                                             *)
CallFails == job # Idle /\ Fault /\ Fail /\ UNCHANGED <<cache, behind>>

Restart ==
    /\ Fault
    /\ cache' = api /\ behind' = {}
    /\ queue' = StartQueue(api) /\ job' = Idle

Next ==
    \/ Users \/ Deliver \/ Reconcile \/ CallFails \/ Restart
    \/ \E p \in Pods : Restamp(p)

Spec == Init /\ [][Next]_vars

(* The informers' and the worker's goroutines run; nothing is assumed of   *)
(* resolution.                                                             *)
FairSpec == Spec /\ WF_vars(Deliver) /\ WF_vars(Reconcile)

-----------------------------------------------------------------------------
(* Properties.                                                             *)

(* Every variable has its type.                                            *)
TypeOK ==
    /\ api \in Clusters /\ cache \in Clusters /\ behind \subseteq Objects
    /\ queue \subseteq Bindings /\ job \in Jobs
    /\ edits \in 0 .. MaxEdits /\ faults \in 0 .. MaxFaults

(* The objects b's status speaks of.                                       *)
Concerning(b) ==
    LET v == bindingTarget(b, api.bind[b])
    IN {<<"bind", b>>, <<"ns", BindingNS[b]>>, <<"ns", v[1]>>, <<"vnet", v>>}
          \cup {<<"pod", p>> : p \in {q \in Pods : PodNS[q] = BindingNS[b]}}

Attended(b) ==
    \/ b \in queue
    \/ job # Idle /\ job.bind = b
    \/ behind \cap Concerning(b) # {}

(* The vnet b refers to, as resolution understands it.                     *)
Target(b) ==
    LET k == canonicalVnetKey(api.bind[b].ref, BindingNS[b])
    IN IF k = ClusterKey THEN ClusterVnet ELSE k

(* The vnet controller has v's policies.                                   *)
Served(v) ==
    /\ v \in Vnets /\ api.vnet[v].present /\ v \notin api.dying
    /\ v \in OperatorManaged \/ IsManaged(api, v[1])

(* discoverMembers of the vnet controller.                                 *)
MembersOf(v) ==
    {p \in Pods : LET o == api.pod[p]
                  IN /\ Served(v) /\ o.present /\ o.resolved
                     /\ o.stamps[stampedVnetKey(v)] # "none"
                     /\ IsManaged(api, PodNS[p])
                     /\ PermitsForVnet(api, v, api.vnet[v], PodNS[p])}

(* docs/reference/api.md: attachedPods lists the selected pods that are    *)
(* members.  "The test mirrors discoverMembers": a status nobody is about  *)
(* to refresh agrees with the vnet controller on who is a member.          *)
AttachedPodsAreMembers ==
    \A b \in Bindings :
        LET members == selects(api, b, api.bind[b]) \cap MembersOf(Target(b))
            status  == api.status[b]
        IN api.bind[b].present /\ ~Attended(b) =>
              /\ status.attached \subseteq members
              /\ status.reason \in Ready => status.attached = members

(* The rules that binding b alone adds to pod p's memberships.             *)
Effect(b, p) ==
    LET only == [api EXCEPT !.bind = [c \in Bindings |->
                    IF c = b THEN @[c] ELSE [@[c] EXCEPT !.present = FALSE]]]
    IN filterPermittedRules(only, bindingRules(only, api.pod[p], PodNS[p]), PodNS[p])

(* The status decides apart from resolution whether a binding counts, and  *)
(* comes to the same result: a Ready binding is a rule of resolution for   *)
(* every pod it selects, and one that is not adds nothing to any pod of a  *)
(* served vnet.                                                            *)
ReadyMeansInEffect ==
    \A b \in Bindings :
        api.bind[b].present /\ ~Attended(b) =>
            /\ api.status[b].reason \in Ready =>
                  \A p \in selects(api, b, api.bind[b]) :
                      Effect(b, p) = {<<stampedVnetKey(Target(b)), bindingDirection(api.bind[b])>>}
            /\ api.status[b].reason \in NotReady /\ Served(Target(b)) /\ IsManaged(api, BindingNS[b]) =>
                  \A p \in Pods : PodNS[p] = BindingNS[b] => Effect(b, p) = {}

(* The status binding b should have under view.                            *)
Wanted(view, b, o) ==
    IF verdict(view, b, o) = "Accepted" THEN accepted(view, b, o)
    ELSE notReady(verdict(view, b, o))

Right(b) == api.bind[b].present => api.status[b] = Wanted(api, b, api.bind[b])

Level == INSTANCE LevelTriggered
    WITH Keys     <- Bindings,
         right    <- {b \in Bindings : Right(b)},
         attended <- {b \in Bindings : Attended(b)}

(* ADR 0044: the binding controller is level-triggered.  A status that no  *)
(* reconcile and no event of an object it speaks of is due for is what the *)
(* API server's state calls for, whatever order changes of namespaces,     *)
(* vnets, stamps and the binding arrive in and whichever version an update *)
(* conflicts with.                                                         *)
IsLevelTriggered == Level!Safety

(* Its own updates, which are events of the binding, and its conflicts do  *)
(* not keep the controller busy.                                           *)
ComesToRest == Level!ComesToRest

=============================================================================
