------------------------------ MODULE Resolution ------------------------------
(***************************************************************************)
(* The resolution controller (resolution_controller.go, stamps.go) between *)
(* the API server and the informer caches it reads.                        *)
(*                                                                         *)
(* Users edit objects on the API server.  Each kind's informer brings the  *)
(* cache up to date at its own pace and afterwards notifies the            *)
(* controller, whose handler maps the event to pods, reading the caches as *)
(* they are by then.  One worker takes a pod from the queue, reads it, its *)
(* namespace and the three tiers one after the other while the caches move *)
(* on, and patches the pod with the difference to the cached copy.         *)
(***************************************************************************)
EXTENDS Resolver, Naturals

CONSTANTS
    InitApis,      \* the clusters the operator can be started in
    NsValues,      \* what users may make of each namespace
    VnetValues,    \* of each VirtualNetwork
    ClusterBaselineValues,  \* of the cluster's baseline
    BaselineValues,\* of each namespace's baseline
    BindingValues, \* of a binding
    PodValues,     \* the labels and joins of a pod
    MaxEdits,      \* bound on user edits
    MaxFaults      \* bound on failed calls and operator restarts

ASSUME ValuesAssumption ==
    /\ InitApis \subseteq Views
    /\ NsValues \in [Namespaces -> SUBSET NamespaceObj]
    /\ VnetValues \in [Vnets -> SUBSET VnetObj]
    /\ ClusterBaselineValues \subseteq SUBSET UserRules
    /\ BaselineValues \in [Namespaces -> SUBSET (SUBSET UserRules)]
    /\ BindingValues \subseteq BindingObj
    /\ PodValues \subseteq [labels : PodLabels, joins : SUBSET UserRules]
    /\ MaxEdits \in Nat /\ MaxFaults \in Nat

VARIABLES
    api,     \* the objects as the API server stores them
    cache,   \* the informers' copies
    notes,   \* cache changes the controller's handlers have not mapped yet
    queue,   \* the workqueue: pods to reconcile
    job,     \* the reconcile in progress
    edits,   \* user edits so far
    faults   \* failures so far

vars == <<api, cache, notes, queue, job, edits, faults>>

VnetNote == [vnet : Vnets, old : VnetObj, new : VnetObj]

Notes == [pod : SUBSET Pods, ns : SUBSET Namespaces, vnet : SUBSET VnetNote,
          cb : BOOLEAN, nb : SUBSET Namespaces, bind : SUBSET Namespaces]

Stages == {"namespace", "cluster", "baseline", "pod", "apply", "strip"}

NoLayers == [s \in Scopes |-> {}]

(* What the worker holds: the pod it read and the layers read so far.      *)
Idle == [pc |-> "idle"]

Jobs == {Idle} \cup [pc : Stages, pod : Pods, base : PodObj,
                     layers : [Scopes -> SUBSET (Keys \X Directions)]]

-----------------------------------------------------------------------------
(* Watches and their mappings.                                             *)

(* Mutant: only the users' labels are watched.                             *)
userLabelsPredicate(old, new) ==
    old.present # new.present \/ old.labels # new.labels \/ old.joins # new.joins

(* Label or annotation change; creations and deletions always pass.  The   *)
(* generation of a pod moves only with its deletion timestamp, and a pod   *)
(* being deleted is skipped.                                               *)
podPredicate(old, new) ==
    \/ old.present # new.present
    \/ old.labels # new.labels \/ old.joins # new.joins
    \/ old.stamps # new.stamps \/ old.resolved # new.resolved

(* Mutant: the watch is only for the kube-vnet/disabled annotation.        *)
annotationPredicate(old, new) ==
    old.present # new.present \/ old.disabled # new.disabled

(* Annotation or label change; creations and deletions always pass.        *)
namespacePredicate(old, new) == old # new

podsIn(S) == {p \in Pods : cache.pod[p].present /\ PodNS[p] \in S}

namespaceToPods(n) == podsIn({n})

clusterBaselineToPods == podsIn(Namespaces)

podsInObjectNamespace(n) == podsIn({n})

vnetToAffectedPods(v, spec) == podsIn(NamespacesAdmittedBy(cache, v, spec))

(* A starting operator lists everything: each object arrives as created.   *)
StartNotes(view) ==
    [pod  |-> {p \in Pods : view.pod[p].present},
     ns   |-> {n \in Namespaces : view.ns[n].present},
     vnet |-> {e \in {[vnet |-> v, old |-> [view.vnet[v] EXCEPT !.present = FALSE],
                       new |-> view.vnet[v]] : v \in Vnets} : e.new.present},
     cb   |-> view.cb # {},
     nb   |-> {n \in Namespaces : view.nb[n] # {}},
     bind |-> {BindingNS[b] : b \in {c \in Bindings : view.bind[c].present}}]

Init ==
    /\ api \in InitApis
    /\ cache = api
    /\ notes = StartNotes(api)
    /\ queue = {}
    /\ job = Idle
    /\ edits = 0
    /\ faults = 0

-----------------------------------------------------------------------------
(* Users.                                                                  *)

Edit(new) ==
    /\ edits < MaxEdits
    /\ edits' = edits + 1
    /\ api' = new
    /\ api' # api
    /\ UNCHANGED <<cache, notes, queue, job, faults>>

(* A namespace goes only once everything in it is gone.                    *)
Emptied(n) ==
    /\ \A p \in Pods : PodNS[p] = n => ~api.pod[p].present
    /\ \A x \in Names : ~api.vnet[<<n, x>>].present
    /\ \A b \in Bindings : BindingNS[b] = n => ~api.bind[b].present
    /\ api.nb[n] = {}

EditNamespace(n) ==
    \E o \in NsValues[n] :
        /\ o.present \/ Emptied(n)
        /\ Edit([api EXCEPT !.ns[n] = o])

EditVnet(v) ==
    \E o \in VnetValues[v] :
        /\ o.present => api.ns[v[1]].present
        /\ Edit([api EXCEPT !.vnet[v] = o])

EditClusterBaseline == \E r \in ClusterBaselineValues : Edit([api EXCEPT !.cb = r])

EditBaseline(n) ==
    /\ api.ns[n].present
    /\ \E r \in BaselineValues[n] : Edit([api EXCEPT !.nb[n] = r])

EditBinding(b) ==
    /\ api.ns[BindingNS[b]].present
    /\ \E o \in BindingValues : Edit([api EXCEPT !.bind[b] = o])

(* A new pod, not stamped by the webhook (its failurePolicy is Ignore).    *)
(* The watch shows the deletion of an earlier pod of that name first.      *)
CreatePod(p) ==
    /\ api.ns[PodNS[p]].present
    /\ ~api.pod[p].present /\ ~cache.pod[p].present
    /\ \E o \in PodValues :
          Edit([api EXCEPT !.pod[p] =
                   [present |-> TRUE, terminating |-> FALSE, labels |-> o.labels,
                    joins |-> o.joins, stamps |-> NoStamps, resolved |-> FALSE]])

RelabelPod(p) ==
    /\ api.pod[p].present
    /\ \E o \in PodValues :
          Edit([api EXCEPT !.pod[p] = [@ EXCEPT !.labels = o.labels, !.joins = o.joins]])

(* Deletion sets the timestamp; the pod is gone once it has shut down.     *)
DeletePod(p) ==
    /\ api.pod[p].present
    /\ \/ Edit([api EXCEPT !.pod[p] = [@ EXCEPT !.terminating = TRUE]])
       \/ /\ api.pod[p].terminating
          /\ Edit([api EXCEPT !.pod[p] = [@ EXCEPT !.present = FALSE]])

UserEdit ==
    \/ \E n \in Namespaces : EditNamespace(n) \/ EditBaseline(n)
    \/ \E v \in Vnets : EditVnet(v)
    \/ EditClusterBaseline
    \/ \E b \in Bindings : EditBinding(b)
    \/ \E p \in Pods : CreatePod(p) \/ RelabelPod(p) \/ DeletePod(p)

-----------------------------------------------------------------------------
(* Informers: a cached object catches up and its watch notes the event.    *)

DeliverPod(p) ==
    /\ cache.pod[p] # api.pod[p]
    /\ cache' = [cache EXCEPT !.pod[p] = api.pod[p]]
    /\ notes' = IF podPredicate(cache.pod[p], api.pod[p])
                THEN [notes EXCEPT !.pod = @ \cup {p}] ELSE notes
    /\ UNCHANGED <<api, queue, job, edits, faults>>

DeliverNamespace(n) ==
    /\ cache.ns[n] # api.ns[n]
    /\ cache' = [cache EXCEPT !.ns[n] = api.ns[n]]
    /\ notes' = IF namespacePredicate(cache.ns[n], api.ns[n])
                THEN [notes EXCEPT !.ns = @ \cup {n}] ELSE notes
    /\ UNCHANGED <<api, queue, job, edits, faults>>

DeliverVnet(v) ==
    /\ cache.vnet[v] # api.vnet[v]
    /\ cache' = [cache EXCEPT !.vnet[v] = api.vnet[v]]
    /\ notes' = [notes EXCEPT !.vnet =
                    @ \cup {[vnet |-> v, old |-> cache.vnet[v], new |-> api.vnet[v]]}]
    /\ UNCHANGED <<api, queue, job, edits, faults>>

DeliverClusterBaseline ==
    /\ cache.cb # api.cb
    /\ cache' = [cache EXCEPT !.cb = api.cb]
    /\ notes' = [notes EXCEPT !.cb = TRUE]
    /\ UNCHANGED <<api, queue, job, edits, faults>>

DeliverBaseline(n) ==
    /\ cache.nb[n] # api.nb[n]
    /\ cache' = [cache EXCEPT !.nb[n] = api.nb[n]]
    /\ notes' = [notes EXCEPT !.nb = @ \cup {n}]
    /\ UNCHANGED <<api, queue, job, edits, faults>>

DeliverBinding(b) ==
    /\ cache.bind[b] # api.bind[b]
    /\ cache' = [cache EXCEPT !.bind[b] = api.bind[b]]
    /\ notes' = [notes EXCEPT !.bind = @ \cup {BindingNS[b]}]
    /\ UNCHANGED <<api, queue, job, edits, faults>>

Deliver ==
    \/ \E p \in Pods : DeliverPod(p)
    \/ \E n \in Namespaces : DeliverNamespace(n) \/ DeliverBaseline(n)
    \/ \E v \in Vnets : DeliverVnet(v)
    \/ DeliverClusterBaseline
    \/ \E b \in Bindings : DeliverBinding(b)

-----------------------------------------------------------------------------
(* Handlers: a noted event is mapped to pods, which join the queue.        *)

HandlePod(p) ==
    /\ p \in notes.pod
    /\ notes' = [notes EXCEPT !.pod = @ \ {p}]
    /\ queue' = queue \cup {p}
    /\ UNCHANGED <<api, cache, job, edits, faults>>

HandleNamespace(n) ==
    /\ n \in notes.ns
    /\ notes' = [notes EXCEPT !.ns = @ \ {n}]
    /\ queue' = queue \cup namespaceToPods(n)
    /\ UNCHANGED <<api, cache, job, edits, faults>>

(* Mutant: only the new revision is mapped.                                *)
HandleVnetNewOnly(e) ==
    /\ e \in notes.vnet
    /\ notes' = [notes EXCEPT !.vnet = @ \ {e}]
    /\ queue' = queue \cup vnetToAffectedPods(e.vnet, e.new)
    /\ UNCHANGED <<api, cache, job, edits, faults>>

(* On update the old and the new revision are mapped.                      *)
HandleVnet(e) ==
    /\ e \in notes.vnet
    /\ notes' = [notes EXCEPT !.vnet = @ \ {e}]
    /\ queue' = queue \cup vnetToAffectedPods(e.vnet, e.old)
                      \cup vnetToAffectedPods(e.vnet, e.new)
    /\ UNCHANGED <<api, cache, job, edits, faults>>

HandleClusterBaseline ==
    /\ notes.cb
    /\ notes' = [notes EXCEPT !.cb = FALSE]
    /\ queue' = queue \cup clusterBaselineToPods
    /\ UNCHANGED <<api, cache, job, edits, faults>>

HandleBaseline(n) ==
    /\ n \in notes.nb
    /\ notes' = [notes EXCEPT !.nb = @ \ {n}]
    /\ queue' = queue \cup podsInObjectNamespace(n)
    /\ UNCHANGED <<api, cache, job, edits, faults>>

HandleBinding(n) ==
    /\ n \in notes.bind
    /\ notes' = [notes EXCEPT !.bind = @ \ {n}]
    /\ queue' = queue \cup podsInObjectNamespace(n)
    /\ UNCHANGED <<api, cache, job, edits, faults>>

Handle ==
    \/ \E p \in Pods : HandlePod(p)
    \/ \E n \in Namespaces : HandleNamespace(n) \/ HandleBaseline(n) \/ HandleBinding(n)
    \/ \E e \in notes.vnet : HandleVnet(e)
    \/ HandleClusterBaseline

-----------------------------------------------------------------------------
(* The worker.  A pod enqueued while its reconcile runs stays queued.      *)

(* Get the pod: a missing or terminating one is left alone.                *)
Begin(p) ==
    /\ job = Idle /\ p \in queue
    /\ queue' = queue \ {p}
    /\ job' = IF cache.pod[p].present /\ ~cache.pod[p].terminating
              THEN [pc |-> "namespace", pod |-> p, base |-> cache.pod[p],
                    layers |-> NoLayers]
              ELSE job
    /\ UNCHANGED <<api, cache, notes, edits, faults>>

(* Get the namespace: a missing one ends the reconcile, an unmanaged one   *)
(* leads to the removal of the stamps.                                     *)
ReadNamespace ==
    /\ job.pc = "namespace"
    /\ LET n == PodNS[job.pod]
       IN job' = IF ~cache.ns[n].present THEN Idle
                 ELSE [job EXCEPT !.pc = IF IsManaged(cache, n) THEN "cluster" ELSE "strip"]
    /\ UNCHANGED <<api, cache, notes, queue, edits, faults>>

(* buildLayers: one tier's rules, filtered by permission.                  *)
ReadTier(pc, s, next) ==
    /\ job.pc = pc
    /\ job' = [job EXCEPT !.pc = next,
                          !.layers[s] = Layer(cache, s, job.base, PodNS[job.pod])]
    /\ UNCHANGED <<api, cache, notes, queue, edits, faults>>

ReadTiers ==
    \/ ReadTier("cluster", ScopeClusterBaseline, "baseline")
    \/ ReadTier("baseline", ScopeNamespaceBaseline, "pod")
    \/ ReadTier("pod", ScopePod, "apply")

(* Patch pod p; a pod that is gone fails the call and the reconcile.       *)
Patch(new) ==
    LET p == job.pod
    IN IF api.pod[p].present
       THEN /\ api' = [api EXCEPT !.pod[p] = MergePatch(@, job.base, new)]
            /\ queue' = queue
       ELSE /\ queue' = queue \cup {p}
            /\ api' = api

(* Mutant: a stamp no longer wanted is emptied instead of removed.         *)
SyncStampsEmptying(pod, desired) ==
    [pod EXCEPT !.stamps = [k \in Keys |-> IF desired[k] = "none" /\ pod.stamps[k] # "none"
                                           THEN "" ELSE desired[k]]]

(* SyncStamps: the pod with the desired stamps.                            *)
SyncStamps(pod, desired) == [pod EXCEPT !.stamps = desired]

(* MarkResolved, and a mutant that forgets to.                             *)
MarkNothing(pod) == pod

MarkResolved(pod) == [pod EXCEPT !.resolved = TRUE]

applyResolution ==
    /\ job.pc = "apply"
    /\ LET patched == SyncStamps(job.base, DesiredStamps(job.layers))
       IN IF patched = job.base /\ job.base.resolved
          THEN UNCHANGED <<api, queue>>
          ELSE Patch(MarkResolved(patched))
    /\ job' = Idle
    /\ UNCHANGED <<cache, notes, edits, faults>>

stripStampedLabels ==
    /\ job.pc = "strip"
    /\ LET patched == [SyncStamps(job.base, NoStamps) EXCEPT !.resolved = FALSE]
       IN IF patched = job.base THEN UNCHANGED <<api, queue>> ELSE Patch(patched)
    /\ job' = Idle
    /\ UNCHANGED <<cache, notes, edits, faults>>

(* A failed read or patch requeues the pod.                                *)
ReconcileError ==
    /\ faults < MaxFaults
    /\ job # Idle
    /\ faults' = faults + 1
    /\ queue' = queue \cup {job.pod}
    /\ job' = Idle
    /\ UNCHANGED <<api, cache, notes, edits>>

(* The operator restarts: everything in memory is gone; the workers start  *)
(* once the caches are synced.                                             *)
Restart ==
    /\ faults < MaxFaults
    /\ faults' = faults + 1
    /\ cache' = api
    /\ notes' = StartNotes(api)
    /\ queue' = {}
    /\ job' = Idle
    /\ UNCHANGED <<api, edits>>

Reconcile ==
    \/ \E p \in Pods : Begin(p)
    \/ ReadNamespace \/ ReadTiers \/ applyResolution \/ stripStampedLabels

Work == Deliver \/ Handle \/ Reconcile

Next == UserEdit \/ Work \/ ReconcileError \/ Restart

Spec == Init /\ [][Next]_vars

(* The informers, the handlers and the worker keep running.                *)
FairSpec == Spec /\ WF_vars(Work)

-----------------------------------------------------------------------------
(* Properties.                                                             *)

(* Every variable has its type.                                            *)
TypeOK ==
    /\ api \in Views
    /\ cache \in Views
    /\ notes \in Notes
    /\ queue \subseteq Pods
    /\ job \in Jobs
    /\ edits \in 0 .. MaxEdits
    /\ faults \in 0 .. MaxFaults

(* Some event that is noted but not handled will enqueue p.                *)
Noted(p) ==
    \/ p \in notes.pod
    \/ /\ cache.pod[p].present
       /\ \/ notes.cb
          \/ PodNS[p] \in notes.ns \cup notes.nb \cup notes.bind
          \/ \E e \in notes.vnet :
                PodNS[p] \in NamespacesAdmittedBy(cache, e.vnet, e.old)
                             \cup NamespacesAdmittedBy(cache, e.vnet, e.new)

Pending(p) == p \in queue \/ Noted(p)

Busy(p) == job # Idle /\ job.pod = p

(* The controller's own write to p has not come back yet.                  *)
Awaited(p) ==
    \/ cache.pod[p].stamps # api.pod[p].stamps
    \/ cache.pod[p].resolved # api.pod[p].resolved

(* No trigger is missed (ADR 0044): a pod nobody is going to look at again *)
(* carries the stamps its cached inputs call for.                          *)
NoMissedTrigger ==
    \A p \in Pods : Pending(p) \/ Busy(p) \/ Awaited(p) \/ Settled(cache, p)

(* A pod never leaves termination, so a cached one is not ahead of the API. *)
TerminationIsFinal ==
    \A p \in Pods : cache.pod[p].present /\ cache.pod[p].terminating
                      => ~api.pod[p].present \/ api.pod[p].terminating

(* The layers the worker has read by stage pc.                             *)
ReadBy(pc) ==
    CASE pc = "baseline" -> {ScopeClusterBaseline}
      [] pc = "pod"      -> {ScopeClusterBaseline, ScopeNamespaceBaseline}
      [] pc = "apply"    -> Scopes
      [] OTHER           -> {}

(* Reads that are not atomic: although the worker reads the pod, the       *)
(* namespace and the tiers at different moments, all it holds is what the  *)
(* caches say now, or the pod is due for another reconcile.                *)
JobIsCurrent ==
    job # Idle =>
        LET p == job.pod
            n == PodNS[p]
        IN /\ job.base.present /\ ~job.base.terminating
           /\ \/ Pending(p)
              \/ /\ [cache.pod[p] EXCEPT !.terminating = FALSE] = job.base
                 /\ job.pc # "namespace" =>
                       /\ cache.ns[n].present
                       /\ IsManaged(cache, n) <=> job.pc # "strip"
                 /\ \A s \in ReadBy(job.pc) :
                       job.layers[s] = Layer(cache, s, job.base, n)

Quiet == cache = api /\ queue = {} /\ job = Idle /\ \A p \in Pods : ~Noted(p)

(* When nothing is in flight, every stamp names a vnet that exists and     *)
(* admits the pod's namespace (permits.go: a stamp means the operator      *)
(* confirmed membership), and only managed namespaces carry stamps.        *)
QuietStampsAreGranted ==
    Quiet => \A p \in Pods, k \in Keys :
        LET o == api.pod[p]
        IN o.present /\ ~o.terminating /\ api.ns[PodNS[p]].present /\ o.stamps[k] # "none"
              => IsManaged(api, PodNS[p]) /\ Permits(api, k, PodNS[p])

(* Once users stop editing, every pod comes to rest with the stamps the    *)
(* API server's objects call for: no lost event, no endless rewriting.     *)
Stabilises == <>[](\A p \in Pods : Settled(api, p))

=============================================================================
