------------------------------ MODULE Membership ------------------------------
(***************************************************************************)
(* The vnet controller (virtualnetwork_controller.go, policy_generator.go, *)
(* sweep.go): it turns the stamps on the pods into one NetworkPolicy per   *)
(* namespace with receivers and reports what it did in the vnet's status.  *)
(*                                                                         *)
(* Resolution is seen from outside as Restamp: it brings a pod's stamps to *)
(* what the shared caches call for (module Resolution shows the detail).   *)
(* One worker takes a vnet, reads it, its home namespace and all pods,     *)
(* then applies, sweeps and reports with one API call after the other.     *)
(***************************************************************************)
EXTENDS Resolver, Naturals

CONSTANTS
    OperatorNS,   \* the home of the cluster vnet, if configured
    Labelled,     \* the vnets with the operator's managed-by label
    InitApis,     \* the clusters the operator can be started in
    NsValues,     \* what users may make of each namespace
    VnetValues,   \* of each VirtualNetwork
    PodValues,    \* the joins of each pod
    PolicyValues, \* what users make of a generated policy
    MaxEdits,     \* bound on user edits and timer expiries
    MaxFaults     \* bound on failed calls and operator restarts

(* The NetworkPolicy of a vnet in a namespace.                             *)
PolicyObj == [present : BOOLEAN, peers : SUBSET Namespaces]

NoPolicy == [present |-> FALSE, peers |-> {}]

(* invalid: the joiners the Degraded condition names; Degraded is True for *)
(* them and for HomeNamespaceExcluded.  observed: observedGeneration is    *)
(* the vnet's generation.                                                  *)
Reasons == {"Unknown", "NoMembers", "PoliciesGenerated", "ApplyFailed",
            "HomeNamespaceExcluded"}

StatusObj == [ready : Reasons, invalid : SUBSET Pods, members : SUBSET Pods,
              refs : SUBSET Namespaces, observed : BOOLEAN]

NoStatus == [ready |-> "Unknown", invalid |-> {}, members |-> {}, refs |-> {},
             observed |-> FALSE]

(* The views of Resolver with the namespaces that are terminating, the     *)
(* policies and the statuses.                                              *)
Clusters == [ns     : [Namespaces -> NamespaceObj],
             dying  : SUBSET Namespaces,
             vnet   : [Vnets -> VnetObj],
             cb     : {{}},
             nb     : {[n \in Namespaces |-> {}]},
             bind   : [Bindings -> BindingObj],
             pod    : [Pods -> PodObj],
             pol    : [Vnets -> [Namespaces -> PolicyObj]],
             status : [Vnets -> StatusObj]]

ASSUME ClustersAssumption ==
    /\ OperatorNS \in Namespaces \cup {NoNS}
    /\ Labelled \subseteq Vnets
    /\ InitApis \subseteq Clusters
    /\ NsValues \in [Namespaces -> SUBSET NamespaceObj]
    /\ VnetValues \in [Vnets -> SUBSET VnetObj]
    /\ PodValues \in [Pods -> SUBSET (SUBSET UserRules)]
    /\ PolicyValues \subseteq PolicyObj
    /\ MaxEdits \in Nat /\ MaxFaults \in Nat

VARIABLES
    api,     \* the objects as the API server stores them
    cache,   \* the informers' copies
    behind,  \* the vnets and policies with versions the cache has not seen
    notes,   \* namespace events not mapped to vnets yet
    queue,   \* the workqueue: vnets to reconcile
    armed,   \* vnets with a RequeueAfter timer running
    job,     \* the reconcile in progress
    edits,   \* user edits and timer expiries so far
    faults   \* failures so far

vars == <<api, cache, behind, notes, queue, armed, job, edits, faults>>

Behind == [vnet : SUBSET Vnets, pol : SUBSET (Vnets \X Namespaces)]

UpToDate == [vnet |-> {}, pol |-> {}]

Idle == [pc |-> "idle"]

Tasks ==
    [pc      : {"home", "excluded", "discover", "apply", "status", "purge"},
     vnet    : Vnets,
     latest  : BOOLEAN,        \* the version read is still the API server's
     spec    : VnetObj,        \* the vnet as read
     stored  : StatusObj,      \* its status as read
     members : SUBSET Pods,
     invalid : SUBSET Pods,
     desired : [Namespaces -> PolicyObj],
     todo    : SUBSET Namespaces,   \* policies still to apply
     applied : SUBSET Namespaces,   \* policyRefs
     failed  : SUBSET Namespaces]   \* failedNS

Jobs == {Idle} \cup Tasks

-----------------------------------------------------------------------------
(* Watches and their mappings.                                             *)

isSystem(v) == v \in Labelled

(* The name of the cluster vnet and the label are reserved                 *)
(* (system-vnet-vap.yaml): only the operator makes such a vnet, and it     *)
(* admits every namespace.                                                 *)
ASSUME ReservedNameAssumption ==
    \A v \in Vnets : v[2] = Cluster =>
        \A o \in VnetValues[v] \cup {c.vnet[v] : c \in InitApis} :
            o.present => v = <<OperatorNS, Cluster>> /\ isSystem(v) /\ o.all

(* Pods are found in namespaces that exist.                                *)
ASSUME HomesAssumption ==
    \A c \in InitApis, p \in Pods : c.pod[p].present => c.ns[PodNS[p]].present

(* A label suffix names the vnet to reconcile.                             *)
suffixVnet(suffix, n) ==
    IF suffix = ClusterKey /\ OperatorNS # NoNS THEN <<OperatorNS, Cluster>>
    ELSE IF suffix[1] = NoNS THEN <<n, suffix[2]>> ELSE suffix

podToVnets(o, n) ==
    {suffixVnet(s, n) : s \in {j[1] : j \in o.joins}
                              \cup {k \in Keys : o.stamps[k] # "none"}}

(* Mutant: only what users write on the pod counts.                        *)
UserLabelChangedPredicate(old, new) ==
    old.present # new.present \/ old.joins # new.joins

(* On update: the join labels or the resolution marker changed.            *)
JoinLabelChangedPredicate(old, new) ==
    \/ old.present # new.present
    \/ old.joins # new.joins \/ old.stamps # new.stamps
    \/ old.resolved # new.resolved

(* The vnets a pod event enqueues; an update maps the old and the new pod. *)
podEvent(p, old, new) ==
    IF JoinLabelChangedPredicate(old, new)
    THEN UNION {podToVnets(o, PodNS[p]) : o \in {x \in {old, new} : x.present}}
    ELSE {}

nsToVnets(n) ==
    {v \in Vnets : /\ cache.vnet[v].present
                   /\ PermitsForVnet(cache, v, cache.vnet[v], n)}

(* Mutant: only existing vnets are looked at after a start.                *)
StartQueueVnetsOnly(view) == {v \in Vnets : view.vnet[v].present}

(* What a starting operator's initial lists enqueue without a mapping that *)
(* reads caches: the vnets, and those that pods and policies name.         *)
StartQueue(view) ==
    {v \in Vnets : \/ view.vnet[v].present
                   \/ \E p \in Pods : /\ view.pod[p].present
                                      /\ v \in podToVnets(view.pod[p], PodNS[p])
                   \/ \E n \in Namespaces : view.pol[v][n].present}

Init ==
    /\ api \in InitApis
    /\ cache = api
    /\ behind = UpToDate
    /\ notes = {n \in Namespaces : api.ns[n].present}
    /\ queue = StartQueue(api)
    /\ armed = {}
    /\ job = Idle
    /\ edits = 0
    /\ faults = 0

-----------------------------------------------------------------------------
(* Users, and resolution.                                                  *)

Edit(new) ==
    /\ edits < MaxEdits
    /\ edits' = edits + 1
    /\ api' = new
    /\ api' # api
    /\ UNCHANGED <<cache, notes, queue, armed, faults>>

(* A namespace is edited, created or deleted, which takes its time.        *)
EditNamespace(n) ==
    /\ \E o \in NsValues[n] :
          IF o.present THEN Edit([api EXCEPT !.ns[n] = o])
          ELSE api.ns[n].present /\ Edit([api EXCEPT !.dying = @ \cup {n}])
    /\ UNCHANGED <<behind, job>>

(* Objects can be created in n (NamespaceLifecycle admission).             *)
Alive(n) == api.ns[n].present /\ n \notin api.dying

(* A write to vnet v makes the cached and the worker's version old.        *)
Outdate(v) ==
    /\ behind' = [behind EXCEPT !.vnet = @ \cup {v}]
    /\ job' = IF job # Idle /\ job.vnet = v THEN [job EXCEPT !.latest = FALSE] ELSE job

(* A deleted vnet takes its status with it.                                *)
EditVnet(v) ==
    /\ \E o \in VnetValues[v] :
          /\ api.vnet[v] # o /\ (o.present => api.vnet[v].present \/ Alive(v[1]))
          /\ Edit([api EXCEPT !.vnet[v] = o,
                              !.status[v] = IF o.present THEN [@ EXCEPT !.observed = FALSE]
                                            ELSE NoStatus])
    /\ Outdate(v)

CreatePod(p) ==
    /\ ~api.pod[p].present /\ ~cache.pod[p].present /\ Alive(PodNS[p])
    /\ \E J \in PodValues[p] :
          Edit([api EXCEPT !.pod[p] = [@ EXCEPT !.present = TRUE, !.terminating = FALSE,
                                                !.joins = J, !.stamps = NoStamps,
                                                !.resolved = FALSE]])
    /\ UNCHANGED <<behind, job>>

RelabelPod(p) ==
    /\ api.pod[p].present
    /\ \E J \in PodValues[p] : Edit([api EXCEPT !.pod[p] = [@ EXCEPT !.joins = J]])
    /\ UNCHANGED <<behind, job>>

DeletePod(p) ==
    /\ api.pod[p].present
    /\ \/ Edit([api EXCEPT !.pod[p] = [@ EXCEPT !.terminating = TRUE]])
       \/ /\ api.pod[p].terminating
          /\ Edit([api EXCEPT !.pod[p] = [@ EXCEPT !.present = FALSE]])
    /\ UNCHANGED <<behind, job>>

(* Somebody deletes or changes a generated policy.                         *)
DamagePolicy(v, n) ==
    /\ api.pol[v][n].present
    /\ \E o \in PolicyValues : Edit([api EXCEPT !.pol[v][n] = o])
    /\ behind' = [behind EXCEPT !.pol = @ \cup {<<v, n>>}]
    /\ UNCHANGED job

UserEdit ==
    \/ \E n \in Namespaces : EditNamespace(n)
    \/ \E v \in Vnets : EditVnet(v)
    \/ \E p \in Pods : CreatePod(p) \/ RelabelPod(p) \/ DeletePod(p)
    \/ \E v \in Vnets, n \in Namespaces : DamagePolicy(v, n)

(* The namespace controller of Kubernetes empties a terminating namespace  *)
(* and removes it; that pods and vnets go is DeletePod and EditVnet,       *)
(* whoever deletes them.                                                   *)
EmptyNamespace(n) ==
    /\ n \in api.dying
    /\ \/ \E v \in {w \in Vnets : api.pol[w][n].present} :
             /\ api' = [api EXCEPT !.pol[v][n] = NoPolicy]
             /\ behind' = [behind EXCEPT !.pol = @ \cup {<<v, n>>}]
       \/ /\ \A p \in Pods : PodNS[p] = n => ~api.pod[p].present
          /\ \A v \in Vnets : ~api.pol[v][n].present /\ (v[1] = n => ~api.vnet[v].present)
          /\ api' = [api EXCEPT !.ns[n].present = FALSE, !.dying = @ \ {n}]
          /\ UNCHANGED behind
    /\ UNCHANGED <<cache, notes, queue, armed, job, edits, faults>>

(* The resolution controller patches pod p with what its caches call for.  *)
Restamp(p) ==
    LET o == cache.pod[p]
        n == PodNS[p]
        stamps == IF IsManaged(cache, n) THEN DesiredLabels(cache, o, n) ELSE NoStamps
    IN /\ UNCHANGED <<cache, behind, notes, queue, armed, job, edits, faults>>
       /\ api.pod[p].present /\ ~Settled(cache, p)
       /\ \E new \in {[o EXCEPT !.stamps = stamps, !.resolved = IsManaged(cache, n)]} :
             api' = [api EXCEPT !.pod[p] = MergePatch(@, o, new)]
       /\ api' # api

-----------------------------------------------------------------------------
(* Informers.  The mappings of pods, vnets and policies read no caches, so *)
(* their requests are queued at once; a namespace's are computed later.    *)

DeliverPod(p) ==
    /\ cache.pod[p] # api.pod[p]
    /\ cache' = [cache EXCEPT !.pod[p] = api.pod[p]]
    /\ queue' = queue \cup podEvent(p, cache.pod[p], api.pod[p])
    /\ UNCHANGED <<api, behind, notes, armed, job, edits, faults>>

DeliverNamespace(n) ==
    /\ cache.ns[n] # api.ns[n] \/ (n \in cache.dying) # (n \in api.dying)
    /\ cache' = [cache EXCEPT !.ns[n] = api.ns[n],
                              !.dying = (@ \ {n}) \cup (api.dying \cap {n})]
    /\ notes' = notes \cup {n}
    /\ UNCHANGED <<api, behind, queue, armed, job, edits, faults>>

DeliverVnet(v) ==
    /\ v \in behind.vnet
    /\ cache' = [cache EXCEPT !.vnet[v] = api.vnet[v], !.status[v] = api.status[v]]
    /\ behind' = [behind EXCEPT !.vnet = @ \ {v}]
    /\ queue' = queue \cup {v}
    /\ UNCHANGED <<api, notes, armed, job, edits, faults>>

(* The vnet a policy's label names, and a mutant that ignores drift.       *)
policyToNothing(v) == {}

policyToVNet(v) == {v}

DeliverPolicy(v, n) ==
    /\ <<v, n>> \in behind.pol
    /\ cache' = [cache EXCEPT !.pol[v][n] = api.pol[v][n]]
    /\ behind' = [behind EXCEPT !.pol = @ \ {<<v, n>>}]
    /\ queue' = queue \cup policyToVNet(v)
    /\ UNCHANGED <<api, notes, armed, job, edits, faults>>

HandleNamespace(n) ==
    /\ n \in notes
    /\ notes' = notes \ {n}
    /\ queue' = queue \cup nsToVnets(n)
    /\ UNCHANGED <<api, cache, behind, armed, job, edits, faults>>

Deliver ==
    \/ \E p \in Pods : DeliverPod(p)
    \/ \E n \in Namespaces : DeliverNamespace(n) \/ HandleNamespace(n)
    \/ \E v \in Vnets : DeliverVnet(v)
    \/ \E v \in Vnets, n \in Namespaces : DeliverPolicy(v, n)

(* The ten-minute RequeueAfter of a successful reconcile; expiries count   *)
(* against the bound on edits.                                             *)
Resync(v) ==
    /\ v \in armed
    /\ edits < MaxEdits
    /\ edits' = edits + 1
    /\ armed' = armed \ {v}
    /\ queue' = queue \cup {v}
    /\ UNCHANGED <<api, cache, behind, notes, job, faults>>

-----------------------------------------------------------------------------
(* What the worker computes.                                               *)

isStampedMember(o, v) ==
    o.present /\ o.resolved /\ o.stamps[stampedVnetKey(v)] # "none"

(* Pods of n cannot be members of v: n is unmanaged or not admitted.       *)
ineligible(view, v, spec, n) ==
    ~IsManaged(view, n) \/ ~PermitsForVnet(view, v, spec, n)

(* The members, with the direction each is stamped with.                   *)
discoverMembers(view, v, spec) ==
    [p \in {x \in Pods : /\ isStampedMember(view.pod[x], v)
                         /\ ~ineligible(view, v, spec, PodNS[x])}
        |-> view.pod[p].stamps[stampedVnetKey(v)]]

(* The values of the join labels on o, a pod of n, that name v.            *)
userVals(o, n, v) ==
    {j[2] : j \in {q \in o.joins :
        \/ q[1] = <<NoNS, v[2]>> /\ (n = v[1] \/ v[2] = Cluster)
        \/ q[1] = v /\ v[2] # Cluster}}

(* Joiners the vnet admits but cannot honor.                               *)
invalidJoiners(view, v, spec) ==
    {p \in Pods :
        LET n == PodNS[p]
            vals == userVals(view.pod[p], n, v)
        IN /\ view.pod[p].present /\ vals # {}
           /\ PermitsForVnet(view, v, spec, n)
           /\ (\E x \in vals : ~ParseBareDirection(x)) \/ ineligible(view, v, spec, n)}

peerInitiatorValues == {"both", "egress"}
selfValuesReceiver  == {"both", "ingress"}

hasInitiator(members, n) ==
    \E p \in DOMAIN members : PodNS[p] = n /\ members[p] \in peerInitiatorValues

hasReceiver(members, n) ==
    \E p \in DOMAIN members : PodNS[p] = n /\ members[p] \in selfValuesReceiver

(* One policy per namespace with a receiver; initiators' namespaces are    *)
(* its peers.                                                              *)
Generate(members) ==
    [n \in Namespaces |->
        IF hasReceiver(members, n)
        THEN [present |-> TRUE, peers |-> {x \in Namespaces : hasInitiator(members, x)}]
        ELSE NoPolicy]

PoliciesIn(desired) == {n \in Namespaces : desired[n].present}

-----------------------------------------------------------------------------
(* The worker.                                                             *)

Failure ==
    /\ faults < MaxFaults
    /\ faults' = faults + 1

(* Mutants: the vnet is queued again by its name alone, or not at all.     *)
FailSilently == job' = Idle /\ armed' = armed \cup {job.vnet} /\ UNCHANGED queue
FailByName   == job' = Idle /\ queue' = queue \cup {job.vnet[2]} /\ UNCHANGED armed

(* The reconcile ends: with an error the vnet is queued again, after a     *)
(* success it may be queued by a timer.                                    *)
Fail    == job' = Idle /\ queue' = queue \cup {job.vnet} /\ UNCHANGED armed
Succeed == job' = Idle /\ armed' = armed \cup {job.vnet} /\ UNCHANGED queue
Stop    == job' = Idle /\ UNCHANGED <<queue, armed>>

(* Get the vnet; a missing one's policies are removed.                     *)
Begin(v) ==
    /\ job = Idle /\ v \in queue
    /\ queue' = queue \ {v}
    /\ job' = [pc      |-> IF cache.vnet[v].present THEN "home" ELSE "purge",
               vnet    |-> v,
               latest  |-> v \notin behind.vnet,
               spec    |-> cache.vnet[v],
               stored  |-> cache.status[v],
               members |-> {}, invalid |-> {},
               desired |-> [n \in Namespaces |-> NoPolicy],
               todo    |-> {}, applied |-> {}, failed |-> {}]
    /\ UNCHANGED <<api, cache, behind, notes, armed, edits, faults>>

(* Mutant: the home namespace is not looked at.                            *)
homeServedAlways(v) == TRUE

homeServed(v) == isSystem(v) \/ IsManaged(cache, v[1])

(* The home namespace must be managed, except a system vnet's.             *)
CheckHome ==
    /\ job.pc = "home"
    /\ job' = [job EXCEPT !.pc = IF homeServed(job.vnet) THEN "discover" ELSE "excluded"]
    /\ UNCHANGED <<api, cache, behind, notes, queue, armed, edits, faults>>

(* Mutants: the status is written always, or only if Ready changed.        *)
needsWriteAlways(new)   == TRUE
needsWriteForReady(new) == new.ready # job.stored.ready

(* updateStatus: nothing is written when nothing changed, and a write on   *)
(* an old version conflicts.                                               *)
needsWrite(new) == new # job.stored

writeStatus(new) ==
    IF needsWrite(new) /\ job.latest
    THEN /\ api' = [api EXCEPT !.status[job.vnet] = new]
         /\ behind' = [behind EXCEPT !.vnet = @ \cup {job.vnet}]
    ELSE UNCHANGED <<api, behind>>

ExcludedStatus == [NoStatus EXCEPT !.ready = "HomeNamespaceExcluded", !.observed = TRUE]

(* The error of this write is dropped: `_ = r.updateStatus(...)`.          *)
reportExcluded ==
    /\ job.pc = "excluded"
    /\ \/ writeStatus(ExcludedStatus) /\ UNCHANGED faults
       \/ needsWrite(ExcludedStatus) /\ Failure /\ UNCHANGED <<api, behind>>
    /\ job' = [job EXCEPT !.pc = "purge"]
    /\ UNCHANGED <<cache, notes, queue, armed, edits>>

discover ==
    /\ job.pc = "discover"
    /\ LET members == discoverMembers(cache, job.vnet, job.spec)
       IN job' = [job EXCEPT !.pc = "apply",
                             !.members = DOMAIN members,
                             !.invalid = invalidJoiners(cache, job.vnet, job.spec),
                             !.desired = Generate(members),
                             !.todo = PoliciesIn(Generate(members))]
    /\ UNCHANGED <<api, cache, behind, notes, queue, armed, edits, faults>>

(* The vnet's policies become new; only a write that changes one counts.   *)
WritePolicies(new) ==
    LET v == job.vnet
    IN /\ api' = [api EXCEPT !.pol[v] = new]
       /\ behind' = [behind EXCEPT !.pol =
                        @ \cup {<<v, n>> : n \in {x \in Namespaces : new[x] # api.pol[v][x]}}]

recordFailure(n) == [job EXCEPT !.todo = @ \ {n}, !.failed = @ \cup {n}]

(* The apply passes admission.                                             *)
Appliable(n) == api.pol[job.vnet][n].present \/ Alive(n)

namespaceTerminating(n) == n \in cache.dying

(* One policy, except for a terminating namespace; the live one is read    *)
(* uncached.  A failure is remembered and the loop goes on.                *)
applyPolicy(n) ==
    /\ job.pc = "apply" /\ n \in job.todo
    /\ \/ /\ namespaceTerminating(n)
          /\ job' = [job EXCEPT !.todo = @ \ {n}]
          /\ UNCHANGED <<api, behind, faults>>
       \/ /\ ~namespaceTerminating(n) /\ Appliable(n)
          /\ WritePolicies([api.pol[job.vnet] EXCEPT ![n] = job.desired[n]])
          /\ job' = [job EXCEPT !.todo = @ \ {n}, !.applied = @ \cup {n}]
          /\ UNCHANGED faults
       \/ /\ ~namespaceTerminating(n)
          /\ Failure \/ (~Appliable(n) /\ UNCHANGED faults)
          /\ job' = recordFailure(n)
          /\ UNCHANGED <<api, behind>>
    /\ UNCHANGED <<cache, notes, queue, armed, edits>>

(* deleteMembershipPolicies finds the policies in the cache.               *)
Stale(keep, spare) ==
    {n \in Namespaces : cache.pol[job.vnet][n].present /\ n \notin keep \cup spare}

DeletePolicies(S) ==
    WritePolicies([n \in Namespaces |-> IF n \in S THEN NoPolicy ELSE api.pol[job.vnet][n]])

(* All applied: remove what is neither desired nor in a failed namespace.  *)
(* The first error ends the sweep, and the reconcile unless it has apply   *)
(* errors to report first.                                                 *)
sweep ==
    /\ job.pc = "apply" /\ job.todo = {}
    /\ LET stale == Stale(PoliciesIn(job.desired), job.failed)
           goOn  == job' = [job EXCEPT !.pc = "status"] /\ UNCHANGED <<queue, armed>>
       IN \/ DeletePolicies(stale) /\ goOn /\ UNCHANGED faults
          \/ /\ Failure
             /\ \E S \in SUBSET stale : S # stale /\ DeletePolicies(S)
             /\ IF job.failed = {} THEN Fail ELSE goOn
    /\ UNCHANGED <<cache, notes, edits>>

Outcome ==
    [ready    |-> IF job.failed # {} THEN "ApplyFailed"
                  ELSE IF PoliciesIn(job.desired) = {} THEN "NoMembers"
                  ELSE "PoliciesGenerated",
     invalid  |-> job.invalid,
     members  |-> job.members,
     refs     |-> job.applied,
     observed |-> TRUE]

updateStatus ==
    /\ job.pc = "status"
    /\ \/ /\ writeStatus(Outcome)
          /\ IF job.failed # {} \/ (needsWrite(Outcome) /\ ~job.latest) THEN Fail ELSE Succeed
          /\ UNCHANGED faults
       \/ /\ needsWrite(Outcome) /\ Failure /\ Fail
          /\ UNCHANGED <<api, behind>>
    /\ UNCHANGED <<cache, notes, edits>>

(* deleteMembershipPolicies with nothing to keep.                          *)
purge ==
    /\ job.pc = "purge"
    /\ LET stale == Stale({}, {})
       IN \/ DeletePolicies(stale) /\ Stop /\ UNCHANGED faults
          \/ /\ Failure /\ Fail
             /\ \E S \in SUBSET stale : S # stale /\ DeletePolicies(S)
    /\ UNCHANGED <<cache, notes, edits>>

Reconcile ==
    \/ \E v \in Vnets : Begin(v)
    \/ CheckHome \/ reportExcluded \/ discover
    \/ \E n \in Namespaces : applyPolicy(n)
    \/ sweep \/ updateStatus \/ purge

(* The operator restarts: everything in memory is gone.                    *)
Restart ==
    /\ Failure
    /\ cache' = api
    /\ behind' = UpToDate
    /\ notes' = {n \in Namespaces : api.ns[n].present}
    /\ queue' = StartQueue(api)
    /\ armed' = {}
    /\ job' = Idle
    /\ UNCHANGED <<api, edits>>

Work == Deliver \/ Reconcile \/ \E p \in Pods : Restamp(p)

Next ==
    \/ UserEdit
    \/ \E n \in Namespaces : EmptyNamespace(n)
    \/ \E v \in Vnets : Resync(v)
    \/ Work
    \/ Restart

Spec == Init /\ [][Next]_vars

(* The informers and handlers, resolution and the worker are goroutines    *)
(* that keep running.  This asks less than the code gives, where each of   *)
(* them runs by itself; nothing is assumed of the timer.                   *)
FairSpec ==
    /\ Spec
    /\ WF_vars(Deliver \/ \E p \in Pods : Restamp(p))
    /\ WF_vars(Reconcile)

-----------------------------------------------------------------------------
(* Properties.                                                             *)

(* Every variable has its type.                                            *)
TypeOK ==
    /\ api \in Clusters
    /\ cache \in Clusters
    /\ behind \in Behind
    /\ notes \subseteq Namespaces
    /\ queue \subseteq Vnets
    /\ armed \subseteq Vnets
    /\ job \in Jobs
    /\ edits \in 0 .. MaxEdits
    /\ faults \in 0 .. MaxFaults

(* Nothing is in flight; only timers may be running.                       *)
Quiet ==
    /\ cache = api /\ behind = UpToDate /\ notes = {} /\ queue = {} /\ job = Idle
    /\ \A p \in Pods : Settled(api, p)

(* Vnet v is served: it exists and its home is managed or it is a system's. *)
Served(v) == api.vnet[v].present /\ (isSystem(v) \/ IsManaged(api, v[1]))

(* The direction the users' labels give pod p in vnet v.                   *)
Granted(p, v) ==
    IF Served(v) /\ IsManaged(api, PodNS[p])
    THEN DesiredLabels(api, api.pod[p], PodNS[p])[stampedVnetKey(v)] ELSE "none"

(* The policies let a open connections to b: NetworkPolicy semantics.      *)
PolicyAdmits(a, b) ==
    \E v \in Vnets :
        LET k == stampedVnetKey(v)
            policy == api.pol[v][PodNS[b]]
        IN /\ policy.present
           /\ api.pod[b].stamps[k] \in selfValuesReceiver
           /\ PodNS[a] \in policy.peers
           /\ api.pod[a].stamps[k] \in peerInitiatorValues

(* What the operator is for: when nothing is in flight, the membership     *)
(* policies admit a connection exactly when some served vnet's join labels *)
(* make one pod an initiator and the other a receiver; only where the      *)
(* receiver's namespace is being torn down, its policies may be gone.      *)
TrafficMatchesMembership ==
    Quiet => \A a, b \in {p \in Pods : api.pod[p].present /\ ~api.pod[p].terminating} :
        LET granted == \E v \in Vnets : /\ Granted(a, v) \in peerInitiatorValues
                                        /\ Granted(b, v) \in selfValuesReceiver
        IN /\ PolicyAdmits(a, b) => granted
           /\ granted /\ PodNS[b] \notin api.dying => PolicyAdmits(a, b)

(* A vnet that is gone, or whose home is excluded, leaves no policy in any *)
(* namespace, whatever failed and whenever it went.                        *)
NoOrphanPolicies ==
    Quiet => \A v \in Vnets : ~Served(v) => PoliciesIn(api.pol[v]) = {}

(* Some pod being deleted still carries a stamp for v.                     *)
Lingering(v) ==
    \E p \in Pods : api.pod[p].terminating /\ isStampedMember(api.pod[p], v)

(* The policies vnet v should have.                                        *)
Wanted(v) ==
    IF Served(v) THEN Generate(discoverMembers(api, v, api.vnet[v]))
    ELSE [n \in Namespaces |-> NoPolicy]

(* A served vnet's status tells the truth: the members, the policies they  *)
(* need and that exist (none of a namespace being torn down), Ready for    *)
(* the current generation, and the joiners it cannot honor.  With a        *)
(* selector these may be out of date until the vnet's timer expires.       *)
Reported(v) ==
    LET s == api.status[v]
    IN /\ s.observed
       /\ s.members = DOMAIN discoverMembers(api, v, api.vnet[v])
       /\ s.refs = PoliciesIn(Wanted(v)) \ api.dying
       /\ s.refs = PoliciesIn(api.pol[v]) \ api.dying
       /\ s.ready = IF PoliciesIn(Wanted(v)) = {} THEN "NoMembers" ELSE "PoliciesGenerated"
       /\ \/ s.invalid = invalidJoiners(api, v, api.vnet[v])
          \/ api.vnet[v].selector # {} /\ v \in armed

(* When nothing is in flight, every served vnet's status is accurate, also *)
(* after conflicts with edits, failed applies and failed status writes.    *)
StatusIsAccurate ==
    Quiet => \A v \in Vnets : Served(v) /\ ~Lingering(v) => Reported(v)

(* Once users stop editing, the policies become what membership calls for, *)
(* the statuses become accurate, and the vnets are written no more (the    *)
(* event of a status write does not feed another one).                     *)
Converges ==
    <>[](/\ behind = UpToDate
         /\ \A p \in Pods : Settled(api, p)
         /\ \A v \in Vnets :
               /\ \A n \in Namespaces \ api.dying : api.pol[v][n] = Wanted(v)[n]
               /\ Served(v) => Reported(v))

=============================================================================
