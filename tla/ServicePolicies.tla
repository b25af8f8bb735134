--------------------------- MODULE ServicePolicies ---------------------------
(***************************************************************************)
(* The two controllers of policies that a Service owns: external-allow     *)
(* (external_allow_controller.go) for Services that carry external         *)
(* traffic, and apiserver-reachable (apiserver_reachable_controller.go)    *)
(* for Services the API server dials.  They share their reconcile and      *)
(* differ in what they want; each has its own queue and worker, and both   *)
(* work on the policies of the same Service.                               *)
(*                                                                         *)
(* One namespace, its Services and pods, and the cluster's discovery       *)
(* resources (webhook configurations, APIServices, CRDs).  A selector is a *)
(* label value; a port is a number, a targetPort a number or Named.        *)
(***************************************************************************)
EXTENDS Naturals

CONSTANTS
    Services, Pods, Discoveries,   \* object names
    Labels, NoSelector,            \* pod labels; the selector that is unset
    Ports, Named,                  \* port numbers; a named targetPort
    InitApis,                      \* the clusters the operator starts in
    ServiceEdits,                  \* the specs users give a Service
    PodEdits,                      \* the pods users create
    DiscoveryEdits,                \* what users make of a discovery resource
    MaxUid, MaxEdits, MaxFaults    \* bounds: Service uids, edits, failures

Kinds == {"svc", "apiserver"}

(* A policy's name tells its Service and its source kind; a legacy policy  *)
(* predates the source-kind label.                                         *)
PolicyNames == Services \X (Kinds \cup {"legacy"})

(* uid 0: there is no such Service.  type: what its spec says of external  *)
(* reach (headless stands for ExternalName too).  ports: the pairs of a    *)
(* port and its targetPort.                                                *)
Service ==
    [uid : 0 .. MaxUid, type : {"exposed", "internal", "headless"},
     selector : Labels \cup {NoSelector}, ports : SUBSET (Ports \X (Ports \cup {Named})),
     optOut : BOOLEAN, optIn : BOOLEAN]

(* port: the number the pod declares under the name, 0 for none.           *)
Pod == [label : Labels, port : Ports \cup {0}]
NoPod == [label |-> NoSelector, port |-> 0]

(* owner: the uid of the owning Service.                                   *)
Policy == [owner : 1 .. MaxUid, selector : Labels, ports : SUBSET Ports]
NoPolicy == [owner |-> 0, selector |-> NoSelector, ports |-> {}]
Unresolvable == [NoPolicy EXCEPT !.ports = {0}]    \* errNamedPortUnresolvable

(* closed: not managed, or opted out with external-allow=false.            *)
Phases == {"open", "closed", "terminating", "absent"}

Clusters ==
    [ns : Phases, svc : [Services -> Service], pod : [Pods -> Pod \cup {NoPod}],
     disc : [Discoveries -> SUBSET (Services \X Ports)],
     policy : [PolicyNames -> Policy \cup {NoPolicy}]]

ASSUME ServicesAssumption ==
    /\ 0 \notin Ports /\ Named \notin Ports /\ NoSelector \notin Labels
    /\ InitApis \subseteq Clusters
    /\ ServiceEdits \subseteq {o \in Service : o.uid = 0}
    /\ PodEdits \subseteq Pod
    /\ DiscoveryEdits \subseteq SUBSET (Services \X Ports)
    /\ MaxUid \in Nat /\ MaxEdits \in Nat /\ MaxFaults \in Nat

VARIABLES
    api,       \* the objects as the API server stores them
    cache,     \* the informers' copies
    behind,    \* the objects with versions the cache has not seen
    queue,     \* per controller, the Services to reconcile
    timers,    \* per controller, the Services to be requeued after a while
    job,       \* per controller, the reconcile in progress
    pending,   \* onceSet: per controller and Service, the uid whose wait was reported
    edits, faults

memory == <<queue, timers, job, pending>>
vars == <<api, cache, behind, memory, edits, faults>>

Idle == [pc |-> "idle"]

Objects ==
    {<<"ns", "">>} \cup ({"svc"} \X Services) \cup ({"pod"} \X Pods)
        \cup ({"disc"} \X Discoveries) \cup ({"policy"} \X PolicyNames)

(* o: the Service as read; refs: the ports it is referred to by; want: the *)
(* policy built for it; todo: policies still to delete.                    *)
Tasks ==
    [pc : {"decide", "collect", "build", "read", "patch", "sweep", "purge", "delete"},
     svc : Services, o : Service, refs : SUBSET Ports,
     want : Policy \cup {NoPolicy}, todo : SUBSET PolicyNames]

Jobs == {Idle} \cup Tasks

-----------------------------------------------------------------------------
(* What a Service asks for.                                                *)

Present(o) == o.uid # 0

isExternallyExposed(o) == o.type = "exposed"

labelsMatchSelector(label, selector) == selector # NoSelector /\ label = selector

hasNamedTargetPort(o) == \E p \in o.ports : p[2] = Named

declared(pods, selector) ==
    {pods[p].port : p \in {q \in Pods : labelsMatchSelector(pods[q].label, selector)}}

resolveTargetPorts(target, selector, pods) ==
    IF target # Named THEN {target} ELSE declared(pods, selector) \ {0}

(* The policy that opens the targets of these Service ports; one that      *)
(* cannot be resolved fails the whole Service.                             *)
policyFor(o, ports, pods) ==
    LET targets == {resolveTargetPorts(p[2], o.selector, pods) : p \in ports}
    IN IF {} \in targets THEN Unresolvable
       ELSE [owner |-> o.uid, selector |-> o.selector, ports |-> UNION targets]

buildExternalAllowPolicy(o, pods) ==
    IF ~isExternallyExposed(o) \/ o.selector = NoSelector THEN NoPolicy
    ELSE policyFor(o, o.ports, pods)

(* The ports discovery resources and the Service's annotation ask for.     *)
collectReferencedPorts(s, o, disc) ==
    {r[2] : r \in {q \in UNION {disc[d] : d \in Discoveries} : q[1] = s}}
        \cup (IF o.optIn THEN {p[1] : p \in o.ports} ELSE {})

(* A port the Service does not declare is opened as it is.                 *)
buildApiserverReachablePolicy(o, refs, pods) ==
    IF o.type = "headless" \/ o.selector = NoSelector \/ refs = {} THEN NoPolicy
    ELSE policyFor(o, {p \in o.ports : p[1] \in refs}
                        \cup {<<r, r>> : r \in refs \ {p[1] : p \in o.ports}}, pods)

desired(k, o, refs, pods) ==
    IF k = "svc" THEN buildExternalAllowPolicy(o, pods)
    ELSE buildApiserverReachablePolicy(o, refs, pods)

(* A namespace that is not managed and either opt-out close everything.    *)
closed(o, phase) == phase = "closed" \/ o.optOut

(* What Service s, as o, asks for under view.                              *)
wantedPolicy(k, s, o, view) ==
    IF closed(o, view.ns) THEN NoPolicy
    ELSE desired(k, o, collectReferencedPorts(s, o, view.disc), view.pod)

-----------------------------------------------------------------------------
(* Watches.  A handler reads the Service cache after the event: what it    *)
(* may read later is a newer Service, which enqueues itself.               *)

Enqueue(services) == queue' = [k \in Kinds |-> queue[k] \cup services[k]]

Both(services) == [k \in Kinds |-> services]

InCache == {s \in Services : Present(cache.svc[s])}

namespaceToServices == InCache

(* A pod enters or leaves the selector.                                    *)
affected(old, new, selector) ==
    labelsMatchSelector(old.label, selector) # labelsMatchSelector(new.label, selector)

podToSelectingServices(old, new) ==
    {s \in InCache : hasNamedTargetPort(cache.svc[s]) /\ affected(old, new, cache.svc[s].selector)}

(* Mutant: the Services a resource no longer refers to are not looked at.  *)
discoveryToNewServices(old, new) == {r[1] : r \in new}

(* The Services of the old and of the new resource.                        *)
discoveryToServices(old, new) == {r[1] : r \in old \cup new}

(* The source-kind label keeps the controllers off each other's policies.  *)
externalAllowPolicyPredicate(n, k) == n[2] = k

Seen(x) == x \in behind /\ behind' = behind \ {x}

Delivery == UNCHANGED <<api, timers, job, pending, edits, faults>>

DeliverService(s) ==
    /\ Seen(<<"svc", s>>)
    /\ cache' = [cache EXCEPT !.svc[s] = api.svc[s]]
    /\ Enqueue(Both({s}))
    /\ Delivery

DeliverNamespace ==
    /\ Seen(<<"ns", "">>)
    /\ cache' = [cache EXCEPT !.ns = api.ns]
    /\ Enqueue(Both(namespaceToServices))
    /\ Delivery

DeliverPod(p) ==
    /\ Seen(<<"pod", p>>)
    /\ cache' = [cache EXCEPT !.pod[p] = api.pod[p]]
    /\ Enqueue(Both(podToSelectingServices(cache.pod[p], api.pod[p])))
    /\ Delivery

DeliverDiscovery(d) ==
    /\ Seen(<<"disc", d>>)
    /\ cache' = [cache EXCEPT !.disc[d] = api.disc[d]]
    /\ Enqueue([k \in Kinds |-> IF k = "svc" THEN {}
                                ELSE discoveryToServices(cache.disc[d], api.disc[d])])
    /\ Delivery

(* By the controller owner, whose name a policy's name determines.         *)
DeliverPolicy(n) ==
    /\ Seen(<<"policy", n>>)
    /\ cache' = [cache EXCEPT !.policy[n] = api.policy[n]]
    /\ Enqueue([k \in Kinds |-> IF externalAllowPolicyPredicate(n, k) THEN {n[1]} ELSE {}])
    /\ Delivery

DeliverInput ==
    \/ DeliverNamespace
    \/ \E s \in Services : DeliverService(s)
    \/ \E p \in Pods : DeliverPod(p)
    \/ \E d \in Discoveries : DeliverDiscovery(d)

DeliverOutput == \E n \in PolicyNames : DeliverPolicy(n)

(* The requeue of a wait, 30 seconds on: longer than a reconcile takes.    *)
Timer(k, s) ==
    /\ s \in timers[k] /\ job[k] = Idle
    /\ timers' = [timers EXCEPT ![k] = @ \ {s}]
    /\ queue' = [queue EXCEPT ![k] = @ \cup {s}]
    /\ UNCHANGED <<api, cache, behind, job, pending, edits, faults>>

(* What a starting operator's initial lists enqueue.                       *)
StartQueue(view) ==
    [k \in Kinds |-> {s \in Services : \/ Present(view.svc[s])
                                       \/ view.policy[<<s, k>>] # NoPolicy}]

NoWork == [k \in Kinds |-> Idle]
None   == [k \in Kinds |-> {}]
NoneReported == [k \in Kinds |-> [s \in Services |-> 0]]

Init ==
    /\ api \in InitApis
    /\ cache = api /\ behind = {}
    /\ queue = StartQueue(api) /\ timers = None /\ job = NoWork
    /\ pending = NoneReported
    /\ edits = 0 /\ faults = 0

-----------------------------------------------------------------------------
(* The API server and its users.                                           *)

Writes(x) == behind' = behind \cup {x}

PutPolicy(n, p) ==
    /\ api' = [api EXCEPT !.policy[n] = p]
    /\ behind' = IF p = api.policy[n] THEN behind ELSE behind \cup {<<"policy", n>>}

UserEdit ==
    /\ edits < MaxEdits /\ edits' = edits + 1
    /\ api' # api
    /\ UNCHANGED <<cache, memory, faults>>

Uids == {api.svc[s].uid : s \in Services} \cup {api.policy[n].owner : n \in PolicyNames}

(* A Service is created, with a uid of its own, edited or deleted; a       *)
(* deletion and a creation that the informer sees as one update are one.   *)
EditService(s) ==
    /\ \/ /\ \E o \in ServiceEdits, u \in 1 .. MaxUid :
                /\ \/ Present(api.svc[s]) /\ u = api.svc[s].uid
                   \/ u \notin Uids /\ api.ns \in {"open", "closed"}
                /\ api' = [api EXCEPT !.svc[s] = [o EXCEPT !.uid = u]]
       \/ Present(api.svc[s]) /\ api' = [api EXCEPT !.svc[s].uid = 0]
    /\ Writes(<<"svc", s>>) /\ UserEdit

(* A pod is created, relabelled or deleted; its ports are immutable.  The  *)
(* informer has seen the deletion when its name is used again.             *)
EditPod(p) ==
    /\ \/ /\ api.pod[p] = NoPod /\ cache.pod[p] = NoPod /\ api.ns \in {"open", "closed"}
          /\ \E o \in PodEdits : api' = [api EXCEPT !.pod[p] = o]
       \/ api.pod[p] # NoPod /\ \E l \in Labels : api' = [api EXCEPT !.pod[p].label = l]
       \/ api.pod[p] # NoPod /\ api' = [api EXCEPT !.pod[p] = NoPod]
    /\ Writes(<<"pod", p>>) /\ UserEdit

EditDiscovery(d) ==
    /\ \E r \in DiscoveryEdits : api' = [api EXCEPT !.disc[d] = r]
    /\ Writes(<<"disc", d>>) /\ UserEdit

EditNamespace ==
    /\ \E p \in {"open", "closed", "terminating"} :
          /\ api.ns \in {"open", "closed"} \/ (api.ns = "absent" /\ p = "open")
          /\ api' = [api EXCEPT !.ns = p]
    /\ Writes(<<"ns", "">>) /\ UserEdit

DamagePolicy(n) ==
    /\ api.policy[n] # NoPolicy
    /\ \E p \in {NoPolicy, [api.policy[n] EXCEPT !.ports = {}]} : PutPolicy(n, p)
    /\ UserEdit

(* Garbage collection deletes a policy whose owner is gone.                *)
Orphaned(n) == api.policy[n] # NoPolicy /\ api.policy[n].owner # api.svc[n[1]].uid

GarbageCollect(n) ==
    /\ Orphaned(n) /\ PutPolicy(n, NoPolicy)
    /\ UNCHANGED <<cache, memory, edits, faults>>

(* A terminating namespace is emptied and removed.                         *)
EmptyNamespace ==
    /\ api.ns = "terminating"
    /\ \/ \E n \in PolicyNames : api.policy[n] # NoPolicy /\ PutPolicy(n, NoPolicy)
       \/ \E s \in Services : /\ Present(api.svc[s]) /\ Writes(<<"svc", s>>)
                              /\ api' = [api EXCEPT !.svc[s].uid = 0]
       \/ \E p \in Pods : /\ api.pod[p] # NoPod /\ Writes(<<"pod", p>>)
                          /\ api' = [api EXCEPT !.pod[p] = NoPod]
       \/ /\ \A s \in Services : ~Present(api.svc[s])
          /\ \A p \in Pods : api.pod[p] = NoPod
          /\ \A n \in PolicyNames : api.policy[n] = NoPolicy
          /\ api' = [api EXCEPT !.ns = "absent"] /\ Writes(<<"ns", "">>)
    /\ UNCHANGED <<cache, memory, edits, faults>>

Others ==
    \/ EditNamespace \/ EmptyNamespace
    \/ \E s \in Services : EditService(s)
    \/ \E p \in Pods : EditPod(p)
    \/ \E d \in Discoveries : EditDiscovery(d)
    \/ \E n \in PolicyNames : DamagePolicy(n) \/ GarbageCollect(n)

-----------------------------------------------------------------------------
(* serviceSource.reconcile, of controller k.                               *)

Go(k, j) == job' = [job EXCEPT ![k] = j]

Goto(k, pc) == Go(k, [job[k] EXCEPT !.pc = pc])

(* onceSet: any outcome but another wait ends the current one.             *)
clear(k, s) == pending' = [pending EXCEPT ![k][s] = 0]

Done(k) ==
    Go(k, Idle) /\ clear(k, job[k].svc) /\ UNCHANGED <<queue, timers>>

(* An error puts the Service back into the queue.                          *)
Fail(k) ==
    /\ Go(k, Idle) /\ clear(k, job[k].svc)
    /\ queue' = [queue EXCEPT ![k] = @ \cup {job[k].svc}] /\ UNCHANGED timers

Reads == UNCHANGED <<api, cache, behind, edits, faults>>

(* A Service that is gone has its policies of this kind deleted.           *)
Begin(k, s) ==
    LET o == cache.svc[s]
        start == [pc |-> "decide", svc |-> s, o |-> o, refs |-> {},
                  want |-> NoPolicy, todo |-> {}]
    IN /\ job[k] = Idle /\ s \in queue[k]
       /\ queue' = [queue EXCEPT ![k] = @ \ {s}]
       /\ IF Present(o) THEN Go(k, start) /\ UNCHANGED pending
          ELSE Go(k, [start EXCEPT !.pc = "purge"]) /\ clear(k, s)
       /\ UNCHANGED timers /\ Reads

(* Mutant: a wait is known by the Service's name alone.                    *)
firstOfName(k, s, uid) == IF pending[k][s] = 0 THEN uid ELSE pending[k][s]

(* onceSet.first: the uid a wait is on record for, once it is reported.    *)
first(k, s, uid) == uid

(* errNamedPortUnresolvable ends the reconcile before the sweep.           *)
Wait(k, s) ==
    /\ Go(k, Idle)
    /\ timers' = [timers EXCEPT ![k] = @ \cup {s}]
    /\ pending' = [pending EXCEPT ![k][s] = first(k, s, job[k].o.uid)]
    /\ UNCHANGED queue

(* Mutant: a terminating namespace is served.                              *)
skippedAbsent(phase) == phase = "absent"

(* Nothing can be created in a terminating namespace.                      *)
skipped(phase) == phase \in {"absent", "terminating"}

Undisturbed == UNCHANGED <<queue, timers, pending>>

(* The namespace is read.                                                  *)
Decide(k) ==
    /\ job[k].pc = "decide"
    /\ IF skipped(cache.ns) THEN Done(k)
       ELSE /\ Goto(k, IF closed(job[k].o, cache.ns) THEN "sweep"
                       ELSE IF k = "svc" THEN "build" ELSE "collect")
            /\ Undisturbed
    /\ Reads

(* The discovery resources are listed.                                     *)
Collect(k) ==
    /\ job[k].pc = "collect"
    /\ Go(k, [job[k] EXCEPT !.pc = "build",
                            !.refs = collectReferencedPorts(job[k].svc, job[k].o, cache.disc)])
    /\ Undisturbed /\ Reads

(* The pods are listed and the policy is built.                            *)
Build(k) ==
    /\ job[k].pc = "build"
    /\ \E want \in {desired(k, job[k].o, job[k].refs, cache.pod)} :
          IF want = Unresolvable THEN Wait(k, job[k].svc)
          ELSE /\ Go(k, [job[k] EXCEPT !.pc = IF want = NoPolicy THEN "sweep" ELSE "read",
                                       !.refs = {}, !.want = want])
               /\ Undisturbed
    /\ Reads

applyPolicy(k) ==
    /\ job[k].pc = "read"
    /\ Goto(k, IF cache.policy[<<job[k].svc, k>>] = job[k].want THEN "sweep" ELSE "patch")
    /\ Undisturbed /\ Reads

(* Nothing can be created in a namespace that is gone or on its way out.   *)
Patch(k) ==
    LET n == <<job[k].svc, k>>
    IN /\ job[k].pc = "patch"
       /\ IF api.policy[n] # NoPolicy \/ api.ns \in {"open", "closed"}
          THEN PutPolicy(n, job[k].want) /\ Goto(k, "sweep") /\ Undisturbed
          ELSE Fail(k) /\ UNCHANGED <<api, behind>>
       /\ UNCHANGED <<cache, edits, faults>>

(* Mutant: every external-allow policy of the Service is external-allow's. *)
anyKind(k, n) == k = "svc" \/ n[2] = k

(* claimedByOtherSourceKind: the policies a controller may sweep.          *)
sweepable(k, n) == n[2] = k \/ (k = "svc" /\ n[2] = "legacy")

(* The policies of the Service that was read, by its uid, but the wanted.  *)
Stale(k) ==
    {n \in PolicyNames : /\ sweepable(k, n) /\ n[1] = job[k].svc
                         /\ cache.policy[n].owner = job[k].o.uid
                         /\ job[k].want # NoPolicy => n[2] # k}

(* By the source label, whatever the owner.                                *)
Leftovers(k) == {n \in {<<job[k].svc, k>>} : cache.policy[n] # NoPolicy}

sweepStalePolicies(k) ==
    /\ \E todo \in {IF job[k].pc = "purge" THEN Leftovers(k) ELSE Stale(k)} :
          IF todo = {} THEN Done(k)
          ELSE Go(k, [job[k] EXCEPT !.pc = "delete", !.todo = todo]) /\ Undisturbed
    /\ Reads

(* sweep and deleteByServiceKey.                                           *)
sweep(k)              == job[k].pc = "sweep" /\ sweepStalePolicies(k)
deleteByServiceKey(k) == job[k].pc = "purge" /\ sweepStalePolicies(k)

Delete(k) ==
    /\ job[k].pc = "delete"
    /\ \E n \in job[k].todo :
          /\ PutPolicy(n, NoPolicy)
          /\ IF job[k].todo = {n} THEN Done(k)
             ELSE Go(k, [job[k] EXCEPT !.todo = @ \ {n}]) /\ Undisturbed
    /\ UNCHANGED <<cache, edits, faults>>

Reconcile(k) ==
    \/ \E s \in Services : Begin(k, s)
    \/ Decide(k) \/ Collect(k) \/ Build(k) \/ applyPolicy(k) \/ Patch(k)
    \/ sweep(k) \/ deleteByServiceKey(k) \/ Delete(k)

(* A patch or a delete fails.                                              *)
CallFails(k) ==
    /\ job[k].pc \in {"patch", "delete"}
    /\ faults < MaxFaults /\ faults' = faults + 1
    /\ Fail(k)
    /\ UNCHANGED <<api, cache, behind, edits>>

(* Queue, timers and onceSet are in memory.                                *)
Restart ==
    /\ faults < MaxFaults /\ faults' = faults + 1
    /\ cache' = api /\ behind' = {}
    /\ queue' = StartQueue(api) /\ timers' = None /\ job' = NoWork
    /\ pending' = NoneReported
    /\ UNCHANGED <<api, edits>>

Next ==
    \/ Others \/ DeliverInput \/ DeliverOutput \/ Restart
    \/ \E k \in Kinds : \/ Reconcile(k) \/ CallFails(k)
                        \/ \E s \in Services : Timer(k, s)

Spec == Init /\ [][Next]_vars

(* The informers' and the two workers' goroutines run; each kind of object *)
(* has an informer of its own.  Nothing is assumed of the timers and of    *)
(* the garbage collector.                                                  *)
FairSpec ==
    /\ Spec
    /\ WF_vars(DeliverInput) /\ WF_vars(DeliverOutput)
    /\ \A k \in Kinds : WF_vars(Reconcile(k))

-----------------------------------------------------------------------------
(* Properties.                                                             *)

(* Every variable has its type.                                            *)
TypeOK ==
    /\ api \in Clusters /\ cache \in Clusters /\ behind \subseteq Objects
    /\ queue \in [Kinds -> SUBSET Services] /\ timers \in [Kinds -> SUBSET Services]
    /\ job \in [Kinds -> Jobs]
    /\ pending \in [Kinds -> [Services -> 0 .. MaxUid]]
    /\ edits \in 0 .. MaxEdits /\ faults \in 0 .. MaxFaults

(* The policy of kind k that the cluster's state asks for.                 *)
Wanted(k, s) == wantedPolicy(k, s, api.svc[s], api)

(* The objects that decide what policy of kind k Service s has.            *)
Inputs(k, s) ==
    {<<"ns", "">>, <<"svc", s>>} \cup ({"pod"} \X Pods)
        \cup (IF k = "svc" THEN {} ELSE {"disc"} \X Discoveries)

(* An event will make controller k look at s again; its timers aside.      *)
DueAgain(k, s) == s \in queue[k] \/ behind \cap Inputs(k, s) # {}

Attended(k, s) ==
    \/ DueAgain(k, s)
    \/ <<"policy", <<s, k>>>> \in behind
    \/ job[k] # Idle /\ job[k].svc = s

Owned(s) == {n \in PolicyNames : n[1] = s /\ api.policy[n].owner = api.svc[s].uid}

Live(s) == api.ns \in {"open", "closed"} /\ Present(api.svc[s])

(* A Service that waits is right with whatever it has: what it may keep is *)
(* the subject of WaitingPoliciesAreHeldBack.                              *)
Right(k, s) ==
    \E want \in {Wanted(k, s)} :
        \/ want = Unresolvable
        \/ /\ {n \in Owned(s) : n[2] = k} = (IF want = NoPolicy THEN {} ELSE {<<s, k>>})
           /\ k = "svc" => <<s, "legacy">> \notin Owned(s)
           /\ want # NoPolicy => api.policy[<<s, k>>] = want

(* docs/guides/auto-allow.md: a Service that waits for a pod says so.  The *)
(* wait of a recreated Service is its own and is reported again.           *)
WaitsAreReported ==
    \A k \in Kinds, s \in Services :
        Live(s) /\ ~Attended(k, s) /\ Wanted(k, s) = Unresolvable
        => pending[k][s] = api.svc[s].uid /\ s \in timers[k]

(* claimedByOtherSourceKind: no windows in which the API server cannot     *)
(* reach a webhook.  The operator deletes a policy that is as it should be *)
(* only on older information, and then it has yet to look again.           *)
PoliciesInUseStay ==
    [][\A k \in Kinds, s \in Services :
          /\ api.ns = "open" /\ edits' = edits /\ ~Orphaned(<<s, k>>)
          /\ api.policy[<<s, k>>] # NoPolicy /\ api.policy[<<s, k>>] = Wanted(k, s)
          /\ api'.policy[<<s, k>>] = NoPolicy
          => DueAgain(k, s)]_vars

(* docs/guides/auto-allow.md:41: "until a matching pod exists the policy   *)
(* is held back", and :113: "ports not declared by a Service/hostPort/     *)
(* webhook stay protected".  A Service that waits has no policy of the     *)
(* kind that waits.  Violated: reconcile returns before the sweep, and an  *)
(* older policy of the Service stays for as long as it waits.              *)
WaitingPoliciesAreHeldBack ==
    \A k \in Kinds, s \in Services :
        Live(s) /\ ~Attended(k, s) /\ Wanted(k, s) = Unresolvable => <<s, k>> \notin Owned(s)

Level == INSTANCE LevelTriggered
    WITH Keys     <- Kinds \X Services,
         right    <- {x \in Kinds \X Services : Live(x[2]) => Right(x[1], x[2])},
         attended <- {x \in Kinds \X Services : Attended(x[1], x[2])}

(* ADR 0038, 0041 and 0044: both controllers are level-triggered.  When    *)
(* the events are dealt with, a Service has the policies its spec, its     *)
(* pods, the discovery resources and its namespace ask for and no others,  *)
(* without the help of a timer; only one whose named port has no pod may   *)
(* still have to wait.                                                     *)
IsLevelTriggered == Level!Safety

(* And they come to rest: neither undoes the other's work for ever, a wait *)
(* is not a busy loop, and a namespace on its way out does not keep them   *)
(* trying.                                                                 *)
ComesToRest == Level!ComesToRest

=============================================================================
