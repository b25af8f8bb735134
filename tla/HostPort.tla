------------------------------- MODULE HostPort -------------------------------
(***************************************************************************)
(* The hostPort controller (hostport_controller.go): in every namespace    *)
(* that has not opted out, one policy for every (port, protocol) its pods  *)
(* declare as a hostPort.  The ports are read from the pods' informer, the *)
(* policies from their own; an apply that fails does not stop the others.  *)
(*                                                                         *)
(* Here a namespace is disabled by kube-vnet/disabled=true or by           *)
(* kube-vnet/external-allow=false: the controller treats both alike.       *)
(***************************************************************************)
EXTENDS Namespaced

CONSTANTS
    Pods,       \* pod names
    PodNS,      \* the namespace of each
    PodSpecs,   \* the specs users give a pod
    InitPods    \* the pods the operator can find when it starts

(* A hostPortKey is the name of the policy made for it.                    *)
hostPortKeys == Names

PodSpec == [ports : SUBSET hostPortKeys, hostNetwork : BOOLEAN]

NoPod == [ports |-> {}, hostNetwork |-> TRUE]    \* no such pod

ASSUME PodsAssumption ==
    /\ PodNS \in [Pods -> Namespaces]
    /\ PodSpecs \subseteq PodSpec \ {NoPod}
    /\ InitPods \subseteq [Pods -> {NoPod} \cup PodSpecs]

VARIABLES
    pods,       \* the pods as the API server stores them
    podCache,   \* the informer's copies
    podBehind,  \* the pods with versions the informer has not seen
    podDue      \* those with an event that passes HostPortChangedPredicate

podVars == <<pods, podCache, podBehind, podDue>>
vars == <<world, queue, job, podVars>>

Work ==
    [pc     : {"pods", "apply", "list", "delete"}, ns : Namespaces,
     keep   : SUBSET Names,     \* the keys the pods declare
     todo   : SUBSET Names,     \* what is yet to be applied, or to be deleted
     failed : BOOLEAN]          \* an apply has failed

Patching ==
    [pc     : {"patch"}, ns : Namespaces, key : Names,
     keep   : SUBSET Names, todo : SUBSET Names, failed : BOOLEAN]

Jobs == {Idle} \cup Work \cup Patching

(* A policy's desired form depends on its key alone.                       *)
buildHostPortPolicy(k) == Desired

podKeys(o) == IF o.hostNetwork THEN {} ELSE o.ports

desiredHostPortKeys(ps, n) == UNION {podKeys(ps[p]) : p \in {q \in Pods : PodNS[q] = n}}

(* Mutant: only pods that appear are looked at.                            *)
HostPortAppearedPredicate(old, new) == podKeys(new) # {}

(* A creation or a deletion passes when the pod has keys; a pod's ports    *)
(* are immutable, so no update passes.                                     *)
HostPortChangedPredicate(old, new) == podKeys(IF new = NoPod THEN old ELSE new) # {}

Init ==
    /\ Start
    /\ pods \in InitPods
    /\ \A p \in Pods : pods[p] # NoPod => api.ns[PodNS[p]].phase # "absent"
    /\ podCache = pods
    /\ podBehind = {} /\ podDue = {}

-----------------------------------------------------------------------------
(* Pods come and go.                                                       *)

PutPod(p, o) ==
    /\ pods' = [pods EXCEPT ![p] = o]
    /\ podBehind' = podBehind \cup {p}
    /\ podDue' = IF HostPortChangedPredicate(pods[p], o) THEN podDue \cup {p} ELSE podDue
    /\ UNCHANGED <<api, behind, due, podCache>>

CreatePod(p) ==
    /\ pods[p] = NoPod /\ api.ns[PodNS[p]].phase = "active"
    /\ \E o \in PodSpecs : PutPod(p, o)
    /\ UserEdit

DeletePod(p) == pods[p] # NoPod /\ PutPod(p, NoPod) /\ UserEdit

(* A terminating namespace loses its pods, and goes when they are gone.    *)
EvictPod(p) ==
    /\ pods[p] # NoPod /\ api.ns[PodNS[p]].phase = "terminating"
    /\ PutPod(p, NoPod)
    /\ UNCHANGED <<cache, queue, job, edits, faults>>

OthersOfNamespaces ==
    /\ Others
    /\ \A p \in Pods : pods[p] # NoPod => api'.ns[PodNS[p]].phase # "absent"
    /\ UNCHANGED podVars

DeliverPod(p) ==
    /\ p \in podBehind
    /\ podBehind' = podBehind \ {p} /\ podDue' = podDue \ {p}
    /\ podCache' = [podCache EXCEPT ![p] = pods[p]]
    /\ queue' = IF p \in podDue THEN queue \cup {PodNS[p]} ELSE queue
    /\ UNCHANGED <<world, job, pods>>

Watches == (Deliver /\ UNCHANGED podVars) \/ \E p \in Pods : DeliverPod(p)

-----------------------------------------------------------------------------
(* Reconcile.                                                              *)

(* Mutant: applies go on while the namespace is torn down.                 *)
skippedMissing(o) == o.phase = "absent"

(* Nothing can be created in a terminating namespace.                      *)
skipped(o) == o.phase # "active"

Begin(n) ==
    LET o == cache.ns[n]
        start == [pc |-> "pods", ns |-> n, keep |-> {}, todo |-> {}, failed |-> FALSE]
    IN /\ job = Idle /\ n \in queue
       /\ queue' = queue \ {n}
       /\ job' = IF skipped(o) THEN Idle
                 ELSE IF ~IsManaged(n, o) THEN [start EXCEPT !.pc = "list"] ELSE start
       /\ UNCHANGED <<world, podVars>>

listPods ==
    /\ job.pc = "pods"
    /\ \E ks \in {desiredHostPortKeys(podCache, job.ns)} :
          job' = [job EXCEPT !.pc = "apply", !.keep = ks, !.todo = ks]
    /\ UNCHANGED <<world, queue, podVars>>

(* The loop goes on with the keys left, in the order of a map.             *)
Applying(failed) ==
    [pc |-> "apply", ns |-> job.ns, keep |-> job.keep, todo |-> job.todo, failed |-> failed]

applyPolicy ==
    /\ job.pc = "apply"
    /\ \/ \E k \in job.todo :
             job' = IF policyUpToDate(cache.obj[job.ns][k], buildHostPortPolicy(k))
                    THEN [job EXCEPT !.todo = @ \ {k}]
                    ELSE [pc |-> "patch", ns |-> job.ns, key |-> k, keep |-> job.keep,
                          todo |-> job.todo \ {k}, failed |-> job.failed]
       \/ job.todo = {} /\ job' = [job EXCEPT !.pc = "list"]
    /\ UNCHANGED <<world, queue, podVars>>

Patch ==
    /\ job.pc = "patch"
    /\ IF Appliable(job.ns, job.key)
       THEN Put(job.ns, job.key, Applied(api.obj[job.ns][job.key])) /\ job' = Applying(job.failed)
       ELSE job' = Applying(TRUE) /\ UNCHANGED <<api, behind, due>>
    /\ UNCHANGED <<cache, edits, faults, queue, podVars>>

(* Mutant: a key whose apply failed is not kept.                           *)
ApplyFailsDropping ==
    /\ job.pc = "patch" /\ Fault
    /\ job' = [Applying(TRUE) EXCEPT !.keep = @ \ {job.key}]
    /\ UNCHANGED <<cache, behind, due, queue, podVars>>

(* A failed apply does not stop the loop, and its key stays kept.          *)
ApplyFails ==
    /\ job.pc = "patch" /\ Fault
    /\ job' = Applying(TRUE)
    /\ UNCHANGED <<cache, behind, due, queue, podVars>>

sweepStalePolicies ==
    /\ job.pc = "list"
    /\ job' = [job EXCEPT !.pc = "delete", !.todo = Stale(job.ns, job.keep)]
    /\ UNCHANGED <<world, queue, podVars>>

(* The errors of the applies are returned after the sweep.                 *)
DeleteStale ==
    /\ job.pc = "delete"
    /\ \/ \E x \in job.todo :
             Put(job.ns, x, None) /\ job' = [job EXCEPT !.todo = @ \ {x}] /\ UNCHANGED queue
       \/ job.todo = {} /\ job.failed /\ Fail /\ UNCHANGED <<api, behind, due>>
       \/ job.todo = {} /\ ~job.failed /\ Done /\ UNCHANGED <<api, behind, due>>
    /\ UNCHANGED <<cache, edits, faults, podVars>>

DeleteFails ==
    /\ job.pc = "delete" /\ job.todo # {}
    /\ Fault /\ Fail
    /\ UNCHANGED <<cache, behind, due, podVars>>

Restart == Crash /\ podCache' = pods /\ podBehind' = {} /\ podDue' = {} /\ UNCHANGED pods

Reconcile ==
    \/ \E n \in Namespaces : Begin(n)
    \/ listPods \/ applyPolicy \/ Patch \/ sweepStalePolicies \/ DeleteStale

Next ==
    \/ OthersOfNamespaces
    \/ \E p \in Pods : CreatePod(p) \/ DeletePod(p) \/ EvictPod(p)
    \/ Watches \/ Reconcile \/ ApplyFails \/ DeleteFails \/ Restart

Spec == Init /\ [][Next]_vars

(* The informers' and the worker's goroutines run.                         *)
FairSpec == Spec /\ WF_vars(Watches) /\ WF_vars(Reconcile)

-----------------------------------------------------------------------------
(* Properties.                                                             *)

(* Every variable has its type.                                            *)
TypeOK ==
    /\ WorldOK /\ job \in Jobs
    /\ pods \in [Pods -> {NoPod} \cup PodSpecs] /\ podCache \in [Pods -> {NoPod} \cup PodSpecs]
    /\ podDue \subseteq podBehind /\ podBehind \subseteq Pods

Declared(n) == IF Managed(n) THEN desiredHostPortKeys(pods, n) ELSE {}

(* The namespace will be looked at again, for one of its pods also.        *)
Attended(n) == Pending(n) \/ \E p \in podDue : PodNS[p] = n

Right(n) ==
    \A k \in Names :
        LET o == api.obj[n][k]
        IN IF k \in Declared(n) THEN o = Applied(o) ELSE ~operatorManaged(o)

(* A reconcile after the one in progress is certain.                       *)
DueAgain(n) == n \in queue \/ <<n, "ns">> \in behind \/ \E p \in podDue : PodNS[p] = n

(* hostport_controller.go: a failed apply's key stays kept, so that the    *)
(* sweep leaves a live policy of that port alone.  The operator deletes a  *)
(* policy that nobody declares, or one that was declared too late for the  *)
(* reconcile in progress: then another one follows and puts it back.       *)
DeclaredPortsStayOpen ==
    [][\A n \in Namespaces, k \in Names :
          /\ api.obj[n][k].present /\ ~api'.obj[n][k].present
          /\ api.ns[n].phase = "active" /\ edits' = edits
          => k \notin Declared(n) \/ DueAgain(n)]_vars

Level == INSTANCE LevelTriggered
    WITH Keys     <- Namespaces,
         right    <- {n \in Namespaces : api.ns[n].phase = "active" => Right(n)},
         attended <- {n \in Namespaces : Attended(n)}

(* ADR 0040 and 0044: the hostPort controller is level-triggered.  A       *)
(* namespace nobody will look at again has a policy for every hostPort its *)
(* pods declare and no other hostPort policy, whatever failed on the way.  *)
IsLevelTriggered == Level!Safety

(* And it comes to rest: neither failed applies, which do not end the      *)
(* reconcile, nor a namespace on its way out keep it trying for ever.      *)
ComesToRest == Level!ComesToRest

=============================================================================
