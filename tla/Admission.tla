------------------------------ MODULE Admission ------------------------------
(***************************************************************************)
(* The pod admission webhooks (webhook/podresolution: handlers.go,         *)
(* mutator.go, validator.go) beside the resolution controller: two writers *)
(* of the same stamps.                                                     *)
(*                                                                         *)
(* A user's create or update of a pod passes the mutating webhook, which   *)
(* stamps it, then the validating one, which refuses stamps that are not   *)
(* resolution's, and is stored.  Each handler reads the namespace and the  *)
(* tiers one after the other from caches that move on.  A failing mutator  *)
(* is ignored, a failing validator denies (failurePolicy).                 *)
(***************************************************************************)
EXTENDS Resolution

CONSTANT Requests   \* what users submit for a pod

(* forged: the stamps the request sets itself; "none" removes one.         *)
ASSUME RequestsAssumption ==
    Requests \subseteq [labels : PodLabels, joins : SUBSET UserRules,
                        forged : SUBSET (Keys \X BareDirections)]

(* Somebody who may write vnet k, or the labels of n, can let n join k.    *)
Grantable(k, n) ==
    \/ k = ClusterKey
    \/ \E spec \in VnetValues[k] \cup {c.vnet[k] : c \in InitApis},
          o \in NsValues[n] \cup {c.ns[n] : c \in InitApis} :
          spec.present /\ (n = k[1] \/ spec.all \/ n \in spec.names \/ o.labels \in spec.selector)

(* The pods the operator finds were stamped by an operator.                *)
ASSUME StampsAssumption ==
    \A c \in InitApis, p \in Pods, k \in Keys :
        c.pod[p].present /\ c.pod[p].stamps[k] # "none" => Grantable(k, PodNS[p])

VARIABLES
    req,     \* the request in flight
    unseen   \* pods with a relevant event the controller's watch has yet to show

allVars == <<vars, req, unseen>>

NoReq == [stage |-> "none"]

InFlight ==
    [stage  : {"mutator", "mutating", "validator", "validating", "store", "denied"},
     pod    : Pods,
     old    : PodObj,      \* the stored pod when the request came
     asked  : PodObj,      \* the pod as submitted
     obj    : PodObj,      \* the pod as mutated
     scope  : 1 .. 4,      \* the tier to read next
     layers : [Scopes -> SUBSET (Keys \X Directions)],
     latest : BOOLEAN,     \* old is still the stored version
     moved  : BOOLEAN,     \* a cache changed since the request came
     failed : BOOLEAN]     \* the validator failed

(* What req ranges over.                                                   *)
Reqs == {NoReq} \cup InFlight

AInit == Init /\ req = NoReq /\ unseen = {}

-----------------------------------------------------------------------------
(* Requests.                                                               *)

oldStamps == IF req.old.present THEN req.old.stamps ELSE NoStamps

(* The request left stamp k as the old object has it.                      *)
untouched(stamps, k) == stamps[k] = oldStamps[k]

(* Mutant: the validator polices every stamp.                              *)
touchedAll == Keys

touched == {k \in Keys : ~untouched(req.obj.stamps, k)}

withForged(stamps, F) ==
    [k \in Keys |-> IF \E f \in F : f[1] = k
                    THEN (CHOOSE f \in F : f[1] = k)[2] ELSE stamps[k]]

(* A create, or an update of a stored pod (a change of other fields only   *)
(* leaves labels, joins and stamps as they are).  The excluded namespaces  *)
(* are outside the webhooks' selectors.                                    *)
Submit(p) ==
    LET old == api.pod[p]
    IN /\ req = NoReq
       /\ edits < MaxEdits
       /\ edits' = edits + 1
       /\ PodNS[p] \notin Excluded
       /\ api.ns[PodNS[p]].present
       /\ old.present \/ ~cache.pod[p].present
       /\ \E r \in Requests :
             LET asked == [present |-> TRUE, terminating |-> old.present /\ old.terminating,
                           labels |-> r.labels, joins |-> r.joins,
                           stamps |-> withForged(IF old.present THEN old.stamps ELSE NoStamps,
                                                 r.forged),
                           resolved |-> old.present /\ old.resolved]
             IN req' = [stage |-> "mutator", pod |-> p, old |-> old, asked |-> asked,
                        obj |-> asked, scope |-> 1, layers |-> NoLayers,
                        latest |-> TRUE, moved |-> FALSE, failed |-> FALSE]
       /\ UNCHANGED <<api, cache, notes, queue, job, faults, unseen>>

(* DesiredLabels reads a tier at a time, for either handler.               *)
ReadTierFor(s) ==
    /\ req.stage \in {"mutating", "validating"} /\ req.scope = s
    /\ req' = [req EXCEPT !.scope = s + 1,
                          !.layers[s] = Layer(cache, s, req.obj, PodNS[req.pod])]
    /\ UNCHANGED <<vars, unseen>>

-----------------------------------------------------------------------------
(* Mutator.                                                                *)

(* Nothing is done in an unmanaged namespace.                              *)
namespaceManaged ==
    /\ req.stage = "mutator"
    /\ req' = [req EXCEPT !.stage = IF IsManaged(cache, PodNS[req.pod])
                                    THEN "mutating" ELSE "validator"]
    /\ UNCHANGED <<vars, unseen>>

(* SyncStamps with the stamps the request left untouched.                  *)
SyncUntouched(pod, desired) ==
    [pod EXCEPT !.stamps = [k \in Keys |-> IF untouched(pod.stamps, k)
                                           THEN desired[k] ELSE pod.stamps[k]]]

Mutate ==
    /\ req.stage = "mutating" /\ req.scope = 4
    /\ req' = [req EXCEPT !.stage = "validator", !.scope = 1, !.layers = NoLayers,
                          !.obj = MarkResolved(SyncUntouched(@, DesiredStamps(req.layers)))]
    /\ UNCHANGED <<vars, unseen>>

-----------------------------------------------------------------------------
(* Validator.                                                              *)

(* Mutant: stamps that do not resolve at all are let through.              *)
badKnownOnly(desired) == {k \in touched : desired[k] # "none" /\ req.obj.stamps[k] # desired[k]}

(* The touched stamps that are not resolution's: added or changed to       *)
(* another value, or removed although still resolved.                      *)
bad(desired) == {k \in touched : req.obj.stamps[k] # desired[k]}

verdict(desired) ==
    req' = [req EXCEPT !.stage = IF bad(desired) = {} THEN "store" ELSE "denied"]

(* Nothing is looked up when no stamp was touched; an unmanaged namespace  *)
(* resolves to nothing.                                                    *)
Validate ==
    /\ req.stage = "validator"
    /\ IF touched = {} THEN req' = [req EXCEPT !.stage = "store"]
       ELSE IF IsManaged(cache, PodNS[req.pod]) THEN req' = [req EXCEPT !.stage = "validating"]
       ELSE verdict(NoStamps)
    /\ UNCHANGED <<vars, unseen>>

Judge ==
    /\ req.stage = "validating" /\ req.scope = 4
    /\ verdict(DesiredStamps(req.layers))
    /\ UNCHANGED <<vars, unseen>>

-----------------------------------------------------------------------------
(* Around the handlers.                                                    *)

(* A write to a pod is an event of its own: one that is undone by the next *)
(* write is seen nevertheless.                                             *)
Written == unseen \cup {p \in Pods : podPredicate(api.pod[p], api'.pod[p])}

(* The pod is stored unless it was written since the request came, or its  *)
(* namespace is gone.                                                      *)
Store ==
    /\ req.stage = "store"
    /\ api' = IF req.latest /\ api.ns[PodNS[req.pod]].present
              THEN [api EXCEPT !.pod[req.pod] = req.obj] ELSE api
    /\ req' = NoReq
    /\ unseen' = Written
    /\ UNCHANGED <<cache, notes, queue, job, edits, faults>>

(* The user takes note of a denial.                                        *)
Refused == req.stage = "denied" /\ req' = NoReq /\ UNCHANGED <<vars, unseen>>

(* A handler is unreachable, fails or times out.                           *)
afterFailure(r) ==
    CASE r.stage \in {"mutator", "mutating"} ->
            [r EXCEPT !.stage = "validator", !.scope = 1, !.layers = NoLayers]
      [] r.stage \in {"validator", "validating"} ->
            [r EXCEPT !.stage = "denied", !.failed = TRUE]
      [] OTHER -> r

WebhookFails ==
    /\ faults < MaxFaults
    /\ faults' = faults + 1
    /\ req.stage \in {"mutator", "mutating", "validator", "validating"}
    /\ req' = afterFailure(req)
    /\ UNCHANGED <<api, cache, notes, queue, job, edits, unseen>>

Inputs(view) == <<view.ns, view.vnet, view.cb, view.nb, view.bind>>

(* The request waits while something else happens.                         *)
Meanwhile ==
    /\ unseen' = Written
    /\ req' = IF req = NoReq THEN NoReq
              ELSE [req EXCEPT !.latest = @ /\ api'.pod[req.pod] = api.pod[req.pod],
                               !.moved = @ \/ Inputs(cache') # Inputs(cache)]

(* The pods' informer, and the others as in Resolution.                    *)
SeePod(p) ==
    /\ p \in unseen \/ cache.pod[p] # api.pod[p]
    /\ cache' = [cache EXCEPT !.pod[p] = api.pod[p]]
    /\ notes' = IF p \in unseen THEN [notes EXCEPT !.pod = @ \cup {p}] ELSE notes
    /\ unseen' = unseen \ {p}
    /\ UNCHANGED <<api, queue, job, edits, faults, req>>

DeliverInput ==
    \/ \E n \in Namespaces : DeliverNamespace(n) \/ DeliverBaseline(n)
    \/ \E v \in Vnets : DeliverVnet(v)
    \/ DeliverClusterBaseline
    \/ \E b \in Bindings : DeliverBinding(b)

(* Users' other edits, as in Resolution.                                   *)
OtherEdit ==
    \/ \E n \in Namespaces : EditNamespace(n) \/ EditBaseline(n)
    \/ \E v \in Vnets : EditVnet(v)
    \/ EditClusterBaseline
    \/ \E b \in Bindings : EditBinding(b)
    \/ \E p \in Pods : DeletePod(p)

ANext ==
    \/ (OtherEdit \/ DeliverInput \/ Handle \/ Reconcile \/ ReconcileError) /\ Meanwhile
    \/ Restart /\ req' = afterFailure(req) /\ unseen' = {}
    \/ \E p \in Pods : SeePod(p)
    \/ \E p \in Pods : Submit(p)
    \/ namespaceManaged \/ Mutate \/ Validate \/ Judge \/ Store \/ Refused \/ WebhookFails
    \/ \E s \in Scopes : ReadTierFor(s)

ASpec == AInit /\ [][ANext]_allVars

-----------------------------------------------------------------------------
(* Properties.                                                             *)

(* Every variable has its type.                                            *)
ATypeOK == TypeOK /\ req \in Reqs /\ unseen \subseteq Pods

(* Two writers, no missed trigger: a pod that nobody is going to look at   *)
(* again carries the stamps its cached inputs call for, also when the      *)
(* webhooks have stored stamps that were resolved from older caches than   *)
(* the controller's last look at the pod.                                  *)
PodsAreRevisited ==
    \A p \in Pods : Pending(p) \/ Busy(p) \/ p \in unseen \/ Settled(cache, p)

(* The two handlers agree (validator.go: enforcing the full set would deny *)
(* an unrelated edit on a pod whose stamps are mid-reconcile): a request   *)
(* that touches no stamp itself is denied only if the validator failed or  *)
(* the caches moved between the mutator's reads and the validator's.  A    *)
(* mutator that failed is no reason.                                       *)
HonestRequestsPass ==
    req.stage = "denied" /\ req.asked.stamps = oldStamps => req.failed \/ req.moved

(* validator.go: forgery stays impossible, even while the operator is      *)
(* down: a pod never carries a stamp for a vnet that nothing anybody wrote *)
(* to vnets and namespaces could let its namespace join, not even between  *)
(* two reconciles.                                                         *)
NoForgedStamps ==
    \A p \in Pods, k \in Keys :
        api.pod[p].present /\ api.pod[p].stamps[k] # "none" => Grantable(k, PodNS[p])

=============================================================================
