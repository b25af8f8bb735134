------------------------------- MODULE Baseline -------------------------------
(***************************************************************************)
(* The namespace controller (namespace_reconciler.go, baseline.go): the    *)
(* deny-all policy kube-vnet.base in every managed namespace and in no     *)
(* other, through applyPolicy and sweepStalePolicies (sweep.go).  It reads *)
(* everything, the policies included, from caches that lag.                *)
(***************************************************************************)
EXTENDS Namespaced

vars == <<world, queue, job>>

(* The policies labelled as baselines: the one the operator wants, and one *)
(* under a name of an older naming scheme.  An ingress rule is an extra:   *)
(* DesiredBaseline sets none.                                              *)
ASSUME PoliciesAssumption == Names = {"base", "legacy"}

DesiredBaseline == Desired

Work ==
    [pc      : {"read", "patch", "list", "delete"},
     ns      : Namespaces,
     keep    : SUBSET Names,     \* what the sweep leaves alone
     todo    : SUBSET Names]     \* what it has yet to delete

Jobs == {Idle} \cup Work

Init == Start

-----------------------------------------------------------------------------
(* Reconcile.                                                              *)

(* The namespace is read: a missing or terminating one is left alone, an   *)
(* unmanaged one swept.                                                    *)
Begin(n) ==
    LET o == cache.ns[n]
        start == [pc |-> "read", ns |-> n, keep |-> {}, todo |-> {}]
    IN /\ job = Idle /\ n \in queue
       /\ queue' = queue \ {n}
       /\ job' = IF o.phase # "active" THEN Idle
                 ELSE IF ~IsManaged(n, o) THEN [start EXCEPT !.pc = "list"] ELSE start
       /\ UNCHANGED world

SweepOthers == job' = [job EXCEPT !.pc = "list", !.keep = {"base"}]

(* Nothing is written when the cached policy matches.                      *)
applyPolicy ==
    /\ job.pc = "read"
    /\ IF policyUpToDate(cache.obj[job.ns]["base"], DesiredBaseline) THEN SweepOthers
       ELSE job' = [job EXCEPT !.pc = "patch"]
    /\ UNCHANGED <<world, queue>>

Patch ==
    /\ job.pc = "patch"
    /\ IF Appliable(job.ns, "base")
       THEN /\ Put(job.ns, "base", Applied(api.obj[job.ns]["base"]))
            /\ SweepOthers /\ UNCHANGED queue
       ELSE Fail /\ UNCHANGED <<api, behind, due>>
    /\ UNCHANGED <<cache, edits, faults>>

sweepStalePolicies ==
    /\ job.pc = "list"
    /\ job' = [job EXCEPT !.pc = "delete", !.todo = Stale(job.ns, job.keep)]
    /\ UNCHANGED <<world, queue>>

(* One delete after the other; a policy that is gone already is no error.  *)
DeleteStale ==
    /\ job.pc = "delete"
    /\ \/ \E x \in job.todo :
             /\ Put(job.ns, x, None)
             /\ job' = [job EXCEPT !.todo = @ \ {x}]
             /\ UNCHANGED queue
       \/ job.todo = {} /\ Done /\ UNCHANGED <<api, behind, due>>
    /\ UNCHANGED <<cache, edits, faults>>

(* A patch or a delete fails.                                              *)
CallFails ==
    /\ job.pc = "patch" \/ (job.pc = "delete" /\ job.todo # {})
    /\ Fault /\ Fail
    /\ UNCHANGED <<cache, behind, due>>

Restart == Crash

Reconcile ==
    \/ \E n \in Namespaces : Begin(n)
    \/ applyPolicy \/ Patch \/ sweepStalePolicies \/ DeleteStale

Next == Others \/ Deliver \/ Reconcile \/ CallFails \/ Restart

Spec == Init /\ [][Next]_vars

(* The informers' and the worker's goroutines run.                         *)
FairSpec == Spec /\ WF_vars(Deliver) /\ WF_vars(Reconcile)

-----------------------------------------------------------------------------
(* Properties.                                                             *)

(* Every variable has its type.                                            *)
TypeOK == WorldOK /\ job \in Jobs

(* Managed: the baseline with the operator's fields and no other policy    *)
(* labelled as one; not managed: none labelled as one.  Fields that the    *)
(* operator does not set are AddedRulesAreRemoved's.                       *)
Right(n) ==
    IF Managed(n)
    THEN /\ api.obj[n]["base"] = Applied(api.obj[n]["base"])
         /\ ~operatorManaged(api.obj[n]["legacy"])
    ELSE \A x \in Names : ~operatorManaged(api.obj[n][x])

Level == INSTANCE LevelTriggered
    WITH Keys     <- Namespaces,
         right    <- {n \in Namespaces : api.ns[n].phase = "active" => Right(n)},
         attended <- {n \in Namespaces : Pending(n)}

(* ADR 0044: the namespace controller is level-triggered.  A namespace     *)
(* nobody will look at again has the baseline it should have, since a      *)
(* change that the cache lags has its own watch event (sweep.go).          *)
IsLevelTriggered == Level!Safety

(* And it comes to rest: the controller watches what it writes, but its    *)
(* own writes, drift that an apply cannot remove and namespaces that are   *)
(* torn down do not keep it busy for ever.                                 *)
ComesToRest == Level!ComesToRest

(* A managed namespace that nobody is going to look at again.              *)
Rests(n) == ~Pending(n) /\ api.ns[n].phase = "active" /\ Managed(n)

(* "A hand-added allow rule on an operator policy is removed on the next   *)
(* apply" (architecture.md).  It is not so of kube-vnet.base, whose apply  *)
(* sets no ingress field (DesiredBaseline): the rule stays, and opens      *)
(* every pod of the namespace to what it allows.                           *)
AddedRulesAreRemoved == \A n \in Namespaces : Rests(n) => ~api.obj[n]["base"].extra

=============================================================================
