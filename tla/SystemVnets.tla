----------------------------- MODULE SystemVnets -----------------------------
(***************************************************************************)
(* The system vnet controller (system_vnet_controller.go): the vnet        *)
(* `namespace` in every managed namespace, and the vnet `cluster` in the   *)
(* operator's namespace, which is not managed.  An apply does not read     *)
(* first; a delete goes by the cached vnet.                                *)
(***************************************************************************)
EXTENDS Namespaced

CONSTANT OperatorNS

(* The reserved names.  allowedNamespaces is an extra of `namespace`,      *)
(* whose desired form sets none.                                           *)
ASSUME SystemAssumption ==
    /\ Names = {"namespace", "cluster"}
    /\ OperatorNS \in Namespaces

vars == <<world, queue, job>>

Work == [pc : {"apply", "get", "delete", "cluster"}, ns : Namespaces]

Jobs == {Idle} \cup Work

Init == Start

-----------------------------------------------------------------------------
(* Reconcile.                                                              *)

(* Mutant: the operator's namespace is no exception.                       *)
unmanagedAll(n) == "get"

(* What is done for a namespace that is not managed; the operator's own    *)
(* only gets the cluster vnet.                                             *)
unmanaged(n) == IF n # OperatorNS THEN "get" ELSE "cluster"

(* Mutant: applies go on while the namespace is torn down.                 *)
skippedMissing(o) == o.phase = "absent"

(* A missing or terminating namespace is left alone.                       *)
skipped(o) == o.phase # "active"

Begin(n) ==
    LET o == cache.ns[n]
    IN /\ job = Idle /\ n \in queue
       /\ queue' = queue \ {n}
       /\ job' = IF skipped(o) THEN Idle
                 ELSE [pc |-> IF IsManaged(n, o) THEN "apply" ELSE unmanaged(n), ns |-> n]
       /\ UNCHANGED world

(* The last step is the cluster vnet, in the operator's namespace.         *)
Continue ==
    IF job.ns = OperatorNS THEN job' = [job EXCEPT !.pc = "cluster"] /\ UNCHANGED queue ELSE Done

(* Patch without a read; it fails where nothing can be created.            *)
Apply(x) == Put(job.ns, x, Applied(api.obj[job.ns][x]))

applySystemVnet ==
    /\ job.pc \in {"apply", "cluster"}
    /\ LET x == IF job.pc = "apply" THEN "namespace" ELSE "cluster"
       IN IF Appliable(job.ns, x)
          THEN Apply(x) /\ IF job.pc = "apply" THEN Continue ELSE Done
          ELSE Fail /\ UNCHANGED <<api, behind, due>>
    /\ UNCHANGED <<cache, edits, faults>>

(* Only what the operator created is deleted.                              *)
deletable(o) == operatorManaged(o)

deleteNamespaceSystemVnet ==
    /\ \/ /\ job.pc = "get"
          /\ IF deletable(cache.obj[job.ns]["namespace"])
             THEN job' = [job EXCEPT !.pc = "delete"] /\ UNCHANGED queue
             ELSE Done
          /\ UNCHANGED <<api, behind, due>>
       \/ job.pc = "delete" /\ Put(job.ns, "namespace", None) /\ Done
    /\ UNCHANGED <<cache, edits, faults>>

(* An apply or a delete fails.                                             *)
CallFails ==
    /\ job.pc \in {"apply", "delete", "cluster"}
    /\ Fault /\ Fail
    /\ UNCHANGED <<cache, behind, due>>

Restart == Crash

Reconcile ==
    (\E n \in Namespaces : Begin(n)) \/ applySystemVnet \/ deleteNamespaceSystemVnet

Next == Others \/ Deliver \/ Reconcile \/ CallFails \/ Restart

Spec == Init /\ [][Next]_vars

(* The informers' and the worker's goroutines run.                         *)
FairSpec == Spec /\ WF_vars(Deliver) /\ WF_vars(Reconcile)

-----------------------------------------------------------------------------
(* Properties.                                                             *)

(* Every variable has its type.                                            *)
TypeOK == WorldOK /\ job \in Jobs

(* The namespace has its vnet, with the operator's fields, if and only if  *)
(* it is managed, and the operator's namespace has the cluster vnet.  (The *)
(* operator does not delete in its own namespace.)  Fields that it does    *)
(* not set, allowedNamespaces of `namespace`, are whoever's set them: an   *)
(* apply does not undo them.                                               *)
Right(n) ==
    LET v == api.obj[n]
    IN /\ Managed(n) => v["namespace"] = Applied(v["namespace"])
       /\ ~Managed(n) /\ n # OperatorNS => ~operatorManaged(v["namespace"])
       /\ n = OperatorNS => v["cluster"] = Applied(v["cluster"])

(* Reconcile: a managed namespace has its vnet.  The worker deletes it     *)
(* from a namespace that is managed by then only when the change is still  *)
(* on its way, or the namespace queued again, so that the vnet comes back. *)
VnetsInUseStay ==
    [][\A n \in Namespaces :
          Managed(n) /\ api.obj[n]["namespace"].present /\ ~api'.obj[n]["namespace"].present
              => \/ edits' # edits \/ api.ns[n].phase = "terminating"
                 \/ n \in queue \/ <<n, "ns">> \in behind]_vars

Level == INSTANCE LevelTriggered
    WITH Keys     <- Namespaces,
         right    <- {n \in Namespaces : api.ns[n].phase = "active" => Right(n)},
         attended <- {n \in Namespaces : Pending(n)}

(* ADR 0030, 0033 and 0044: the system vnet controller is level-triggered. *)
(* A namespace nobody will look at again has its system vnets, although    *)
(* applies do not read first and deletes go by a cache that lags.          *)
IsLevelTriggered == Level!Safety

(* And it comes to rest: applies and deletes do not feed each other for    *)
(* ever, and a namespace that is torn down does not keep the worker trying. *)
ComesToRest == Level!ComesToRest

=============================================================================
