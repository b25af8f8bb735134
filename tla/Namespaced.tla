------------------------------ MODULE Namespaced ------------------------------
(***************************************************************************)
(* What the namespace-keyed controllers work on: namespaces, and in each a *)
(* few objects of the operator under fixed names.  Namespaces are disabled,*)
(* deleted and recreated, objects edited, deleted or replaced by a user's   *)
(* own; the informers' caches lag, and every event enqueues the object's    *)
(* namespace.                                                              *)
(***************************************************************************)
EXTENDS Naturals

CONSTANTS
    Namespaces,
    Excluded,      \* --disabled-namespaces
    Names,         \* the objects the operator may have in a namespace
    InitApis,      \* the clusters the operator can be started in
    ObjectEdits,   \* what users make of an object that exists
    MaxEdits,      \* bound on user edits
    MaxFaults      \* bound on failed calls and operator restarts

NamespaceObj == [phase : {"absent", "active", "terminating"}, disabled : BOOLEAN]

(* labelled: it has the labels the operator knows its objects by.  owned:  *)
(* the other fields that an apply sets are as desired.  extra: another     *)
(* manager has added fields that an apply does not set.                    *)
Objs == [present : BOOLEAN, labelled : BOOLEAN, owned : BOOLEAN, extra : BOOLEAN]

None == [present |-> FALSE, labelled |-> FALSE, owned |-> FALSE, extra |-> FALSE]

Desired == [present |-> TRUE, labelled |-> TRUE, owned |-> TRUE, extra |-> FALSE]

Clusters == [ns : [Namespaces -> NamespaceObj], obj : [Namespaces -> [Names -> Objs]]]

ASSUME NamespacedAssumption ==
    /\ Excluded \subseteq Namespaces
    /\ "ns" \notin Names
    /\ InitApis \subseteq Clusters
    /\ ObjectEdits \subseteq Objs
    /\ MaxEdits \in Nat /\ MaxFaults \in Nat

VARIABLES
    api,     \* the objects as the API server stores them
    cache,   \* the informers' copies
    behind,  \* the objects with versions the cache has not seen
    due,     \* those of them with an event that passes the watch's predicate
    queue,   \* the workqueue: namespaces to reconcile
    job,     \* the reconcile in progress
    edits,   \* user edits so far
    faults   \* failures so far

world == <<api, cache, behind, due, edits, faults>>

Idle == [pc |-> "idle"]

IsManaged(n, o) == n \notin Excluded /\ ~o.disabled

-----------------------------------------------------------------------------
(* Watches.                                                                *)

operatorManaged(o) == o.present /\ o.labelled

(* Mutant: deletions are not looked at.                                    *)
watchedUpdates(old, new) == operatorManaged(new)

(* An event passes the watch's predicate: a creation or an update by the   *)
(* new object, a deletion by the deleted one.                              *)
watched(old, new) == operatorManaged(IF new.present THEN new ELSE old)

(* What a starting operator's initial lists enqueue.                       *)
StartQueue(view) ==
    {n \in Namespaces : \/ view.ns[n].phase # "absent"
                        \/ \E x \in Names : operatorManaged(view.obj[n][x])}

Start ==
    /\ api \in InitApis
    /\ cache = api
    /\ behind = {} /\ due = {}
    /\ queue = StartQueue(api)
    /\ job = Idle
    /\ edits = 0
    /\ faults = 0

(* Mutant: the watch drops updates that leave the generation, such as the  *)
(* annotation's.                                                           *)
DeliverGeneration(n) ==
    /\ <<n, "ns">> \in behind
    /\ behind' = behind \ {<<n, "ns">>}
    /\ cache' = [cache EXCEPT !.ns[n] = api.ns[n]]
    /\ queue' = IF api.ns[n].phase = cache.ns[n].phase THEN queue ELSE queue \cup {n}
    /\ UNCHANGED <<api, due, job, edits, faults>>

(* Every event of a namespace enqueues it.                                 *)
DeliverNamespace(n) ==
    /\ <<n, "ns">> \in behind
    /\ behind' = behind \ {<<n, "ns">>}
    /\ cache' = [cache EXCEPT !.ns[n] = api.ns[n]]
    /\ queue' = queue \cup {n}
    /\ UNCHANGED <<api, due, job, edits, faults>>

(* An object's event enqueues its namespace (objectNamespace).             *)
DeliverObject(n, x) ==
    /\ <<n, x>> \in behind
    /\ behind' = behind \ {<<n, x>>} /\ due' = due \ {<<n, x>>}
    /\ cache' = [cache EXCEPT !.obj[n][x] = api.obj[n][x]]
    /\ queue' = IF <<n, x>> \in due THEN queue \cup {n} ELSE queue
    /\ UNCHANGED <<api, job, edits, faults>>

Deliver == \E n \in Namespaces : DeliverNamespace(n) \/ \E x \in Names : DeliverObject(n, x)

-----------------------------------------------------------------------------
(* The API server and its users.                                           *)

(* A write that changes nothing makes no version and no event.             *)
Put(n, x, o) ==
    LET old == api.obj[n][x]
    IN /\ api' = [api EXCEPT !.obj[n][x] = o]
       /\ behind' = IF o = old THEN behind ELSE behind \cup {<<n, x>>}
       /\ due' = IF o # old /\ watched(old, o) THEN due \cup {<<n, x>>} ELSE due

PutNamespace(n, o) ==
    /\ api' = [api EXCEPT !.ns[n] = o]
    /\ behind' = behind \cup {<<n, "ns">>}
    /\ UNCHANGED due

(* Server-side apply with forced ownership sets the operator's fields and  *)
(* leaves the others to whoever set them.                                  *)
Applied(o) ==
    IF o.present THEN [o EXCEPT !.labelled = TRUE, !.owned = TRUE] ELSE Desired

(* Nothing can be created in a namespace that is gone or on its way out.   *)
Appliable(n, x) == api.obj[n][x].present \/ api.ns[n].phase = "active"

UserEdit == edits < MaxEdits /\ edits' = edits + 1 /\ UNCHANGED <<cache, queue, job, faults>>

AnnotateNamespace(n) ==
    /\ api.ns[n].phase = "active"
    /\ PutNamespace(n, [api.ns[n] EXCEPT !.disabled = ~@])
    /\ UserEdit

DeleteNamespace(n) ==
    /\ api.ns[n].phase = "active"
    /\ PutNamespace(n, [api.ns[n] EXCEPT !.phase = "terminating"])
    /\ UserEdit

CreateNamespace(n) ==
    /\ api.ns[n].phase = "absent"
    /\ PutNamespace(n, [phase |-> "active", disabled |-> FALSE])
    /\ UserEdit

(* The chart's admission policy keeps users from adding or removing the    *)
(* operator's labels.                                                      *)
EditObject(n, x) ==
    /\ api.obj[n][x].present
    /\ \E o \in ObjectEdits :
          /\ o # api.obj[n][x] /\ (o.present => o.labelled = api.obj[n][x].labelled)
          /\ Put(n, x, o)
    /\ UserEdit

(* Under a name that is not reserved, or where the admission policy that   *)
(* reserves it is absent, users create an object of their own.             *)
CreateObject(n, x) ==
    /\ api.ns[n].phase = "active" /\ ~api.obj[n][x].present
    /\ \E o \in ObjectEdits : o.present /\ ~o.labelled /\ Put(n, x, o)
    /\ UserEdit

(* The namespace controller of Kubernetes empties a terminating namespace  *)
(* and removes it.                                                         *)
EmptyNamespace(n) ==
    /\ api.ns[n].phase = "terminating"
    /\ \/ \E x \in Names : api.obj[n][x].present /\ Put(n, x, None)
       \/ /\ \A x \in Names : ~api.obj[n][x].present
          /\ PutNamespace(n, [phase |-> "absent", disabled |-> FALSE])
    /\ UNCHANGED <<cache, queue, job, edits, faults>>

Others ==
    \E n \in Namespaces :
        \/ AnnotateNamespace(n) \/ DeleteNamespace(n) \/ CreateNamespace(n)
        \/ \E x \in Names : EditObject(n, x) \/ CreateObject(n, x)
        \/ EmptyNamespace(n)

-----------------------------------------------------------------------------
(* The worker.  What the policy controllers share (sweep.go) is here.      *)

(* Labels, owner references and spec equal, the spec's unset fields too.   *)
policyUpToDate(live, desired) == live = desired

(* Mutant: the desired policy is swept as well.                            *)
StaleAll(n, keep) == {x \in Names : operatorManaged(cache.obj[n][x])}

(* The labelled policies the cache lists, except those to keep.            *)
Stale(n, keep) == {x \in Names : operatorManaged(cache.obj[n][x])} \ keep

Done == job' = Idle /\ UNCHANGED queue

(* An error puts the namespace back into the queue.                        *)
Fail == job' = Idle /\ queue' = queue \cup {job.ns}

(* The next call of the reconcile fails.                                   *)
Fault == faults < MaxFaults /\ faults' = faults + 1 /\ UNCHANGED <<api, edits>>

Crash ==
    /\ Fault
    /\ cache' = api /\ behind' = {} /\ due' = {}
    /\ queue' = StartQueue(api) /\ job' = Idle

-----------------------------------------------------------------------------

WorldOK ==
    /\ api \in Clusters /\ cache \in Clusters
    /\ behind \subseteq Namespaces \X (Names \cup {"ns"})
    /\ due \subseteq behind \cap (Namespaces \X Names)
    /\ queue \subseteq Namespaces
    /\ edits \in 0 .. MaxEdits /\ faults \in 0 .. MaxFaults

(* Somebody is going to look at namespace n again.                         *)
Pending(n) ==
    \/ n \in queue
    \/ job # Idle /\ job.ns = n
    \/ \E x \in Names \cup {"ns"} : <<n, x>> \in behind

Managed(n) == IsManaged(n, api.ns[n])

=============================================================================
