--------------------------- MODULE SystemVnetsProofs ---------------------------
(***************************************************************************)
(* Proofs about SystemVnets, for any namespaces, clusters, edits and       *)
(* bounds.                                                                 *)
(***************************************************************************)
EXTENDS SystemVnets, NamespacedProofs

(* What the worker has found out about its namespace, and done there, is   *)
(* still so, unless an event is due that brings it back.                   *)
JobIsCurrent ==
    \A n \in Namespaces :
        job # Idle /\ job.ns = n /\ ~EventDue(n) /\ api.ns[n].phase = "active" =>
            /\ job.pc = "apply" => Managed(n)
            /\ job.pc = "cluster" =>
                  /\ n = OperatorNS
                  /\ Managed(n) => api.obj[n]["namespace"] = Applied(api.obj[n]["namespace"])
            /\ job.pc \in {"get", "delete"} => ~Managed(n) /\ n # OperatorNS

(* A live namespace that no event is due for, and that is not being        *)
(* reconciled, is right.                                                   *)
RestingIsRight ==
    \A n \in Namespaces :
        ~EventDue(n) /\ (job = Idle \/ job.ns # n) /\ api.ns[n].phase = "active" => Right(n)

(* The worker is about to delete a vnet in a namespace that is not managed, *)
(* or the namespace's own event has yet to bring it back.                  *)
DeletesUnmanaged ==
    \A n \in Namespaces :
        job # Idle /\ job.ns = n /\ job.pc \in {"get", "delete"} /\ Managed(n) =>
            n \in queue \/ <<n, "ns">> \in behind

(* The inductive invariant.                                                *)
IInv == TypeOK /\ CacheFollows /\ JobIsCurrent /\ RestingIsRight /\ DeletesUnmanaged

-----------------------------------------------------------------------------
(* Types.                                                                  *)

(* At every step but the first the worker is at work.                      *)
LEMMA AtWork ==
    ASSUME TypeOK, applySystemVnet \/ deleteNamespaceSystemVnet \/ CallFails
    PROVE  job \in Work /\ job # Idle /\ job.ns \in Namespaces
<1>1. job.pc # "idle"
  BY DEF applySystemVnet, deleteNamespaceSystemVnet, CallFails
<1>2. job \in Work /\ job # Idle
  BY <1>1 DEF TypeOK, Jobs, Idle
<1> QED BY <1>2 DEF Work

(* The system vnets are objects, and what is applied to them as well.      *)
LEMMA VnetTypes ==
    ASSUME WorldOK, NEW n \in Namespaces, NEW x \in Names
    PROVE  api.obj[n][x] \in Objs /\ Applied(api.obj[n][x]) \in Objs
BY ObjectTypes DEF WorldOK, Clusters

(* The worker's steps keep the types.                                      *)
LEMMA ReconcileType == ASSUME TypeOK, Reconcile PROVE TypeOK'
<1> USE SystemAssumption
<1>1. ASSUME NEW n \in Namespaces, Begin(n) PROVE TypeOK'
  BY <1>1 DEF Begin, unmanaged, TypeOK, WorldOK, world, Jobs, Work
<1>2. CASE applySystemVnet
  <2>1. [job EXCEPT !.pc = "cluster"] \in Work
    BY <1>2, AtWork DEF Work
  <2>2. job' \in Jobs /\ queue' \subseteq Namespaces
    BY <1>2, <2>1, AtWork DEF applySystemVnet, Continue, Done, Fail, TypeOK, WorldOK, Jobs
  <2>3. PICK x \in Names : Apply(x) \/ UNCHANGED <<api, behind, due>>
    BY <1>2 DEF applySystemVnet
  <2>4. /\ api' \in Clusters
        /\ behind' \subseteq Namespaces \X (Names \cup {"ns"})
        /\ due' \subseteq behind' \cap (Namespaces \X Names)
    BY <1>2, <2>3, AtWork, VnetTypes, PutType DEF Apply, TypeOK, WorldOK
  <2> QED BY <1>2, <2>2, <2>4 DEF applySystemVnet, TypeOK, WorldOK
<1>3. CASE deleteNamespaceSystemVnet
  <2>1. [job EXCEPT !.pc = "delete"] \in Work
    BY <1>3, AtWork DEF Work
  <2>2. job' \in Jobs /\ queue' = queue
    BY <1>3, <2>1 DEF deleteNamespaceSystemVnet, Done, Jobs
  <2>3. /\ api' \in Clusters
        /\ behind' \subseteq Namespaces \X (Names \cup {"ns"})
        /\ due' \subseteq behind' \cap (Namespaces \X Names)
    BY <1>3, AtWork, ObjectTypes, PutType DEF deleteNamespaceSystemVnet, TypeOK, WorldOK
  <2> QED BY <1>3, <2>2, <2>3 DEF deleteNamespaceSystemVnet, TypeOK, WorldOK
<1> QED BY <1>1, <1>2, <1>3 DEF Reconcile

(* Failures and restarts keep the types.                                   *)
LEMMA FaultType == ASSUME TypeOK, CallFails \/ Restart PROVE TypeOK'
<1> USE NamespacedAssumption
<1>1. CASE CallFails
  BY <1>1, AtWork DEF CallFails, Fault, Fail, TypeOK, WorldOK, Jobs
<1>2. CASE Restart
  BY <1>2 DEF Restart, Crash, Fault, StartQueue, TypeOK, WorldOK, Jobs
<1> QED BY <1>1, <1>2

(* Every step keeps the types.                                             *)
LEMMA TypeStep == ASSUME TypeOK, [Next]_vars PROVE TypeOK'
<1>1. CASE Others
  BY <1>1, OthersType DEF TypeOK
<1>2. CASE Deliver
  BY <1>2, DeliverType DEF TypeOK
<1>3. CASE UNCHANGED vars
  BY <1>3 DEF vars, world, TypeOK, WorldOK
<1> QED BY <1>1, <1>2, <1>3, ReconcileType, FaultType DEF Next

(* A starting operator's state has its types.                              *)
LEMMA InitType == ASSUME Init PROVE TypeOK
BY NamespacedAssumption DEF Init, Start, StartQueue, TypeOK, WorldOK, Jobs

(* Every variable of the system vnet controller keeps its type.            *)
THEOREM TypeCorrect == Spec => []TypeOK
<1>1. Init => TypeOK
  BY InitType
<1>2. TypeOK /\ [Next]_vars => TypeOK'
  BY TypeStep
<1> QED BY <1>1, <1>2, PTL DEF Spec

-----------------------------------------------------------------------------
(* Vnets in use.                                                           *)

(* Deleting stays unmanaged as long as nobody notices the namespace.       *)
LEMMA NoticedDeletes ==
    ASSUME IInv, TypeOK, \A n \in Namespaces : NamespaceNoticed(n),
           \/ job' = Idle \/ job' = job
           \/ job.pc = "get" /\ job' = [job EXCEPT !.pc = "delete"]
    PROVE  DeletesUnmanaged'
<1> SUFFICES ASSUME NEW n \in Namespaces, job' # Idle, job'.ns = n, job'.pc \in {"get", "delete"},
                    Managed(n)', n \notin queue', <<n, "ns">> \notin behind'
             PROVE  FALSE
  BY DEF DeletesUnmanaged
<1>1. job # Idle /\ job.ns = n /\ job.pc \in {"get", "delete"}
  BY DEF TypeOK, Jobs, Work, Idle
<1>2. n \notin queue /\ <<n, "ns">> \notin behind /\ Managed(n)
  BY DEF NamespaceNoticed, Managed
<1> QED BY <1>1, <1>2 DEF IInv, DeletesUnmanaged

(* The worker goes by the namespace as the cache has it, and its event is  *)
(* on its way if that is not how it is.                                    *)
LEMMA DeletesStep == ASSUME IInv, TypeOK', [Next]_vars PROVE DeletesUnmanaged'
<1>0. TypeOK /\ "namespace" \in Names
  BY SystemAssumption DEF IInv
<1>1. CASE Others
  BY <1>0, <1>1, OthersType, NamespacesNoticed, NoticedDeletes DEF TypeOK
<1>2. CASE Deliver
  BY <1>0, <1>2, DeliverType, NamespacesNoticed, NoticedDeletes DEF TypeOK
<1>3. ASSUME NEW n \in Namespaces, Begin(n) PROVE DeletesUnmanaged'
  <2>1. UNCHANGED <<api, cache, behind>>
    BY <1>3 DEF Begin, world
  <2>2. CASE <<n, "ns">> \in behind
    BY <1>3, <2>1, <2>2 DEF Begin, DeletesUnmanaged
  <2>3. CASE <<n, "ns">> \notin behind
    <3>1. cache.ns[n] = api.ns[n]
      BY <2>3 DEF IInv, CacheFollows
    <3>2. job' = Idle \/ (job'.ns = n /\ (IsManaged(n, cache.ns[n]) => job'.pc = "apply"))
      BY <1>3 DEF Begin
    <3> QED BY <2>1, <3>1, <3>2 DEF DeletesUnmanaged, Managed
  <2> QED BY <2>2, <2>3
<1>4. CASE applySystemVnet
  <2>1. job' = Idle \/ job'.pc = "cluster"
    BY <1>0, <1>4, AtWork DEF applySystemVnet, Continue, Done, Fail, Work
  <2> QED BY <2>1 DEF DeletesUnmanaged
<1>5. CASE deleteNamespaceSystemVnet
  <2>1. CASE job.pc = "get"
    <3>1. \A n \in Namespaces : NamespaceNoticed(n)
      BY <1>5, <2>1 DEF deleteNamespaceSystemVnet, Done, NamespaceNoticed
    <3>2. job' = Idle \/ job' = [job EXCEPT !.pc = "delete"]
      BY <1>5, <2>1 DEF deleteNamespaceSystemVnet, Done
    <3> QED BY <1>0, <2>1, <3>1, <3>2, NoticedDeletes
  <2>2. CASE job.pc = "delete"
    BY <1>5, <2>2 DEF deleteNamespaceSystemVnet, Done, DeletesUnmanaged
  <2> QED BY <1>5, <2>1, <2>2 DEF deleteNamespaceSystemVnet
<1>6. CASE CallFails \/ Restart
  BY <1>6 DEF CallFails, Fail, Restart, Crash, DeletesUnmanaged
<1>7. CASE UNCHANGED vars
  <2>1. \A n \in Namespaces : NamespaceNoticed(n)
    BY <1>7 DEF vars, world, NamespaceNoticed
  <2> QED BY <1>0, <1>7, <2>1, NoticedDeletes DEF vars
<1> QED BY <1>1, <1>2, <1>3, <1>4, <1>5, <1>6, <1>7 DEF Next, Reconcile

(* Users and Kubernetes delete a vnet by an edit or with its namespace.    *)
LEMMA OthersDelete ==
    ASSUME WorldOK, Others, NEW n \in Namespaces,
           api.obj[n]["namespace"].present, ~api'.obj[n]["namespace"].present
    PROVE  edits' # edits \/ api.ns[n].phase = "terminating"
<1>0. "namespace" \in Names
  BY SystemAssumption
<1>1. PICK k \in Namespaces :
         \/ AnnotateNamespace(k) \/ DeleteNamespace(k) \/ CreateNamespace(k)
         \/ \E x \in Names : EditObject(k, x) \/ CreateObject(k, x)
         \/ EmptyNamespace(k)
  BY DEF Others
<1>2. CASE UserEdit
  BY <1>2 DEF UserEdit, WorldOK
<1>3. CASE EmptyNamespace(k)
  <2>1. ASSUME NEW o, PutNamespace(k, o) PROVE FALSE
    BY <2>1 DEF PutNamespace, WorldOK, Clusters
  <2>2. ASSUME NEW x \in Names, Put(k, x, None) PROVE k = n
    BY <1>0, <2>2 DEF Put, WorldOK, Clusters
  <2> QED BY <1>3, <2>1, <2>2 DEF EmptyNamespace
<1> QED BY <1>1, <1>2, <1>3 DEF AnnotateNamespace, DeleteNamespace, CreateNamespace, EditObject,
                             CreateObject

(* The worker deletes the vnet of its own namespace only.                  *)
LEMMA WorkerDeletes ==
    ASSUME IInv, [Next]_vars, ~Others, NEW n \in Namespaces,
           api.obj[n]["namespace"].present, ~api'.obj[n]["namespace"].present
    PROVE  job # Idle /\ job.ns = n /\ job.pc = "delete"
<1>0. TypeOK /\ "namespace" \in Names
  BY SystemAssumption DEF IInv
<1>1. CASE UNCHANGED api
  BY <1>1
<1>2. CASE applySystemVnet
  <2>0. job.ns \in Namespaces
    BY <1>0, <1>2, AtWork
  <2>1. PICK x \in Names : Apply(x) \/ UNCHANGED api
    BY <1>2, SystemAssumption DEF applySystemVnet
  <2>2. CASE Apply(x)
    <3>1. api'.obj[n]["namespace"] \in {api.obj[n]["namespace"], Applied(api.obj[n]["namespace"])}
      BY <1>0, <2>0, <2>2 DEF Apply, Put, TypeOK, WorldOK, Clusters
    <3>2. operatorManaged(Applied(api.obj[n]["namespace"]))
      BY <1>0, VnetTypes, AppliedIsManaged DEF TypeOK
    <3> QED BY <3>1, <3>2 DEF operatorManaged
  <2> QED BY <1>1, <2>1, <2>2
<1>3. CASE deleteNamespaceSystemVnet
  <2>0. job.ns \in Namespaces /\ job # Idle
    BY <1>0, <1>3, AtWork
  <2>1. CASE job.pc = "delete" /\ Put(job.ns, "namespace", None)
    BY <1>0, <2>0, <2>1 DEF Put, TypeOK, WorldOK, Clusters
  <2> QED BY <1>1, <1>3, <2>1 DEF deleteNamespaceSystemVnet
<1>4. ASSUME Deliver \/ (\E k \in Namespaces : Begin(k)) \/ CallFails \/ Restart \/ UNCHANGED vars
      PROVE  UNCHANGED api
  BY <1>4 DEF Deliver, DeliverNamespace, DeliverObject, Begin, CallFails, Restart, Crash,
             Fault, vars, world
<1> QED BY <1>1, <1>2, <1>3, <1>4 DEF Next, Reconcile

-----------------------------------------------------------------------------
(* The invariant.                                                          *)

(* A namespace that no event is due for after the step stays right.        *)
LEMMA RightStays ==
    ASSUME TypeOK, TypeOK', NEW n \in Namespaces, Noticed(n), ~EventDue(n)'
    PROVE  Right(n)' <=> Right(n)
<1>1. "namespace" \in Names /\ "cluster" \in Names
  BY SystemAssumption
<1> QED BY <1>1, QuietNamespace DEF Right, TypeOK

(* A namespace the worker is not at is right after the step as well.       *)
LEMMA OthersStayRight ==
    ASSUME IInv, TypeOK', NEW n \in Namespaces, job = Idle \/ job.ns # n, Noticed(n),
           ~EventDue(n)', api'.ns[n].phase = "active"
    PROVE  Right(n)'
<1>1. ~EventDue(n) /\ api'.ns[n] = api.ns[n]
  BY QuietNamespace DEF IInv, TypeOK
<1> QED BY <1>1, RightStays DEF IInv, RestingIsRight

(* Whoever is not the worker disturbs nothing unnoticed.                   *)
LEMMA EnvironmentStep ==
    ASSUME IInv, TypeOK', UNCHANGED job, \A n \in Namespaces : Noticed(n)
    PROVE  JobIsCurrent' /\ RestingIsRight'
<1>1. RestingIsRight'
  BY OthersStayRight DEF RestingIsRight
<1>2. JobIsCurrent'
  <2>1. "namespace" \in Names
    BY SystemAssumption
  <2>2. ASSUME NEW n \in Namespaces, ~EventDue(n)'
        PROVE  /\ ~EventDue(n) /\ api'.ns[n] = api.ns[n] /\ (Managed(n)' <=> Managed(n))
               /\ api'.obj[n]["namespace"] = Applied(api'.obj[n]["namespace"])
                     <=> api.obj[n]["namespace"] = Applied(api.obj[n]["namespace"])
    BY <2>1, <2>2, QuietNamespace DEF IInv, TypeOK
  <2> QED BY <2>2 DEF JobIsCurrent, IInv
<1> QED BY <1>1, <1>2

(* A namespace that is taken from the queue is as the cache has it, or an  *)
(* event is due.                                                           *)
LEMMA BeginStep ==
    ASSUME IInv, TypeOK', NEW n \in Namespaces, Begin(n)
    PROVE  CacheFollows' /\ JobIsCurrent' /\ RestingIsRight'
<1>1. UNCHANGED <<api, cache, behind, due>>
  BY DEF Begin, world
<1>2. CacheFollows'
  BY <1>1 DEF CacheFollows, IInv
<1>3. ~EventDue(n)' => cache.ns[n] = api.ns[n]
  BY <1>1 DEF EventDue, CacheFollows, IInv
<1>4. RestingIsRight'
  <2> SUFFICES ASSUME NEW k \in Namespaces, ~EventDue(k)', job' = Idle \/ job'.ns # k,
                      api'.ns[k].phase = "active"
               PROVE  Right(k)'
    BY DEF RestingIsRight
  <2>1. CASE k = n
    <3>1. cache.ns[n].phase = "active"
      BY <1>1, <1>3, <2>1
    <3>2. job' # Idle /\ job'.ns = n
      BY <3>1 DEF Begin, skipped, Idle
    <3> QED BY <2>1, <3>2
  <2>2. CASE k # n
    <3>1. Noticed(k)
      BY <1>1, <2>2 DEF Noticed, EventDue, Begin, Alike
    <3> QED BY <3>1, OthersStayRight DEF Begin
  <2> QED BY <2>1, <2>2
<1>5. JobIsCurrent'
  <2>1. CASE job' = Idle
    BY <2>1 DEF JobIsCurrent
  <2>2. CASE job' # Idle
    <3>1. /\ job'.ns = n
          /\ job'.pc = IF IsManaged(n, cache.ns[n]) THEN "apply"
                       ELSE IF n # OperatorNS THEN "get" ELSE "cluster"
      BY <2>2 DEF Begin, unmanaged
    <3>2. ~EventDue(n)' => (Managed(n)' <=> IsManaged(n, cache.ns[n]))
      BY <1>1, <1>3 DEF Managed
    <3> QED BY <3>1, <3>2 DEF JobIsCurrent
  <2> QED BY <2>1, <2>2
<1> QED BY <1>2, <1>4, <1>5

(* An error brings the namespace back.                                     *)
LEMMA FailStep ==
    ASSUME IInv, TypeOK', job \in Work, Fail, UNCHANGED <<api, cache, behind, due>>
    PROVE  CacheFollows' /\ JobIsCurrent' /\ RestingIsRight'
<1>1. CacheFollows'
  BY DEF CacheFollows, IInv
<1>2. JobIsCurrent'
  BY DEF JobIsCurrent, Fail
<1>3. RestingIsRight'
  <2> SUFFICES ASSUME NEW n \in Namespaces, ~EventDue(n)', api'.ns[n].phase = "active"
               PROVE  Right(n)'
    BY DEF RestingIsRight
  <2>1. job.ns # n
    BY DEF Fail, EventDue
  <2>2. Noticed(n)
    BY <2>1 DEF Noticed, EventDue, Fail, Alike
  <2> QED BY <2>1, <2>2, OthersStayRight
<1> QED BY <1>1, <1>2, <1>3

(* The vnet is in place once it is applied, and the namespace right when   *)
(* the last one is.                                                        *)
LEMMA ApplyStep ==
    ASSUME IInv, TypeOK', applySystemVnet
    PROVE  CacheFollows' /\ JobIsCurrent' /\ RestingIsRight'
<1> USE SystemAssumption
<1>0. TypeOK
  BY DEF IInv
<1>1. job \in Work /\ job # Idle /\ job.ns \in Namespaces /\ job.pc \in {"apply", "cluster"}
  BY <1>0, AtWork DEF applySystemVnet
<1> DEFINE x == IF job.pc = "apply" THEN "namespace" ELSE "cluster"
           o == api.obj[job.ns][x]
<1>2. x \in Names
  OBVIOUS
<1>3. CASE Appliable(job.ns, x)
  <2>1. o \in Objs /\ Applied(o) \in Objs
    BY <1>0, <1>1, VnetTypes DEF TypeOK
  <2>2. /\ Put(job.ns, x, Applied(o)) /\ UNCHANGED <<cache, queue>>
        /\ IF job.pc = "apply" /\ job.ns = OperatorNS THEN job' = [job EXCEPT !.pc = "cluster"]
                                                      ELSE job' = Idle
    BY <1>3 DEF applySystemVnet, Apply, Continue, Done
  <2>3. CacheFollows' /\ \A n \in Namespaces : Noticed(n)
    <3>1. Applied(o).labelled
      BY <2>1, AppliedIsManaged DEF operatorManaged
    <3> HIDE DEF x, o
    <3> QED BY <1>0, <1>1, <1>2, <2>1, <2>2, <3>1, PutNoticed DEF IInv, TypeOK
  <2>4. ASSUME NEW n \in Namespaces, job.ns = n, ~EventDue(n)', api'.ns[n].phase = "active"
        PROVE  /\ Managed(n)' => api'.obj[n]["namespace"] = Applied(api'.obj[n]["namespace"])
               /\ job.pc = "cluster" => api'.obj[n]["cluster"] = Applied(api'.obj[n]["cluster"])
               /\ job.pc = "apply" => Managed(n)'
               /\ job.pc = "cluster" => n = OperatorNS
    <3>1. /\ ~EventDue(n) /\ api'.ns[n] = api.ns[n] /\ (Managed(n)' <=> Managed(n))
          /\ api'.obj[n]["namespace"] = Applied(api'.obj[n]["namespace"])
                <=> api.obj[n]["namespace"] = Applied(api.obj[n]["namespace"])
      BY <1>0, <2>3, <2>4, QuietNamespace DEF TypeOK
    <3>2. api'.obj[n][x] = Applied(o)
      BY <1>0, <1>1, <1>2, <2>2, <2>4 DEF Put, TypeOK, WorldOK, Clusters
    <3>3. api'.obj[n][x] = Applied(api'.obj[n][x])
      BY <2>1, <3>2, AppliedIsManaged
    <3>4. /\ job.pc = "apply" => Managed(n)
          /\ job.pc = "cluster" =>
                /\ n = OperatorNS
                /\ Managed(n) => api.obj[n]["namespace"] = Applied(api.obj[n]["namespace"])
      BY <1>1, <2>4, <3>1 DEF JobIsCurrent, IInv
    <3> QED BY <1>1, <3>1, <3>3, <3>4
  <2>5. JobIsCurrent'
    <3>1. CASE job.pc = "apply" /\ job.ns = OperatorNS
      <4>1. job'.ns = job.ns /\ job'.pc = "cluster"
        BY <1>1, <2>2, <3>1 DEF Work
      <4> QED BY <2>4, <3>1, <4>1 DEF JobIsCurrent
    <3>2. CASE job' = Idle
      BY <3>2 DEF JobIsCurrent
    <3> QED BY <2>2, <3>1, <3>2
  <2>6. RestingIsRight'
    <3> SUFFICES ASSUME NEW n \in Namespaces, ~EventDue(n)', job' = Idle \/ job'.ns # n,
                        api'.ns[n].phase = "active"
                 PROVE  Right(n)'
      BY DEF RestingIsRight
    <3>1. CASE job.ns # n
      BY <2>3, <3>1, OthersStayRight
    <3>2. CASE job.ns = n
      <4>1. job.pc = "cluster" \/ n # OperatorNS
        BY <1>1, <2>2, <3>2 DEF Work, Idle
      <4> QED BY <1>1, <2>4, <3>2, <4>1 DEF Right
    <3> QED BY <3>1, <3>2
  <2> QED BY <2>3, <2>5, <2>6
<1>4. CASE ~Appliable(job.ns, x)
  BY <1>1, <1>4, FailStep DEF applySystemVnet
<1> QED BY <1>3, <1>4

(* The vnet that is deleted is the cached one, or an event is due.         *)
LEMMA DeleteStep ==
    ASSUME IInv, TypeOK', deleteNamespaceSystemVnet
    PROVE  CacheFollows' /\ JobIsCurrent' /\ RestingIsRight'
<1> USE SystemAssumption
<1>0. TypeOK
  BY DEF IInv
<1>1. job \in Work /\ job # Idle /\ job.ns \in Namespaces /\ job.pc \in {"get", "delete"}
  BY <1>0, AtWork DEF deleteNamespaceSystemVnet
<1>2. UNCHANGED <<cache, queue>>
  BY DEF deleteNamespaceSystemVnet, Done
<1>3. CacheFollows' /\ \A n \in Namespaces : Noticed(n)
  <2>1. CASE job.pc = "delete"
    <3>1. ~None.present
      BY DEF None
    <3>2. Put(job.ns, "namespace", None)
      BY <2>1 DEF deleteNamespaceSystemVnet
    <3> QED BY <1>0, <1>1, <1>2, <3>1, <3>2, ObjectTypes, PutNoticed DEF IInv, TypeOK
  <2>2. CASE job.pc = "get"
    <3>1. UNCHANGED <<api, behind, due>>
      BY <2>2 DEF deleteNamespaceSystemVnet
    <3> QED BY <1>2, <3>1 DEF CacheFollows, Noticed, EventDue, Alike, IInv
  <2> QED BY <1>1, <2>1, <2>2
<1>4. ASSUME NEW n \in Namespaces, job.ns = n, ~EventDue(n)', api'.ns[n].phase = "active"
      PROVE  ~Managed(n)' /\ n # OperatorNS /\ ~EventDue(n)
             /\ (operatorManaged(api'.obj[n]["namespace"]) <=> operatorManaged(api.obj[n]["namespace"]))
  <2>1. /\ ~EventDue(n) /\ api'.ns[n] = api.ns[n] /\ (Managed(n)' <=> Managed(n))
        /\ operatorManaged(api'.obj[n]["namespace"]) <=> operatorManaged(api.obj[n]["namespace"])
    BY <1>0, <1>3, <1>4, QuietNamespace DEF TypeOK
  <2> QED BY <1>1, <1>4, <2>1 DEF JobIsCurrent, IInv
<1>5. CASE job' # Idle
  <2>1. job'.ns = job.ns /\ job'.pc = "delete"
    BY <1>1, <1>5 DEF deleteNamespaceSystemVnet, Done, Work
  <2>2. JobIsCurrent'
    BY <1>4, <2>1 DEF JobIsCurrent
  <2>3. RestingIsRight'
    BY <1>3, <1>5, <2>1, OthersStayRight DEF RestingIsRight
  <2> QED BY <1>3, <2>2, <2>3
<1>6. CASE job' = Idle
  <2>1. JobIsCurrent'
    BY <1>6 DEF JobIsCurrent
  <2>2. ASSUME NEW n \in Namespaces, job.ns = n, ~EventDue(n)', api'.ns[n].phase = "active"
        PROVE  ~operatorManaged(api'.obj[n]["namespace"])
    <3>1. CASE job.pc = "delete"
      <4>1. Put(n, "namespace", None)
        BY <2>2, <3>1 DEF deleteNamespaceSystemVnet
      <4>2. api'.obj[n]["namespace"] = None
        BY <1>0, <4>1 DEF Put, TypeOK, WorldOK, Clusters
      <4> QED BY <4>2 DEF None, operatorManaged
    <3>2. CASE job.pc = "get"
      <4>1. ~operatorManaged(cache.obj[n]["namespace"])
        <5>1. [job EXCEPT !.pc = "delete"] # Idle
          BY <1>1 DEF Work, Idle
        <5> QED BY <1>6, <2>2, <3>2, <5>1 DEF deleteNamespaceSystemVnet, deletable
      <4>2. ~EventDue(n)
        BY <1>4, <2>2
      <4>3. Alike(cache.obj[n]["namespace"], api.obj[n]["namespace"])
        BY <4>2 DEF EventDue, CacheFollows, IInv
      <4> QED BY <1>4, <2>2, <4>1, <4>3 DEF Alike
    <3> QED BY <1>1, <3>1, <3>2
  <2>3. ASSUME NEW n \in Namespaces, ~EventDue(n)', api'.ns[n].phase = "active" PROVE Right(n)'
    <3>1. CASE job.ns # n
      BY <1>3, <2>3, <3>1, OthersStayRight
    <3>2. CASE job.ns = n
      BY <1>4, <2>2, <2>3, <3>2 DEF Right
    <3> QED BY <3>1, <3>2
  <2> QED BY <1>3, <2>1, <2>3 DEF RestingIsRight
<1> QED BY <1>5, <1>6

(* Every step keeps the invariant.                                         *)
LEMMA InvariantStep == ASSUME IInv, [Next]_vars PROVE IInv'
<1>1. TypeOK /\ TypeOK' /\ DeletesUnmanaged'
  BY TypeStep, DeletesStep DEF IInv
<1> SUFFICES CacheFollows' /\ JobIsCurrent' /\ RestingIsRight'
  BY <1>1 DEF IInv
<1>2. CASE Others
  BY <1>1, <1>2, OthersType, OthersNoticed, EnvironmentStep DEF IInv, TypeOK
<1>3. CASE Deliver
  BY <1>1, <1>3, DeliverType, DeliverNoticed, EnvironmentStep DEF IInv, TypeOK
<1>4. CASE Reconcile
  BY <1>1, <1>4, BeginStep, ApplyStep, DeleteStep DEF Reconcile
<1>5. CASE CallFails
  BY <1>1, <1>5, AtWork, FailStep DEF CallFails, Fault
<1>6. CASE Restart
  <2>1. job' = Idle /\ cache' = api' /\ behind' = {} /\ due' = {} /\ queue' = StartQueue(api')
    BY <1>6 DEF Restart, Crash, Fault
  <2>2. /\ CacheFollows'
        /\ \A n \in Namespaces : api'.ns[n].phase = "active" => EventDue(n)'
    BY <2>1 DEF CacheFollows, Alike, StartQueue, EventDue
  <2> QED BY <2>1, <2>2 DEF JobIsCurrent, RestingIsRight
<1>7. CASE UNCHANGED vars
  <2>1. \A n \in Namespaces : Noticed(n)
    BY <1>7 DEF vars, world, Noticed, EventDue, Alike
  <2>2. CacheFollows'
    BY <1>7 DEF vars, world, CacheFollows, IInv
  <2> QED BY <1>1, <1>7, <2>1, <2>2, EnvironmentStep DEF vars
<1> QED BY <1>2, <1>3, <1>4, <1>5, <1>6, <1>7 DEF Next

(* The system vnet controller's invariant: its cache lacks nothing that no *)
(* event is on its way for, what the worker has found out is so unless an  *)
(* event is due, a namespace at rest is right, and one whose vnet is being *)
(* deleted is not managed, or noticed to be.                               *)
THEOREM InductiveInvariant == Spec => []IInv
<1>1. Init => IInv
  <2> SUFFICES ASSUME Init PROVE IInv
    OBVIOUS
  <2>1. CacheFollows /\ \A n \in Namespaces : api.ns[n].phase = "active" => EventDue(n)
    BY StartFollows DEF Init, Start
  <2>2. job = Idle /\ cache = api
    BY DEF Init, Start
  <2> QED BY <2>1, <2>2, InitType DEF IInv, JobIsCurrent, RestingIsRight, DeletesUnmanaged
<1>2. IInv /\ [Next]_vars => IInv'
  BY InvariantStep
<1> QED BY <1>1, <1>2, PTL DEF Spec

(* A managed namespace keeps its vnet: the worker, which goes by a cache   *)
(* that lags and deletes some time after it has looked, takes it away only *)
(* when the namespace's own event is on its way or has queued it again.    *)
THEOREM VnetsInUseAreKept == Spec => VnetsInUseStay
<1> DEFINE Stays ==
      \A n \in Namespaces :
          Managed(n) /\ api.obj[n]["namespace"].present /\ ~api'.obj[n]["namespace"].present
              => \/ edits' # edits \/ api.ns[n].phase = "terminating"
                 \/ n \in queue \/ <<n, "ns">> \in behind
<1>1. IInv /\ [Next]_vars => [Stays]_vars
  BY OthersDelete, WorkerDeletes DEF IInv, TypeOK, DeletesUnmanaged
<1> QED BY <1>1, InductiveInvariant, PTL DEF Spec, VnetsInUseStay

(* The system vnet controller implements LevelTriggered's safety: however  *)
(* namespaces and vnets change, calls fail and the operator restarts, it   *)
(* lets go of a namespace only with its system vnets as they should be,    *)
(* and nothing takes a namespace at rest away from that unnoticed.         *)
THEOREM LevelTriggeredCorrect == Spec => IsLevelTriggered
<1> DEFINE AtRest == \A n \in Namespaces : ~Pending(n) => (api.ns[n].phase = "active" => Right(n))
<1>1. IInv => AtRest
  <2> SUFFICES ASSUME IInv PROVE AtRest
    OBVIOUS
  <2>1. \A n \in Namespaces : ~Pending(n) => ~EventDue(n) /\ (job = Idle \/ job.ns # n)
    BY DEF Pending, EventDue, IInv, TypeOK, WorldOK
  <2> QED BY <2>1 DEF IInv, RestingIsRight
<1>2. AtRest => Level!Init
  BY DEF Level!Init
<1>3. AtRest /\ AtRest' => Level!Next
  BY DEF Level!Next, Level!Disturbed, Level!Attended, Level!Released, Level!Resting
<1> HIDE DEF AtRest
<1> QED BY <1>1, <1>2, <1>3, InductiveInvariant, PTL DEF IsLevelTriggered, Level!Safety

=============================================================================
