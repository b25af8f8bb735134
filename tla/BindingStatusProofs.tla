-------------------------- MODULE BindingStatusProofs --------------------------
(***************************************************************************)
(* Proofs about BindingStatus, for any namespaces, vnets, bindings, pods,  *)
(* clusters, edits and bounds.                                             *)
(***************************************************************************)
EXTENDS BindingStatus, FiniteSetTheorems, TLAPS

(* An object without an outstanding event is in the cache as it is.        *)
CacheFollows ==
    /\ \A n \in Namespaces : <<"ns", n>> \notin behind => cache.ns[n] = api.ns[n]
    /\ \A v \in Vnets : <<"vnet", v>> \notin behind =>
          cache.vnet[v] = api.vnet[v] /\ (v \in cache.dying <=> v \in api.dying)
    /\ \A b \in Bindings : <<"bind", b>> \notin behind =>
          cache.bind[b] = api.bind[b] /\ cache.status[b] = api.status[b]
    /\ \A p \in Pods : <<"pod", p>> \notin behind => cache.pod[p] = api.pod[p]

(* The worker will begin with b again, whatever else happens.              *)
Due(b) == b \in queue \/ <<"bind", b>> \in behind

(* What the worker has found out about its binding still is what the       *)
(* caches say, unless it will begin again.                                 *)
JobIsCurrent ==
    \A b \in Bindings :
        job # Idle /\ job.bind = b /\ ~Due(b) =>
            /\ job.spec = cache.bind[b] /\ job.spec.present /\ job.stored = cache.status[b]
            /\ job.pc = "pods" => verdict(cache, b, cache.bind[b]) = "Accepted"
            /\ job.pc = "write" => job.new = Wanted(cache, b, cache.bind[b])

(* A binding the worker is through with has the status its caches call for. *)
RestingIsRight ==
    \A b \in Bindings :
        ~Due(b) /\ (job = Idle \/ job.bind # b) /\ cache.bind[b].present =>
            cache.status[b] = Wanted(cache, b, cache.bind[b])

(* The inductive invariant.                                                *)
IInv == TypeOK /\ CacheFollows /\ JobIsCurrent /\ RestingIsRight

-----------------------------------------------------------------------------
(* What a status depends on.                                               *)

(* The views u and w show the same of what o, as binding b, speaks of.     *)
Agree(u, w, b, o) ==
    LET v == bindingTarget(b, o)
    IN /\ u.ns[BindingNS[b]] = w.ns[BindingNS[b]]
       /\ v \in Vnets => /\ u.ns[v[1]] = w.ns[v[1]] /\ u.vnet[v] = w.vnet[v]
                         /\ v \in u.dying <=> v \in w.dying
       /\ \A p \in Pods : PodNS[p] = BindingNS[b] => u.pod[p] = w.pod[p]

(* The controller's checks read the two namespaces and the target only.    *)
LEMMA VerdictReads ==
    ASSUME NEW u, NEW w, NEW b \in Bindings, NEW o, Agree(u, w, b, o)
    PROVE  verdict(u, b, o) = verdict(w, b, o)
<1> DEFINE n == BindingNS[b]
           v == bindingTarget(b, o)
<1>1. IsManaged(u, n) <=> IsManaged(w, n)
  BY DEF Agree, IsManaged
<1>2. ASSUME v \in Vnets
      PROVE  /\ u.vnet[v] = w.vnet[v] /\ (v \in u.dying <=> v \in w.dying)
             /\ homeExcluded(u, n, v) <=> homeExcluded(w, n, v)
             /\ PermitsForVnet(u, v, u.vnet[v], n) <=> PermitsForVnet(w, v, w.vnet[v], n)
  BY <1>2 DEF Agree, homeExcluded, IsManaged, PermitsForVnet, matchesAllowedNamespaces
<1> QED
  <2> HIDE DEF n, v
  <2>1. CASE v \in Vnets
    BY <1>1, <1>2, <2>1 DEF verdict, n, v
  <2>2. CASE v \notin Vnets
    BY <1>1, <2>2 DEF verdict, n, v
  <2> QED BY <2>1, <2>2

(* Selection and membership are read from the pods of its namespace.       *)
LEMMA AcceptedReads ==
    ASSUME NEW u, NEW w, NEW b \in Bindings, NEW o, Agree(u, w, b, o)
    PROVE  accepted(u, b, o) = accepted(w, b, o)
<1>1. selects(u, b, o) = selects(w, b, o)
  BY DEF Agree, selects
<1>2. \A p \in selects(u, b, o) : u.pod[p] = w.pod[p]
  BY DEF Agree, selects
<1>3. {p \in selects(u, b, o) : isStampedMember(u.pod[p], bindingTarget(b, o))}
      = {p \in selects(w, b, o) : isStampedMember(w.pod[p], bindingTarget(b, o))}
  BY <1>1, <1>2
<1> QED BY <1>1, <1>3 DEF accepted

(* So does the status.                                                     *)
LEMMA WantedReads ==
    ASSUME NEW u, NEW w, NEW b \in Bindings, NEW o, Agree(u, w, b, o)
    PROVE  Wanted(u, b, o) = Wanted(w, b, o)
BY VerdictReads, AcceptedReads DEF Wanted

-----------------------------------------------------------------------------
(* Types.                                                                  *)

(* The checks end in one of the reasons.                                   *)
LEMMA VerdictType ==
    ASSUME NEW view, NEW b, NEW o
    PROVE  verdict(view, b, o) \in NotReady \cup {"Accepted"}
BY DEF verdict, NotReady

(* A binding that is not Ready has a status of its own.                    *)
LEMMA NotReadyType ==
    ASSUME NEW r \in NotReady
    PROVE  /\ notReady(r) \in Status
           /\ notReady(r).reason = r /\ notReady(r).attached = {}
<1>1. Cardinality(Pods) \in Nat
  BY FS_CardinalityType, BindingsAssumption
<1> QED BY <1>1 DEF notReady, Status

(* No more pods are counted than there are.                                *)
LEMMA AcceptedType ==
    ASSUME NEW view, NEW b, NEW o
    PROVE  accepted(view, b, o) \in Status
<1>1. selects(view, b, o) \subseteq Pods
  BY DEF selects
<1>2. Cardinality(selects(view, b, o)) \in 0 .. Cardinality(Pods)
  <2>1. IsFiniteSet(selects(view, b, o)) /\ Cardinality(selects(view, b, o)) <= Cardinality(Pods)
    BY <1>1, FS_Subset, BindingsAssumption
  <2> QED BY <2>1, FS_CardinalityType, BindingsAssumption
<1> QED BY <1>1, <1>2 DEF accepted, Status, Ready

(* A new binding's status is one.                                          *)
LEMMA NoStatusType == NoStatus \in Status
<1>1. Cardinality(Pods) \in Nat
  BY FS_CardinalityType, BindingsAssumption
<1> QED BY <1>1 DEF NoStatus, Status

(* A patched pod is a pod.                                                 *)
LEMMA MergePatchType ==
    ASSUME NEW old \in PodObjs, NEW base \in PodObjs, NEW s \in Stamps, NEW x \in BOOLEAN
    PROVE  MergePatch(old, base, [base EXCEPT !.stamps = s, !.resolved = x]) \in PodObjs
BY DEF MergePatch, PodObjs, PodObj, Stamps

(* What resolution calls for can be stamped.                               *)
LEMMA DesiredLabelsType ==
    ASSUME NEW view, NEW o, NEW n PROVE DesiredLabels(view, o, n) \in Stamps
<1>1. ASSUME NEW L PROVE EffectiveDirection(L) \in BareDirections
  BY DEF EffectiveDirection, FromCaps, BareDirections
<1> QED BY <1>1 DEF DesiredLabels, DesiredStamps, Stamps

(* The wanted status is one.                                               *)
LEMMA WantedType ==
    ASSUME NEW view, NEW b, NEW o PROVE Wanted(view, b, o) \in Status
BY VerdictType, NotReadyType, AcceptedType DEF Wanted

(* At every step but the first the worker is at work.                      *)
LEMMA AtWork ==
    ASSUME TypeOK, CheckTarget \/ ListPods \/ writeStatus \/ CallFails
    PROVE  /\ job \in Work /\ job # Idle /\ job.bind \in Bindings
           /\ job.new \in Status /\ job.stored \in Status
<1>1. job \in Work /\ job # Idle
  BY DEF CheckTarget, ListPods, writeStatus, CallFails, TypeOK, Jobs, Idle
<1> QED BY <1>1 DEF Work

(* The API server's other users keep the types.                            *)
LEMMA UsersType == ASSUME TypeOK, Users PROVE TypeOK'
<1> USE BindingsAssumption
<1>1. SUFFICES ASSUME NEW x \in Objects, Edit(x), api' \in Clusters, job' \in Jobs
               PROVE  TypeOK'
  <2>1. ASSUME NEW n \in Namespaces, EditNamespace(n)
        PROVE  Edit(<<"ns", n>>) /\ <<"ns", n>> \in Objects /\ api' \in Clusters /\ job' \in Jobs
    <3>1. PICK o \in NsValues[n] : api' = [api EXCEPT !.ns[n] = o]
      BY <2>1 DEF EditNamespace
    <3>2. o \in NamespaceObj
      OBVIOUS
    <3>3. api' \in Clusters
      BY <3>1, <3>2 DEF TypeOK, Clusters
    <3> QED BY <2>1, <3>3 DEF EditNamespace, TypeOK, Objects
  <2>2. ASSUME NEW v \in Vnets, EditVnet(v)
        PROVE  Edit(<<"vnet", v>>) /\ <<"vnet", v>> \in Objects /\ api' \in Clusters /\ job' \in Jobs
    <3>1. ASSUME NEW o \in VnetValues[v] PROVE o \in VnetObjs(v) /\ o \in VnetObj
      BY <3>1 DEF VnetObjs
    <3>2. ASSUME NEW o \in VnetValues[v]
          PROVE  [api EXCEPT !.vnet[v] = o, !.dying = @ \ {v}] \in Clusters
      BY <3>1, <3>2 DEF TypeOK, Clusters
    <3>3. [api EXCEPT !.dying = @ \cup {v}] \in Clusters
      BY DEF TypeOK, Clusters
    <3> QED BY <2>2, <3>2, <3>3 DEF EditVnet, TypeOK, Objects
  <2>3. ASSUME NEW b \in Bindings, EditBinding(b)
        PROVE  Edit(<<"bind", b>>) /\ <<"bind", b>> \in Objects /\ api' \in Clusters /\ job' \in Jobs
    <3>1. api.status[b] \in Status
      BY DEF TypeOK, Clusters
    <3>2. PICK o \in BindingValues[b] : api' = [api EXCEPT !.bind[b] = o,
             !.status[b] = IF o.present THEN [@ EXCEPT !.observed = FALSE] ELSE NoStatus]
      BY <2>3 DEF EditBinding
    <3> DEFINE s == IF o.present THEN [api.status[b] EXCEPT !.observed = FALSE] ELSE NoStatus
    <3>5. s \in Status
      BY <3>1, NoStatusType DEF Status
    <3>6. o \in BindingObjs /\ api' = [api EXCEPT !.bind[b] = o, !.status[b] = s]
      BY <3>2
    <3>7. api' \in Clusters
      <4> HIDE DEF s
      <4> QED BY <3>5, <3>6 DEF TypeOK, Clusters
    <3>3. job \in Work => [job EXCEPT !.latest = FALSE] \in Work
      BY DEF Work
    <3>4. job' \in Jobs
      BY <2>3, <3>3 DEF EditBinding, TypeOK, Jobs
    <3> QED BY <2>3, <3>4, <3>7 DEF EditBinding, Objects
  <2>4. ASSUME NEW p \in Pods, EditPod(p)
        PROVE  Edit(<<"pod", p>>) /\ <<"pod", p>> \in Objects /\ api' \in Clusters /\ job' \in Jobs
    <3>1. PICK o \in PodValues[p] :
             api' = [api EXCEPT !.pod[p] = IF @.present /\ o.present
                                           THEN [@ EXCEPT !.labels = o.labels, !.joins = o.joins]
                                           ELSE o]
      BY <2>4 DEF EditPod
    <3> DEFINE q == IF api.pod[p].present /\ o.present
                    THEN [api.pod[p] EXCEPT !.labels = o.labels, !.joins = o.joins] ELSE o
    <3>2. o \in PodObjs /\ api.pod[p] \in PodObjs
      BY DEF TypeOK, Clusters
    <3>3. q \in PodObjs
      BY <3>2 DEF PodObjs, PodObj
    <3>4. api' = [api EXCEPT !.pod[p] = q]
      BY <3>1
    <3>5. api' \in Clusters
      <4> HIDE DEF q
      <4> QED BY <3>3, <3>4 DEF TypeOK, Clusters
    <3> QED BY <2>4, <3>5 DEF EditPod, TypeOK, Objects
  <2> QED BY <2>1, <2>2, <2>3, <2>4 DEF Users
<1> QED BY <1>1 DEF Edit, TypeOK

(* So does resolution.                                                     *)
LEMMA RestampType == ASSUME TypeOK, NEW p \in Pods, Restamp(p) PROVE TypeOK'
<1> DEFINE o == cache.pod[p]
           n == PodNS[p]
           s == IF IsManaged(cache, n) THEN DesiredLabels(cache, o, n) ELSE NoStamps
           q == MergePatch(api.pod[p], o, [o EXCEPT !.stamps = s, !.resolved = IsManaged(cache, n)])
<1>1. o \in PodObjs /\ api.pod[p] \in PodObjs
  BY DEF TypeOK, Clusters
<1>2. s \in Stamps
  BY DesiredLabelsType DEF NoStamps, Stamps, BareDirections
<1>3. IsManaged(cache, n) \in BOOLEAN
  BY DEF IsManaged
<1>4. q \in PodObjs
  <2> HIDE DEF o, n, s
  <2> QED BY <1>1, <1>2, <1>3, MergePatchType
<1>5. api' = [api EXCEPT !.pod[p] = q]
  BY DEF Restamp
<1>6. api' \in Clusters
  <2> HIDE DEF q
  <2> QED BY <1>4, <1>5 DEF TypeOK, Clusters
<1>7. behind' \subseteq Objects
  BY DEF Restamp, TypeOK, Objects
<1> QED BY <1>6, <1>7 DEF Restamp, TypeOK

(* The informers keep the types.                                           *)
LEMMA DeliverType == ASSUME TypeOK, Deliver PROVE TypeOK'
<1>1. cache' \in Clusters /\ queue' \subseteq Bindings
  <2>1. ASSUME NEW n \in Namespaces, DeliverNamespace(n)
        PROVE  cache' \in Clusters /\ queue' \subseteq Bindings
    BY <2>1 DEF DeliverNamespace, nsToBindings, InCache, TypeOK, Clusters
  <2>2. ASSUME NEW v \in Vnets, DeliverVnet(v)
        PROVE  cache' \in Clusters /\ queue' \subseteq Bindings
    <3>1. api.vnet[v] \in VnetObjs(v) /\ api.vnet[v] \in VnetObj
      BY DEF TypeOK, Clusters
    <3>2. cache' = [cache EXCEPT !.vnet[v] = api.vnet[v],
                                 !.dying = (cache.dying \ {v}) \cup (api.dying \cap {v})]
      BY <2>2 DEF DeliverVnet
    <3>3. cache' \in Clusters
      BY <3>1, <3>2 DEF TypeOK, Clusters
    <3> QED BY <2>2, <3>3 DEF DeliverVnet, vnetToBindings, InCache, TypeOK
  <2>3. ASSUME NEW p \in Pods, DeliverPod(p)
        PROVE  cache' \in Clusters /\ queue' \subseteq Bindings
    BY <2>3 DEF DeliverPod, bindingsInNamespaceOf, InCache, TypeOK, Clusters
  <2>4. ASSUME NEW b \in Bindings, DeliverBinding(b)
        PROVE  cache' \in Clusters /\ queue' \subseteq Bindings
    BY <2>4 DEF DeliverBinding, TypeOK, Clusters
  <2> QED BY <2>1, <2>2, <2>3, <2>4 DEF Deliver
<1>2. /\ UNCHANGED <<api, job, edits, faults>>
      /\ behind' \subseteq behind
  BY DEF Deliver, DeliverNamespace, DeliverVnet, DeliverPod, DeliverBinding, Seen
<1> QED BY <1>1, <1>2 DEF TypeOK

(* The worker keeps the types.                                             *)
LEMMA ReconcileType == ASSUME TypeOK, Reconcile PROVE TypeOK'
<1>1. ASSUME NEW b \in Bindings, Begin(b) PROVE TypeOK'
  <2>1. cache.bind[b] \in BindingObjs /\ cache.status[b] \in Status
    BY DEF TypeOK, Clusters
  <2>2. job' \in Jobs
    BY <1>1, <2>1, NoStatusType DEF Begin, Jobs, Work
  <2> QED BY <1>1, <2>2 DEF Begin, Reads, TypeOK
<1>2. CASE CheckTarget
  <2>1. [job EXCEPT !.pc = "pods"] \in Work
    BY <1>2, AtWork DEF Work
  <2>2. ASSUME NEW r \in NotReady
        PROVE  [job EXCEPT !.pc = "write", !.new = notReady(r)] \in Work
    <3>1. notReady(r) \in Status
      BY NotReadyType
    <3> QED BY <1>2, <3>1, AtWork DEF Work
  <2>3. job' \in Jobs
    <3> DEFINE r == verdict(cache, job.bind, job.spec)
    <3>1. r \in NotReady \cup {"Accepted"}
      BY VerdictType
    <3>2. job' = IF r = "Accepted" THEN [job EXCEPT !.pc = "pods"]
                 ELSE [job EXCEPT !.pc = "write", !.new = notReady(r)]
      BY <1>2 DEF CheckTarget
    <3> HIDE DEF r
    <3> QED BY <2>1, <2>2, <3>1, <3>2 DEF Jobs
  <2> QED BY <1>2, <2>3 DEF CheckTarget, Reads, TypeOK
<1>3. CASE ListPods
  <2>1. accepted(cache, job.bind, job.spec) \in Status
    BY AcceptedType
  <2>2. [job EXCEPT !.pc = "write", !.new = accepted(cache, job.bind, job.spec)] \in Work
    BY <1>3, <2>1, AtWork DEF Work
  <2> QED BY <1>3, <2>2 DEF ListPods, Reads, Jobs, TypeOK
<1>4. CASE writeStatus
  <2>1. job.bind \in Bindings /\ job.new \in Status
    BY <1>4, AtWork
  <2>2. api' \in Clusters
    BY <1>4, <2>1 DEF writeStatus, TypeOK, Clusters
  <2>3. behind' \subseteq Objects
    BY <1>4, <2>1 DEF writeStatus, TypeOK, Objects
  <2>4. job' \in Jobs /\ queue' \subseteq Bindings
    BY <1>4, <2>1 DEF writeStatus, Done, Fail, Jobs, TypeOK
  <2> QED BY <1>4, <2>2, <2>3, <2>4 DEF writeStatus, TypeOK
<1> QED BY <1>1, <1>2, <1>3, <1>4 DEF Reconcile

(* Every step keeps the types.                                             *)
LEMMA TypeStep == ASSUME TypeOK, [Next]_vars PROVE TypeOK'
<1> USE BindingsAssumption
<1>1. CASE CallFails
  BY <1>1, AtWork DEF CallFails, Fault, Fail, TypeOK, Jobs
<1>2. CASE Restart
  BY <1>2 DEF Restart, Fault, StartQueue, TypeOK, Jobs
<1>3. CASE UNCHANGED vars
  BY <1>3 DEF vars, TypeOK
<1> QED BY <1>1, <1>2, <1>3, UsersType, RestampType, DeliverType, ReconcileType DEF Next

(* The state of a starting operator has its types.                         *)
LEMMA InitType == ASSUME Init PROVE TypeOK
BY BindingsAssumption DEF Init, StartQueue, TypeOK, Jobs

(* Every variable of the binding controller keeps its type; that selectors *)
(* parse or do not, and that the cluster vnet is open to all, among them.  *)
THEOREM TypeCorrect == Spec => []TypeOK
<1>1. Init => TypeOK
  BY InitType
<1>2. TypeOK /\ [Next]_vars => TypeOK'
  BY TypeStep
<1> QED BY <1>1, <1>2, PTL DEF Spec

-----------------------------------------------------------------------------
(* The invariant.                                                          *)

(* Whoever is not the controller leaves its caches alone and announces     *)
(* what changes.                                                           *)
LEMMA EnvironmentStep ==
    ASSUME IInv, TypeOK', CacheFollows', UNCHANGED <<cache, queue>>, behind \subseteq behind',
           \/ UNCHANGED job
           \/ job \in Work /\ job' = [job EXCEPT !.latest = FALSE]
    PROVE  IInv'
<1>1. \A b \in Bindings : ~Due(b)' => ~Due(b)
  BY DEF Due
<1>2. /\ job' = Idle <=> job = Idle
      /\ job # Idle => /\ job'.bind = job.bind /\ job'.pc = job.pc /\ job'.spec = job.spec
                       /\ job'.stored = job.stored /\ job'.new = job.new
  BY DEF Work, Idle
<1>3. JobIsCurrent'
  BY <1>1, <1>2 DEF JobIsCurrent, IInv
<1>4. RestingIsRight'
  BY <1>1, <1>2 DEF RestingIsRight, IInv
<1> QED BY <1>3, <1>4 DEF IInv

(* Users announce what they change.                                        *)
LEMMA UsersStep == ASSUME IInv, TypeOK', Users PROVE IInv'
<1>0. TypeOK /\ CacheFollows
  BY DEF IInv
<1>1. ASSUME NEW n \in Namespaces, EditNamespace(n) PROVE IInv'
  <2>1. /\ UNCHANGED <<cache, queue, job>> /\ behind' = behind \cup {<<"ns", n>>}
        /\ \E o \in NsValues[n] : api' = [api EXCEPT !.ns[n] = o]
    BY <1>1 DEF EditNamespace, Edit
  <2>2. CacheFollows'
    BY <1>0, <2>1 DEF CacheFollows, TypeOK, Clusters
  <2> QED BY <2>1, <2>2, EnvironmentStep
<1>2. ASSUME NEW v \in Vnets, EditVnet(v) PROVE IInv'
  <2>1. UNCHANGED <<cache, queue, job>> /\ behind' = behind \cup {<<"vnet", v>>}
    BY <1>2 DEF EditVnet, Edit
  <2>2. /\ UNCHANGED <<api.ns, api.bind, api.status, api.pod>>
        /\ \A w \in Vnets \ {v} : /\ api'.vnet[w] = api.vnet[w]
                                  /\ w \in api'.dying <=> w \in api.dying
    <3>1. CASE \E o \in VnetValues[v] : api' = [api EXCEPT !.vnet[v] = o, !.dying = @ \ {v}]
      BY <1>0, <3>1 DEF TypeOK, Clusters
    <3>2. CASE api' = [api EXCEPT !.dying = @ \cup {v}]
      BY <1>0, <3>2 DEF TypeOK, Clusters
    <3> QED BY <1>2, <3>1, <3>2 DEF EditVnet
  <2>3. CacheFollows'
    BY <1>0, <2>1, <2>2 DEF CacheFollows
  <2> QED BY <2>1, <2>3, EnvironmentStep
<1>3. ASSUME NEW b \in Bindings, EditBinding(b) PROVE IInv'
  <2>1. /\ UNCHANGED <<cache, queue>> /\ behind' = behind \cup {<<"bind", b>>}
        /\ job' = IF job # Idle /\ job.bind = b THEN [job EXCEPT !.latest = FALSE] ELSE job
    BY <1>3 DEF EditBinding, Edit
  <2>2. /\ UNCHANGED <<api.ns, api.vnet, api.dying, api.pod>>
        /\ \A c \in Bindings \ {b} : /\ api'.bind[c] = api.bind[c]
                                     /\ api'.status[c] = api.status[c]
    BY <1>0, <1>3 DEF EditBinding, TypeOK, Clusters
  <2>3. CacheFollows'
    BY <1>0, <2>1, <2>2 DEF CacheFollows
  <2>4. job # Idle => job \in Work
    BY <1>0 DEF TypeOK, Jobs
  <2> QED BY <2>1, <2>3, <2>4, EnvironmentStep
<1>4. ASSUME NEW p \in Pods, EditPod(p) PROVE IInv'
  <2>1. UNCHANGED <<cache, queue, job>> /\ behind' = behind \cup {<<"pod", p>>}
    BY <1>4 DEF EditPod, Edit
  <2>2. /\ UNCHANGED <<api.ns, api.vnet, api.dying, api.bind, api.status>>
        /\ \A q \in Pods \ {p} : api'.pod[q] = api.pod[q]
    BY <1>0, <1>4 DEF EditPod, TypeOK, Clusters
  <2>3. CacheFollows'
    BY <1>0, <2>1, <2>2 DEF CacheFollows
  <2> QED BY <2>1, <2>3, EnvironmentStep
<1> QED BY <1>1, <1>2, <1>3, <1>4 DEF Users

(* So does resolution.                                                     *)
LEMMA RestampStep == ASSUME IInv, TypeOK', NEW p \in Pods, Restamp(p) PROVE IInv'
<1>0. TypeOK /\ CacheFollows
  BY DEF IInv
<1>1. UNCHANGED <<cache, queue, job>> /\ behind' = behind \cup {<<"pod", p>>}
  BY DEF Restamp
<1>2. \E q \in {api'.pod[p]} : api' = [api EXCEPT !.pod[p] = q]
  BY <1>0 DEF Restamp, TypeOK, Clusters
<1>3. /\ UNCHANGED <<api.ns, api.vnet, api.dying, api.bind, api.status>>
      /\ \A q \in Pods \ {p} : api'.pod[q] = api.pod[q]
  BY <1>0, <1>2 DEF TypeOK, Clusters
<1>4. CacheFollows'
  BY <1>0, <1>1, <1>3 DEF CacheFollows
<1> QED BY <1>1, <1>4, EnvironmentStep

(* A delivery that does not enqueue a cached binding leaves what its       *)
(* status depends on as it was.                                            *)
LEMMA DeliveryStep ==
    ASSUME IInv, TypeOK', CacheFollows', UNCHANGED job, queue \subseteq queue',
           \A b \in Bindings : ~Due(b)' => ~Due(b),
           \A b \in Bindings :
               b \notin queue' => /\ cache'.bind[b] = cache.bind[b]
                                  /\ cache'.status[b] = cache.status[b]
                                  /\ cache.bind[b].present => Agree(cache', cache, b, cache.bind[b])
    PROVE  IInv'
<1>1. \A b \in Bindings :
         ~Due(b)' /\ cache.bind[b].present =>
             /\ cache'.bind[b] = cache.bind[b] /\ cache'.status[b] = cache.status[b]
             /\ verdict(cache', b, cache'.bind[b]) = verdict(cache, b, cache.bind[b])
             /\ Wanted(cache', b, cache'.bind[b]) = Wanted(cache, b, cache.bind[b])
  BY VerdictReads, WantedReads DEF Due
<1>2. \A b \in Bindings : ~Due(b)' => cache'.bind[b] = cache.bind[b]
  BY DEF Due
<1>3. JobIsCurrent'
  <2> SUFFICES ASSUME NEW b \in Bindings, job # Idle, job.bind = b, ~Due(b)'
               PROVE  /\ job.spec = cache'.bind[b] /\ job.spec.present
                      /\ job.stored = cache'.status[b]
                      /\ job.pc = "pods" => verdict(cache', b, cache'.bind[b]) = "Accepted"
                      /\ job.pc = "write" => job.new = Wanted(cache', b, cache'.bind[b])
    BY DEF JobIsCurrent
  <2>1. /\ job.spec = cache.bind[b] /\ job.spec.present
        /\ job.stored = cache.status[b]
        /\ job.pc = "pods" => verdict(cache, b, cache.bind[b]) = "Accepted"
        /\ job.pc = "write" => job.new = Wanted(cache, b, cache.bind[b])
    BY DEF JobIsCurrent, IInv
  <2> QED BY <1>1, <2>1
<1>4. RestingIsRight'
  BY <1>1, <1>2 DEF RestingIsRight, IInv
<1> QED BY <1>3, <1>4 DEF IInv

(* Deliveries enqueue the bindings whose status may have to change.        *)
LEMMA DeliverStep == ASSUME IInv, TypeOK', Deliver PROVE IInv'
<1>0. TypeOK /\ CacheFollows
  BY DEF IInv
<1>1. ASSUME NEW n \in Namespaces, DeliverNamespace(n) PROVE IInv'
  <2>1. /\ UNCHANGED <<api, job>> /\ behind' = behind \ {<<"ns", n>>}
        /\ queue' = queue \cup nsToBindings(n)
        /\ cache' = [cache EXCEPT !.ns[n] = api.ns[n]]
    BY <1>1 DEF DeliverNamespace, Seen
  <2>2. /\ UNCHANGED <<cache.vnet, cache.dying, cache.bind, cache.status, cache.pod>>
        /\ cache'.ns[n] = api.ns[n]
        /\ \A k \in Namespaces \ {n} : cache'.ns[k] = cache.ns[k]
    BY <1>0, <2>1 DEF TypeOK, Clusters
  <2>3. CacheFollows'
    BY <1>0, <2>1, <2>2 DEF CacheFollows
  <2>4. ASSUME NEW b \in Bindings, b \notin queue', cache.bind[b].present
        PROVE  Agree(cache', cache, b, cache.bind[b])
    <3>1. BindingNS[b] # n /\ bindingTarget(b, cache.bind[b])[1] # n
      BY <2>1, <2>4 DEF nsToBindings, InCache
    <3>2. BindingNS[b] \in Namespaces
      BY NamesAssumption
    <3>3. ASSUME NEW v \in Vnets PROVE v[1] \in Namespaces
      BY DEF Vnets
    <3> QED BY <2>2, <3>1, <3>2, <3>3 DEF Agree
  <2> QED BY <2>1, <2>2, <2>3, <2>4, DeliveryStep DEF Due
<1>2. ASSUME NEW v \in Vnets, DeliverVnet(v) PROVE IInv'
  <2>1. /\ UNCHANGED <<api, job>> /\ behind' = behind \ {<<"vnet", v>>}
        /\ queue' = queue \cup vnetToBindings(v)
        /\ cache' = [cache EXCEPT !.vnet[v] = api.vnet[v],
                                  !.dying = (cache.dying \ {v}) \cup (api.dying \cap {v})]
    BY <1>2 DEF DeliverVnet, Seen
  <2>2. /\ UNCHANGED <<cache.ns, cache.bind, cache.status, cache.pod>>
        /\ cache'.vnet[v] = api.vnet[v] /\ (v \in cache'.dying <=> v \in api.dying)
        /\ \A w \in Vnets \ {v} : /\ cache'.vnet[w] = cache.vnet[w]
                                  /\ w \in cache'.dying <=> w \in cache.dying
    BY <1>0, <2>1 DEF TypeOK, Clusters
  <2>3. CacheFollows'
    BY <1>0, <2>1, <2>2 DEF CacheFollows
  <2>4. ASSUME NEW b \in Bindings, b \notin queue', cache.bind[b].present
        PROVE  Agree(cache', cache, b, cache.bind[b])
    <3>1. bindingTarget(b, cache.bind[b]) # v
      BY <2>1, <2>4 DEF vnetToBindings, InCache
    <3> QED BY <2>2, <3>1 DEF Agree
  <2> QED BY <2>1, <2>2, <2>3, <2>4, DeliveryStep DEF Due
<1>3. ASSUME NEW p \in Pods, DeliverPod(p) PROVE IInv'
  <2>1. /\ UNCHANGED <<api, job>> /\ behind' = behind \ {<<"pod", p>>}
        /\ queue' = queue \cup bindingsInNamespaceOf(p)
        /\ cache' = [cache EXCEPT !.pod[p] = api.pod[p]]
    BY <1>3 DEF DeliverPod, Seen
  <2>2. /\ UNCHANGED <<cache.ns, cache.vnet, cache.dying, cache.bind, cache.status>>
        /\ cache'.pod[p] = api.pod[p]
        /\ \A q \in Pods \ {p} : cache'.pod[q] = cache.pod[q]
    BY <1>0, <2>1 DEF TypeOK, Clusters
  <2>3. CacheFollows'
    BY <1>0, <2>1, <2>2 DEF CacheFollows
  <2>4. ASSUME NEW b \in Bindings, b \notin queue', cache.bind[b].present
        PROVE  Agree(cache', cache, b, cache.bind[b])
    <3>1. BindingNS[b] # PodNS[p]
      BY <2>1, <2>4 DEF bindingsInNamespaceOf, InCache
    <3> QED BY <2>2, <3>1 DEF Agree
  <2> QED BY <2>1, <2>2, <2>3, <2>4, DeliveryStep DEF Due
<1>4. ASSUME NEW b \in Bindings, DeliverBinding(b) PROVE IInv'
  <2>1. /\ UNCHANGED <<api, job>> /\ behind' = behind \ {<<"bind", b>>}
        /\ queue' = queue \cup {b}
        /\ cache' = [cache EXCEPT !.bind[b] = api.bind[b], !.status[b] = api.status[b]]
    BY <1>4 DEF DeliverBinding, Seen
  <2>2. /\ UNCHANGED <<cache.ns, cache.vnet, cache.dying, cache.pod>>
        /\ cache'.bind[b] = api.bind[b] /\ cache'.status[b] = api.status[b]
        /\ \A c \in Bindings \ {b} : /\ cache'.bind[c] = cache.bind[c]
                                     /\ cache'.status[c] = cache.status[c]
    BY <1>0, <2>1 DEF TypeOK, Clusters
  <2>3. CacheFollows'
    BY <1>0, <2>1, <2>2 DEF CacheFollows
  <2>4. \A c \in Bindings : c \notin queue' => Agree(cache', cache, c, cache.bind[c])
    BY <2>2 DEF Agree
  <2>5. \A c \in Bindings : ~Due(c)' => ~Due(c)
    BY <2>1 DEF Due
  <2> QED BY <2>1, <2>2, <2>3, <2>4, <2>5, DeliveryStep
<1> QED BY <1>1, <1>2, <1>3, <1>4 DEF Deliver

(* Steps that only read leave the other bindings as they are.              *)
LEMMA ReadStep ==
    ASSUME IInv, TypeOK', UNCHANGED <<api, cache, behind, queue>>,
           job # Idle, job' # Idle, job'.bind = job.bind, JobIsCurrent'
    PROVE  IInv'
<1>1. CacheFollows'
  BY DEF CacheFollows, IInv
<1>2. RestingIsRight'
  BY DEF RestingIsRight, Due, IInv
<1> QED BY <1>1, <1>2 DEF IInv

(* A binding is read from the cache.                                       *)
LEMMA BeginStep == ASSUME IInv, TypeOK', NEW b \in Bindings, Begin(b) PROVE IInv'
<1>1. /\ UNCHANGED <<api, cache, behind>> /\ job = Idle /\ queue' = queue \ {b}
  BY DEF Begin, Reads
<1>2. CASE ~cache.bind[b].present
  <2>1. job' = Idle
    BY <1>2 DEF Begin
  <2> QED BY <1>1, <1>2, <2>1 DEF IInv, CacheFollows, JobIsCurrent, RestingIsRight, Due, Idle
<1>3. CASE cache.bind[b].present
  <2>1. /\ job' # Idle /\ job'.bind = b /\ job'.pc = "target"
        /\ job'.spec = cache.bind[b] /\ job'.stored = cache.status[b]
    BY <1>3 DEF Begin, Idle
  <2>2. JobIsCurrent'
    BY <1>1, <1>3, <2>1 DEF JobIsCurrent
  <2>3. RestingIsRight'
    BY <1>1, <2>1 DEF RestingIsRight, Due, IInv
  <2>4. CacheFollows'
    BY <1>1 DEF CacheFollows, IInv
  <2> QED BY <2>2, <2>3, <2>4 DEF IInv
<1> QED BY <1>2, <1>3

(* The verdict is that of the caches.                                      *)
LEMMA CheckStep == ASSUME IInv, TypeOK', CheckTarget PROVE IInv'
<1>1. job \in Work /\ job # Idle /\ job.bind \in Bindings
  BY AtWork DEF IInv
<1> DEFINE r == verdict(cache, job.bind, job.spec)
<1>2. job' = IF r = "Accepted" THEN [job EXCEPT !.pc = "pods"]
             ELSE [job EXCEPT !.pc = "write", !.new = notReady(r)]
  BY DEF CheckTarget
<1>3. /\ job' # Idle /\ job'.bind = job.bind /\ job'.spec = job.spec /\ job'.stored = job.stored
      /\ job'.pc = IF r = "Accepted" THEN "pods" ELSE "write"
      /\ r # "Accepted" => job'.new = notReady(r)
  <2> HIDE DEF r
  <2> QED BY <1>1, <1>2 DEF Work, Idle
<1>4. UNCHANGED <<api, cache, behind, queue>>
  BY DEF CheckTarget, Reads
<1>5. JobIsCurrent'
  <2> SUFFICES ASSUME NEW b \in Bindings, job.bind = b, ~Due(b)
               PROVE  /\ job.spec = cache.bind[b] /\ job.spec.present
                      /\ job.stored = cache.status[b]
                      /\ job'.pc = "pods" => verdict(cache, b, cache.bind[b]) = "Accepted"
                      /\ job'.pc = "write" => job'.new = Wanted(cache, b, cache.bind[b])
    BY <1>3, <1>4 DEF JobIsCurrent, Due
  <2>1. job.spec = cache.bind[b] /\ job.spec.present /\ job.stored = cache.status[b]
    BY <1>1 DEF JobIsCurrent, IInv
  <2> QED BY <1>3, <2>1 DEF Wanted
<1> QED BY <1>1, <1>3, <1>4, <1>5, ReadStep

(* The pods counted are those of the caches.                               *)
LEMMA ListStep == ASSUME IInv, TypeOK', ListPods PROVE IInv'
<1>1. job \in Work /\ job # Idle /\ job.bind \in Bindings
  BY AtWork DEF IInv
<1>2. /\ job' # Idle /\ job'.bind = job.bind /\ job'.spec = job.spec /\ job'.stored = job.stored
      /\ job'.pc = "write" /\ job'.new = accepted(cache, job.bind, job.spec)
  BY <1>1 DEF ListPods, Work, Idle
<1>3. UNCHANGED <<api, cache, behind, queue>>
  BY DEF ListPods, Reads
<1>4. JobIsCurrent'
  <2> SUFFICES ASSUME NEW b \in Bindings, job.bind = b, ~Due(b)
               PROVE  /\ job.spec = cache.bind[b] /\ job.spec.present
                      /\ job.stored = cache.status[b]
                      /\ job'.new = Wanted(cache, b, cache.bind[b])
    BY <1>2, <1>3 DEF JobIsCurrent, Due
  <2>1. /\ job.spec = cache.bind[b] /\ job.spec.present /\ job.stored = cache.status[b]
        /\ verdict(cache, b, cache.bind[b]) = "Accepted"
    BY <1>1 DEF ListPods, JobIsCurrent, IInv
  <2> QED BY <1>2, <2>1 DEF Wanted
<1> QED BY <1>1, <1>2, <1>3, <1>4, ReadStep

(* An error brings the binding back.                                       *)
LEMMA FailStep ==
    ASSUME IInv, TypeOK', job \in Work, Fail, UNCHANGED <<api, cache, behind>>
    PROVE  IInv'
<1>1. job' = Idle /\ queue' = queue \cup {job.bind}
  BY DEF Fail
<1>2. CacheFollows' /\ JobIsCurrent'
  BY <1>1 DEF CacheFollows, JobIsCurrent, IInv
<1>3. RestingIsRight'
  BY <1>1 DEF RestingIsRight, Due, IInv
<1> QED BY <1>2, <1>3 DEF IInv

(* A status that is written comes back as an event; one that is not is     *)
(* right; a conflict is an error.                                          *)
LEMMA WriteStep == ASSUME IInv, TypeOK', writeStatus PROVE IInv'
<1>0. TypeOK /\ CacheFollows
  BY DEF IInv
<1>1. job \in Work /\ job # Idle /\ job.bind \in Bindings
  BY <1>0, AtWork
<1>2. CASE noop(job.stored, job.new)
  <2>1. UNCHANGED <<api, cache, behind, queue>> /\ job' = Idle
    BY <1>2 DEF writeStatus, Done
  <2>2. ~Due(job.bind) => cache.status[job.bind] = Wanted(cache, job.bind, cache.bind[job.bind])
    BY <1>1, <1>2 DEF writeStatus, JobIsCurrent, noop, IInv
  <2>3. RestingIsRight'
    BY <1>1, <2>1, <2>2 DEF RestingIsRight, Due, IInv
  <2>4. CacheFollows' /\ JobIsCurrent'
    BY <2>1 DEF CacheFollows, JobIsCurrent, IInv
  <2> QED BY <2>3, <2>4 DEF IInv
<1>3. CASE ~noop(job.stored, job.new) /\ job.latest
  <2>1. /\ UNCHANGED <<cache, queue>> /\ job' = Idle
        /\ behind' = behind \cup {<<"bind", job.bind>>}
        /\ api' = [api EXCEPT !.status[job.bind] = job.new]
    BY <1>3 DEF writeStatus, Done
  <2>2. /\ UNCHANGED <<api.ns, api.vnet, api.dying, api.bind, api.pod>>
        /\ \A c \in Bindings \ {job.bind} : api'.status[c] = api.status[c]
    BY <1>0, <1>1, <2>1 DEF TypeOK, Clusters
  <2>3. CacheFollows'
    BY <1>0, <2>1, <2>2 DEF CacheFollows
  <2>4. RestingIsRight' /\ JobIsCurrent'
    BY <1>1, <2>1 DEF RestingIsRight, JobIsCurrent, Due, IInv
  <2> QED BY <2>3, <2>4 DEF IInv
<1>4. CASE ~noop(job.stored, job.new) /\ ~job.latest
  BY <1>1, <1>4, FailStep DEF writeStatus
<1> QED BY <1>1, <1>2, <1>3, <1>4 DEF Work

(* A starting operator has every binding in its queue.                     *)
LEMMA StartInv ==
    ASSUME TypeOK, cache = api, behind = {}, queue = StartQueue(api), job = Idle
    PROVE  IInv
BY DEF IInv, CacheFollows, JobIsCurrent, RestingIsRight, Due, StartQueue

(* Every step keeps the invariant.                                         *)
LEMMA InvariantStep == ASSUME IInv, [Next]_vars PROVE IInv'
<1>1. TypeOK'
  BY TypeStep DEF IInv
<1>2. CASE Reconcile
  BY <1>1, <1>2, BeginStep, CheckStep, ListStep, WriteStep DEF Reconcile
<1>3. CASE CallFails
  BY <1>1, <1>3, AtWork, FailStep DEF CallFails, Fault, IInv
<1>4. CASE Restart
  <2>1. cache' = api' /\ behind' = {} /\ queue' = StartQueue(api') /\ job' = Idle
    BY <1>4 DEF Restart, Fault
  <2> QED BY <1>1, <2>1 DEF IInv, CacheFollows, JobIsCurrent, RestingIsRight, Due, StartQueue
<1>5. CASE UNCHANGED vars
  <2>1. CacheFollows'
    BY <1>5 DEF vars, CacheFollows, IInv
  <2> QED BY <1>1, <1>5, <2>1, EnvironmentStep DEF vars
<1> QED BY <1>1, <1>2, <1>3, <1>4, <1>5, UsersStep, RestampStep, DeliverStep DEF Next

(* The binding controller's invariant: its caches lack nothing that is not *)
(* on its way, what the worker holds is what they say or it will begin     *)
(* again, and a binding it is through with has the status they call for.   *)
THEOREM InductiveInvariant == Spec => []IInv
<1>1. Init => IInv
  BY InitType, StartInv DEF Init
<1>2. IInv /\ [Next]_vars => IInv'
  BY InvariantStep
<1> QED BY <1>1, <1>2, PTL DEF Spec

-----------------------------------------------------------------------------
(* What follows.                                                           *)

(* A status that nobody is about to refresh is what the API server's state *)
(* calls for.                                                              *)
LEMMA RestIsRight ==
    ASSUME IInv, NEW b \in Bindings, ~Attended(b) PROVE Right(b)
<1> DEFINE o == api.bind[b]
           v == bindingTarget(b, o)
<1>1. ~Due(b) /\ (job = Idle \/ job.bind # b) /\ cache.bind[b] = o /\ cache.status[b] = api.status[b]
  BY DEF Attended, Concerning, Due, CacheFollows, IInv
<1>2. /\ <<"ns", BindingNS[b]>> \notin behind /\ <<"ns", v[1]>> \notin behind
      /\ <<"vnet", v>> \notin behind
      /\ \A p \in Pods : PodNS[p] = BindingNS[b] => <<"pod", p>> \notin behind
  BY DEF Attended, Concerning
<1>3. v \in Vnets => v[1] \in Namespaces
  BY DEF Vnets
<1>4. Agree(api, cache, b, o)
  <2> HIDE DEF o
  <2> QED BY <1>2, <1>3, NamesAssumption DEF Agree, CacheFollows, IInv
<1>5. Wanted(api, b, o) = Wanted(cache, b, o)
  BY <1>4, WantedReads
<1> QED BY <1>1, <1>5 DEF RestingIsRight, Right, IInv

(* The binding controller implements LevelTriggered's safety: in whatever  *)
(* order namespaces, vnets, stamps and bindings change and are seen, and   *)
(* however updates conflict, it lets go of a binding only with the status  *)
(* the cluster calls for, and nothing it speaks of changes unnoticed.      *)
THEOREM LevelTriggeredCorrect == Spec => IsLevelTriggered
<1> DEFINE AtRest == \A b \in Bindings : ~Attended(b) => Right(b)
<1>1. IInv => AtRest
  BY RestIsRight
<1>2. AtRest => Level!Init
  BY DEF Level!Init
<1>3. AtRest /\ AtRest' => Level!Next
  BY DEF Level!Next, Level!Disturbed, Level!Attended, Level!Released, Level!Resting
<1> HIDE DEF AtRest
<1> QED BY <1>1, <1>2, <1>3, InductiveInvariant, PTL DEF IsLevelTriggered, Level!Safety

(* bindingTarget and canonicalVnetKey infer the same vnet.                 *)
LEMMA TargetsAgree ==
    ASSUME TypeOK, NEW b \in Bindings
    PROVE  LET k == canonicalVnetKey(api.bind[b].ref, BindingNS[b])
           IN /\ Target(b) = bindingTarget(b, api.bind[b])
              /\ stampedVnetKey(k) = stampedVnetKey(Target(b))
              /\ k = ClusterKey => Target(b) = ClusterVnet
              /\ k # ClusterKey => Target(b) = k
<1>1. api.bind[b].ref \in Refs /\ BindingNS[b] \in Namespaces /\ NoNS \notin Namespaces
  BY NamesAssumption DEF TypeOK, Clusters, BindingObjs, BindingObj
<1>2. Target(b) = bindingTarget(b, api.bind[b])
  BY <1>1 DEF Target, bindingTarget, canonicalVnetKey, ClusterKey, ClusterVnet, Refs
<1> QED BY <1>2 DEF Target, stampedVnetKey, ClusterKey, ClusterVnet

(* What the verdicts mean.                                                 *)
LEMMA VerdictMeans ==
    ASSUME NEW view, NEW b, NEW o
    PROVE  LET n == BindingNS[b]
               v == bindingTarget(b, o)
               r == verdict(view, b, o)
           IN /\ r = "Accepted" =>
                   /\ IsManaged(view, n) /\ ParseBareDirection(bindingDirection(o))
                   /\ v \in Vnets /\ view.vnet[v].present /\ v \notin view.dying
                   /\ ~homeExcluded(view, n, v) /\ PermitsForVnet(view, v, view.vnet[v], n)
              /\ r = "NamespaceExcluded" => ~IsManaged(view, n)
              /\ r = "InvalidDirection" => ~ParseBareDirection(bindingDirection(o))
              /\ r = "VNetMissing" => v \notin Vnets \/ ~view.vnet[v].present
              /\ r = "VNetTerminating" => v \in view.dying
              /\ r = "HomeNamespaceExcluded" => homeExcluded(view, n, v)
              /\ r = "VNetNotPermitted" => ~PermitsForVnet(view, v, view.vnet[v], n)
              /\ r = "InvalidSelector" => Malformed \in o.selector
BY DEF verdict

(* A status is Ready if the binding is accepted.                           *)
LEMMA WantedMeans ==
    ASSUME NEW view, NEW b, NEW o
    PROVE  /\ verdict(view, b, o) = "Accepted" =>
                 /\ Wanted(view, b, o) = accepted(view, b, o)
                 /\ Wanted(view, b, o).reason \in Ready
                 /\ Wanted(view, b, o).reason \notin NotReady
           /\ verdict(view, b, o) # "Accepted" =>
                 /\ Wanted(view, b, o).reason = verdict(view, b, o)
                 /\ Wanted(view, b, o).reason \in NotReady
                 /\ Wanted(view, b, o).reason \notin Ready
                 /\ Wanted(view, b, o).attached = {}
<1>1. \A r \in Ready : r \notin NotReady
  BY DEF Ready, NotReady
<1>2. accepted(view, b, o).reason \in Ready
  BY DEF accepted, Ready
<1>3. verdict(view, b, o) # "Accepted" => verdict(view, b, o) \in NotReady
  BY VerdictType
<1> QED BY <1>1, <1>2, <1>3, NotReadyType DEF Wanted

(* A status at rest is right, and so lists the members.                    *)
LEMMA RestingAttached == ASSUME IInv PROVE AttachedPodsAreMembers
<1> SUFFICES ASSUME NEW b \in Bindings, api.bind[b].present, ~Attended(b)
             PROVE  LET members == selects(api, b, api.bind[b]) \cap MembersOf(Target(b))
                    IN /\ api.status[b].attached \subseteq members
                       /\ api.status[b].reason \in Ready => api.status[b].attached = members
  BY DEF AttachedPodsAreMembers
<1> DEFINE o == api.bind[b]
           n == BindingNS[b]
           v == bindingTarget(b, o)
<1>1. api.status[b] = Wanted(api, b, o)
  BY RestIsRight DEF Right
<1>2. Target(b) = v
  BY TargetsAgree DEF IInv
<1>3. CASE verdict(api, b, o) = "Accepted"
  <2>1. /\ IsManaged(api, n) /\ v \in Vnets /\ api.vnet[v].present /\ v \notin api.dying
        /\ ~homeExcluded(api, n, v) /\ PermitsForVnet(api, v, api.vnet[v], n)
    BY <1>3, VerdictMeans
  <2>2. Served(v)
    BY <2>1 DEF Served, homeExcluded
  <2>3. \A p \in selects(api, b, o) : PodNS[p] = n /\ p \in Pods /\ api.pod[p].present
    BY DEF selects
  <2>4. \A p \in selects(api, b, o) : p \in MembersOf(v) <=> isStampedMember(api.pod[p], v)
    <3> HIDE DEF o, n, v
    <3> QED BY <2>1, <2>2, <2>3 DEF MembersOf, isStampedMember
  <2>5. api.status[b].attached = {p \in selects(api, b, o) : isStampedMember(api.pod[p], v)}
    BY <1>1, <1>3, WantedMeans DEF accepted
  <2> QED
    <3> HIDE DEF v
    <3> QED BY <1>2, <2>4, <2>5
<1>4. CASE verdict(api, b, o) # "Accepted"
  BY <1>1, <1>4, WantedMeans
<1> QED BY <1>3, <1>4

(* The pods a status at rest lists are those the vnet controller takes for *)
(* members of the target: the binding controller skips none of its checks. *)
THEOREM AttachedPodsCorrect == Spec => []AttachedPodsAreMembers
BY InductiveInvariant, RestingAttached, PTL

(* A binding adds one rule to a pod, or none.                              *)
LEMMA EffectIs ==
    ASSUME TypeOK, NEW b \in Bindings, NEW p \in Pods, PodNS[p] = BindingNS[b]
    PROVE  LET o == api.bind[b]
               k == canonicalVnetKey(o.ref, BindingNS[b])
               d == bindingDirection(o)
           IN /\ /\ o.present /\ api.pod[p].labels \in o.selector
                 /\ ParseBareDirection(d) /\ Permits(api, k, BindingNS[b])
                 => Effect(b, p) = {<<stampedVnetKey(k), d>>}
              /\ ~ /\ o.present /\ api.pod[p].labels \in o.selector
                   /\ ParseBareDirection(d) /\ Permits(api, k, BindingNS[b])
                 => Effect(b, p) = {}
<1> DEFINE o == api.bind[b]
           n == BindingNS[b]
           k == canonicalVnetKey(o.ref, n)
           d == bindingDirection(o)
           only == [api EXCEPT !.bind = [c \in Bindings |->
                       IF c = b THEN @[c] ELSE [@[c] EXCEPT !.present = FALSE]]]
           rules == bindingRules(only, api.pod[p], n)
<1>1. /\ only.ns = api.ns /\ only.vnet = api.vnet
      /\ only.bind[b] = o
      /\ \A c \in Bindings \ {b} : ~only.bind[c].present
  BY DEF TypeOK, Clusters, BindingObjs, BindingObj
<1>2. Effect(b, p) = filterPermittedRules(only, rules, n)
  BY DEF Effect
<1>3. \A q : Permits(only, q, n) <=> Permits(api, q, n)
  <2> HIDE DEF only
  <2> QED BY <1>1 DEF Permits, PermitsForVnet, matchesAllowedNamespaces
<1>4. rules = IF o.present /\ api.pod[p].labels \in o.selector /\ ParseBareDirection(d)
              THEN {<<k, d>>} ELSE {}
  <2> HIDE DEF only
  <2> QED BY <1>1 DEF bindingRules
<1> HIDE DEF only, rules, k, d
<1>5. CASE rules = {}
  BY <1>2, <1>4, <1>5 DEF filterPermittedRules, k, d
<1>6. CASE rules = {<<k, d>>}
  <2>1. filterPermittedRules(only, rules, n)
        = IF Permits(api, k, n) THEN {<<stampedVnetKey(k), d>>} ELSE {}
    <3>1. {q \in rules : Permits(only, q[1], n)} = IF Permits(api, k, n) THEN {<<k, d>>} ELSE {}
      BY <1>3, <1>6
    <3>2. {<<stampedVnetKey(q[1]), q[2]>> : q \in {<<k, d>>}} = {<<stampedVnetKey(k), d>>}
      OBVIOUS
    <3>3. CASE Permits(api, k, n)
      BY <3>1, <3>2, <3>3 DEF filterPermittedRules
    <3>4. CASE ~Permits(api, k, n)
      BY <3>1, <3>4 DEF filterPermittedRules
    <3> QED BY <3>3, <3>4
  <2> QED BY <1>2, <1>4, <1>6, <2>1 DEF k, d
<1> QED BY <1>4, <1>5, <1>6

(* A status at rest is right, and so Ready when resolution has the rule.   *)
LEMMA RestingInEffect == ASSUME IInv PROVE ReadyMeansInEffect
<1> SUFFICES ASSUME NEW b \in Bindings, api.bind[b].present, ~Attended(b)
             PROVE  /\ api.status[b].reason \in Ready =>
                       \A p \in selects(api, b, api.bind[b]) :
                          Effect(b, p) = {<<stampedVnetKey(Target(b)), bindingDirection(api.bind[b])>>}
                    /\ api.status[b].reason \in NotReady /\ Served(Target(b))
                          /\ IsManaged(api, BindingNS[b]) =>
                       \A p \in Pods : PodNS[p] = BindingNS[b] => Effect(b, p) = {}
  BY DEF ReadyMeansInEffect
<1> DEFINE o == api.bind[b]
           n == BindingNS[b]
           v == bindingTarget(b, o)
           k == canonicalVnetKey(o.ref, n)
           d == bindingDirection(o)
           r == verdict(api, b, o)
<1>0. TypeOK
  BY DEF IInv
<1>1. api.status[b] = Wanted(api, b, o)
  BY RestIsRight DEF Right
<1>2. /\ Target(b) = v /\ stampedVnetKey(k) = stampedVnetKey(Target(b))
      /\ k = ClusterKey => v = ClusterVnet
      /\ k # ClusterKey => v = k
  BY <1>0, TargetsAgree
<1>3. ASSUME r = "Accepted", NEW p \in selects(api, b, o)
      PROVE  Effect(b, p) = {<<stampedVnetKey(Target(b)), d>>}
  <2>1. /\ v \in Vnets /\ api.vnet[v].present /\ PermitsForVnet(api, v, api.vnet[v], n)
        /\ ParseBareDirection(d)
    BY <1>3, VerdictMeans
  <2>2. Permits(api, k, n)
    BY <1>2, <2>1 DEF Permits
  <2>3. p \in Pods /\ PodNS[p] = n /\ api.pod[p].labels \in o.selector
    BY <1>3 DEF selects
  <2> QED BY <1>0, <1>2, <2>1, <2>2, <2>3, EffectIs
<1>4. ASSUME r # "Accepted", Served(v), IsManaged(api, n), NEW p \in Pods, PodNS[p] = n
      PROVE  Effect(b, p) = {}
  <2>1. v \in Vnets /\ api.vnet[v].present /\ v \notin api.dying /\ ~homeExcluded(api, n, v)
    BY <1>4 DEF Served, homeExcluded
  <2>2. r \in {"InvalidDirection", "VNetNotPermitted", "InvalidSelector"}
    BY <1>4, <2>1, VerdictType, VerdictMeans DEF NotReady
  <2>3. CASE r = "InvalidDirection"
    <3>1. ~ParseBareDirection(d)
      BY <2>3, VerdictMeans
    <3> QED BY <1>0, <1>4, <3>1, EffectIs
  <2>4. CASE r = "VNetNotPermitted"
    <3>1. ~PermitsForVnet(api, v, api.vnet[v], n)
      BY <2>4, VerdictMeans
    <3>2. v # ClusterVnet
      <4>1. api.vnet[v] \in VnetObjs(v)
        BY <1>0, <2>1 DEF TypeOK, Clusters
      <4> QED BY <2>1, <3>1, <4>1 DEF VnetObjs, PermitsForVnet, matchesAllowedNamespaces
    <3>3. ~Permits(api, k, n)
      BY <1>2, <3>1, <3>2 DEF Permits
    <3> QED BY <1>0, <1>4, <3>3, EffectIs
  <2>5. CASE r = "InvalidSelector"
    <3>1. Malformed \in o.selector
      BY <2>5, VerdictMeans
    <3>2. o.selector = {Malformed} /\ api.pod[p].labels # Malformed
      BY <1>0, <3>1 DEF TypeOK, Clusters, BindingObjs, PodObjs
    <3> QED BY <1>0, <1>4, <3>2, EffectIs
  <2> QED BY <2>2, <2>3, <2>4, <2>5
<1>5. /\ api.status[b].reason \in Ready => r = "Accepted"
      /\ api.status[b].reason \in NotReady => r # "Accepted"
  BY <1>1, WantedMeans
<1> QED
  <2> HIDE DEF r
  <2> QED BY <1>2, <1>3, <1>4, <1>5

(* The second decision about a binding agrees with the first: a Ready      *)
(* binding is a rule of resolution for every pod it selects, and one that  *)
(* is not adds nothing to a served vnet.                                   *)
THEOREM ReadyIsInEffect == Spec => []ReadyMeansInEffect
BY InductiveInvariant, RestingInEffect, PTL

=============================================================================
