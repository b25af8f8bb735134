----------------------------- MODULE HostPortProofs -----------------------------
(***************************************************************************)
(* Proofs about HostPort, for any namespaces, pods, ports, edits and       *)
(* bounds.                                                                 *)
(***************************************************************************)
EXTENDS HostPort, NamespacedProofs

(* A pod that no event is due for declares what the informer's copy does.  *)
PodsFollow == \A p \in Pods : p \notin podDue => podKeys(podCache[p]) = podKeys(pods[p])

(* What the worker keeps is what the pods declare, unless the namespace is *)
(* certain to be reconciled again, and none of it is to be deleted.        *)
KeepIsDeclared ==
    /\ job.pc = "delete" => job.todo \cap job.keep = {}
    /\ \A n \in Namespaces :
          job # Idle /\ job.ns = n /\ ~DueAgain(n) =>
             IF job.pc = "pods" THEN Managed(n) ELSE job.keep = Declared(n)

(* An object, or a key, of the namespace has an event due.                 *)
AnyDue(n) == EventDue(n) \/ DueAgain(n)

(* What the worker has done in its namespace is still so, unless an event  *)
(* is due that brings it back, or an apply has failed.                     *)
JobIsCurrent ==
    \A n \in Namespaces :
        job # Idle /\ job.ns = n /\ ~AnyDue(n) /\ api.ns[n].phase = "active" =>
           /\ \A k \in Names :
                 /\ job.pc # "pods" /\ k \in job.keep =>
                       \/ job.failed \/ api.obj[n][k] = Applied(api.obj[n][k])
                       \/ job.pc \in {"apply", "patch"} /\ k \in job.todo
                       \/ job.pc = "patch" /\ k = job.key
                 /\ job.pc = "delete" /\ k \notin job.keep =>
                       k \in job.todo \/ ~operatorManaged(api.obj[n][k])

(* A live namespace that no event is due for, and that is not being        *)
(* reconciled, is right.                                                   *)
RestingIsRight ==
    \A n \in Namespaces :
        ~AnyDue(n) /\ (job = Idle \/ job.ns # n) /\ api.ns[n].phase = "active" => Right(n)

(* The inductive invariant.                                                *)
IInv == TypeOK /\ CacheFollows /\ PodsFollow /\ KeepIsDeclared /\ JobIsCurrent /\ RestingIsRight

-----------------------------------------------------------------------------
(* Types.                                                                  *)

(* A worker that is not idle works on a namespace.                         *)
LEMMA AtWork ==
    ASSUME TypeOK, job.pc # "idle"
    PROVE  /\ job # Idle /\ job.ns \in Namespaces /\ job.failed \in BOOLEAN
           /\ job.keep \subseteq Names /\ job.todo \subseteq Names
           /\ job.pc \in {"pods", "apply", "patch", "list", "delete"}
           /\ job.pc # "patch" => job \in Work
           /\ job.pc = "patch" => job \in Patching /\ job.key \in Names
<1>1. job # Idle /\ (job \in Work \/ job \in Patching)
  BY DEF TypeOK, Jobs, Idle
<1>2. CASE job \in Work
  BY <1>1, <1>2 DEF Work
<1>3. CASE job \in Patching
  BY <1>1, <1>3 DEF Patching
<1> QED BY <1>1, <1>2, <1>3

(* The keys a namespace's pods declare are keys.                           *)
LEMMA KeysType ==
    ASSUME NEW ps \in [Pods -> {NoPod} \cup PodSpecs], NEW n \in Namespaces
    PROVE  desiredHostPortKeys(ps, n) \subseteq Names
<1>1. \A p \in Pods : podKeys(ps[p]) \subseteq Names
  <2>1. \A o \in {NoPod} \cup PodSpecs : podKeys(o) \subseteq Names
    BY PodsAssumption DEF podKeys, NoPod, PodSpec, hostPortKeys
  <2> QED BY <2>1
<1> QED BY <1>1 DEF desiredHostPortKeys

(* What the loop goes on with.                                             *)
LEMMA ApplyingType ==
    ASSUME TypeOK, job.pc # "idle", NEW failed \in BOOLEAN
    PROVE  /\ Applying(failed) \in Work /\ Applying(failed) # Idle
           /\ Applying(failed).pc = "apply" /\ Applying(failed).ns = job.ns
           /\ Applying(failed).keep = job.keep /\ Applying(failed).todo = job.todo
           /\ Applying(failed).failed = failed
BY AtWork DEF Applying, Work, Idle

(* The worker's steps keep the types.                                      *)
LEMMA ReconcileType == ASSUME TypeOK, Reconcile PROVE TypeOK'
<1>1. ASSUME NEW n \in Namespaces, Begin(n) PROVE TypeOK'
  BY <1>1 DEF Begin, TypeOK, WorldOK, world, podVars, Jobs, Work
<1>2. CASE listPods
  <2>1. job \in Work /\ desiredHostPortKeys(podCache, job.ns) \subseteq Names
    BY <1>2, AtWork, KeysType DEF listPods, TypeOK
  <2>2. \A ks \in SUBSET Names : [job EXCEPT !.pc = "apply", !.keep = ks, !.todo = ks] \in Work
    BY <2>1 DEF Work
  <2>3. job' \in Jobs
    BY <1>2, <2>1, <2>2 DEF listPods, Jobs
  <2> QED BY <1>2, <2>3 DEF listPods, TypeOK, WorldOK, world, podVars
<1>3. CASE applyPolicy
  <2>1. job \in Work /\ job.ns \in Namespaces /\ job.keep \subseteq Names
           /\ job.todo \subseteq Names /\ job.failed \in BOOLEAN
    BY <1>3, AtWork DEF applyPolicy
  <2>2. /\ [job EXCEPT !.pc = "list"] \in Work
        /\ \A k \in Names : [job EXCEPT !.todo = @ \ {k}] \in Work
    BY <2>1 DEF Work
  <2>3. \A k \in Names :
           [pc |-> "patch", ns |-> job.ns, key |-> k, keep |-> job.keep,
            todo |-> job.todo \ {k}, failed |-> job.failed] \in Patching
    BY <2>1 DEF Patching
  <2>4. job' \in Jobs
    BY <1>3, <2>1, <2>2, <2>3 DEF applyPolicy, Jobs
  <2> QED BY <1>3, <2>4 DEF applyPolicy, TypeOK, WorldOK, world, podVars
<1>4. CASE Patch
  <2>1. job.ns \in Namespaces /\ job.key \in Names /\ job.failed \in BOOLEAN
    BY <1>4, AtWork DEF Patch
  <2>2. job' \in Jobs
    BY <1>4, <2>1, ApplyingType DEF Patch, Jobs
  <2>3. Applied(api.obj[job.ns][job.key]) \in Objs
    BY <2>1, ObjectTypes DEF TypeOK, WorldOK, Clusters
  <2>4. /\ api' \in Clusters
        /\ behind' \subseteq Namespaces \X (Names \cup {"ns"})
        /\ due' \subseteq behind' \cap (Namespaces \X Names)
    BY <1>4, <2>1, <2>3, PutType DEF Patch, TypeOK, WorldOK
  <2> QED BY <1>4, <2>2, <2>4 DEF Patch, TypeOK, WorldOK, podVars
<1>5. CASE sweepStalePolicies
  <2>1. job \in Work /\ Stale(job.ns, job.keep) \subseteq Names
    BY <1>5, AtWork DEF sweepStalePolicies, Stale
  <2>2. [job EXCEPT !.pc = "delete", !.todo = Stale(job.ns, job.keep)] \in Work
    BY <2>1 DEF Work
  <2>3. job' \in Jobs
    BY <1>5, <2>2 DEF sweepStalePolicies, Jobs
  <2> QED BY <1>5, <2>3 DEF sweepStalePolicies, TypeOK, WorldOK, world, podVars
<1>6. CASE DeleteStale
  <2>1. job \in Work /\ job.ns \in Namespaces /\ job.todo \subseteq Names
    BY <1>6, AtWork DEF DeleteStale
  <2>2. \A x \in job.todo : [job EXCEPT !.todo = @ \ {x}] \in Work
    BY <2>1 DEF Work
  <2>3. job' \in Jobs /\ queue' \subseteq Namespaces
    BY <1>6, <2>1, <2>2 DEF DeleteStale, Done, Fail, Jobs, TypeOK, WorldOK
  <2>4. /\ api' \in Clusters
        /\ behind' \subseteq Namespaces \X (Names \cup {"ns"})
        /\ due' \subseteq behind' \cap (Namespaces \X Names)
    BY <1>6, <2>1, PutType, ObjectTypes DEF DeleteStale, TypeOK, WorldOK
  <2> QED BY <1>6, <2>3, <2>4 DEF DeleteStale, TypeOK, WorldOK, podVars
<1> QED BY <1>1, <1>2, <1>3, <1>4, <1>5, <1>6 DEF Reconcile

(* Failures and restarts keep the types.                                   *)
LEMMA FaultType == ASSUME TypeOK, ApplyFails \/ DeleteFails \/ Restart PROVE TypeOK'
<1> USE NamespacedAssumption
<1>1. CASE ApplyFails
  <2>1. job' \in Jobs
    BY <1>1, ApplyingType DEF ApplyFails, Jobs
  <2>2. WorldOK'
    BY <1>1 DEF ApplyFails, Fault, TypeOK, WorldOK
  <2> QED BY <1>1, <2>1, <2>2 DEF ApplyFails, TypeOK, podVars
<1>2. CASE DeleteFails
  BY <1>2, AtWork DEF DeleteFails, Fault, Fail, TypeOK, WorldOK, podVars, Jobs
<1>3. CASE Restart
  BY <1>3 DEF Restart, Crash, Fault, StartQueue, TypeOK, WorldOK, Jobs
<1> QED BY <1>1, <1>2, <1>3

(* What happens to a pod keeps the types.                                  *)
LEMMA PodsType ==
    ASSUME TypeOK, NEW p \in Pods, CreatePod(p) \/ DeletePod(p) \/ EvictPod(p) \/ DeliverPod(p)
    PROVE  TypeOK' /\ UNCHANGED job
<1> USE NamespacedAssumption, PodsAssumption
<1>1. CASE CreatePod(p) \/ DeletePod(p) \/ EvictPod(p)
  <2>1. PICK o \in {NoPod} \cup PodSpecs : PutPod(p, o)
    BY <1>1 DEF CreatePod, DeletePod, EvictPod
  <2>2. /\ pods' \in [Pods -> {NoPod} \cup PodSpecs] /\ UNCHANGED podCache
        /\ podDue' \subseteq podBehind' /\ podBehind' \subseteq Pods
    BY <2>1 DEF PutPod, TypeOK
  <2>3. WorldOK' /\ UNCHANGED job
    BY <1>1, <2>1 DEF CreatePod, DeletePod, EvictPod, UserEdit, PutPod, TypeOK, WorldOK
  <2> QED BY <2>2, <2>3 DEF TypeOK
<1>2. CASE DeliverPod(p)
  <2>1. WorldOK' /\ UNCHANGED job
    BY <1>2 DEF DeliverPod, TypeOK, WorldOK, world
  <2>2. /\ podCache' \in [Pods -> {NoPod} \cup PodSpecs] /\ UNCHANGED pods
        /\ podDue' \subseteq podBehind' /\ podBehind' \subseteq Pods
    BY <1>2 DEF DeliverPod, TypeOK
  <2> QED BY <2>1, <2>2 DEF TypeOK
<1> QED BY <1>1, <1>2

(* Every step keeps the types.                                             *)
LEMMA TypeStep == ASSUME TypeOK, [Next]_vars PROVE TypeOK'
<1>1. CASE OthersOfNamespaces
  BY <1>1, OthersType DEF OthersOfNamespaces, TypeOK, podVars
<1>2. CASE Watches
  BY <1>2, DeliverType, PodsType DEF Watches, TypeOK, podVars
<1>3. CASE UNCHANGED vars
  BY <1>3 DEF vars, world, podVars, TypeOK, WorldOK
<1> QED BY <1>1, <1>2, <1>3, PodsType, ReconcileType, FaultType DEF Next

(* A starting operator's state has its types.                              *)
LEMMA InitType == ASSUME Init PROVE TypeOK
BY NamespacedAssumption, PodsAssumption DEF Init, Start, StartQueue, TypeOK, WorldOK, Jobs

(* Every variable of the hostPort controller keeps its type.               *)
THEOREM TypeCorrect == Spec => []TypeOK
<1>1. Init => TypeOK
  BY InitType
<1>2. TypeOK /\ [Next]_vars => TypeOK'
  BY TypeStep
<1> QED BY <1>1, <1>2, PTL DEF Spec

-----------------------------------------------------------------------------
(* Changes of what is declared are noticed.                                *)

(* In this step what the namespace declares stays, or another reconcile is *)
(* certain.                                                                *)
KeysNoticed(n) ==
    \/ DueAgain(n)'
    \/ ~DueAgain(n) /\ (Managed(n)' <=> Managed(n)) /\ Declared(n)' = Declared(n)

(* Pods with the same keys make for the same desired keys.                 *)
LEMMA SameKeys ==
    ASSUME NEW ps, NEW qs, NEW n,
           \A p \in Pods : PodNS[p] = n => podKeys(ps[p]) = podKeys(qs[p])
    PROVE  desiredHostPortKeys(ps, n) = desiredHostPortKeys(qs, n)
BY DEF desiredHostPortKeys

(* The pods did not change: what is declared hangs on the namespace.       *)
LEMMA NamespaceKeys ==
    ASSUME NEW n \in Namespaces, NamespaceNoticed(n), UNCHANGED podVars
    PROVE  KeysNoticed(n)
BY DEF NamespaceNoticed, KeysNoticed, DueAgain, Declared, Managed, podVars

(* A pod that comes or goes unnoticed declares nothing.                    *)
LEMMA PutPodKeys ==
    ASSUME TypeOK, PodsFollow, NEW p \in Pods, NEW o \in {NoPod} \cup PodSpecs, PutPod(p, o),
           UNCHANGED queue, o = NoPod \/ pods[p] = NoPod
    PROVE  PodsFollow' /\ \A n \in Namespaces : KeysNoticed(n) /\ Noticed(n)
<1>1. podKeys(NoPod) = {}
  BY DEF podKeys, NoPod
<1>2. p \notin podDue' => podKeys(o) = {} /\ podKeys(pods[p]) = {}
  BY <1>1 DEF PutPod, HostPortChangedPredicate
<1>3. pods'[p] = o /\ \A q \in Pods : q # p => pods'[q] = pods[q]
  BY DEF PutPod, TypeOK
<1>4. \A q \in Pods : q \notin podDue' => q \notin podDue /\ podKeys(pods'[q]) = podKeys(pods[q])
  BY <1>2, <1>3 DEF PutPod
<1>5. PodsFollow'
  BY <1>4 DEF PodsFollow, PutPod
<1>6. ASSUME NEW n \in Namespaces PROVE KeysNoticed(n)
  <2> SUFFICES ASSUME ~DueAgain(n)' PROVE ~DueAgain(n) /\ (Managed(n)' <=> Managed(n))
                                          /\ Declared(n)' = Declared(n)
    BY DEF KeysNoticed
  <2>1. ~DueAgain(n)
    BY DEF DueAgain, PutPod
  <2>2. Managed(n)' <=> Managed(n)
    BY DEF PutPod, Managed
  <2>3. \A q \in Pods : PodNS[q] = n => podKeys(pods'[q]) = podKeys(pods[q])
    BY <1>4 DEF DueAgain
  <2>4. desiredHostPortKeys(pods', n) = desiredHostPortKeys(pods, n)
    BY <2>3, SameKeys
  <2> QED BY <2>1, <2>2, <2>4 DEF Declared
<1>7. ASSUME NEW n \in Namespaces PROVE Noticed(n)
  BY DEF PutPod, Noticed, EventDue, Alike
<1> QED BY <1>5, <1>6, <1>7

(* A delivered pod event is in the queue.                                  *)
LEMMA DeliverPodKeys ==
    ASSUME TypeOK, PodsFollow, NEW p \in Pods, DeliverPod(p)
    PROVE  PodsFollow' /\ \A n \in Namespaces : KeysNoticed(n) /\ Noticed(n)
<1>1. podCache'[p] = pods[p] /\ \A q \in Pods : q # p => podCache'[q] = podCache[q]
  BY DEF DeliverPod, TypeOK
<1>2. PodsFollow'
  BY <1>1 DEF PodsFollow, DeliverPod
<1>3. ASSUME NEW n \in Namespaces PROVE KeysNoticed(n) /\ Noticed(n)
  BY DEF KeysNoticed, DueAgain, Managed, Declared, Noticed, EventDue, Alike, DeliverPod, world
<1> QED BY <1>2, <1>3

(* Where no event is due after a step, none was before, and nothing has    *)
(* changed that the controller goes by.                                    *)
LEMMA Quiet ==
    ASSUME TypeOK, TypeOK', NEW n \in Namespaces, Noticed(n), KeysNoticed(n), ~AnyDue(n)'
    PROVE  /\ ~AnyDue(n) /\ ~EventDue(n) /\ ~DueAgain(n)
           /\ api'.ns[n] = api.ns[n] /\ Declared(n)' = Declared(n)
           /\ \A x \in Names :
                 /\ operatorManaged(api'.obj[n][x]) <=> operatorManaged(api.obj[n][x])
                 /\ api'.obj[n][x] = Applied(api'.obj[n][x])
                       <=> api.obj[n][x] = Applied(api.obj[n][x])
<1>1. ~EventDue(n)' /\ ~DueAgain(n)'
  BY DEF AnyDue
<1>2. ~DueAgain(n) /\ Declared(n)' = Declared(n)
  BY <1>1 DEF KeysNoticed
<1> QED BY <1>1, <1>2, QuietNamespace DEF AnyDue, TypeOK

(* A namespace the worker is not at is right after the step as well.       *)
LEMMA OthersStayRight ==
    ASSUME IInv, TypeOK', NEW n \in Namespaces, job = Idle \/ job.ns # n, Noticed(n), KeysNoticed(n),
           ~AnyDue(n)', api'.ns[n].phase = "active"
    PROVE  Right(n)'
<1>1. /\ ~AnyDue(n) /\ api'.ns[n] = api.ns[n] /\ Declared(n)' = Declared(n)
      /\ \A x \in Names :
            /\ operatorManaged(api'.obj[n][x]) <=> operatorManaged(api.obj[n][x])
            /\ api'.obj[n][x] = Applied(api'.obj[n][x])
                  <=> api.obj[n][x] = Applied(api.obj[n][x])
  BY Quiet DEF IInv
<1>2. Right(n)
  BY <1>1 DEF IInv, RestingIsRight
<1> QED BY <1>1, <1>2 DEF Right

(* Whoever is not the worker disturbs nothing unnoticed.                   *)
LEMMA EnvironmentStep ==
    ASSUME IInv, TypeOK', UNCHANGED job, \A n \in Namespaces : Noticed(n) /\ KeysNoticed(n)
    PROVE  KeepIsDeclared' /\ JobIsCurrent' /\ RestingIsRight'
<1>1. RestingIsRight'
  BY OthersStayRight DEF RestingIsRight
<1>2. KeepIsDeclared'
  BY DEF KeepIsDeclared, KeysNoticed, IInv
<1>3. JobIsCurrent'
  <2>1. ASSUME NEW n \in Namespaces, ~AnyDue(n)'
        PROVE  /\ ~AnyDue(n) /\ api'.ns[n] = api.ns[n]
               /\ \A x \in Names :
                     /\ operatorManaged(api'.obj[n][x]) <=> operatorManaged(api.obj[n][x])
                     /\ api'.obj[n][x] = Applied(api'.obj[n][x])
                           <=> api.obj[n][x] = Applied(api.obj[n][x])
    BY <2>1, Quiet DEF IInv
  <2> QED BY <2>1 DEF JobIsCurrent, IInv
<1> QED BY <1>1, <1>2, <1>3

-----------------------------------------------------------------------------
(* The worker.                                                             *)

(* A namespace that is taken from the queue is as the cache has it, or an  *)
(* event is due.                                                           *)
LEMMA BeginStep ==
    ASSUME IInv, TypeOK', NEW n \in Namespaces, Begin(n)
    PROVE  IInv'
<1>1. UNCHANGED <<api, cache, behind, due, pods, podCache, podBehind, podDue>> /\ job = Idle
  BY DEF Begin, world, podVars
<1>2. CacheFollows' /\ PodsFollow'
  BY <1>1 DEF CacheFollows, PodsFollow, IInv
<1>3. ~DueAgain(n)' => cache.ns[n] = api.ns[n]
  BY <1>1 DEF DueAgain, CacheFollows, IInv
<1>4. RestingIsRight'
  <2> SUFFICES ASSUME NEW k \in Namespaces, ~AnyDue(k)', job' = Idle \/ job'.ns # k,
                      api'.ns[k].phase = "active"
               PROVE  Right(k)'
    BY DEF RestingIsRight
  <2>1. CASE k = n
    <3>1. cache.ns[n].phase = "active"
      BY <1>1, <1>3, <2>1 DEF AnyDue
    <3>2. job' # Idle /\ job'.ns = n
      BY <3>1 DEF Begin, skipped, Idle
    <3> QED BY <2>1, <3>2
  <2>2. CASE k # n
    <3>1. Noticed(k)
      BY <1>1, <2>2 DEF Noticed, EventDue, Begin, Alike
    <3>2. KeysNoticed(k)
      BY <1>1, <2>2 DEF KeysNoticed, DueAgain, Managed, Declared, Begin
    <3> QED BY <1>1, <3>1, <3>2, OthersStayRight
  <2> QED BY <2>1, <2>2
<1>5. KeepIsDeclared' /\ JobIsCurrent'
  <2>1. CASE job' = Idle
    BY <2>1 DEF KeepIsDeclared, JobIsCurrent, Idle
  <2>2. CASE job' # Idle
    <3>1. /\ job'.ns = n /\ job'.keep = {} /\ job'.pc \in {"pods", "list"}
          /\ job'.pc = "pods" <=> IsManaged(n, cache.ns[n])
      BY <2>2 DEF Begin
    <3>2. ~DueAgain(n)' => (Managed(n)' <=> IsManaged(n, cache.ns[n]))
      BY <1>1, <1>3 DEF Managed
    <3>3. KeepIsDeclared'
      BY <3>1, <3>2 DEF KeepIsDeclared, Declared
    <3>4. JobIsCurrent'
      BY <3>1 DEF JobIsCurrent
    <3> QED BY <3>3, <3>4
  <2> QED BY <2>1, <2>2
<1> QED BY <1>2, <1>4, <1>5 DEF IInv

(* Steps that only read keep what is known of the namespaces, and what the *)
(* caches lack.                                                            *)
LEMMA ReadStep ==
    ASSUME IInv, TypeOK', UNCHANGED <<world, queue, podVars>>, job # Idle, job' # Idle, job'.ns = job.ns
    PROVE  /\ CacheFollows' /\ PodsFollow' /\ RestingIsRight'
           /\ UNCHANGED <<api, cache, pods, podCache>>
           /\ \A n \in Namespaces :
                 /\ AnyDue(n)' <=> AnyDue(n)
                 /\ DueAgain(n)' <=> DueAgain(n)
                 /\ Managed(n)' <=> Managed(n)
                 /\ Declared(n)' = Declared(n)
<1>1. UNCHANGED <<api, cache, behind, due, pods, podCache, podBehind, podDue>>
  BY DEF world, podVars
<1>2. CacheFollows' /\ PodsFollow'
  BY <1>1 DEF CacheFollows, PodsFollow, IInv
<1>3. \A n \in Namespaces :
         /\ EventDue(n)' <=> EventDue(n)
         /\ DueAgain(n)' <=> DueAgain(n)
         /\ Managed(n)' <=> Managed(n)
         /\ Declared(n)' = Declared(n)
  BY <1>1 DEF EventDue, DueAgain, Managed, Declared
<1>4. \A n \in Namespaces : Noticed(n) /\ KeysNoticed(n)
  BY <1>1, <1>3 DEF Noticed, KeysNoticed, Alike
<1>5. RestingIsRight'
  BY <1>4, OthersStayRight DEF RestingIsRight
<1> QED BY <1>1, <1>2, <1>3, <1>5 DEF AnyDue

(* The pods in the cache declare what the live ones do, or an event is due. *)
LEMMA ListStep == ASSUME IInv, TypeOK', listPods PROVE IInv'
<1>0. TypeOK
  BY DEF IInv
<1>1. job \in Work /\ job # Idle /\ job.ns \in Namespaces
  BY <1>0, AtWork DEF listPods
<1> DEFINE ks == desiredHostPortKeys(podCache, job.ns)
<1>2. /\ job' # Idle /\ job'.ns = job.ns /\ job'.pc = "apply"
      /\ job'.keep = ks /\ job'.todo = ks
  <2> HIDE DEF ks
  <2>1. job' = [job EXCEPT !.pc = "apply", !.keep = ks, !.todo = ks]
    BY DEF listPods, ks
  <2> QED BY <1>1, <2>1 DEF Work, Idle
<1>3. /\ CacheFollows' /\ PodsFollow' /\ RestingIsRight'
      /\ \A n \in Namespaces : (DueAgain(n)' <=> DueAgain(n)) /\ Declared(n)' = Declared(n)
  BY <1>1, <1>2, ReadStep DEF listPods
<1>4. KeepIsDeclared'
  <2> SUFFICES ASSUME NEW n \in Namespaces, job.ns = n, ~DueAgain(n)
               PROVE  ks = Declared(n)
    BY <1>2, <1>3 DEF KeepIsDeclared
  <2>1. Managed(n)
    BY <1>1 DEF listPods, KeepIsDeclared, IInv
  <2>2. \A p \in Pods : PodNS[p] = n => podKeys(podCache[p]) = podKeys(pods[p])
    BY DEF DueAgain, PodsFollow, IInv
  <2>3. ks = desiredHostPortKeys(pods, n)
    BY <2>2, SameKeys
  <2> QED BY <2>1, <2>3 DEF Declared
<1>5. JobIsCurrent'
  <2> HIDE DEF ks
  <2> QED BY <1>2 DEF JobIsCurrent
<1> QED BY <1>3, <1>4, <1>5 DEF IInv

(* A cached policy that needs no write is the live one, or an event is     *)
(* due.                                                                    *)
LEMMA ApplyStep == ASSUME IInv, TypeOK', applyPolicy PROVE IInv'
<1>0. TypeOK
  BY DEF IInv
<1>1. /\ job \in Work /\ job # Idle /\ job.ns \in Namespaces
      /\ job.todo \subseteq Names /\ job.pc = "apply"
  BY <1>0, AtWork DEF applyPolicy
<1>2. PICK k : \/ /\ k \in job.todo
                  /\ policyUpToDate(cache.obj[job.ns][k], buildHostPortPolicy(k))
                  /\ job' = [job EXCEPT !.todo = @ \ {k}]
               \/ /\ k \in job.todo
                  /\ job' = [pc |-> "patch", ns |-> job.ns, key |-> k, keep |-> job.keep,
                             todo |-> job.todo \ {k}, failed |-> job.failed]
               \/ /\ job.todo = {}
                  /\ job' = [job EXCEPT !.pc = "list"]
  BY DEF applyPolicy
<1>3. /\ job' # Idle /\ job'.ns = job.ns /\ job'.keep = job.keep /\ job'.failed = job.failed
      /\ \/ /\ k \in job.todo /\ job'.pc = "apply" /\ job'.todo = job.todo \ {k}
            /\ cache.obj[job.ns][k] = Desired
         \/ /\ k \in job.todo /\ job'.pc = "patch" /\ job'.todo = job.todo \ {k} /\ job'.key = k
         \/ job.todo = {} /\ job'.pc = "list"
  BY <1>1, <1>2 DEF Work, Idle, policyUpToDate, buildHostPortPolicy
<1>4. /\ CacheFollows' /\ PodsFollow' /\ RestingIsRight' /\ UNCHANGED api
      /\ \A n \in Namespaces :
            /\ AnyDue(n)' <=> AnyDue(n)
            /\ DueAgain(n)' <=> DueAgain(n)
            /\ Declared(n)' = Declared(n)
  BY <1>1, <1>3, ReadStep DEF applyPolicy
<1>5. KeepIsDeclared'
  BY <1>1, <1>3, <1>4 DEF KeepIsDeclared, IInv
<1>6. ASSUME NEW n \in Namespaces, job.ns = n, ~AnyDue(n), NEW x \in Names,
             cache.obj[n][x] = Desired
      PROVE  api.obj[n][x] = Applied(api.obj[n][x])
  <2>1. Alike(Desired, api.obj[n][x])
    BY <1>6 DEF AnyDue, EventDue, CacheFollows, IInv
  <2>2. api.obj[n][x] = Desired
    BY <2>1 DEF Alike, operatorManaged, Desired
  <2>3. Applied(Desired) = Desired
    BY DEF Applied, Desired
  <2> QED BY <2>2, <2>3
<1>7. JobIsCurrent'
  <2> SUFFICES ASSUME NEW n \in Namespaces, job.ns = n, ~AnyDue(n), api.ns[n].phase = "active",
                      NEW x \in Names, x \in job.keep
               PROVE  \/ job.failed \/ api.obj[n][x] = Applied(api.obj[n][x])
                      \/ job'.pc \in {"apply", "patch"} /\ x \in job'.todo
                      \/ job'.pc = "patch" /\ x = job'.key
    BY <1>3, <1>4 DEF JobIsCurrent
  <2>1. job.failed \/ api.obj[n][x] = Applied(api.obj[n][x]) \/ x \in job.todo
    BY <1>1 DEF JobIsCurrent, IInv
  <2> QED BY <1>3, <1>6, <2>1
<1> QED BY <1>4, <1>5, <1>7 DEF IInv

(* A policy is in place once it is applied; a failed apply is remembered.  *)
LEMMA PatchStep ==
    ASSUME IInv, TypeOK', job.pc = "patch", UNCHANGED <<cache, queue, podVars>>,
           \/ /\ Put(job.ns, job.key, Applied(api.obj[job.ns][job.key]))
              /\ job' = Applying(job.failed)
           \/ UNCHANGED <<api, behind, due>> /\ job' = Applying(TRUE)
    PROVE  IInv'
<1>0. TypeOK
  BY DEF IInv
<1>1. job # Idle /\ job.ns \in Namespaces /\ job.key \in Names /\ job.failed \in BOOLEAN
  BY <1>0, AtWork
<1>2. /\ job' # Idle /\ job'.ns = job.ns /\ job'.pc = "apply" /\ job'.keep = job.keep
      /\ job'.todo = job.todo /\ (job.failed => job'.failed)
  BY <1>0, <1>1, ApplyingType
<1>3. PodsFollow'
  BY DEF PodsFollow, podVars, IInv
<1> DEFINE o == api.obj[job.ns][job.key]
<1>4. o \in Objs /\ Applied(o) \in Objs
  BY <1>0, <1>1, ObjectTypes DEF TypeOK, WorldOK, Clusters
<1>5. CacheFollows' /\ \A n \in Namespaces : Noticed(n) /\ KeysNoticed(n)
  <2>1. CASE Put(job.ns, job.key, Applied(o))
    <3>1. Applied(o).labelled
      BY <1>4, AppliedIsManaged DEF operatorManaged
    <3> HIDE DEF o
    <3>2. \A n \in Namespaces : NamespaceNoticed(n)
      BY <1>0, <1>1, <1>4, <2>1, NamespacesNoticed DEF TypeOK
    <3> QED BY <1>0, <1>1, <1>4, <2>1, <3>1, <3>2, PutNoticed, NamespaceKeys DEF IInv, TypeOK
  <2>2. CASE UNCHANGED <<api, behind, due>>
    <3>1. \A n \in Namespaces : NamespaceNoticed(n) /\ Noticed(n)
      BY <2>2 DEF NamespaceNoticed, Noticed, EventDue, Alike
    <3> QED BY <2>2, <3>1, NamespaceKeys DEF CacheFollows, IInv
  <2> QED BY <2>1, <2>2
<1>6. RestingIsRight'
  BY <1>1, <1>2, <1>5, OthersStayRight DEF RestingIsRight
<1>7. KeepIsDeclared'
  BY <1>1, <1>2, <1>5 DEF KeepIsDeclared, KeysNoticed, IInv
<1>8. JobIsCurrent'
  <2> SUFFICES ASSUME NEW n \in Namespaces, job.ns = n, ~AnyDue(n)', api'.ns[n].phase = "active",
                      NEW k \in Names, k \in job.keep, ~job'.failed
               PROVE  api'.obj[n][k] = Applied(api'.obj[n][k]) \/ k \in job.todo
    BY <1>2 DEF JobIsCurrent
  <2>1. /\ ~AnyDue(n) /\ api'.ns[n] = api.ns[n]
        /\ api'.obj[n][k] = Applied(api'.obj[n][k]) <=> api.obj[n][k] = Applied(api.obj[n][k])
    BY <1>0, <1>5, Quiet
  <2>2. api.obj[n][k] = Applied(api.obj[n][k]) \/ k \in job.todo \/ k = job.key
    BY <1>1, <1>2, <2>1 DEF JobIsCurrent, IInv
  <2>3. CASE k = job.key
    <3>1. Put(n, k, Applied(o))
      BY <1>0, <2>3, ApplyingType
    <3>2. api'.obj[n][k] = Applied(o)
      BY <1>0, <3>1 DEF Put, TypeOK, WorldOK, Clusters
    <3> QED BY <1>4, <3>2, AppliedIsManaged
  <2> QED BY <2>1, <2>2, <2>3
<1> QED BY <1>3, <1>5, <1>6, <1>7, <1>8 DEF IInv

(* The cache lists every policy that is there to be swept, or an event is  *)
(* due.                                                                    *)
LEMMA SweepStep == ASSUME IInv, TypeOK', sweepStalePolicies PROVE IInv'
<1>0. TypeOK
  BY DEF IInv
<1>1. job \in Work /\ job # Idle /\ job.ns \in Namespaces /\ job.pc = "list"
  BY <1>0, AtWork DEF sweepStalePolicies
<1>2. /\ job' # Idle /\ job'.ns = job.ns /\ job'.pc = "delete" /\ job'.keep = job.keep
      /\ job'.failed = job.failed /\ job'.todo = Stale(job.ns, job.keep)
  BY <1>1 DEF sweepStalePolicies, Work, Idle
<1>3. /\ CacheFollows' /\ PodsFollow' /\ RestingIsRight' /\ UNCHANGED api
      /\ \A n \in Namespaces :
            /\ AnyDue(n)' <=> AnyDue(n)
            /\ DueAgain(n)' <=> DueAgain(n)
            /\ Declared(n)' = Declared(n)
  BY <1>1, <1>2, ReadStep DEF sweepStalePolicies
<1>4. KeepIsDeclared'
  <2>1. job'.todo \cap job'.keep = {}
    BY <1>2 DEF Stale
  <2> QED BY <1>1, <1>2, <1>3, <2>1 DEF KeepIsDeclared, IInv
<1>5. JobIsCurrent'
  <2>1. ASSUME NEW n \in Namespaces, job.ns = n, ~AnyDue(n)
        PROVE  \A x \in Names \ job.keep : x \in job'.todo \/ ~operatorManaged(api.obj[n][x])
    <3>1. \A x \in Names : operatorManaged(cache.obj[n][x]) <=> operatorManaged(api.obj[n][x])
      BY <2>1 DEF AnyDue, EventDue, CacheFollows, Alike, IInv
    <3> QED BY <1>2, <2>1, <3>1 DEF Stale
  <2> QED BY <1>1, <1>2, <1>3, <2>1 DEF JobIsCurrent, IInv
<1> QED BY <1>3, <1>4, <1>5 DEF IInv

(* An error brings the namespace back.                                     *)
LEMMA FailStep ==
    ASSUME IInv, TypeOK', job # Idle, Fail, UNCHANGED <<api, cache, behind, due, podVars>>
    PROVE  IInv'
<1>1. CacheFollows' /\ PodsFollow'
  BY DEF CacheFollows, PodsFollow, podVars, IInv
<1>2. JobIsCurrent' /\ KeepIsDeclared'
  BY DEF JobIsCurrent, KeepIsDeclared, Fail, Idle
<1>3. RestingIsRight'
  <2> SUFFICES ASSUME NEW n \in Namespaces, ~AnyDue(n)', api'.ns[n].phase = "active"
               PROVE  Right(n)'
    BY DEF RestingIsRight
  <2>1. job.ns # n
    BY DEF Fail, AnyDue, EventDue
  <2>2. Noticed(n) /\ KeysNoticed(n)
    BY <2>1 DEF Noticed, EventDue, KeysNoticed, DueAgain, Declared, Managed, Fail, Alike, podVars
  <2> QED BY <2>1, <2>2, OthersStayRight
<1> QED BY <1>1, <1>2, <1>3 DEF IInv

(* What is left to delete shrinks, and the namespace is right when nothing *)
(* is left and nothing has failed.                                         *)
LEMMA DeleteStep == ASSUME IInv, TypeOK', DeleteStale PROVE IInv'
<1>0. TypeOK
  BY DEF IInv
<1>1. /\ job \in Work /\ job # Idle /\ job.ns \in Namespaces
      /\ job.todo \subseteq Names /\ job.keep \subseteq Names /\ job.pc = "delete"
  BY <1>0, AtWork DEF DeleteStale
<1>2. ASSUME NEW x \in job.todo, Put(job.ns, x, None), job' = [job EXCEPT !.todo = @ \ {x}],
             UNCHANGED <<cache, queue, podVars>>
      PROVE  IInv'
  <2>1. /\ job' # Idle /\ job'.ns = job.ns /\ job'.pc = "delete" /\ job'.keep = job.keep
        /\ job'.todo = job.todo \ {x} /\ job'.failed = job.failed
    BY <1>1, <1>2 DEF Work, Idle
  <2>2. CacheFollows' /\ PodsFollow' /\ \A n \in Namespaces : Noticed(n) /\ KeysNoticed(n)
    <3>1. ~None.present
      BY DEF None
    <3>2. CacheFollows' /\ \A n \in Namespaces : Noticed(n)
      BY <1>0, <1>1, <1>2, <3>1, ObjectTypes, PutNoticed DEF IInv, TypeOK
    <3>3. \A n \in Namespaces : NamespaceNoticed(n)
      BY <1>0, <1>1, <1>2, ObjectTypes, NamespacesNoticed DEF TypeOK
    <3>4. PodsFollow'
      BY <1>2 DEF PodsFollow, podVars, IInv
    <3> QED BY <1>2, <3>2, <3>3, <3>4, NamespaceKeys
  <2>3. RestingIsRight'
    BY <1>1, <2>1, <2>2, OthersStayRight DEF RestingIsRight
  <2>4. KeepIsDeclared'
    <3>1. job'.todo \cap job'.keep = {}
      BY <1>1, <2>1 DEF KeepIsDeclared, IInv
    <3> QED BY <1>1, <2>1, <2>2, <3>1 DEF KeepIsDeclared, KeysNoticed, IInv
  <2>5. ASSUME NEW n \in Namespaces, job.ns = n, ~AnyDue(n)', api'.ns[n].phase = "active", NEW k \in Names
        PROVE  /\ k \in job.keep => job.failed \/ api'.obj[n][k] = Applied(api'.obj[n][k])
               /\ k \notin job.keep => k \in job'.todo \/ ~operatorManaged(api'.obj[n][k])
    <3>1. /\ ~AnyDue(n) /\ api'.ns[n] = api.ns[n]
          /\ operatorManaged(api'.obj[n][k]) <=> operatorManaged(api.obj[n][k])
          /\ api'.obj[n][k] = Applied(api'.obj[n][k]) <=> api.obj[n][k] = Applied(api.obj[n][k])
      BY <1>0, <2>2, <2>5, Quiet
    <3>2. ~operatorManaged(api'.obj[n][x])
      <4>1. api'.obj[n][x] = None
        BY <1>0, <1>1, <1>2, <2>5 DEF Put, TypeOK, WorldOK, Clusters
      <4> QED BY <4>1 DEF None, operatorManaged
    <3>3. /\ k \in job.keep => job.failed \/ api.obj[n][k] = Applied(api.obj[n][k])
          /\ k \notin job.keep => k \in job.todo \/ ~operatorManaged(api.obj[n][k])
      BY <1>1, <2>5, <3>1 DEF JobIsCurrent, IInv
    <3> QED BY <2>1, <3>1, <3>2, <3>3
  <2>6. JobIsCurrent'
    BY <2>1, <2>5 DEF JobIsCurrent
  <2> QED BY <2>2, <2>3, <2>4, <2>6 DEF IInv
<1>3. CASE job.todo = {} /\ ~job.failed /\ Done /\ UNCHANGED <<api, behind, due, cache, podVars>>
  <2>1. UNCHANGED queue /\ job' = Idle
    BY <1>3 DEF Done
  <2>2. CacheFollows' /\ PodsFollow'
    BY <1>3 DEF CacheFollows, PodsFollow, podVars, IInv
  <2>3. JobIsCurrent' /\ KeepIsDeclared'
    BY <2>1 DEF JobIsCurrent, KeepIsDeclared, Idle
  <2>4. \A n \in Namespaces : Noticed(n) /\ KeysNoticed(n)
    BY <1>3, <2>1 DEF Noticed, EventDue, KeysNoticed, DueAgain, Declared, Managed, Alike, podVars
  <2>5. ASSUME NEW n \in Namespaces, ~AnyDue(n)', api'.ns[n].phase = "active" PROVE Right(n)'
    <3>1. CASE job.ns # n
      BY <2>4, <2>5, <3>1, OthersStayRight
    <3>2. CASE job.ns = n
      <4>1. ~AnyDue(n) /\ ~DueAgain(n) /\ Declared(n)' = Declared(n)
        BY <1>0, <2>4, <2>5, Quiet
      <4>2. job.keep = Declared(n)
        BY <1>1, <3>2, <4>1 DEF KeepIsDeclared, IInv
      <4>3. \A k \in Names : IF k \in job.keep THEN api.obj[n][k] = Applied(api.obj[n][k])
                                               ELSE ~operatorManaged(api.obj[n][k])
        BY <1>1, <1>3, <2>5, <3>2, <4>1 DEF JobIsCurrent, IInv
      <4> QED BY <1>3, <4>1, <4>2, <4>3 DEF Right
    <3> QED BY <3>1, <3>2
  <2>6. RestingIsRight'
    BY <2>5 DEF RestingIsRight
  <2> QED BY <2>2, <2>3, <2>6 DEF IInv
<1>4. CASE Fail /\ UNCHANGED <<api, behind, due, cache, podVars>>
  BY <1>1, <1>4, FailStep
<1> QED BY <1>2, <1>3, <1>4 DEF DeleteStale

-----------------------------------------------------------------------------
(* The invariant and what follows from it.                                 *)

(* Every step keeps the invariant.                                         *)
LEMMA InvariantStep == ASSUME IInv, [Next]_vars PROVE IInv'
<1>1. TypeOK /\ TypeOK'
  BY TypeStep DEF IInv
<1>2. ASSUME CacheFollows', PodsFollow', UNCHANGED job, \A n \in Namespaces : Noticed(n) /\ KeysNoticed(n)
      PROVE  IInv'
  BY <1>1, <1>2, EnvironmentStep DEF IInv
<1>3. CASE (Others \/ Deliver) /\ UNCHANGED podVars
  <2>1. CacheFollows' /\ UNCHANGED job /\ \A n \in Namespaces : Noticed(n)
    BY <1>1, <1>3, OthersType, DeliverType, OthersNoticed, DeliverNoticed DEF IInv, TypeOK
  <2>2. \A n \in Namespaces : KeysNoticed(n)
    BY <1>1, <1>3, NamespacesNoticed, NamespaceKeys DEF TypeOK
  <2>3. PodsFollow'
    BY <1>3 DEF PodsFollow, podVars, IInv
  <2> QED BY <1>2, <2>1, <2>2, <2>3
<1>4. ASSUME NEW p \in Pods, CreatePod(p) \/ DeletePod(p) \/ EvictPod(p) PROVE IInv'
  <2>1. PICK o \in {NoPod} \cup PodSpecs : PutPod(p, o) /\ (o = NoPod \/ pods[p] = NoPod)
    BY <1>4 DEF CreatePod, DeletePod, EvictPod
  <2>2. UNCHANGED <<cache, queue, job>>
    BY <1>4 DEF CreatePod, DeletePod, EvictPod, UserEdit
  <2>3. PodsFollow' /\ \A n \in Namespaces : KeysNoticed(n) /\ Noticed(n)
    BY <1>1, <2>1, <2>2, PutPodKeys DEF IInv
  <2>4. CacheFollows'
    BY <2>1, <2>2 DEF PutPod, CacheFollows, IInv
  <2> QED BY <1>2, <2>2, <2>3, <2>4
<1>5. ASSUME NEW p \in Pods, DeliverPod(p) PROVE IInv'
  <2>1. PodsFollow' /\ \A n \in Namespaces : KeysNoticed(n) /\ Noticed(n)
    BY <1>1, <1>5, DeliverPodKeys DEF IInv
  <2>2. CacheFollows' /\ UNCHANGED job
    BY <1>5 DEF DeliverPod, world, CacheFollows, IInv
  <2> QED BY <1>2, <2>1, <2>2
<1>6. CASE Patch \/ ApplyFails
  BY <1>1, <1>6, PatchStep DEF Patch, ApplyFails, Fault
<1>7. CASE DeleteFails
  <2>1. job # Idle
    BY <1>7 DEF DeleteFails, Idle
  <2> QED BY <1>1, <1>7, <2>1, FailStep DEF DeleteFails, Fault
<1>8. CASE Restart
  <2>1. /\ job' = Idle /\ cache' = api' /\ behind' = {} /\ due' = {} /\ queue' = StartQueue(api')
        /\ podCache' = pods'
    BY <1>8 DEF Restart, Crash, Fault
  <2>2. /\ CacheFollows' /\ PodsFollow'
        /\ \A n \in Namespaces : api'.ns[n].phase = "active" => EventDue(n)'
    BY <2>1 DEF CacheFollows, PodsFollow, Alike, StartQueue, EventDue
  <2> QED BY <1>1, <2>1, <2>2 DEF IInv, KeepIsDeclared, JobIsCurrent, RestingIsRight, AnyDue, Idle
<1>9. CASE UNCHANGED vars
  <2>1. \A n \in Namespaces : Noticed(n) /\ KeysNoticed(n)
    BY <1>9 DEF vars, world, podVars, Noticed, EventDue, KeysNoticed, DueAgain, Declared, Managed, Alike
  <2>2. CacheFollows' /\ PodsFollow'
    BY <1>9 DEF vars, world, podVars, CacheFollows, PodsFollow, IInv
  <2> QED BY <1>2, <1>9, <2>1, <2>2 DEF vars
<1>10. CASE Reconcile
  BY <1>1, <1>6, <1>10, BeginStep, ListStep, ApplyStep, SweepStep, DeleteStep DEF Reconcile
<1> QED BY <1>3, <1>4, <1>5, <1>6, <1>7, <1>8, <1>9, <1>10 DEF Next, OthersOfNamespaces, Watches

(* The hostPort controller's invariant: its caches lack nothing that no    *)
(* event is on its way for, what the worker keeps is what the pods declare *)
(* unless it will come back, what it has done is so unless an event is due *)
(* or an apply has failed, and a namespace at rest is right.               *)
THEOREM InductiveInvariant == Spec => []IInv
<1>1. Init => IInv
  <2> SUFFICES ASSUME Init PROVE IInv
    OBVIOUS
  <2>1. CacheFollows /\ \A n \in Namespaces : api.ns[n].phase = "active" => EventDue(n)
    BY StartFollows DEF Init, Start
  <2>2. job = Idle /\ PodsFollow
    BY DEF Init, Start, PodsFollow
  <2> QED BY <2>1, <2>2, InitType DEF IInv, KeepIsDeclared, JobIsCurrent, RestingIsRight, AnyDue, Idle
<1>2. IInv /\ [Next]_vars => IInv'
  BY InvariantStep
<1> QED BY <1>1, <1>2, PTL DEF Spec

(* In a live namespace a policy goes by an edit or by the sweep.           *)
LEMMA WhoDeletes ==
    ASSUME TypeOK, [Next]_vars, NEW n \in Namespaces, NEW k \in Names,
           api.obj[n][k].present, ~api'.obj[n][k].present, api.ns[n].phase = "active", edits' = edits
    PROVE  job.pc = "delete" /\ job.ns = n /\ k \in job.todo
<1>1. api' # api
  OBVIOUS
<1>2. ASSUME Others PROVE FALSE
  <2>1. PICK m \in Namespaces :
           \/ AnnotateNamespace(m) \/ DeleteNamespace(m) \/ CreateNamespace(m)
           \/ \E x \in Names : EditObject(m, x) \/ CreateObject(m, x)
           \/ EmptyNamespace(m)
    BY <1>2 DEF Others
  <2>2. ~UserEdit
    BY NamespacedAssumption DEF UserEdit, TypeOK, WorldOK
  <2>3. EmptyNamespace(m)
    BY <2>1, <2>2 DEF AnnotateNamespace, DeleteNamespace, CreateNamespace, EditObject, CreateObject
  <2>4. CASE \E x \in Names : Put(m, x, None)
    <3>1. m # n
      BY <2>3 DEF EmptyNamespace
    <3> QED BY <2>4, <3>1 DEF Put, TypeOK, WorldOK, Clusters
  <2>5. CASE \E o : PutNamespace(m, o)
    BY <2>5 DEF PutNamespace, TypeOK, WorldOK, Clusters
  <2> QED BY <2>3, <2>4, <2>5 DEF EmptyNamespace
<1>3. ASSUME Patch PROVE FALSE
  <2>1. job.ns \in Namespaces /\ job.key \in Names
    BY <1>3, AtWork DEF Patch
  <2>2. Put(job.ns, job.key, Applied(api.obj[job.ns][job.key]))
    BY <1>1, <1>3 DEF Patch
  <2>3. api.obj[job.ns][job.key] \in Objs
    BY <2>1 DEF TypeOK, WorldOK, Clusters
  <2>4. Applied(api.obj[job.ns][job.key]).present
    BY <2>3, AppliedIsManaged DEF operatorManaged
  <2> QED BY <2>1, <2>2, <2>4 DEF Put, TypeOK, WorldOK, Clusters
<1>4. ASSUME DeleteStale PROVE job.pc = "delete" /\ job.ns = n /\ k \in job.todo
  <2>1. job.pc = "delete" /\ job.ns \in Namespaces /\ job.todo \subseteq Names
    BY <1>4, AtWork DEF DeleteStale
  <2>2. PICK x \in job.todo : Put(job.ns, x, None)
    BY <1>1, <1>4 DEF DeleteStale
  <2>3. job.ns = n /\ x = k
    BY <2>1, <2>2 DEF Put, TypeOK, WorldOK, Clusters
  <2> QED BY <2>1, <2>3
<1>5. ASSUME \/ \E p \in Pods : CreatePod(p) \/ DeletePod(p) \/ EvictPod(p) \/ DeliverPod(p)
             \/ Deliver
             \/ \E m \in Namespaces : Begin(m)
             \/ listPods \/ applyPolicy \/ sweepStalePolicies
             \/ ApplyFails \/ DeleteFails \/ Restart \/ UNCHANGED vars
      PROVE  FALSE
  BY <1>1, <1>5 DEF CreatePod, DeletePod, EvictPod, PutPod, DeliverPod, Deliver, DeliverNamespace,
                    DeliverObject, Begin, listPods, applyPolicy, sweepStalePolicies,
                    ApplyFails, DeleteFails, Restart, Crash, Fault, vars, world
<1> QED BY <1>2, <1>3, <1>4, <1>5 DEF Next, OthersOfNamespaces, Watches, Reconcile

(* In a live namespace the operator deletes the policy of a hostPort only  *)
(* when no pod declares the port, or when another reconcile is certain.    *)
THEOREM DeclaredPortsAreKept == Spec => DeclaredPortsStayOpen
<1> DEFINE Stay ==
      \A n \in Namespaces, k \in Names :
          /\ api.obj[n][k].present /\ ~api'.obj[n][k].present
          /\ api.ns[n].phase = "active" /\ edits' = edits
          => k \notin Declared(n) \/ DueAgain(n)
<1>1. IInv /\ [Next]_vars => Stay
  <2> SUFFICES ASSUME IInv, [Next]_vars, NEW n \in Namespaces, NEW k \in Names,
                      api.obj[n][k].present, ~api'.obj[n][k].present,
                      api.ns[n].phase = "active", edits' = edits, ~DueAgain(n)
               PROVE  k \notin Declared(n)
    OBVIOUS
  <2>1. job.pc = "delete" /\ job.ns = n /\ k \in job.todo
    BY WhoDeletes DEF IInv
  <2>2. job # Idle
    BY <2>1 DEF Idle
  <2> QED BY <2>1, <2>2 DEF KeepIsDeclared, IInv
<1> HIDE DEF Stay
<1>2. Spec => [][Stay]_vars
  BY <1>1, InductiveInvariant, PTL DEF Spec
<1> QED BY <1>2 DEF DeclaredPortsStayOpen, Stay

(* The hostPort controller implements LevelTriggered's safety: however     *)
(* namespaces, pods and policies change, applies and deletes fail and the  *)
(* operator restarts, it lets go of a namespace only with a policy for     *)
(* every declared hostPort and for no other, and nothing takes a namespace *)
(* at rest away from that unnoticed.                                       *)
THEOREM LevelTriggeredCorrect == Spec => IsLevelTriggered
<1> DEFINE AtRest == \A n \in Namespaces : ~Attended(n) => (api.ns[n].phase = "active" => Right(n))
<1>1. IInv => AtRest
  <2> SUFFICES ASSUME IInv PROVE AtRest
    OBVIOUS
  <2>1. \A n \in Namespaces : ~Attended(n) => ~AnyDue(n) /\ (job = Idle \/ job.ns # n)
    BY DEF Attended, Pending, AnyDue, EventDue, DueAgain, IInv, TypeOK, WorldOK
  <2> QED BY <2>1 DEF IInv, RestingIsRight
<1>2. AtRest => Level!Init
  BY DEF Level!Init
<1>3. AtRest /\ AtRest' => Level!Next
  BY DEF Level!Next, Level!Disturbed, Level!Attended, Level!Released, Level!Resting
<1> HIDE DEF AtRest
<1> QED BY <1>1, <1>2, <1>3, InductiveInvariant, PTL DEF IsLevelTriggered, Level!Safety

=============================================================================
