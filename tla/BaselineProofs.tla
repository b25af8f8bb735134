----------------------------- MODULE BaselineProofs -----------------------------
(***************************************************************************)
(* Proofs about Baseline, for any namespaces, clusters, edits and bounds.  *)
(***************************************************************************)
EXTENDS Baseline, NamespacedProofs

(* What the worker has found out about its namespace, and done there, is   *)
(* still so, unless an event is due that brings it back.                   *)
JobIsCurrent ==
    /\ job.pc = "delete" => job.todo \cap job.keep = {}
    /\ \A n \in Namespaces :
          job # Idle /\ job.ns = n /\ ~EventDue(n) /\ api.ns[n].phase = "active" =>
             /\ job.pc \in {"read", "patch"} => Managed(n)
             /\ job.pc \in {"list", "delete"} =>
                   /\ job.keep = IF Managed(n) THEN {"base"} ELSE {}
                   /\ Managed(n) => api.obj[n]["base"] = Applied(api.obj[n]["base"])
             /\ job.pc = "delete" =>
                   \A x \in Names \ job.keep : x \in job.todo \/ ~operatorManaged(api.obj[n][x])

(* A live namespace that no event is due for, and that is not being        *)
(* reconciled, is right.                                                   *)
RestingIsRight ==
    \A n \in Namespaces :
        ~EventDue(n) /\ (job = Idle \/ job.ns # n) /\ api.ns[n].phase = "active" => Right(n)

(* The inductive invariant.                                                *)
IInv == TypeOK /\ CacheFollows /\ JobIsCurrent /\ RestingIsRight

-----------------------------------------------------------------------------
(* Types.                                                                  *)

(* At every step but the first the worker is at work.                      *)
LEMMA AtWork ==
    ASSUME TypeOK, applyPolicy \/ Patch \/ sweepStalePolicies \/ DeleteStale \/ CallFails
    PROVE  /\ job \in Work /\ job # Idle
           /\ job.ns \in Namespaces /\ job.keep \subseteq Names /\ job.todo \subseteq Names
<1>1. job.pc # "idle"
  BY DEF applyPolicy, Patch, sweepStalePolicies, DeleteStale, CallFails
<1>2. job \in Work /\ job # Idle
  BY <1>1 DEF TypeOK, Jobs, Idle
<1> QED BY <1>2 DEF Work

(* The worker's steps keep the types.                                      *)
LEMMA ReconcileType == ASSUME TypeOK, Reconcile PROVE TypeOK'
<1> USE PoliciesAssumption
<1>1. ASSUME NEW n \in Namespaces, Begin(n) PROVE TypeOK'
  BY <1>1 DEF Begin, TypeOK, WorldOK, world, Jobs, Work
<1>2. ASSUME job \in Work, SweepOthers PROVE job' \in Jobs
  <2>1. [job EXCEPT !.pc = "list", !.keep = {"base"}] \in Work
    BY <1>2 DEF Work
  <2> QED BY <1>2, <2>1 DEF SweepOthers, Jobs
<1>3. CASE applyPolicy
  <2>1. [job EXCEPT !.pc = "patch"] \in Work
    BY <1>3, AtWork DEF Work
  <2>2. job' \in Jobs
    BY <1>2, <1>3, <2>1, AtWork DEF applyPolicy, Jobs
  <2> QED BY <1>3, <2>2 DEF applyPolicy, TypeOK, WorldOK, world
<1>4. CASE Patch
  <2>1. job' \in Jobs /\ queue' \subseteq Namespaces
    BY <1>2, <1>4, AtWork DEF Patch, Fail, TypeOK, WorldOK, Jobs
  <2>2. Applied(api.obj[job.ns]["base"]) \in Objs
    BY <1>4, AtWork, ObjectTypes DEF TypeOK, WorldOK, Clusters
  <2>3. /\ api' \in Clusters
        /\ behind' \subseteq Namespaces \X (Names \cup {"ns"})
        /\ due' \subseteq behind' \cap (Namespaces \X Names)
    BY <1>4, <2>2, AtWork, PutType DEF Patch, TypeOK, WorldOK
  <2> QED BY <1>4, <2>1, <2>3 DEF Patch, TypeOK, WorldOK
<1>5. CASE sweepStalePolicies
  <2>1. Stale(job.ns, job.keep) \subseteq Names
    BY DEF Stale
  <2>2. [job EXCEPT !.pc = "delete", !.todo = Stale(job.ns, job.keep)] \in Work
    BY <1>5, <2>1, AtWork DEF Work
  <2> QED BY <1>5, <2>2 DEF sweepStalePolicies, TypeOK, WorldOK, world, Jobs
<1>6. CASE DeleteStale
  <2>1. \A x \in job.todo : [job EXCEPT !.todo = @ \ {x}] \in Work
    BY <1>6, AtWork DEF Work
  <2>2. job' \in Jobs /\ queue' = queue
    BY <1>6, <2>1 DEF DeleteStale, Done, Jobs
  <2>3. /\ api' \in Clusters
        /\ behind' \subseteq Namespaces \X (Names \cup {"ns"})
        /\ due' \subseteq behind' \cap (Namespaces \X Names)
    BY <1>6, AtWork, PutType, ObjectTypes DEF DeleteStale, TypeOK, WorldOK
  <2> QED BY <1>6, <2>2, <2>3 DEF DeleteStale, TypeOK, WorldOK
<1> QED BY <1>1, <1>3, <1>4, <1>5, <1>6 DEF Reconcile

(* Failures and restarts keep the types.                                   *)
LEMMA FaultType == ASSUME TypeOK, CallFails \/ Restart PROVE TypeOK'
<1> USE NamespacedAssumption
<1>1. CASE CallFails
  BY <1>1, AtWork DEF CallFails, Fault, Fail, TypeOK, WorldOK, Jobs
<1>2. CASE Restart
  BY <1>2 DEF Restart, Crash, Fault, StartQueue, TypeOK, WorldOK, Jobs
<1> QED BY <1>1, <1>2

(* Every step keeps the types.                                             *)
LEMMA TypeStep == ASSUME TypeOK, [Next]_vars PROVE TypeOK'
<1>1. CASE Others
  BY <1>1, OthersType DEF TypeOK
<1>2. CASE Deliver
  BY <1>2, DeliverType DEF TypeOK
<1>3. CASE UNCHANGED vars
  BY <1>3 DEF vars, world, TypeOK, WorldOK
<1> QED BY <1>1, <1>2, <1>3, ReconcileType, FaultType DEF Next

(* A starting operator's state has its types.                              *)
LEMMA InitType == ASSUME Init PROVE TypeOK
BY NamespacedAssumption DEF Init, Start, StartQueue, TypeOK, WorldOK, Jobs

(* Every variable of the namespace controller keeps its type.              *)
THEOREM TypeCorrect == Spec => []TypeOK
<1>1. Init => TypeOK
  BY InitType
<1>2. TypeOK /\ [Next]_vars => TypeOK'
  BY TypeStep
<1> QED BY <1>1, <1>2, PTL DEF Spec

-----------------------------------------------------------------------------
(* The invariant.                                                          *)

(* A namespace that no event is due for after the step stays right.        *)
LEMMA RightStays ==
    ASSUME TypeOK, TypeOK', NEW n \in Namespaces, Noticed(n), ~EventDue(n)'
    PROVE  Right(n)' <=> Right(n)
<1>1. "base" \in Names /\ "legacy" \in Names
  BY PoliciesAssumption
<1> QED BY <1>1, QuietNamespace DEF Right, TypeOK

(* A namespace the worker is not at is right after the step as well.       *)
LEMMA OthersStayRight ==
    ASSUME IInv, TypeOK', NEW n \in Namespaces, job = Idle \/ job.ns # n, Noticed(n),
           ~EventDue(n)', api'.ns[n].phase = "active"
    PROVE  Right(n)'
<1>1. ~EventDue(n) /\ api'.ns[n] = api.ns[n]
  BY QuietNamespace DEF IInv, TypeOK
<1> QED BY <1>1, RightStays DEF IInv, RestingIsRight

(* Whoever is not the worker disturbs nothing unnoticed.                   *)
LEMMA EnvironmentStep ==
    ASSUME IInv, TypeOK', CacheFollows', UNCHANGED job, \A n \in Namespaces : Noticed(n)
    PROVE  IInv'
<1>1. RestingIsRight'
  BY OthersStayRight DEF RestingIsRight
<1>2. JobIsCurrent'
  <2> SUFFICES ASSUME NEW n \in Namespaces, ~EventDue(n)'
               PROVE  /\ ~EventDue(n) /\ api'.ns[n] = api.ns[n] /\ (Managed(n)' <=> Managed(n))
                      /\ \A x \in Names :
                            /\ operatorManaged(api'.obj[n][x]) <=> operatorManaged(api.obj[n][x])
                            /\ api'.obj[n][x] = Applied(api'.obj[n][x])
                                  <=> api.obj[n][x] = Applied(api.obj[n][x])
    <3>1. "base" \in Names
      BY PoliciesAssumption
    <3> QED BY <3>1 DEF JobIsCurrent, IInv
  <2> QED BY QuietNamespace DEF IInv, TypeOK
<1> QED BY <1>1, <1>2 DEF IInv

(* A namespace that is taken from the queue is as the cache has it, or an  *)
(* event is due.                                                           *)
LEMMA BeginStep == ASSUME IInv, TypeOK', NEW n \in Namespaces, Begin(n) PROVE IInv'
<1>1. UNCHANGED <<api, cache, behind, due>>
  BY DEF Begin, world
<1>2. CacheFollows'
  BY <1>1 DEF CacheFollows, IInv
<1>3. ~EventDue(n)' => cache.ns[n] = api.ns[n]
  BY <1>1 DEF EventDue, CacheFollows, IInv
<1>4. RestingIsRight'
  <2> SUFFICES ASSUME NEW k \in Namespaces, ~EventDue(k)', job' = Idle \/ job'.ns # k,
                      api'.ns[k].phase = "active"
               PROVE  Right(k)'
    BY DEF RestingIsRight
  <2>1. CASE k = n
    <3>1. cache.ns[n].phase = "active"
      BY <1>1, <1>3, <2>1
    <3>2. job' # Idle /\ job'.ns = n
      BY <3>1 DEF Begin, Idle
    <3> QED BY <2>1, <3>2
  <2>2. CASE k # n
    <3>1. Noticed(k)
      BY <1>1, <2>2 DEF Noticed, EventDue, Begin, Alike
    <3> QED BY <3>1, OthersStayRight DEF Begin
  <2> QED BY <2>1, <2>2
<1>5. JobIsCurrent'
  <2>1. CASE job' = Idle
    BY <2>1 DEF JobIsCurrent, Idle
  <2>2. CASE job' # Idle
    <3>1. /\ job'.ns = n /\ job'.keep = {}
          /\ job'.pc = IF IsManaged(n, cache.ns[n]) THEN "read" ELSE "list"
      BY <2>2 DEF Begin
    <3>2. ~EventDue(n)' => (Managed(n)' <=> IsManaged(n, cache.ns[n]))
      BY <1>1, <1>3 DEF Managed
    <3> QED BY <3>1, <3>2 DEF JobIsCurrent
  <2> QED BY <2>1, <2>2
<1> QED BY <1>2, <1>4, <1>5 DEF IInv

(* Steps that only read keep what is known of the other namespaces, and    *)
(* what the cache lacks.                                                   *)
LEMMA ReadStep ==
    ASSUME IInv, TypeOK', UNCHANGED <<world, queue>>, job # Idle, job' # Idle, job'.ns = job.ns
    PROVE  /\ CacheFollows' /\ RestingIsRight' /\ UNCHANGED <<api, cache, behind, due, queue>>
           /\ \A n \in Namespaces : EventDue(n)' <=> EventDue(n)
<1>1. UNCHANGED <<api, cache, behind, due>>
  BY DEF world
<1>2. CacheFollows'
  BY <1>1 DEF CacheFollows, IInv
<1>3. \A n \in Namespaces : EventDue(n)' <=> EventDue(n)
  BY <1>1 DEF EventDue
<1>4. \A n \in Namespaces : Noticed(n)
  BY <1>1, <1>3 DEF Noticed, Alike
<1>5. RestingIsRight'
  BY <1>4, OthersStayRight DEF RestingIsRight
<1> QED BY <1>1, <1>2, <1>3, <1>5

(* A cached baseline that needs no write is the live one, or an event is   *)
(* due.                                                                    *)
LEMMA ApplyStep == ASSUME IInv, TypeOK', applyPolicy PROVE IInv'
<1>0. TypeOK
  BY DEF IInv
<1>1. job \in Work /\ job # Idle /\ job.ns \in Namespaces
  BY <1>0, AtWork
<1>2. job' # Idle /\ job'.ns = job.ns /\ job'.pc \in {"patch", "list"}
  BY <1>1 DEF applyPolicy, SweepOthers, Work, Idle
<1>3. /\ CacheFollows' /\ RestingIsRight' /\ UNCHANGED <<api, cache, behind, due, queue>>
      /\ \A n \in Namespaces : EventDue(n)' <=> EventDue(n)
  BY <1>1, <1>2, ReadStep DEF applyPolicy
<1>4. JobIsCurrent'
  <2> SUFFICES ASSUME NEW n \in Namespaces, job.ns = n, ~EventDue(n), api.ns[n].phase = "active"
               PROVE  /\ Managed(n)
                      /\ job'.pc = "patch" \/ (job'.pc = "list" /\ job'.keep = {"base"}
                                                /\ api.obj[n]["base"] = Applied(api.obj[n]["base"]))
    BY <1>2, <1>3 DEF JobIsCurrent, Managed, IInv
  <2>1. Managed(n)
    BY <1>1 DEF applyPolicy, JobIsCurrent, IInv
  <2>2. CASE policyUpToDate(cache.obj[job.ns]["base"], DesiredBaseline)
    <3>1. "base" \in Names /\ cache.obj[n]["base"] = Desired
      BY <2>2, PoliciesAssumption DEF policyUpToDate, DesiredBaseline
    <3>2. Alike(Desired, api.obj[n]["base"])
      BY <3>1 DEF EventDue, CacheFollows, IInv
    <3>3. api.obj[n]["base"] = Desired
      BY <3>2 DEF Alike, operatorManaged, Desired
    <3>4. Applied(Desired) = Desired
      BY DEF Applied, Desired
    <3> QED BY <1>1, <2>1, <2>2, <3>3, <3>4 DEF applyPolicy, SweepOthers, Work
  <2>3. CASE ~policyUpToDate(cache.obj[job.ns]["base"], DesiredBaseline)
    BY <1>1, <2>1, <2>3 DEF applyPolicy, Work
  <2> QED BY <2>2, <2>3
<1> QED BY <1>3, <1>4 DEF IInv

(* An error brings the namespace back.                                     *)
LEMMA FailStep ==
    ASSUME IInv, TypeOK', job \in Work, Fail, UNCHANGED <<api, cache, behind, due>>
    PROVE  IInv'
<1>1. CacheFollows'
  BY DEF CacheFollows, IInv
<1>2. JobIsCurrent'
  BY DEF JobIsCurrent, Fail, Idle
<1>3. RestingIsRight'
  <2> SUFFICES ASSUME NEW n \in Namespaces, ~EventDue(n)', api'.ns[n].phase = "active"
               PROVE  Right(n)'
    BY DEF RestingIsRight
  <2>1. job.ns # n
    BY DEF Fail, EventDue
  <2>2. Noticed(n)
    BY <2>1 DEF Noticed, EventDue, Fail, Alike
  <2> QED BY <2>1, <2>2, OthersStayRight
<1> QED BY <1>1, <1>2, <1>3 DEF IInv

(* A write leaves the other namespaces as they are.                        *)
LEMMA WriteStep ==
    ASSUME IInv, TypeOK', job \in Work, job' # Idle, job'.ns = job.ns,
           \A n \in Namespaces : Noticed(n)
    PROVE  RestingIsRight'
BY OthersStayRight DEF RestingIsRight

(* The baseline is in place once it is applied.                            *)
LEMMA PatchStep == ASSUME IInv, TypeOK', Patch PROVE IInv'
<1> USE PoliciesAssumption
<1>0. TypeOK
  BY DEF IInv
<1>1. job \in Work /\ job # Idle /\ job.ns \in Namespaces
  BY <1>0, AtWork
<1>2. CASE Appliable(job.ns, "base")
  <2> DEFINE o == api.obj[job.ns]["base"]
  <2>1. o \in Objs /\ Applied(o) \in Objs
    BY <1>0, <1>1, ObjectTypes DEF TypeOK, WorldOK, Clusters
  <2>2. Put(job.ns, "base", Applied(o)) /\ UNCHANGED <<cache, queue>> /\ SweepOthers
    BY <1>2 DEF Patch
  <2>3. Applied(o).labelled
    BY <2>1, AppliedIsManaged DEF operatorManaged
  <2>4. CacheFollows' /\ \A n \in Namespaces : Noticed(n)
    <3> HIDE DEF o
    <3> QED BY <1>0, <1>1, <2>1, <2>2, <2>3, PutNoticed DEF IInv, TypeOK
  <2>5. job' # Idle /\ job'.ns = job.ns /\ job'.pc = "list" /\ job'.keep = {"base"}
    BY <1>1, <2>2 DEF SweepOthers, Work, Idle
  <2>6. RestingIsRight'
    BY <1>1, <2>4, <2>5, WriteStep
  <2>7. JobIsCurrent'
    <3> SUFFICES ASSUME NEW n \in Namespaces, job.ns = n, ~EventDue(n)', api'.ns[n].phase = "active"
                 PROVE  /\ Managed(n)'
                        /\ api'.obj[n]["base"] = Applied(api'.obj[n]["base"])
      BY <2>5 DEF JobIsCurrent
    <3>1. ~EventDue(n) /\ api'.ns[n] = api.ns[n] /\ (Managed(n)' <=> Managed(n))
      BY <1>0, <2>4, QuietNamespace DEF TypeOK
    <3>2. Managed(n)
      BY <1>1, <3>1 DEF Patch, JobIsCurrent, IInv
    <3>3. api'.obj[n]["base"] = Applied(o)
      BY <1>0, <1>1, <2>2 DEF Put, TypeOK, WorldOK, Clusters
    <3> QED BY <2>1, <3>1, <3>2, <3>3, AppliedIsManaged
  <2> QED BY <2>4, <2>6, <2>7 DEF IInv
<1>3. CASE ~Appliable(job.ns, "base")
  BY <1>1, <1>3, FailStep DEF Patch
<1> QED BY <1>2, <1>3

(* The cache lists every policy that is there to be swept, or an event is  *)
(* due.                                                                    *)
LEMMA SweepStep == ASSUME IInv, TypeOK', sweepStalePolicies PROVE IInv'
<1>0. TypeOK
  BY DEF IInv
<1>1. job \in Work /\ job # Idle /\ job.ns \in Namespaces
  BY <1>0, AtWork
<1>2. /\ job' # Idle /\ job'.ns = job.ns /\ job'.pc = "delete" /\ job'.keep = job.keep
      /\ job'.todo = Stale(job.ns, job.keep)
  BY <1>1 DEF sweepStalePolicies, Work, Idle
<1>3. /\ CacheFollows' /\ RestingIsRight' /\ UNCHANGED <<api, cache, behind, due, queue>>
      /\ \A n \in Namespaces : EventDue(n)' <=> EventDue(n)
  BY <1>1, <1>2, ReadStep DEF sweepStalePolicies
<1>4. JobIsCurrent'
  <2>1. job'.todo \cap job'.keep = {}
    BY <1>2 DEF Stale
  <2>2. ASSUME NEW n \in Namespaces, job.ns = n, ~EventDue(n)
        PROVE  \A x \in Names \ job.keep : x \in job'.todo \/ ~operatorManaged(api.obj[n][x])
    <3>1. \A x \in Names : operatorManaged(cache.obj[n][x]) <=> operatorManaged(api.obj[n][x])
      BY <2>2 DEF EventDue, CacheFollows, Alike, IInv
    <3> QED BY <1>2, <2>2, <3>1 DEF Stale
  <2> QED BY <1>1, <1>2, <1>3, <2>1, <2>2 DEF sweepStalePolicies, JobIsCurrent, Managed, IInv
<1> QED BY <1>3, <1>4 DEF IInv

(* What is left to delete shrinks, and the namespace is right when nothing *)
(* is left.                                                                *)
LEMMA DeleteStep == ASSUME IInv, TypeOK', DeleteStale PROVE IInv'
<1> USE PoliciesAssumption
<1>0. TypeOK
  BY DEF IInv
<1>1. /\ job \in Work /\ job # Idle /\ job.ns \in Namespaces
      /\ job.todo \subseteq Names /\ job.keep \subseteq Names /\ job.pc = "delete"
  BY <1>0, AtWork DEF DeleteStale
<1>2. ASSUME NEW x \in job.todo, Put(job.ns, x, None), job' = [job EXCEPT !.todo = @ \ {x}],
             UNCHANGED <<cache, queue>>
      PROVE  IInv'
  <2>1. /\ job' # Idle /\ job'.ns = job.ns /\ job'.pc = "delete" /\ job'.keep = job.keep
        /\ job'.todo = job.todo \ {x}
    BY <1>1, <1>2 DEF Work, Idle
  <2>2. CacheFollows' /\ \A n \in Namespaces : Noticed(n)
    <3>1. ~None.present
      BY DEF None
    <3> QED BY <1>0, <1>1, <1>2, <3>1, ObjectTypes, PutNoticed DEF IInv, TypeOK
  <2>3. RestingIsRight'
    BY <1>1, <2>1, <2>2, WriteStep
  <2>4. job'.todo \cap job'.keep = {}
    BY <1>1, <2>1 DEF JobIsCurrent, IInv
  <2>5. ASSUME NEW n \in Namespaces, job.ns = n, ~EventDue(n)', api'.ns[n].phase = "active"
        PROVE  /\ job.keep = IF Managed(n)' THEN {"base"} ELSE {}
               /\ Managed(n)' => api'.obj[n]["base"] = Applied(api'.obj[n]["base"])
               /\ \A y \in Names \ job.keep :
                     y \in job'.todo \/ ~operatorManaged(api'.obj[n][y])
    <3>1. /\ ~EventDue(n) /\ api'.ns[n] = api.ns[n] /\ (Managed(n)' <=> Managed(n))
          /\ \A y \in Names :
                /\ operatorManaged(api'.obj[n][y]) <=> operatorManaged(api.obj[n][y])
                /\ api'.obj[n][y] = Applied(api'.obj[n][y])
                      <=> api.obj[n][y] = Applied(api.obj[n][y])
      BY <1>0, <2>2, <2>5, QuietNamespace DEF TypeOK
    <3>2. ~operatorManaged(api'.obj[n][x])
      <4>1. api'.obj[n][x] = None
        BY <1>0, <1>1, <1>2, <2>5 DEF Put, TypeOK, WorldOK, Clusters
      <4> QED BY <4>1 DEF None, operatorManaged
    <3>3. /\ job.keep = IF Managed(n) THEN {"base"} ELSE {}
          /\ Managed(n) => api.obj[n]["base"] = Applied(api.obj[n]["base"])
          /\ \A y \in Names \ job.keep : y \in job.todo \/ ~operatorManaged(api.obj[n][y])
      BY <1>1, <2>5, <3>1 DEF JobIsCurrent, IInv
    <3> QED BY <2>1, <3>1, <3>2, <3>3
  <2>6. JobIsCurrent'
    BY <2>1, <2>4, <2>5 DEF JobIsCurrent
  <2> QED BY <2>2, <2>3, <2>6 DEF IInv
<1>3. CASE job.todo = {} /\ Done /\ UNCHANGED <<api, behind, due, cache>>
  <2>1. UNCHANGED queue /\ job' = Idle
    BY <1>3 DEF Done
  <2>2. CacheFollows'
    BY <1>3 DEF CacheFollows, IInv
  <2>3. JobIsCurrent'
    BY <2>1 DEF JobIsCurrent, Idle
  <2>4. \A n \in Namespaces : (EventDue(n)' <=> EventDue(n)) /\ Noticed(n)
    BY <1>3, <2>1 DEF Noticed, EventDue, Alike
  <2>5. ASSUME NEW n \in Namespaces, ~EventDue(n)', api'.ns[n].phase = "active" PROVE Right(n)'
    <3>1. CASE job.ns # n
      BY <2>4, <2>5, <3>1, OthersStayRight
    <3>2. CASE job.ns = n
      <4>1. /\ job.keep = IF Managed(n) THEN {"base"} ELSE {}
            /\ Managed(n) => api.obj[n]["base"] = Applied(api.obj[n]["base"])
            /\ \A y \in Names \ job.keep : ~operatorManaged(api.obj[n][y])
        BY <1>1, <1>3, <2>4, <2>5, <3>2 DEF JobIsCurrent, IInv
      <4>2. Right(n)
        BY <4>1 DEF Right
      <4> QED BY <1>0, <2>4, <2>5, <4>2, RightStays
    <3> QED BY <3>1, <3>2
  <2>6. RestingIsRight'
    BY <2>5 DEF RestingIsRight
  <2> QED BY <2>2, <2>3, <2>6 DEF IInv
<1> QED BY <1>2, <1>3 DEF DeleteStale

(* A starting operator is at rest in no live namespace.                    *)
LEMMA StartInv ==
    ASSUME TypeOK, job = Idle, cache = api, behind = {}, due = {}, queue = StartQueue(api)
    PROVE  IInv
<1>1. CacheFollows /\ \A n \in Namespaces : api.ns[n].phase = "active" => EventDue(n)
  BY StartFollows
<1> QED BY <1>1 DEF IInv, JobIsCurrent, RestingIsRight, Idle

(* Every step keeps the invariant.                                         *)
LEMMA InvariantStep == ASSUME IInv, [Next]_vars PROVE IInv'
<1>1. TypeOK /\ TypeOK'
  BY TypeStep DEF IInv
<1>2. CASE Others
  BY <1>1, <1>2, OthersType, OthersNoticed, EnvironmentStep DEF IInv, TypeOK
<1>3. CASE Deliver
  BY <1>1, <1>3, DeliverType, DeliverNoticed, EnvironmentStep DEF IInv, TypeOK
<1>4. CASE Reconcile
  BY <1>1, <1>4, BeginStep, ApplyStep, PatchStep, SweepStep, DeleteStep DEF Reconcile
<1>5. CASE CallFails
  BY <1>1, <1>5, AtWork, FailStep DEF CallFails, Fault
<1>6. CASE Restart
  <2>1. job' = Idle /\ cache' = api' /\ behind' = {} /\ due' = {} /\ queue' = StartQueue(api')
    BY <1>6 DEF Restart, Crash, Fault
  <2>2. /\ CacheFollows'
        /\ \A n \in Namespaces : api'.ns[n].phase = "active" => EventDue(n)'
    BY <2>1 DEF CacheFollows, Alike, StartQueue, EventDue
  <2> QED BY <1>1, <2>1, <2>2 DEF IInv, JobIsCurrent, RestingIsRight, Idle
<1>7. CASE UNCHANGED vars
  <2>1. \A n \in Namespaces : Noticed(n)
    BY <1>7 DEF vars, world, Noticed, EventDue, Alike
  <2>2. CacheFollows'
    BY <1>7 DEF vars, world, CacheFollows, IInv
  <2> QED BY <1>1, <1>7, <2>1, <2>2, EnvironmentStep DEF vars
<1> QED BY <1>2, <1>3, <1>4, <1>5, <1>6, <1>7 DEF Next

(* The namespace controller's invariant: its cache lacks nothing that no   *)
(* event is on its way for, what the worker has found out is so unless an  *)
(* event is due, and a namespace at rest is right.                         *)
THEOREM InductiveInvariant == Spec => []IInv
<1>1. Init => IInv
  BY InitType, StartInv DEF Init, Start
<1>2. IInv /\ [Next]_vars => IInv'
  BY InvariantStep
<1> QED BY <1>1, <1>2, PTL DEF Spec

(* The namespace controller implements LevelTriggered's safety: however    *)
(* namespaces and policies change, calls fail and the operator restarts,   *)
(* it lets go of a namespace only with the baseline as it should be, and   *)
(* nothing takes a namespace at rest away from that unnoticed.             *)
THEOREM LevelTriggeredCorrect == Spec => IsLevelTriggered
<1> DEFINE AtRest == \A n \in Namespaces : ~Pending(n) => (api.ns[n].phase = "active" => Right(n))
<1>1. IInv => AtRest
  <2> SUFFICES ASSUME IInv PROVE AtRest
    OBVIOUS
  <2>1. \A n \in Namespaces : ~Pending(n) => ~EventDue(n) /\ (job = Idle \/ job.ns # n)
    BY DEF Pending, EventDue, IInv, TypeOK, WorldOK
  <2> QED BY <2>1 DEF IInv, RestingIsRight
<1>2. AtRest => Level!Init
  BY DEF Level!Init
<1>3. AtRest /\ AtRest' => Level!Next
  BY DEF Level!Next, Level!Disturbed, Level!Attended, Level!Released, Level!Resting
<1> HIDE DEF AtRest
<1> QED BY <1>1, <1>2, <1>3, InductiveInvariant, PTL DEF IsLevelTriggered, Level!Safety

=============================================================================
