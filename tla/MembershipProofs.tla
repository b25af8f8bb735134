--------------------------- MODULE MembershipProofs ---------------------------
(***************************************************************************)
(* Proofs about Membership, for any clusters, edits and bounds.            *)
(***************************************************************************)
EXTENDS Membership, TLAPS

-----------------------------------------------------------------------------
(* Type correctness.                                                       *)

(* What resolution computes are stamps.                                    *)
LEMMA DesiredLabelsType ==
    ASSUME NEW view, NEW o, NEW n PROVE DesiredLabels(view, o, n) \in Stamps
<1>1. \A L : EffectiveDirection(L) \in BareDirections
  BY DEF EffectiveDirection, FromCaps, BareDirections
<1> QED BY <1>1 DEF DesiredLabels, DesiredStamps, Stamps

(* No stamp at all is a value for the stamps.                              *)
LEMMA NoStampsType == NoStamps \in Stamps
BY DEF NoStamps, Stamps, BareDirections

(* A join label or a stamp names a vnet.                                   *)
LEMMA SuffixType ==
    ASSUME NEW s \in Refs \cup Keys, NEW n \in Namespaces PROVE suffixVnet(s, n) \in Vnets
<1>1. OperatorNS # NoNS => <<OperatorNS, Cluster>> \in Vnets
  BY NamesAssumption, ClustersAssumption DEF Vnets
<1>2. s[2] \in Names /\ (s[1] = NoNS \/ s[1] \in Namespaces) /\ s = <<s[1], s[2]>>
  BY NamesAssumption DEF Refs, Keys, Vnets, ClusterKey
<1> QED BY <1>1, <1>2 DEF suffixVnet, Vnets

(* A pod event is mapped to vnets.                                         *)
LEMMA PodEventType ==
    ASSUME NEW p \in Pods, NEW old \in PodObj, NEW new \in PodObj
    PROVE  podEvent(p, old, new) \subseteq Vnets
<1>1. ASSUME NEW o \in PodObj PROVE podToVnets(o, PodNS[p]) \subseteq Vnets
  BY SuffixType, NamesAssumption DEF podToVnets, PodObj, UserRules
<1> QED BY <1>1 DEF podEvent

(* Generate yields at most one policy in each namespace.                   *)
LEMMA GenerateType == ASSUME NEW members PROVE Generate(members) \in [Namespaces -> PolicyObj]
BY DEF Generate, NoPolicy, PolicyObj

(* The statuses the worker writes.                                         *)
LEMMA StatusTypes ==
    /\ NoStatus \in StatusObj /\ ExcludedStatus \in StatusObj
    /\ job \in Tasks => Outcome \in StatusObj
<1>1. NoStatus \in StatusObj
  BY DEF NoStatus, StatusObj, Reasons
<1>2. ExcludedStatus \in StatusObj
  BY DEF ExcludedStatus, NoStatus, StatusObj, Reasons
<1>3. ASSUME job \in Tasks PROVE Outcome \in StatusObj
  BY <1>3 DEF Outcome, Tasks, StatusObj, Reasons
<1> QED BY <1>1, <1>2, <1>3

(* Changing one field of an object.                                        *)
LEMMA ObjectFields ==
    /\ \A s \in StatusObj : [s EXCEPT !.observed = FALSE] \in StatusObj
    /\ \A o \in NamespaceObj : [o EXCEPT !.present = FALSE] \in NamespaceObj
    /\ \A b \in Behind, v \in Vnets, n \in Namespaces :
          [b EXCEPT !.pol = @ \cup {<<v, n>>}] \in Behind
<1>1. ASSUME NEW s \in StatusObj PROVE [s EXCEPT !.observed = FALSE] \in StatusObj
  BY DEF StatusObj
<1>2. ASSUME NEW o \in NamespaceObj PROVE [o EXCEPT !.present = FALSE] \in NamespaceObj
  BY DEF NamespaceObj
<1>3. ASSUME NEW b \in Behind, NEW v \in Vnets, NEW n \in Namespaces
      PROVE  [b EXCEPT !.pol = @ \cup {<<v, n>>}] \in Behind
  <2>1. b.pol \cup {<<v, n>>} \in SUBSET (Vnets \X Namespaces)
    BY DEF Behind
  <2> QED BY <2>1 DEF Behind
<1> QED BY <1>1, <1>2, <1>3

(* Changing one object of a cluster.                                       *)
LEMMA ClusterFields ==
    ASSUME NEW c \in Clusters
    PROVE  /\ \A n \in Namespaces, o \in NamespaceObj : [c EXCEPT !.ns[n] = o] \in Clusters
           /\ \A D \in SUBSET Namespaces : [c EXCEPT !.dying = D] \in Clusters
           /\ \A v \in Vnets, o \in VnetObj, s \in StatusObj :
                 [c EXCEPT !.vnet[v] = o, !.status[v] = s] \in Clusters
           /\ \A p \in Pods, o \in PodObj : [c EXCEPT !.pod[p] = o] \in Clusters
           /\ \A v \in Vnets, n \in Namespaces, o \in PolicyObj :
                 [c EXCEPT !.pol[v][n] = o] \in Clusters
           /\ \A v \in Vnets, P \in [Namespaces -> PolicyObj] : [c EXCEPT !.pol[v] = P] \in Clusters
           /\ \A v \in Vnets, s \in StatusObj : [c EXCEPT !.status[v] = s] \in Clusters
           /\ \A n \in Namespaces, o \in NamespaceObj, D \in SUBSET Namespaces :
                 [c EXCEPT !.ns[n] = o, !.dying = D] \in Clusters
<1>1. \A n \in Namespaces, o \in NamespaceObj : [c EXCEPT !.ns[n] = o] \in Clusters
  BY DEF Clusters
<1>2. \A D \in SUBSET Namespaces : [c EXCEPT !.dying = D] \in Clusters
  BY DEF Clusters
<1>3. \A v \in Vnets, o \in VnetObj, s \in StatusObj :
         [c EXCEPT !.vnet[v] = o, !.status[v] = s] \in Clusters
  BY DEF Clusters
<1>4. \A p \in Pods, o \in PodObj : [c EXCEPT !.pod[p] = o] \in Clusters
  BY DEF Clusters
<1>5. \A v \in Vnets, P \in [Namespaces -> PolicyObj] : [c EXCEPT !.pol[v] = P] \in Clusters
  BY DEF Clusters
<1>6. \A v \in Vnets, n \in Namespaces, o \in PolicyObj : [c EXCEPT !.pol[v][n] = o] \in Clusters
  BY DEF Clusters
<1>7. \A v \in Vnets, s \in StatusObj : [c EXCEPT !.status[v] = s] \in Clusters
  BY DEF Clusters
<1>8. \A n \in Namespaces, o \in NamespaceObj, D \in SUBSET Namespaces :
         [c EXCEPT !.ns[n] = o, !.dying = D] \in Clusters
  BY DEF Clusters
<1> QED BY <1>1, <1>2, <1>3, <1>4, <1>5, <1>6, <1>7, <1>8

(* Users' edits keep the types.                                            *)
LEMMA UserEditType == ASSUME TypeOK, UserEdit PROVE TypeOK'
<1> USE ClustersAssumption, NamesAssumption
<1>0. api \in Clusters /\ behind \in Behind /\ job \in Jobs
  BY DEF TypeOK
<1>1. ASSUME api' \in Clusters, behind' \in Behind, job' \in Jobs, NEW new, Edit(new)
      PROVE  TypeOK'
  BY <1>1 DEF Edit, TypeOK
<1>2. ASSUME NEW n \in Namespaces, EditNamespace(n) PROVE TypeOK'
  <2>1. PICK o \in NsValues[n] : Edit([api EXCEPT !.ns[n] = o])
                                 \/ Edit([api EXCEPT !.dying = @ \cup {n}])
    BY <1>2 DEF EditNamespace
  <2>2. [api EXCEPT !.ns[n] = o] \in Clusters /\ [api EXCEPT !.dying = @ \cup {n}] \in Clusters
    <3>1. api.dying \cup {n} \in SUBSET Namespaces /\ o \in NamespaceObj
      BY <1>0 DEF Clusters
    <3> QED BY <1>0, <3>1, ClusterFields
  <2>3. api' \in Clusters
    BY <2>1, <2>2 DEF Edit
  <2> QED BY <1>0, <1>1, <1>2, <2>1, <2>3 DEF EditNamespace
<1>3. ASSUME NEW v \in Vnets, EditVnet(v) PROVE TypeOK'
  <2>1. PICK o \in VnetValues[v] :
           Edit([api EXCEPT !.vnet[v] = o,
                            !.status[v] = IF o.present THEN [@ EXCEPT !.observed = FALSE]
                                          ELSE NoStatus])
    BY <1>3 DEF EditVnet
  <2>2. [api.status[v] EXCEPT !.observed = FALSE] \in StatusObj
    <3>1. api.status[v] \in StatusObj
      BY <1>0 DEF Clusters
    <3> QED BY <3>1, ObjectFields
  <2>3. api' \in Clusters
    BY <1>0, <2>1, <2>2, ClusterFields, StatusTypes DEF Edit
  <2>4. behind' \in Behind
    BY <1>0, <1>3 DEF EditVnet, Outdate, Behind
  <2>5. job' \in Jobs
    BY <1>0, <1>3 DEF EditVnet, Outdate, Jobs, Tasks
  <2> QED BY <1>1, <2>1, <2>3, <2>4, <2>5
<1>4. ASSUME NEW p \in Pods, CreatePod(p) \/ RelabelPod(p) \/ DeletePod(p) PROVE TypeOK'
  <2>0. api.pod[p] \in PodObj
    BY <1>0 DEF Clusters
  <2>1. ASSUME NEW o \in PodObj, Edit([api EXCEPT !.pod[p] = o]), UNCHANGED <<behind, job>>
        PROVE  TypeOK'
    <3>1. api' \in Clusters
      BY <1>0, <2>1, ClusterFields DEF Edit
    <3> QED BY <1>0, <1>1, <2>1, <3>1
  <2>2. ASSUME CreatePod(p) PROVE TypeOK'
    <3>1. PICK J \in PodValues[p] :
             Edit([api EXCEPT !.pod[p] = [@ EXCEPT !.present = TRUE, !.terminating = FALSE,
                                                !.joins = J, !.stamps = NoStamps,
                                                !.resolved = FALSE]])
      BY <2>2 DEF CreatePod
    <3>2. [api.pod[p] EXCEPT !.present = TRUE, !.terminating = FALSE, !.joins = J,
                             !.stamps = NoStamps, !.resolved = FALSE] \in PodObj
      BY <2>0, NoStampsType DEF PodObj
    <3> QED BY <2>1, <2>2, <3>1, <3>2 DEF CreatePod
  <2>3. ASSUME RelabelPod(p) PROVE TypeOK'
    <3>1. PICK J \in PodValues[p] : Edit([api EXCEPT !.pod[p] = [@ EXCEPT !.joins = J]])
      BY <2>3 DEF RelabelPod
    <3>2. [api.pod[p] EXCEPT !.joins = J] \in PodObj
      BY <2>0 DEF PodObj
    <3> QED BY <2>1, <2>3, <3>1, <3>2 DEF RelabelPod
  <2>4. ASSUME DeletePod(p) PROVE TypeOK'
    <3>1. /\ [api.pod[p] EXCEPT !.terminating = TRUE] \in PodObj
          /\ [api.pod[p] EXCEPT !.present = FALSE] \in PodObj
      BY <2>0 DEF PodObj
    <3> QED BY <2>1, <2>4, <3>1 DEF DeletePod
  <2> QED BY <1>4, <2>2, <2>3, <2>4
<1>5. ASSUME NEW v \in Vnets, NEW n \in Namespaces, DamagePolicy(v, n) PROVE TypeOK'
  <2>1. PICK o \in PolicyValues : Edit([api EXCEPT !.pol[v][n] = o])
    BY <1>5 DEF DamagePolicy
  <2>2. api' \in Clusters
    BY <1>0, <2>1, ClusterFields DEF Edit
  <2>3. behind' \in Behind
    BY <1>0, <1>5 DEF DamagePolicy, Behind
  <2> QED BY <1>0, <1>1, <1>5, <2>1, <2>2, <2>3 DEF DamagePolicy
<1> QED BY <1>2, <1>3, <1>4, <1>5 DEF UserEdit

(* So do the namespace controller and resolution.                          *)
LEMMA OutsideType ==
    ASSUME TypeOK, \/ \E n \in Namespaces : EmptyNamespace(n)
                   \/ \E p \in Pods : Restamp(p)
    PROVE  TypeOK'
<1>0. api \in Clusters /\ cache \in Clusters /\ behind \in Behind
  BY DEF TypeOK
<1>1. ASSUME NEW n \in Namespaces, EmptyNamespace(n) PROVE TypeOK'
  <2>1. UNCHANGED <<cache, notes, queue, armed, job, edits, faults>>
    BY <1>1 DEF EmptyNamespace
  <2>2. behind' \in Behind
    <3>1. behind' = behind \/ \E v \in Vnets : behind' = [behind EXCEPT !.pol = @ \cup {<<v, n>>}]
      BY <1>1 DEF EmptyNamespace
    <3> QED BY <1>0, <3>1, ObjectFields
  <2>3. api' \in Clusters
    <3>1. ASSUME NEW v \in Vnets PROVE [api EXCEPT !.pol[v][n] = NoPolicy] \in Clusters
      <4>1. NoPolicy \in PolicyObj
        BY DEF NoPolicy, PolicyObj
      <4> QED BY <1>0, <4>1, ClusterFields
    <3>2. [api EXCEPT !.ns[n].present = FALSE, !.dying = @ \ {n}] \in Clusters
      <4>1. [api.ns[n] EXCEPT !.present = FALSE] \in NamespaceObj
        <5>1. api.ns[n] \in NamespaceObj
          BY <1>0 DEF Clusters
        <5> QED BY <5>1, ObjectFields
      <4>2. api.dying \ {n} \in SUBSET Namespaces
        BY <1>0 DEF Clusters
      <4>3. [api EXCEPT !.ns[n] = [api.ns[n] EXCEPT !.present = FALSE], !.dying = api.dying \ {n}]
              \in Clusters
        BY <1>0, <4>1, <4>2, ClusterFields
      <4> QED BY <4>3
    <3> QED BY <1>1, <3>1, <3>2 DEF EmptyNamespace
  <2> QED BY <2>1, <2>2, <2>3 DEF TypeOK
<1>2. ASSUME NEW p \in Pods, Restamp(p) PROVE TypeOK'
  <2> DEFINE o == cache.pod[p]
             n == PodNS[p]
             stamps == IF IsManaged(cache, n) THEN DesiredLabels(cache, o, n) ELSE NoStamps
             new == [o EXCEPT !.stamps = stamps, !.resolved = IsManaged(cache, n)]
  <2>1. o \in PodObj /\ api.pod[p] \in PodObj
    BY <1>0 DEF Clusters
  <2>2. stamps \in Stamps /\ IsManaged(cache, n) \in BOOLEAN
    BY DesiredLabelsType, NoStampsType DEF IsManaged
  <2>3. new \in PodObj
    <3> HIDE DEF stamps, o
    <3> QED BY <2>1, <2>2 DEF PodObj
  <2>4. MergePatch(api.pod[p], o, new) \in PodObj
    <3> HIDE DEF o, new
    <3> QED BY <2>1, <2>3 DEF MergePatch, PodObj, Stamps
  <2>5. api' = [api EXCEPT !.pod[p] = MergePatch(api.pod[p], o, new)]
    BY <1>2 DEF Restamp
  <2>6. api' \in Clusters
    <3> HIDE DEF o, new
    <3> QED BY <1>0, <2>4, <2>5, ClusterFields
  <2> QED BY <1>2, <2>6 DEF Restamp, TypeOK
<1> QED BY <1>1, <1>2

(* So do the informers and the timer.                                      *)
LEMMA DeliverType ==
    ASSUME TypeOK, Deliver \/ \E v \in Vnets : Resync(v)
    PROVE  TypeOK'
<1> USE ClustersAssumption
<1>0. api \in Clusters /\ cache \in Clusters /\ behind \in Behind
  BY DEF TypeOK
<1>1. ASSUME NEW p \in Pods, DeliverPod(p) PROVE TypeOK'
  <2>1. api.pod[p] \in PodObj /\ cache.pod[p] \in PodObj
    BY <1>0 DEF Clusters
  <2> QED BY <1>0, <1>1, <2>1, ClusterFields, PodEventType DEF DeliverPod, TypeOK
<1>2. ASSUME NEW n \in Namespaces, DeliverNamespace(n) PROVE TypeOK'
  <2>1. api.ns[n] \in NamespaceObj
        /\ (cache.dying \ {n}) \cup (api.dying \cap {n}) \in SUBSET Namespaces
    BY <1>0 DEF Clusters
  <2>2. cache' = [cache EXCEPT !.ns[n] = api.ns[n],
                               !.dying = (cache.dying \ {n}) \cup (api.dying \cap {n})]
    BY <1>2 DEF DeliverNamespace
  <2>3. cache' \in Clusters
    BY <1>0, <2>1, <2>2, ClusterFields
  <2> QED BY <1>2, <2>3 DEF DeliverNamespace, TypeOK
<1>3. ASSUME NEW n \in Namespaces, HandleNamespace(n) PROVE TypeOK'
  BY <1>3 DEF HandleNamespace, TypeOK, nsToVnets
<1>4. ASSUME NEW v \in Vnets, DeliverVnet(v) PROVE TypeOK'
  <2>1. api.vnet[v] \in VnetObj /\ api.status[v] \in StatusObj
    BY <1>0 DEF Clusters
  <2>2. cache' \in Clusters
    BY <1>0, <1>4, <2>1, ClusterFields DEF DeliverVnet
  <2>3. behind' \in Behind
    BY <1>0, <1>4 DEF DeliverVnet, Behind
  <2> QED BY <1>4, <2>2, <2>3 DEF DeliverVnet, TypeOK
<1>5. ASSUME NEW v \in Vnets, NEW n \in Namespaces, DeliverPolicy(v, n) PROVE TypeOK'
  <2>1. api.pol[v][n] \in PolicyObj
    BY <1>0 DEF Clusters
  <2>2. cache' \in Clusters
    BY <1>0, <1>5, <2>1, ClusterFields DEF DeliverPolicy
  <2>3. behind' \in Behind
    BY <1>0, <1>5 DEF DeliverPolicy, Behind
  <2> QED BY <1>5, <2>2, <2>3 DEF DeliverPolicy, TypeOK, policyToVNet
<1>6. ASSUME NEW v \in Vnets, Resync(v) PROVE TypeOK'
  BY <1>6 DEF Resync, TypeOK
<1> QED BY <1>1, <1>2, <1>3, <1>4, <1>5, <1>6 DEF Deliver

(* The worker's record after each of its steps.                            *)
LEMMA TaskFields ==
    ASSUME NEW t \in Tasks
    PROVE  /\ \A pc \in {"home", "excluded", "discover", "apply", "status", "purge"} :
                 [t EXCEPT !.pc = pc] \in Tasks
           /\ [t EXCEPT !.latest = FALSE] \in Tasks
           /\ \A T \in SUBSET Namespaces : [t EXCEPT !.todo = T] \in Tasks
           /\ \A T, A \in SUBSET Namespaces :
                 /\ [t EXCEPT !.todo = T, !.applied = A] \in Tasks
                 /\ [t EXCEPT !.todo = T, !.failed = A] \in Tasks
           /\ \A M, I \in SUBSET Pods, D \in [Namespaces -> PolicyObj], T \in SUBSET Namespaces :
                 [t EXCEPT !.pc = "apply", !.members = M, !.invalid = I, !.desired = D,
                           !.todo = T] \in Tasks
BY DEF Tasks

(* What the worker writes keeps the types.                                 *)
LEMMA WritesType ==
    ASSUME TypeOK, job \in Tasks
    PROVE  /\ \A s \in StatusObj : writeStatus(s) => api' \in Clusters /\ behind' \in Behind
           /\ \A P \in [Namespaces -> PolicyObj] :
                 WritePolicies(P) => api' \in Clusters /\ behind' \in Behind
           /\ \A S : DeletePolicies(S) => api' \in Clusters /\ behind' \in Behind
<1>0. api \in Clusters /\ behind \in Behind /\ job.vnet \in Vnets
  BY DEF TypeOK, Tasks
<1>1. ASSUME NEW s \in StatusObj, writeStatus(s) PROVE api' \in Clusters /\ behind' \in Behind
  <2>1. [behind EXCEPT !.vnet = @ \cup {job.vnet}] \in Behind
    BY <1>0 DEF Behind
  <2>2. [api EXCEPT !.status[job.vnet] = s] \in Clusters
    BY <1>0, ClusterFields
  <2> QED BY <1>0, <1>1, <2>1, <2>2 DEF writeStatus
<1>2. ASSUME NEW P \in [Namespaces -> PolicyObj], WritePolicies(P)
      PROVE  api' \in Clusters /\ behind' \in Behind
  <2> DEFINE B == {<<job.vnet, n>> : n \in {x \in Namespaces : P[x] # api.pol[job.vnet][x]}}
  <2>1. B \subseteq Vnets \X Namespaces
    BY <1>0
  <2>2. [behind EXCEPT !.pol = @ \cup B] \in Behind
    <3> HIDE DEF B
    <3> QED BY <1>0, <2>1 DEF Behind
  <2>3. [api EXCEPT !.pol[job.vnet] = P] \in Clusters
    BY <1>0, ClusterFields
  <2> QED BY <1>2, <2>2, <2>3 DEF WritePolicies
<1>3. ASSUME NEW S, DeletePolicies(S) PROVE api' \in Clusters /\ behind' \in Behind
  <2> DEFINE P == [n \in Namespaces |-> IF n \in S THEN NoPolicy ELSE api.pol[job.vnet][n]]
  <2>1. P \in [Namespaces -> PolicyObj]
    <3>1. NoPolicy \in PolicyObj
      BY DEF NoPolicy, PolicyObj
    <3>2. api.pol[job.vnet] \in [Namespaces -> PolicyObj]
      BY <1>0 DEF Clusters
    <3> QED BY <3>1, <3>2
  <2>2. WritePolicies(P)
    BY <1>3 DEF DeletePolicies
  <2> HIDE DEF P
  <2> QED BY <1>2, <2>1, <2>2
<1> QED BY <1>1, <1>2, <1>3

(* The worker goes on with the vnet it has taken.                          *)
Progress ==
    \/ CheckHome \/ reportExcluded \/ discover
    \/ \E n \in Namespaces : applyPolicy(n)
    \/ sweep \/ updateStatus \/ purge

(* So does the worker.                                                     *)
LEMMA ReconcileType == ASSUME TypeOK, Reconcile PROVE TypeOK'
<1>0. /\ api \in Clusters /\ cache \in Clusters /\ behind \in Behind /\ job \in Jobs
      /\ queue \subseteq Vnets /\ armed \subseteq Vnets /\ faults \in 0 .. MaxFaults
      /\ MaxFaults \in Nat
  BY ClustersAssumption DEF TypeOK
<1>1. ASSUME NEW v \in Vnets, Begin(v) PROVE TypeOK'
  <2>1. cache.vnet[v] \in VnetObj /\ cache.status[v] \in StatusObj
    BY <1>0 DEF Clusters
  <2>2. [n \in Namespaces |-> NoPolicy] \in [Namespaces -> PolicyObj]
    BY DEF NoPolicy, PolicyObj
  <2>3. job' \in Tasks
    BY <1>1, <2>1, <2>2 DEF Begin, Tasks
  <2> QED BY <1>1, <2>3 DEF Begin, TypeOK, Jobs
<1>2. ASSUME job \in Tasks, job.vnet \in Vnets, Failure PROVE faults' \in 0 .. MaxFaults
  BY <1>0, <1>2 DEF Failure
<1>3. ASSUME job \in Tasks, Fail \/ Succeed \/ Stop
      PROVE  job' \in Jobs /\ queue' \subseteq Vnets /\ armed' \subseteq Vnets
  <2>1. job.vnet \in Vnets
    BY <1>3 DEF Tasks
  <2> QED BY <1>0, <1>3, <2>1 DEF Fail, Succeed, Stop, Jobs
<1>4. ASSUME Progress
      PROVE  TypeOK'
  <2>0. job \in Tasks /\ job.vnet \in Vnets /\ job.desired \in [Namespaces -> PolicyObj]
        /\ job.todo \subseteq Namespaces /\ job.applied \subseteq Namespaces
        /\ job.failed \subseteq Namespaces
    <3>1. job # Idle
      <4>1. job.pc \in {"home", "excluded", "discover", "apply", "status", "purge"}
        BY <1>4 DEF Progress, CheckHome, reportExcluded, discover, applyPolicy, sweep, updateStatus, purge
      <4> QED BY <4>1 DEF Idle
    <3> QED BY <1>0, <3>1 DEF Jobs, Tasks
  <2>1. CASE CheckHome
    <3>1. job' \in Jobs
      BY <2>0, <2>1, TaskFields DEF CheckHome, Jobs
    <3> QED BY <2>1, <3>1 DEF CheckHome, TypeOK
  <2>2. CASE reportExcluded
    <3>1. job' \in Jobs
      BY <2>0, <2>2, TaskFields DEF reportExcluded, Jobs
    <3>2. api' \in Clusters /\ behind' \in Behind /\ faults' \in 0 .. MaxFaults
      BY <1>0, <1>2, <2>0, <2>2, WritesType, StatusTypes DEF reportExcluded
    <3> QED BY <2>2, <3>1, <3>2 DEF reportExcluded, TypeOK
  <2>3. CASE discover
    <3> DEFINE mem == discoverMembers(cache, job.vnet, job.spec)
               inv == invalidJoiners(cache, job.vnet, job.spec)
               D   == Generate(mem)
    <3>1. DOMAIN mem \subseteq Pods /\ inv \subseteq Pods /\ PoliciesIn(D) \subseteq Namespaces
      BY DEF discoverMembers, invalidJoiners, PoliciesIn
    <3>2. D \in [Namespaces -> PolicyObj]
      BY GenerateType
    <3>3. job' = [job EXCEPT !.pc = "apply", !.members = DOMAIN mem, !.invalid = inv,
                             !.desired = D, !.todo = PoliciesIn(D)]
      BY <2>3 DEF discover
    <3> HIDE DEF mem, inv, D
    <3>4. job' \in Jobs
      BY <2>0, <3>1, <3>2, <3>3, TaskFields DEF Jobs
    <3> QED BY <2>3, <3>4 DEF discover, TypeOK
  <2>4. ASSUME NEW n \in Namespaces, applyPolicy(n) PROVE TypeOK'
    <3>1. job' \in Jobs
      <4>1. job.todo \ {n} \in SUBSET Namespaces /\ job.applied \cup {n} \in SUBSET Namespaces
            /\ job.failed \cup {n} \in SUBSET Namespaces
        BY <2>0
      <4>2. \/ job' = [job EXCEPT !.todo = job.todo \ {n}]
            \/ job' = [job EXCEPT !.todo = job.todo \ {n}, !.applied = job.applied \cup {n}]
            \/ job' = [job EXCEPT !.todo = job.todo \ {n}, !.failed = job.failed \cup {n}]
        BY <2>4 DEF applyPolicy, recordFailure
      <4>3. \A T, A \in SUBSET Namespaces :
               /\ [job EXCEPT !.todo = T] \in Tasks
               /\ [job EXCEPT !.todo = T, !.applied = A] \in Tasks
               /\ [job EXCEPT !.todo = T, !.failed = A] \in Tasks
        BY <2>0, TaskFields
      <4>4. job' \in Tasks
        <5>1. CASE job' = [job EXCEPT !.todo = job.todo \ {n}]
          BY <4>1, <4>3, <5>1
        <5>2. CASE job' = [job EXCEPT !.todo = job.todo \ {n}, !.applied = job.applied \cup {n}]
          BY <4>1, <4>3, <5>2
        <5>3. CASE job' = [job EXCEPT !.todo = job.todo \ {n}, !.failed = job.failed \cup {n}]
          BY <4>1, <4>3, <5>3
        <5> QED BY <4>2, <5>1, <5>2, <5>3
      <4> QED BY <4>4 DEF Jobs
    <3>2. [api.pol[job.vnet] EXCEPT ![n] = job.desired[n]] \in [Namespaces -> PolicyObj]
      BY <1>0, <2>0 DEF Clusters
    <3>3. api' \in Clusters /\ behind' \in Behind /\ faults' \in 0 .. MaxFaults
      BY <1>0, <1>2, <2>0, <2>4, <3>2, WritesType DEF applyPolicy
    <3> QED BY <2>4, <3>1, <3>3 DEF applyPolicy, TypeOK
  <2>5. CASE sweep
    <3>1. [job EXCEPT !.pc = "status"] \in Jobs
      BY <2>0, TaskFields DEF Jobs
    <3>2. job' \in Jobs /\ queue' \subseteq Vnets /\ armed' \subseteq Vnets
      BY <1>0, <1>3, <2>0, <2>5, <3>1 DEF sweep
    <3>3. faults' \in 0 .. MaxFaults
      BY <1>0, <1>2, <2>0, <2>5 DEF sweep
    <3>4. api' \in Clusters /\ behind' \in Behind
      BY <1>0, <2>0, <2>5, WritesType DEF sweep
    <3> QED BY <2>5, <3>2, <3>3, <3>4 DEF sweep, TypeOK
  <2>6. CASE updateStatus
    <3>1. job' \in Jobs /\ queue' \subseteq Vnets /\ armed' \subseteq Vnets
      BY <1>3, <2>0, <2>6 DEF updateStatus
    <3>2. api' \in Clusters /\ behind' \in Behind /\ faults' \in 0 .. MaxFaults
      BY <1>0, <1>2, <2>0, <2>6, WritesType, StatusTypes DEF updateStatus
    <3> QED BY <2>6, <3>1, <3>2 DEF updateStatus, TypeOK
  <2>7. CASE purge
    <3>1. job' \in Jobs /\ queue' \subseteq Vnets /\ armed' \subseteq Vnets
      BY <1>3, <2>0, <2>7 DEF purge
    <3>2. api' \in Clusters /\ behind' \in Behind /\ faults' \in 0 .. MaxFaults
      BY <1>0, <1>2, <2>0, <2>7, WritesType DEF purge
    <3> QED BY <2>7, <3>1, <3>2 DEF purge, TypeOK
  <2> QED BY <1>4, <2>1, <2>2, <2>3, <2>4, <2>5, <2>6, <2>7 DEF Progress
<1> QED BY <1>1, <1>4 DEF Reconcile, Progress

(* So does every step.                                                     *)
LEMMA TypeStep == ASSUME TypeOK, [Next]_vars PROVE TypeOK'
<1>1. ASSUME Restart PROVE TypeOK'
  <2>1. faults' \in 0 .. MaxFaults
    BY <1>1, ClustersAssumption DEF Restart, Failure, TypeOK
  <2>2. UpToDate \in Behind /\ StartQueue(api) \subseteq Vnets /\ Idle \in Jobs
    BY DEF UpToDate, Behind, StartQueue, Jobs
  <2> QED BY <1>1, <2>1, <2>2 DEF Restart, TypeOK
<1>2. CASE UNCHANGED vars
  BY <1>2 DEF vars, TypeOK
<1> QED
  BY <1>1, <1>2, UserEditType, OutsideType, DeliverType, ReconcileType DEF Next, Work

(* The operator starts with the types right.                               *)
LEMMA InitType == ASSUME Init PROVE TypeOK
<1>1. UpToDate \in Behind /\ StartQueue(api) \subseteq Vnets /\ Idle \in Jobs
  BY DEF UpToDate, Behind, StartQueue, Jobs
<1> QED BY <1>1, ClustersAssumption DEF Init, TypeOK

(* In every reachable state every variable has its type: the work queue,   *)
(* the handlers and the worker only ever name vnets and namespaces that    *)
(* the model has, and a status only what it can report.                    *)
THEOREM TypeCorrect == Spec => []TypeOK
BY InitType, TypeStep, PTL DEF Spec

-----------------------------------------------------------------------------
(* The inductive invariant.                                                *)

(* What the cache shows, it has seen.                                      *)
CacheFollows ==
    \A v \in Vnets :
        /\ v \in behind.vnet \/ (cache.vnet[v] = api.vnet[v] /\ cache.status[v] = api.status[v])
        /\ \A n \in Namespaces : <<v, n>> \in behind.pol \/ cache.pol[v][n] = api.pol[v][n]

(* A namespace whose end the cache has yet to see holds no policy.         *)
GoneIsEmpty ==
    \A v \in Vnets, n \in cache.dying \ api.dying : ~api.pol[v][n].present

(* A vnet with the reserved name is the operator's.                        *)
Reserved(view) ==
    \A v \in Vnets : v[2] = Cluster /\ view.vnet[v].present =>
        v = <<OperatorNS, Cluster>> /\ isSystem(v) /\ view.vnet[v].all

(* Pods live in namespaces that exist.                                     *)
PodsHaveHomes == \A p \in Pods : api.pod[p].present => api.ns[PodNS[p]].present

(* Vnet v is certain to be reconciled.                                     *)
Due(v) ==
    \/ v \in queue
    \/ v \in behind.vnet
    \/ \E n \in Namespaces : <<v, n>> \in behind.pol
    \/ v[1] \in notes /\ cache.vnet[v].present

Serves(v) == cache.vnet[v].present /\ homeServed(v)

Permitted(v, n) == PermitsForVnet(cache, v, cache.vnet[v], n)

(* A namespace that stops being admitted is mapped to no vnet: the worker  *)
(* learns of it once its pods have lost their stamps.  Until then only     *)
(* bounds hold: the pods that are members for certain, and those that may  *)
(* have been when the worker looked.                                       *)
Sure(v) ==
    {p \in Pods : /\ isStampedMember(cache.pod[p], v)
                  /\ IsManaged(cache, PodNS[p]) /\ Permitted(v, PodNS[p])
                  /\ PodNS[p] \notin notes}

Possible(v) ==
    {p \in Pods : /\ isStampedMember(cache.pod[p], v)
                  /\ \/ IsManaged(cache, PodNS[p])
                     \/ ~Permitted(v, PodNS[p])
                     \/ PodNS[p] \in notes}

(* What the caches show of vnet v.  told: the namespaces the worker was    *)
(* not told about, or will be.  exact, unsure: with a selector the joiners *)
(* reported may be out of date, without it only those of noted namespaces. *)
Sight(v) ==
    [sure     |-> Sure(v),
     possible |-> Possible(v),
     dir      |-> [p \in Pods |-> cache.pod[p].stamps[stampedVnetKey(v)]],
     dying    |-> cache.dying,
     told     |-> {n \in Namespaces : n \in notes \/ ~Permitted(v, n)},
     exact    |-> cache.vnet[v].selector = {},
     unsure   |-> {p \in Pods : PodNS[p] \in notes /\ Permitted(v, PodNS[p])},
     invalid  |-> invalidJoiners(cache, v, cache.vnet[v])]

Receives(S, dir, n) == \E p \in S : PodNS[p] = n /\ dir[p] \in selfValuesReceiver

Initiates(S, dir, n) == \E p \in S : PodNS[p] = n /\ dir[p] \in peerInitiatorValues

(* The policies P are within the bounds of sight g, but for presence in    *)
(* the namespaces D.                                                       *)
Between(P, g, D) ==
    \A n \in Namespaces :
        /\ Receives(g.sure, g.dir, n) /\ n \notin D =>
              /\ P[n].present
              /\ \A x \in Namespaces : Initiates(g.sure, g.dir, x) => x \in P[n].peers
        /\ P[n].present =>
              /\ Receives(g.possible, g.dir, n)
              /\ n \notin D => \A x \in P[n].peers : Initiates(g.possible, g.dir, x)

MembersRight(M, g) == g.sure \subseteq M /\ M \subseteq g.possible

InvalidRight(I, g) == g.exact => \A p \in Pods \ g.unsure : p \in I <=> p \in g.invalid

RefsRight(R, g) ==
    \A n \in Namespaces :
        /\ Receives(g.sure, g.dir, n) /\ n \notin g.dying => n \in R
        /\ n \in R => Receives(g.possible, g.dir, n) /\ (n \in g.dying => n \in g.told)

ReadyRight(r, g) ==
    /\ r \in {"NoMembers", "PoliciesGenerated"}
    /\ r = "NoMembers" => \A n \in Namespaces : ~Receives(g.sure, g.dir, n)
    /\ r = "PoliciesGenerated" => \E n \in Namespaces : Receives(g.possible, g.dir, n)

StatusRight(s, g) ==
    /\ s.observed
    /\ MembersRight(s.members, g) /\ InvalidRight(s.invalid, g)
    /\ RefsRight(s.refs, g) /\ ReadyRight(s.ready, g)

AtRest(v) ==
    IF Serves(v)
    THEN Between(api.pol[v], Sight(v), cache.dying) /\ StatusRight(cache.status[v], Sight(v))
    ELSE \A n \in Namespaces : ~api.pol[v][n].present

(* A vnet nobody is going to look at again is as it should be.             *)
Rested == \A v \in Vnets : Due(v) \/ (job # Idle /\ job.vnet = v) \/ AtRest(v)

(* What the worker j has computed and applied, with the policies P.        *)
PlanRight(j, P, g) ==
    /\ MembersRight(j.members, g) /\ InvalidRight(j.invalid, g)
    /\ Between(j.desired, g, {})
    /\ j.todo \subseteq PoliciesIn(j.desired)
    /\ \A n \in Namespaces :
          /\ Receives(g.sure, g.dir, n) /\ n \notin g.dying => n \in j.todo \cup j.applied
          /\ n \in j.applied => /\ P[n] = j.desired[n] /\ j.desired[n].present
                                /\ n \in g.dying => n \in g.told
          /\ j.desired[n].present /\ n \notin j.todo \cup j.applied =>
                n \in g.dying \/ ~P[n].present

(* The worker's task j for vnet v is what the caches call for.             *)
TaskRight(j, v) ==
    /\ j.spec = cache.vnet[v] /\ j.stored = cache.status[v]
    /\ j.pc = "home" => cache.vnet[v].present
    /\ j.pc \in {"home", "discover"} => j.applied = {}
    /\ j.pc \in {"excluded", "purge"} => ~Serves(v)
    /\ j.pc \in {"discover", "apply", "status"} => Serves(v)
    /\ j.pc \in {"apply", "status"} /\ j.failed = {} => PlanRight(j, api.pol[v], Sight(v))
    /\ j.pc = "status" /\ j.failed = {} =>
          /\ j.todo = {}
          /\ \A n \in Namespaces : api.pol[v][n].present => j.desired[n].present

(* Unless the vnet is reconciled again, the worker's task is right.        *)
JobIsCurrent ==
    \A v \in Vnets : job # Idle /\ job.vnet = v /\ ~Due(v) => TaskRight(job, v)

(* The state outside the worker is consistent.                             *)
Base == /\ TypeOK /\ CacheFollows /\ GoneIsEmpty
        /\ Reserved(api) /\ Reserved(cache) /\ PodsHaveHomes

IInv == Base /\ Rested /\ JobIsCurrent

-----------------------------------------------------------------------------
(* What a smaller certainty and a larger possibility keep.                 *)

(* Sight h knows less than sight g.                                        *)
Narrows(g, h) ==
    /\ h.sure \subseteq g.sure /\ g.sure \subseteq g.possible
    /\ g.possible \subseteq h.possible /\ g.possible \subseteq Pods
    /\ \A p \in g.possible : h.dir[p] = g.dir[p]
    /\ \A n \in h.dying : n \in h.told \/ (n \in g.dying /\ n \notin g.told)
    /\ \A n \in g.dying \ h.dying : \A p \in h.sure : PodNS[p] # n
    /\ h.exact = g.exact
    /\ h.exact => \A p \in Pods \ h.unsure :
          p \notin g.unsure /\ (p \in g.invalid <=> p \in h.invalid)

(* Certain receivers and initiators become fewer, possible ones more.      *)
LEMMA NarrowedReach ==
    ASSUME NEW g, NEW h, Narrows(g, h), NEW n
    PROVE  /\ Receives(h.sure, h.dir, n) => Receives(g.sure, g.dir, n) /\ n \notin g.dying \ h.dying
           /\ Initiates(h.sure, h.dir, n) => Initiates(g.sure, g.dir, n)
           /\ Receives(g.possible, g.dir, n) => Receives(h.possible, h.dir, n)
           /\ Initiates(g.possible, g.dir, n) => Initiates(h.possible, h.dir, n)
BY DEF Narrows, Receives, Initiates

(* Policies within the bounds stay within them.                            *)
LEMMA NarrowedBetween ==
    ASSUME NEW g, NEW h, Narrows(g, h), NEW P, NEW D, NEW E, Between(P, g, D),
           \A n \in Namespaces : n \in D \ E => n \in g.dying \ h.dying /\ ~P[n].present
    PROVE  Between(P, h, E)
<1> SUFFICES ASSUME NEW n \in Namespaces
             PROVE  /\ Receives(h.sure, h.dir, n) /\ n \notin E =>
                          /\ P[n].present
                          /\ \A x \in Namespaces : Initiates(h.sure, h.dir, x) => x \in P[n].peers
                    /\ P[n].present =>
                          /\ Receives(h.possible, h.dir, n)
                          /\ n \notin E => \A x \in P[n].peers : Initiates(h.possible, h.dir, x)
  BY DEF Between
<1> QED BY NarrowedReach DEF Between

(* So does a status.                                                       *)
LEMMA NarrowedStatus ==
    ASSUME NEW g, NEW h, Narrows(g, h), NEW s, StatusRight(s, g)
    PROVE  StatusRight(s, h)
<1>1. MembersRight(s.members, h)
  BY DEF Narrows, StatusRight, MembersRight
<1>2. InvalidRight(s.invalid, h)
  BY DEF Narrows, StatusRight, InvalidRight
<1>3. RefsRight(s.refs, h)
  BY NarrowedReach DEF Narrows, StatusRight, RefsRight
<1>4. ReadyRight(s.ready, h)
  BY NarrowedReach DEF StatusRight, ReadyRight
<1> QED BY <1>1, <1>2, <1>3, <1>4 DEF StatusRight

(* And so does what the worker has computed.                               *)
LEMMA NarrowedPlan ==
    ASSUME NEW g, NEW h, Narrows(g, h), NEW j, NEW P, PlanRight(j, P, g),
           \A n \in g.dying \ h.dying : ~P[n].present
    PROVE  PlanRight(j, P, h)
<1>1. MembersRight(j.members, h)
  BY DEF Narrows, PlanRight, MembersRight
<1>2. InvalidRight(j.invalid, h)
  BY DEF Narrows, PlanRight, InvalidRight
<1>3. Between(j.desired, h, {})
  BY NarrowedBetween DEF PlanRight
<1>4. ASSUME NEW n \in Namespaces
      PROVE  /\ Receives(h.sure, h.dir, n) /\ n \notin h.dying => n \in j.todo \cup j.applied
             /\ n \in j.applied => /\ P[n] = j.desired[n] /\ j.desired[n].present
                                   /\ n \in h.dying => n \in h.told
             /\ j.desired[n].present /\ n \notin j.todo \cup j.applied =>
                   n \in h.dying \/ ~P[n].present
  BY NarrowedReach DEF PlanRight, Narrows
<1> QED BY <1>1, <1>2, <1>3, <1>4 DEF PlanRight

(* A step after which vnet v is not due shows the worker the same vnet and *)
(* home, no more certain members and no fewer possible ones.               *)
Kept(v) ==
    /\ ~Due(v)
    /\ cache'.vnet[v] = cache.vnet[v] /\ cache'.status[v] = cache.status[v]
    /\ api'.pol[v] = api.pol[v]
    /\ Serves(v)' = Serves(v)
    /\ Serves(v) => /\ Narrows(Sight(v), Sight(v)')
                    /\ \A n \in cache.dying \ cache'.dying : ~api.pol[v][n].present

(* Such a step keeps what is at rest and what the worker has done.         *)
LEMMA KeptIsRight ==
    ASSUME NEW v \in Vnets, Kept(v)
    PROVE  /\ AtRest(v) => AtRest(v)'
           /\ \A j : TaskRight(j, v) => TaskRight(j, v)'
<1> DEFINE g == Sight(v)
           h == Sight(v)'
<1>0. g.dying = cache.dying /\ h.dying = cache'.dying
  BY DEF Sight
<1>1. ASSUME AtRest(v) PROVE AtRest(v)'
  <2>1. CASE Serves(v)
    <3>1. Between(api.pol[v], g, cache.dying) /\ StatusRight(cache.status[v], g)
      BY <1>1, <2>1 DEF AtRest
    <3>2. Narrows(g, h) /\ \A n \in cache.dying \ cache'.dying : ~api.pol[v][n].present
      BY <2>1 DEF Kept
    <3> HIDE DEF g, h
    <3>3. StatusRight(cache.status[v], h)
      BY <3>1, <3>2, NarrowedStatus
    <3>4. Between(api.pol[v], h, cache'.dying)
      BY <1>0, <3>1, <3>2, NarrowedBetween
    <3> QED BY <2>1, <3>3, <3>4 DEF AtRest, Kept, g, h
  <2>2. CASE ~Serves(v)
    BY <1>1, <2>2 DEF AtRest, Kept
  <2> QED BY <2>1, <2>2
<1>2. ASSUME NEW j, TaskRight(j, v) PROVE TaskRight(j, v)'
  <2>1. ASSUME Serves(v), PlanRight(j, api.pol[v], g) PROVE PlanRight(j, api.pol[v], h)
    <3>1. Narrows(g, h) /\ \A n \in cache.dying \ cache'.dying : ~api.pol[v][n].present
      BY <2>1 DEF Kept
    <3> HIDE DEF g, h
    <3> QED BY <1>0, <2>1, <3>1, NarrowedPlan
  <2>2. /\ cache'.vnet[v] = cache.vnet[v] /\ cache'.status[v] = cache.status[v]
        /\ api'.pol[v] = api.pol[v] /\ Serves(v)' = Serves(v)
    BY DEF Kept
  <2> QED BY <1>2, <2>1, <2>2 DEF TaskRight
<1> QED BY <1>1, <1>2

-----------------------------------------------------------------------------
(* Which steps keep a vnet that is not due after them.                     *)

(* The parts of a sight.                                                   *)
LEMMA SightFields ==
    ASSUME NEW v
    PROVE  /\ Sight(v).sure = Sure(v) /\ Sight(v).possible = Possible(v)
           /\ Sight(v).dying = cache.dying
           /\ \A p \in Pods : Sight(v).dir[p] = cache.pod[p].stamps[stampedVnetKey(v)]
           /\ \A n : n \in Sight(v).told <=> n \in Namespaces /\ (n \in notes \/ ~Permitted(v, n))
           /\ Sight(v).exact = (cache.vnet[v].selector = {})
           /\ \A p \in Pods : p \in Sight(v).unsure <=> PodNS[p] \in notes /\ Permitted(v, PodNS[p])
           /\ Sight(v).invalid = invalidJoiners(cache, v, cache.vnet[v])
           /\ Sure(v) \subseteq Possible(v) /\ Possible(v) \subseteq Pods
BY DEF Sight, Sure, Possible

(* The sight of a vnet reads the vnet, namespaces, pods and notes.         *)
LEMMA SameSight ==
    ASSUME NEW v \in Vnets, cache'.ns = cache.ns, cache'.pod = cache.pod,
           cache'.dying = cache.dying, cache'.vnet[v] = cache.vnet[v], notes' = notes
    PROVE  /\ Serves(v)' = Serves(v)
           /\ Narrows(Sight(v), Sight(v)')
<1>1. Serves(v)' = Serves(v)
  BY DEF Serves, homeServed, IsManaged
<1>2. \A n : IsManaged(cache, n)' = IsManaged(cache, n) /\ Permitted(v, n)' = Permitted(v, n)
  BY DEF IsManaged, Permitted, PermitsForVnet, matchesAllowedNamespaces
<1>3. invalidJoiners(cache, v, cache.vnet[v])' = invalidJoiners(cache, v, cache.vnet[v])
  BY DEF invalidJoiners, ineligible, IsManaged, PermitsForVnet, matchesAllowedNamespaces
<1>4. Sight(v)' = Sight(v)
  BY <1>2, <1>3 DEF Sight, Sure, Possible
<1>5. Narrows(Sight(v), Sight(v))
  BY SightFields DEF Narrows
<1> QED BY <1>1, <1>4, <1>5

(* A pod that is stamped for a vnet, or asks for it, names it.             *)
LEMMA NamedByPods ==
    ASSUME Reserved(cache), NEW v \in Vnets, cache.vnet[v].present,
           NEW p \in Pods, NEW o \in PodObj,
           isStampedMember(o, v) \/ userVals(o, PodNS[p], v) # {}
    PROVE  v \in podToVnets(o, PodNS[p])
<1>0. v = <<v[1], v[2]>> /\ v[1] \in Namespaces /\ v[1] # NoNS /\ NoNS \notin Namespaces
  BY NamesAssumption DEF Vnets
<1>1. v[2] = Cluster => v = <<OperatorNS, Cluster>> /\ OperatorNS # NoNS
  BY <1>0 DEF Reserved
<1>2. stampedVnetKey(v) \in Keys
  BY DEF stampedVnetKey, Keys
<1>3. suffixVnet(stampedVnetKey(v), PodNS[p]) = v
  BY <1>0, <1>1 DEF suffixVnet, stampedVnetKey, ClusterKey
<1>4. CASE isStampedMember(o, v)
  BY <1>2, <1>3, <1>4 DEF isStampedMember, podToVnets
<1>5. CASE userVals(o, PodNS[p], v) # {}
  <2>1. PICK q \in o.joins : \/ q[1] = <<NoNS, v[2]>> /\ (PodNS[p] = v[1] \/ v[2] = Cluster)
                             \/ q[1] = v /\ v[2] # Cluster
    BY <1>5 DEF userVals
  <2>2. suffixVnet(q[1], PodNS[p]) = v
    BY <1>0, <1>1, <2>1 DEF suffixVnet, ClusterKey
  <2> QED BY <2>2 DEF podToVnets
<1> QED BY <1>4, <1>5

(* A pod's event that is not mapped to v is not about v.                   *)
LEMMA PodSight ==
    ASSUME TypeOK, Reserved(cache), NEW p \in Pods, DeliverPod(p),
           NEW v \in Vnets, v \notin queue', cache.vnet[v].present
    PROVE  Narrows(Sight(v), Sight(v)')
<1> DEFINE old == cache.pod[p]
           new == api.pod[p]
<1>0. /\ old \in PodObj /\ new \in PodObj
      /\ cache'.ns = cache.ns /\ cache'.dying = cache.dying /\ cache'.vnet = cache.vnet
      /\ notes' = notes
      /\ cache'.pod[p] = new /\ \A q \in Pods \ {p} : cache'.pod[q] = cache.pod[q]
      /\ v \notin podEvent(p, old, new)
  BY DEF TypeOK, Clusters, DeliverPod
<1>1. \A n : IsManaged(cache, n)' = IsManaged(cache, n) /\ Permitted(v, n)' = Permitted(v, n)
  BY <1>0 DEF IsManaged, Permitted, PermitsForVnet, matchesAllowedNamespaces
<1>2. \/ ~isStampedMember(old, v) /\ ~isStampedMember(new, v)
      \/ /\ isStampedMember(old, v) <=> isStampedMember(new, v)
         /\ new.stamps = old.stamps
  <2>1. CASE JoinLabelChangedPredicate(old, new)
    <3>1. ASSUME NEW o \in {old, new}, isStampedMember(o, v) PROVE FALSE
      <4>1. v \in podToVnets(o, PodNS[p]) /\ o.present
        BY <1>0, <3>1, NamedByPods DEF isStampedMember
      <4> QED BY <1>0, <2>1, <4>1 DEF podEvent
    <3> QED BY <3>1
  <2>2. CASE ~JoinLabelChangedPredicate(old, new)
    BY <2>2 DEF JoinLabelChangedPredicate, isStampedMember
  <2> QED BY <2>1, <2>2
<1>3. \/ /\ ~(old.present /\ userVals(old, PodNS[p], v) # {})
         /\ ~(new.present /\ userVals(new, PodNS[p], v) # {})
      \/ old.present = new.present /\ old.joins = new.joins
  <2>1. CASE JoinLabelChangedPredicate(old, new)
    <3>1. ASSUME NEW o \in {old, new}, o.present, userVals(o, PodNS[p], v) # {} PROVE FALSE
      <4>1. v \in podToVnets(o, PodNS[p])
        BY <1>0, <3>1, NamedByPods
      <4> QED BY <1>0, <2>1, <3>1, <4>1 DEF podEvent
    <3> QED BY <3>1
  <2>2. CASE ~JoinLabelChangedPredicate(old, new)
    BY <2>2 DEF JoinLabelChangedPredicate
  <2> QED BY <2>1, <2>2
<1> DEFINE k == stampedVnetKey(v)
<1>4. \A q \in Pods : \/ ~isStampedMember(cache.pod[q], v) /\ ~isStampedMember(cache'.pod[q], v)
                      \/ /\ isStampedMember(cache.pod[q], v) <=> isStampedMember(cache'.pod[q], v)
                         /\ cache'.pod[q].stamps = cache.pod[q].stamps
  BY <1>0, <1>2
<1>5. Sure(v)' = Sure(v) /\ Possible(v)' = Possible(v)
  BY <1>0, <1>1, <1>4 DEF Sure, Possible
<1>6. \A q \in Pods : q \in invalidJoiners(cache, v, cache.vnet[v])'
                         <=> q \in invalidJoiners(cache, v, cache.vnet[v])
  <2> SUFFICES ASSUME NEW q \in Pods
               PROVE  q \in invalidJoiners(cache, v, cache.vnet[v])'
                        <=> q \in invalidJoiners(cache, v, cache.vnet[v])
    OBVIOUS
  <2> DEFINE n == PodNS[q]
             Bad(o, perm, man) ==
                /\ o.present /\ userVals(o, n, v) # {} /\ perm
                /\ (\E x \in userVals(o, n, v) : ~ParseBareDirection(x)) \/ ~man \/ ~perm
  <2>1. q \in invalidJoiners(cache, v, cache.vnet[v])
          <=> Bad(cache.pod[q], Permitted(v, n), IsManaged(cache, n))
    BY DEF invalidJoiners, ineligible, Permitted
  <2>2. q \in invalidJoiners(cache, v, cache.vnet[v])'
          <=> Bad(cache'.pod[q], Permitted(v, n)', IsManaged(cache, n)')
    BY DEF invalidJoiners, ineligible, Permitted
  <2>3. \/ /\ ~(cache.pod[q].present /\ userVals(cache.pod[q], n, v) # {})
           /\ ~(cache'.pod[q].present /\ userVals(cache'.pod[q], n, v) # {})
        \/ /\ cache'.pod[q].present = cache.pod[q].present
           /\ cache'.pod[q].joins = cache.pod[q].joins
    BY <1>0, <1>3
  <2>4. cache'.pod[q].joins = cache.pod[q].joins =>
           userVals(cache'.pod[q], n, v) = userVals(cache.pod[q], n, v)
    BY DEF userVals
  <2> QED BY <1>1, <2>1, <2>2, <2>3, <2>4
<1>7. \A q \in Possible(v) : cache'.pod[q].stamps[k] = cache.pod[q].stamps[k]
  BY <1>0, <1>4 DEF Possible
<1>8. \A n : n \in Sight(v)'.told <=> n \in Sight(v).told
  BY <1>0, <1>1 DEF Sight
<1>9. \A q \in Pods : q \in Sight(v)'.unsure <=> q \in Sight(v).unsure
  BY <1>0, <1>1 DEF Sight
<1>10. \A q \in Possible(v) : Sight(v)'.dir[q] = Sight(v).dir[q]
  BY <1>7 DEF Sight, Possible
<1>11. /\ Sight(v)'.sure = Sure(v)' /\ Sight(v)'.possible = Possible(v)'
       /\ Sight(v)'.dying = cache'.dying
       /\ Sight(v)'.exact = (cache'.vnet[v].selector = {})
       /\ Sight(v)'.invalid = invalidJoiners(cache, v, cache.vnet[v])'
  BY DEF Sight
<1>12. Sight(v)'.exact = Sight(v).exact
  BY <1>0, <1>11, SightFields
<1> HIDE DEF old, new, k
<1> QED BY <1>0, <1>5, <1>6, <1>8, <1>9, <1>10, <1>11, <1>12, SightFields DEF Narrows

(* Another namespace than the vnet's home is noted when it changes.        *)
LEMMA NamespaceSight ==
    ASSUME TypeOK, NEW m \in Namespaces, DeliverNamespace(m), NEW v \in Vnets, v[1] # m
    PROVE  Serves(v)' = Serves(v) /\ Narrows(Sight(v), Sight(v)')
<1>0. /\ cache'.pod = cache.pod /\ cache'.vnet = cache.vnet
      /\ \A n \in Namespaces \ {m} : /\ cache'.ns[n] = cache.ns[n]
                                     /\ n \in notes' <=> n \in notes
                                     /\ n \in cache'.dying <=> n \in cache.dying
      /\ m \in notes' /\ notes \subseteq notes'
      /\ cache.dying \subseteq Namespaces /\ cache'.dying \subseteq Namespaces
      /\ v[1] \in Namespaces /\ PodNS \in [Pods -> Namespaces]
  BY NamesAssumption DEF TypeOK, Clusters, DeliverNamespace, Vnets
<1>1. \A n \in Namespaces \ {m} : /\ IsManaged(cache, n)' = IsManaged(cache, n)
                                  /\ Permitted(v, n)' = Permitted(v, n)
  <2> SUFFICES ASSUME NEW n \in Namespaces \ {m}
               PROVE  IsManaged(cache, n)' = IsManaged(cache, n) /\ Permitted(v, n)' = Permitted(v, n)
    OBVIOUS
  <2>1. cache'.ns[n] = cache.ns[n] /\ cache'.vnet[v] = cache.vnet[v]
    BY <1>0
  <2>2. IsManaged(cache, n)' = IsManaged(cache, n)
    BY <2>1 DEF IsManaged
  <2>3. Permitted(v, n)' = Permitted(v, n)
    BY <2>1 DEF Permitted, PermitsForVnet, matchesAllowedNamespaces
  <2> QED BY <2>2, <2>3
<1>2. cache.vnet[v].selector = {} => Permitted(v, m)' = Permitted(v, m)
  BY <1>0 DEF Permitted, PermitsForVnet, matchesAllowedNamespaces
<1>3. Serves(v)' = Serves(v)
  BY <1>0, <1>1 DEF Serves, homeServed
<1>4. Sure(v)' \subseteq Sure(v) /\ Possible(v) \subseteq Possible(v)'
  BY <1>0, <1>1 DEF Sure, Possible
<1>5. \A p \in Sure(v)' : PodNS[p] # m
  BY <1>0 DEF Sure
<1>6. ASSUME NEW p \in Pods, cache.vnet[v].selector = {},
             ~(PodNS[p] \in notes' /\ Permitted(v, PodNS[p])')
      PROVE  /\ ~(PodNS[p] \in notes /\ Permitted(v, PodNS[p]))
             /\ p \in invalidJoiners(cache, v, cache.vnet[v])
                  <=> p \in invalidJoiners(cache, v, cache.vnet[v])'
  <2>1. Permitted(v, PodNS[p])' = Permitted(v, PodNS[p])
    BY <1>0, <1>1, <1>2, <1>6
  <2>2. ~(PodNS[p] \in notes /\ Permitted(v, PodNS[p]))
    BY <1>0, <1>6, <2>1
  <2>3. CASE PodNS[p] = m
    <3>1. ~Permitted(v, PodNS[p])' /\ ~Permitted(v, PodNS[p])
      BY <1>0, <1>6, <2>1, <2>3
    <3> QED BY <2>2, <3>1 DEF invalidJoiners, Permitted
  <2>4. CASE PodNS[p] # m
    <3>1. IsManaged(cache, PodNS[p])' = IsManaged(cache, PodNS[p])
      BY <1>0, <1>1, <2>4
    <3> QED BY <1>0, <2>1, <2>2, <3>1 DEF invalidJoiners, ineligible, Permitted
  <2> QED BY <2>3, <2>4
<1>7. /\ Sight(v)'.sure = Sure(v)' /\ Sight(v)'.possible = Possible(v)'
      /\ Sight(v)'.dying = cache'.dying
      /\ Sight(v)'.exact = (cache'.vnet[v].selector = {})
      /\ Sight(v)'.invalid = invalidJoiners(cache, v, cache.vnet[v])'
      /\ \A p \in Pods : Sight(v)'.dir[p] = cache'.pod[p].stamps[stampedVnetKey(v)]
      /\ \A n : n \in Sight(v)'.told <=> n \in Namespaces /\ (n \in notes' \/ ~Permitted(v, n)')
      /\ \A p \in Pods : p \in Sight(v)'.unsure <=> PodNS[p] \in notes' /\ Permitted(v, PodNS[p])'
  BY DEF Sight
<1>8. \A n \in cache'.dying : n \in Sight(v)'.told \/ (n \in cache.dying /\ n \notin Sight(v).told)
  BY <1>0, <1>1, <1>7, SightFields
<1>9. \A n \in cache.dying \ cache'.dying : n = m
  BY <1>0
<1>10. Sight(v)'.exact = Sight(v).exact /\ (Sight(v).exact <=> cache.vnet[v].selector = {})
  BY <1>0, <1>7, SightFields
<1> QED BY <1>0, <1>3, <1>4, <1>5, <1>6, <1>7, <1>8, <1>9, <1>10, SightFields DEF Narrows

(* The vnets that admit a noted namespace are queued.                      *)
LEMMA NoteSight ==
    ASSUME TypeOK, NEW m \in Namespaces, HandleNamespace(m), NEW v \in Vnets, v \notin queue',
           cache.vnet[v].present
    PROVE  Narrows(Sight(v), Sight(v)') /\ v[1] # m
<1>0. cache' = cache /\ notes' = notes \ {m} /\ ~Permitted(v, m)
  BY DEF HandleNamespace, nsToVnets, Permitted
<1>1. \A n : IsManaged(cache, n)' = IsManaged(cache, n) /\ Permitted(v, n)' = Permitted(v, n)
  BY <1>0 DEF Permitted
<1>2. Sure(v)' = Sure(v) /\ Possible(v)' = Possible(v)
  BY <1>0, <1>1 DEF Sure, Possible
<1>3. invalidJoiners(cache, v, cache.vnet[v])' = invalidJoiners(cache, v, cache.vnet[v])
  BY <1>0
<1>4. Sight(v)' = Sight(v)
  BY <1>0, <1>1, <1>2, <1>3 DEF Sight
<1>5. v[1] # m
  BY <1>0 DEF Permitted, PermitsForVnet
<1> QED BY <1>4, <1>5, SightFields DEF Narrows

(* What is due stays due until the worker takes it, and a policy that is   *)
(* written makes its vnet due.                                             *)
LEMMA EnvironmentKeeps ==
    ASSUME Base, NEW v \in Vnets, ~Due(v)',
           \/ UserEdit \/ Deliver
           \/ \E n \in Namespaces : EmptyNamespace(n)
           \/ \E p \in Pods : Restamp(p)
           \/ \E w \in Vnets : Resync(w)
    PROVE  Kept(v) /\ (job # Idle /\ job.vnet = v => job' = job)
                   /\ (job' # Idle /\ job'.vnet = v => job # Idle /\ job.vnet = v)
<1>0. /\ TypeOK /\ Reserved(cache) /\ GoneIsEmpty
      /\ api \in Clusters /\ behind \in Behind /\ v \in Namespaces \X Names /\ v[1] \in Namespaces
      /\ v \notin queue' /\ v \notin behind'.vnet /\ \A n \in Namespaces : <<v, n>> \notin behind'.pol
      /\ ~(v[1] \in notes' /\ cache'.vnet[v].present)
  BY DEF Base, TypeOK, Due, Vnets
<1>1. ASSUME UNCHANGED <<cache, notes, queue>>, api'.pol[v] = api.pol[v],
             behind.vnet \subseteq behind'.vnet, behind.pol \subseteq behind'.pol
      PROVE  Kept(v)
  <2>1. ~Due(v)
    BY <1>0, <1>1 DEF Due
  <2> QED BY <1>1, <2>1, SameSight DEF Kept
<1>2. ASSUME NEW n \in Namespaces, EditNamespace(n)
      PROVE  Kept(v) /\ job' = job
  <2>1. /\ UNCHANGED <<cache, notes, queue, behind, job>>
        /\ \/ \E o : api' = [api EXCEPT !.ns[n] = o]
           \/ \E D : api' = [api EXCEPT !.dying = D]
    BY <1>2 DEF EditNamespace, Edit
  <2>2. api'.pol[v] = api.pol[v]
    BY <1>0, <2>1 DEF Clusters
  <2> QED BY <1>1, <2>1, <2>2
<1>3. ASSUME NEW w \in Vnets, EditVnet(w)
      PROVE  /\ Kept(v) /\ (job # Idle /\ job.vnet = v => job' = job)
             /\ (job' # Idle /\ job'.vnet = v => job # Idle /\ job.vnet = v)
  <2>1. /\ UNCHANGED <<cache, notes, queue>>
        /\ \E o, s : api' = [api EXCEPT !.vnet[w] = o, !.status[w] = s]
        /\ Outdate(w)
    BY <1>3 DEF EditVnet, Edit
  <2>2. api'.pol[v] = api.pol[v]
    BY <1>0, <2>1 DEF Clusters
  <2>3. behind'.vnet = behind.vnet \cup {w} /\ behind'.pol = behind.pol
    BY <1>0, <2>1 DEF Outdate, Behind
  <2>4. /\ job # Idle /\ job.vnet = v => job' = job
        /\ job' # Idle /\ job'.vnet = v => job # Idle /\ job.vnet = v
    <3>1. w # v /\ job \in Jobs
      BY <1>0, <2>3 DEF TypeOK
    <3>2. job # Idle => [job EXCEPT !.latest = FALSE].vnet = job.vnet
      BY <3>1 DEF Jobs, Tasks
    <3> QED BY <2>1, <3>1, <3>2 DEF Outdate
  <2> QED BY <1>1, <2>1, <2>2, <2>3, <2>4
<1>4. ASSUME NEW p \in Pods, CreatePod(p) \/ RelabelPod(p) \/ DeletePod(p) \/ Restamp(p)
      PROVE  Kept(v) /\ job' = job
  <2>1. /\ UNCHANGED <<cache, notes, queue, behind, job>>
        /\ \E o : api' = [api EXCEPT !.pod[p] = o]
    BY <1>4 DEF CreatePod, RelabelPod, DeletePod, Restamp, Edit
  <2>2. api'.pol[v] = api.pol[v]
    BY <1>0, <2>1 DEF Clusters
  <2> QED BY <1>1, <2>1, <2>2
<1>5. ASSUME NEW w \in Vnets, NEW n \in Namespaces, DamagePolicy(w, n)
      PROVE  Kept(v) /\ job' = job
  <2>1. /\ UNCHANGED <<cache, notes, queue, job>>
        /\ \E o : api' = [api EXCEPT !.pol[w][n] = o]
        /\ behind' = [behind EXCEPT !.pol = @ \cup {<<w, n>>}]
    BY <1>5 DEF DamagePolicy, Edit
  <2>2. behind'.vnet = behind.vnet /\ behind'.pol = behind.pol \cup {<<w, n>>}
    BY <1>0, <2>1 DEF Behind
  <2>3. w # v
    BY <1>0, <2>2
  <2>4. api'.pol[v] = api.pol[v]
    BY <1>0, <2>1, <2>3 DEF Clusters
  <2> QED BY <1>1, <2>1, <2>2, <2>4
<1>6. ASSUME NEW n \in Namespaces, EmptyNamespace(n)
      PROVE  Kept(v) /\ job' = job
  <2>1. /\ UNCHANGED <<cache, notes, queue, job>>
        /\ \/ \E w \in Vnets : /\ api' = [api EXCEPT !.pol[w][n] = NoPolicy]
                               /\ behind' = [behind EXCEPT !.pol = @ \cup {<<w, n>>}]
           \/ /\ api' = [api EXCEPT !.ns[n].present = FALSE, !.dying = @ \ {n}]
              /\ behind' = behind
    BY <1>6 DEF EmptyNamespace
  <2>2. CASE \E w \in Vnets : /\ api' = [api EXCEPT !.pol[w][n] = NoPolicy]
                              /\ behind' = [behind EXCEPT !.pol = @ \cup {<<w, n>>}]
    <3>1. PICK w \in Vnets : /\ api' = [api EXCEPT !.pol[w][n] = NoPolicy]
                             /\ behind' = [behind EXCEPT !.pol = @ \cup {<<w, n>>}]
      BY <2>2
    <3>2. behind'.vnet = behind.vnet /\ behind'.pol = behind.pol \cup {<<w, n>>}
      BY <1>0, <3>1 DEF Behind
    <3>3. w # v
      BY <1>0, <3>2
    <3>4. api'.pol[v] = api.pol[v]
      BY <1>0, <3>1, <3>3 DEF Clusters
    <3> QED BY <1>1, <2>1, <3>2, <3>4
  <2>3. CASE api' = [api EXCEPT !.ns[n].present = FALSE, !.dying = @ \ {n}] /\ behind' = behind
    <3>1. api'.pol[v] = api.pol[v]
      BY <1>0, <2>3 DEF Clusters
    <3> QED BY <1>1, <2>1, <2>3, <3>1
  <2> QED BY <2>1, <2>2, <2>3
<1>7. ASSUME NEW w \in Vnets, Resync(w) PROVE Kept(v) /\ job' = job
  <2>1. UNCHANGED <<api, cache, behind, notes, job>> /\ queue \subseteq queue'
    BY <1>7 DEF Resync
  <2>2. ~Due(v)
    BY <1>0, <2>1 DEF Due
  <2> QED BY <2>1, <2>2, SameSight DEF Kept
<1>8. ASSUME NEW p \in Pods, DeliverPod(p) PROVE Kept(v) /\ job' = job
  <2>1. /\ UNCHANGED <<api, behind, notes, job>> /\ queue \subseteq queue'
        /\ cache'.ns = cache.ns /\ cache'.dying = cache.dying /\ cache'.vnet = cache.vnet
        /\ cache'.status = cache.status
    BY <1>0, <1>8 DEF DeliverPod, TypeOK, Clusters
  <2>2. ~Due(v)
    BY <1>0, <2>1 DEF Due
  <2>3. Serves(v)' = Serves(v)
    BY <2>1 DEF Serves, homeServed, IsManaged
  <2>4. Serves(v) => Narrows(Sight(v), Sight(v)')
    BY <1>0, <1>8, PodSight DEF Serves
  <2> QED BY <2>1, <2>2, <2>3, <2>4 DEF Kept
<1>9. ASSUME NEW n \in Namespaces, DeliverNamespace(n) PROVE Kept(v) /\ job' = job
  <2>1. /\ UNCHANGED <<api, behind, queue, job>> /\ notes' = notes \cup {n}
        /\ cache'.vnet = cache.vnet /\ cache'.status = cache.status
        /\ cache'.dying = (cache.dying \ {n}) \cup (api.dying \cap {n})
    BY <1>0, <1>9 DEF DeliverNamespace, TypeOK, Clusters
  <2>2. ~Due(v)
    BY <1>0, <2>1 DEF Due
  <2>3. \A m \in cache.dying \ cache'.dying : ~api.pol[v][m].present
    BY <1>0, <2>1 DEF GoneIsEmpty
  <2>4. CASE v[1] = n
    <3>1. ~cache.vnet[v].present
      BY <1>0, <2>1, <2>4
    <3>2. Serves(v)' = FALSE /\ Serves(v) = FALSE
      BY <2>1, <3>1 DEF Serves
    <3> QED BY <2>1, <2>2, <3>2 DEF Kept
  <2>5. CASE v[1] # n
    <3>1. Serves(v)' = Serves(v) /\ Narrows(Sight(v), Sight(v)')
      BY <1>0, <1>9, <2>5, NamespaceSight
    <3> QED BY <2>1, <2>2, <2>3, <3>1 DEF Kept
  <2> QED BY <2>4, <2>5
<1>10. ASSUME NEW n \in Namespaces, HandleNamespace(n) PROVE Kept(v) /\ job' = job
  <2>1. UNCHANGED <<api, cache, behind, job>> /\ notes' = notes \ {n} /\ queue \subseteq queue'
    BY <1>10 DEF HandleNamespace
  <2>2. cache.vnet[v].present => Narrows(Sight(v), Sight(v)') /\ v[1] # n
    BY <1>0, <1>10, NoteSight
  <2>3. ~Due(v)
    BY <1>0, <2>1, <2>2 DEF Due
  <2>4. Serves(v)' = Serves(v)
    BY <2>1 DEF Serves, homeServed
  <2> QED BY <2>1, <2>2, <2>3, <2>4 DEF Kept, Serves
<1>11. ASSUME NEW w \in Vnets, DeliverVnet(w) PROVE Kept(v) /\ job' = job
  <2>1. /\ UNCHANGED <<api, notes, job>> /\ queue' = queue \cup {w}
        /\ cache' = [cache EXCEPT !.vnet[w] = api.vnet[w], !.status[w] = api.status[w]]
        /\ behind'.vnet = behind.vnet \ {w} /\ behind'.pol = behind.pol
    BY <1>0, <1>11 DEF DeliverVnet, Behind
  <2>2. w # v
    BY <1>0, <2>1
  <2>3. /\ cache'.vnet[v] = cache.vnet[v] /\ cache'.status[v] = cache.status[v]
        /\ cache'.ns = cache.ns /\ cache'.pod = cache.pod /\ cache'.dying = cache.dying
    BY <1>0, <2>1, <2>2 DEF TypeOK, Clusters
  <2>4. ~Due(v)
    BY <1>0, <2>1, <2>2, <2>3 DEF Due
  <2> QED BY <2>1, <2>3, <2>4, SameSight DEF Kept
<1>12. ASSUME NEW w \in Vnets, NEW n \in Namespaces, DeliverPolicy(w, n) PROVE Kept(v) /\ job' = job
  <2>1. /\ UNCHANGED <<api, notes, job>> /\ queue' = queue \cup {w}
        /\ cache' = [cache EXCEPT !.pol[w][n] = api.pol[w][n]]
        /\ behind'.vnet = behind.vnet /\ behind'.pol = behind.pol \ {<<w, n>>}
    BY <1>0, <1>12 DEF DeliverPolicy, policyToVNet, Behind
  <2>2. w # v
    BY <1>0, <2>1
  <2>3. /\ cache'.vnet = cache.vnet /\ cache'.status = cache.status
        /\ cache'.ns = cache.ns /\ cache'.pod = cache.pod /\ cache'.dying = cache.dying
    BY <1>0, <2>1, <2>2 DEF TypeOK, Clusters
  <2>4. ~Due(v)
    BY <1>0, <2>1, <2>2, <2>3 DEF Due
  <2> QED BY <2>1, <2>3, <2>4, SameSight DEF Kept
<1> QED
  BY <1>2, <1>3, <1>4, <1>5, <1>6, <1>7, <1>8, <1>9, <1>10, <1>11, <1>12 DEF UserEdit, Deliver

-----------------------------------------------------------------------------
(* The state outside the worker.                                           *)

(* What is written without telling the informers is not read from caches.  *)
LEMMA WritesAreSeen ==
    ASSUME Base, UNCHANGED cache,
           behind.vnet \subseteq behind'.vnet, behind.pol \subseteq behind'.pol,
           \A v \in Vnets : \/ v \in behind'.vnet
                            \/ api'.vnet[v] = api.vnet[v] /\ api'.status[v] = api.status[v],
           \A v \in Vnets, n \in Namespaces : \/ <<v, n>> \in behind'.pol
                                              \/ api'.pol[v][n] = api.pol[v][n],
           \A v \in Vnets, n \in Namespaces : api'.pol[v][n].present =>
                api.pol[v][n].present \/ n \notin cache.dying,
           \A n \in api.dying \ api'.dying : \A v \in Vnets : ~api'.pol[v][n].present,
           cache.dying \subseteq Namespaces
    PROVE  CacheFollows' /\ GoneIsEmpty' /\ Reserved(cache)'
<1>1. CacheFollows'
  BY DEF Base, CacheFollows
<1>2. GoneIsEmpty'
  BY DEF Base, GoneIsEmpty
<1>3. Reserved(cache)'
  BY DEF Base, Reserved
<1> QED BY <1>1, <1>2, <1>3

(* Users' edits, the namespace controller and resolution.                  *)
LEMMA OutsideBase ==
    ASSUME Base, \/ UserEdit \/ \E n \in Namespaces : EmptyNamespace(n)
                 \/ \E p \in Pods : Restamp(p)
    PROVE  CacheFollows' /\ GoneIsEmpty' /\ Reserved(api)' /\ Reserved(cache)' /\ PodsHaveHomes'
<1>0. /\ api \in Clusters /\ behind \in Behind /\ cache.dying \subseteq Namespaces
      /\ PodNS \in [Pods -> Namespaces] /\ Reserved(api) /\ PodsHaveHomes /\ GoneIsEmpty
  BY NamesAssumption DEF Base, TypeOK, Clusters
<1>1. ASSUME NEW n \in Namespaces, EditNamespace(n)
      PROVE  CacheFollows' /\ GoneIsEmpty' /\ Reserved(api)' /\ Reserved(cache)' /\ PodsHaveHomes'
  <2>1. /\ UNCHANGED <<cache, behind>>
        /\ \/ \E o : o.present /\ api' = [api EXCEPT !.ns[n] = o]
           \/ api' = [api EXCEPT !.dying = @ \cup {n}]
    BY <1>1 DEF EditNamespace, Edit
  <2>2. /\ api'.vnet = api.vnet /\ api'.status = api.status /\ api'.pol = api.pol /\ api'.pod = api.pod
        /\ api.dying \subseteq api'.dying
        /\ \A m \in Namespaces : api.ns[m].present => api'.ns[m].present
    BY <1>0, <2>1 DEF Clusters
  <2>3. Reserved(api)' /\ PodsHaveHomes'
    BY <1>0, <2>2 DEF Reserved, PodsHaveHomes
  <2> QED BY <1>0, <2>1, <2>2, <2>3, WritesAreSeen
<1>2. ASSUME NEW v \in Vnets, EditVnet(v)
      PROVE  CacheFollows' /\ GoneIsEmpty' /\ Reserved(api)' /\ Reserved(cache)' /\ PodsHaveHomes'
  <2>1. PICK o \in VnetValues[v] : \E s : api' = [api EXCEPT !.vnet[v] = o, !.status[v] = s]
    BY <1>2 DEF EditVnet, Edit
  <2>2. UNCHANGED cache /\ behind'.vnet = behind.vnet \cup {v} /\ behind'.pol = behind.pol
    BY <1>0, <1>2 DEF EditVnet, Edit, Outdate, Behind
  <2>3. /\ api'.pol = api.pol /\ api'.pod = api.pod /\ api'.ns = api.ns /\ api'.dying = api.dying
        /\ api'.vnet[v] = o
        /\ \A w \in Vnets \ {v} : api'.vnet[w] = api.vnet[w] /\ api'.status[w] = api.status[w]
    BY <1>0, <2>1 DEF Clusters
  <2>4. v[2] = Cluster /\ o.present => v = <<OperatorNS, Cluster>> /\ isSystem(v) /\ o.all
    BY ReservedNameAssumption
  <2>5. Reserved(api)'
    BY <1>0, <2>3, <2>4 DEF Reserved
  <2>6. PodsHaveHomes'
    BY <1>0, <2>3 DEF PodsHaveHomes
  <2> QED BY <1>0, <2>2, <2>3, <2>5, <2>6, WritesAreSeen
<1>3. ASSUME NEW p \in Pods, CreatePod(p) \/ RelabelPod(p) \/ DeletePod(p) \/ Restamp(p)
      PROVE  CacheFollows' /\ GoneIsEmpty' /\ Reserved(api)' /\ Reserved(cache)' /\ PodsHaveHomes'
  <2>1. /\ UNCHANGED <<cache, behind>>
        /\ \E o : api' = [api EXCEPT !.pod[p] = o]
    BY <1>3 DEF CreatePod, RelabelPod, DeletePod, Restamp, Edit
  <2>2. api.pod[p].present \/ Alive(PodNS[p])
    BY <1>3 DEF CreatePod, RelabelPod, DeletePod, Restamp
  <2>3. /\ api'.pol = api.pol /\ api'.vnet = api.vnet /\ api'.ns = api.ns /\ api'.dying = api.dying
        /\ api'.status = api.status
        /\ \A q \in Pods \ {p} : api'.pod[q] = api.pod[q]
    BY <1>0, <2>1 DEF Clusters
  <2>4. Reserved(api)' /\ PodsHaveHomes'
    BY <1>0, <2>2, <2>3 DEF Reserved, PodsHaveHomes, Alive
  <2> QED BY <1>0, <2>1, <2>3, <2>4, WritesAreSeen
<1>4. ASSUME NEW v \in Vnets, NEW n \in Namespaces, api.pol[v][n].present,
             \E o : api' = [api EXCEPT !.pol[v][n] = o],
             behind' = [behind EXCEPT !.pol = @ \cup {<<v, n>>}], UNCHANGED cache
      PROVE  CacheFollows' /\ GoneIsEmpty' /\ Reserved(api)' /\ Reserved(cache)' /\ PodsHaveHomes'
  <2>1. behind'.vnet = behind.vnet /\ behind'.pol = behind.pol \cup {<<v, n>>}
    BY <1>0, <1>4 DEF Behind
  <2>2. /\ api'.pod = api.pod /\ api'.vnet = api.vnet /\ api'.ns = api.ns /\ api'.dying = api.dying
        /\ api'.status = api.status
        /\ \A w \in Vnets, m \in Namespaces : <<w, m>> # <<v, n>> => api'.pol[w][m] = api.pol[w][m]
    BY <1>0, <1>4 DEF Clusters
  <2>3. Reserved(api)' /\ PodsHaveHomes'
    BY <1>0, <2>2 DEF Reserved, PodsHaveHomes
  <2>4. \A w \in Vnets, m \in Namespaces : api'.pol[w][m].present => api.pol[w][m].present
    BY <1>4, <2>2
  <2> QED BY <1>0, <1>4, <2>1, <2>2, <2>3, <2>4, WritesAreSeen
<1>5. ASSUME NEW n \in Namespaces, EmptyNamespace(n)
      PROVE  CacheFollows' /\ GoneIsEmpty' /\ Reserved(api)' /\ Reserved(cache)' /\ PodsHaveHomes'
  <2>1. CASE /\ \A p \in Pods : PodNS[p] = n => ~api.pod[p].present
             /\ \A v \in Vnets : ~api.pol[v][n].present
             /\ api' = [api EXCEPT !.ns[n].present = FALSE, !.dying = @ \ {n}]
             /\ UNCHANGED <<cache, behind>>
    <3>1. /\ api'.pod = api.pod /\ api'.vnet = api.vnet
          /\ api'.pol = api.pol /\ api'.status = api.status
          /\ api'.dying = api.dying \ {n} /\ \A m \in Namespaces \ {n} : api'.ns[m] = api.ns[m]
      BY <1>0, <2>1 DEF Clusters
    <3>2. Reserved(api)' /\ PodsHaveHomes'
      BY <1>0, <2>1, <3>1 DEF Reserved, PodsHaveHomes
    <3> QED BY <1>0, <2>1, <3>1, <3>2, WritesAreSeen
  <2>2. CASE /\ \E v \in {w \in Vnets : api.pol[w][n].present} :
                   /\ api' = [api EXCEPT !.pol[v][n] = NoPolicy]
                   /\ behind' = [behind EXCEPT !.pol = @ \cup {<<v, n>>}]
             /\ UNCHANGED cache
    BY <1>4, <2>2
  <2> QED BY <1>5, <2>1, <2>2 DEF EmptyNamespace
<1>6. ASSUME NEW v \in Vnets, NEW n \in Namespaces, DamagePolicy(v, n)
      PROVE  CacheFollows' /\ GoneIsEmpty' /\ Reserved(api)' /\ Reserved(cache)' /\ PodsHaveHomes'
  BY <1>4, <1>6 DEF DamagePolicy, Edit
<1> QED BY <1>1, <1>2, <1>3, <1>5, <1>6 DEF UserEdit

(* The informers and timers.                                               *)
LEMMA DeliverBase ==
    ASSUME Base, Deliver \/ \E v \in Vnets : Resync(v)
    PROVE  CacheFollows' /\ GoneIsEmpty' /\ Reserved(api)' /\ Reserved(cache)' /\ PodsHaveHomes'
<1>0. /\ api \in Clusters /\ cache \in Clusters /\ behind \in Behind
      /\ Reserved(api) /\ Reserved(cache) /\ PodsHaveHomes /\ GoneIsEmpty /\ CacheFollows
  BY DEF Base, TypeOK
<1>1. Reserved(api)' /\ PodsHaveHomes' /\ UNCHANGED api
  <2>1. UNCHANGED api
    BY DEF Deliver, DeliverPod, DeliverNamespace, DeliverVnet, DeliverPolicy, HandleNamespace,
           Resync
  <2> QED BY <1>0, <2>1 DEF Reserved, PodsHaveHomes
<1>2. ASSUME UNCHANGED behind, cache'.vnet = cache.vnet, cache'.status = cache.status,
             cache'.pol = cache.pol, cache'.dying \ api.dying \subseteq cache.dying
      PROVE  CacheFollows' /\ GoneIsEmpty' /\ Reserved(cache)'
  BY <1>0, <1>1, <1>2 DEF CacheFollows, GoneIsEmpty, Reserved
<1>3. ASSUME NEW p \in Pods, DeliverPod(p) PROVE CacheFollows' /\ GoneIsEmpty' /\ Reserved(cache)'
  <2>1. /\ UNCHANGED behind /\ cache'.vnet = cache.vnet /\ cache'.status = cache.status
        /\ cache'.pol = cache.pol /\ cache'.dying = cache.dying
    BY <1>0, <1>3 DEF DeliverPod, Clusters
  <2> QED BY <1>2, <2>1
<1>4. ASSUME NEW n \in Namespaces, DeliverNamespace(n)
      PROVE CacheFollows' /\ GoneIsEmpty' /\ Reserved(cache)'
  <2>1. /\ UNCHANGED behind /\ cache'.vnet = cache.vnet /\ cache'.status = cache.status
        /\ cache'.pol = cache.pol /\ cache'.dying = (cache.dying \ {n}) \cup (api.dying \cap {n})
    BY <1>0, <1>4 DEF DeliverNamespace, Clusters
  <2> QED BY <1>2, <2>1
<1>5. ASSUME \/ \E n \in Namespaces : HandleNamespace(n)
             \/ \E v \in Vnets : Resync(v)
      PROVE CacheFollows' /\ GoneIsEmpty' /\ Reserved(cache)'
  <2>1. UNCHANGED <<behind, cache>>
    BY <1>5 DEF HandleNamespace, Resync
  <2> QED BY <1>2, <2>1
<1>6. ASSUME NEW v \in Vnets, DeliverVnet(v) PROVE CacheFollows' /\ GoneIsEmpty' /\ Reserved(cache)'
  <2>1. /\ behind'.vnet = behind.vnet \ {v} /\ behind'.pol = behind.pol
        /\ cache'.pol = cache.pol /\ cache'.dying = cache.dying
        /\ cache'.vnet[v] = api.vnet[v] /\ cache'.status[v] = api.status[v]
        /\ \A w \in Vnets \ {v} : /\ cache'.vnet[w] = cache.vnet[w]
                                  /\ cache'.status[w] = cache.status[w]
    BY <1>0, <1>6 DEF DeliverVnet, Clusters, Behind
  <2>2. CacheFollows'
    BY <1>0, <1>1, <2>1 DEF CacheFollows
  <2>3. GoneIsEmpty' /\ Reserved(cache)'
    BY <1>0, <1>1, <2>1 DEF GoneIsEmpty, Reserved
  <2> QED BY <2>2, <2>3
<1>7. ASSUME NEW v \in Vnets, NEW n \in Namespaces, DeliverPolicy(v, n)
      PROVE  CacheFollows' /\ GoneIsEmpty' /\ Reserved(cache)'
  <2>1. /\ behind'.vnet = behind.vnet /\ behind'.pol = behind.pol \ {<<v, n>>}
        /\ cache'.vnet = cache.vnet /\ cache'.status = cache.status /\ cache'.dying = cache.dying
        /\ cache'.pol[v][n] = api.pol[v][n]
        /\ \A w \in Vnets, m \in Namespaces :
              <<w, m>> # <<v, n>> => cache'.pol[w][m] = cache.pol[w][m]
    BY <1>0, <1>7 DEF DeliverPolicy, Clusters, Behind
  <2>2. CacheFollows'
    BY <1>0, <1>1, <2>1 DEF CacheFollows
  <2>3. GoneIsEmpty' /\ Reserved(cache)'
    BY <1>0, <1>1, <2>1 DEF GoneIsEmpty, Reserved
  <2> QED BY <2>2, <2>3
<1> QED BY <1>1, <1>3, <1>4, <1>5, <1>6, <1>7 DEF Deliver

(* All of that keeps the invariant.                                        *)
LEMMA EnvironmentStep ==
    ASSUME IInv, \/ UserEdit \/ Deliver
                 \/ \E n \in Namespaces : EmptyNamespace(n)
                 \/ \E p \in Pods : Restamp(p)
                 \/ \E w \in Vnets : Resync(w)
    PROVE  IInv'
<1>1. Base'
  BY UserEditType, OutsideType, DeliverType, OutsideBase, DeliverBase DEF IInv, Base
<1>2. ASSUME NEW v \in Vnets, ~Due(v)'
      PROVE  /\ Kept(v) /\ (job # Idle /\ job.vnet = v => job' = job)
             /\ (job' # Idle /\ job'.vnet = v => job # Idle /\ job.vnet = v)
  BY <1>2, EnvironmentKeeps DEF IInv
<1>3. Rested'
  <2> SUFFICES ASSUME NEW v \in Vnets, ~Due(v)', ~(job' # Idle /\ job'.vnet = v)
               PROVE  AtRest(v)'
    BY DEF Rested
  <2>1. Kept(v) /\ ~(job # Idle /\ job.vnet = v)
    BY <1>2
  <2>2. AtRest(v)
    BY <2>1 DEF IInv, Rested, Kept
  <2> QED BY <2>1, <2>2, KeptIsRight
<1>4. JobIsCurrent'
  <2> SUFFICES ASSUME NEW v \in Vnets, ~Due(v)', job' # Idle, job'.vnet = v
               PROVE  TaskRight(job, v)'
    BY DEF JobIsCurrent
  <2>1. Kept(v) /\ job # Idle /\ job.vnet = v /\ job' = job
    BY <1>2
  <2>2. TaskRight(job, v)
    BY <2>1 DEF IInv, JobIsCurrent, Kept
  <2> QED BY <2>1, <2>2, KeptIsRight
<1> QED BY <1>1, <1>3, <1>4 DEF IInv

-----------------------------------------------------------------------------
(* The worker's writes.                                                    *)

(* A status that is written is one the informers will show.                *)
LEMMA StatusWrite ==
    ASSUME TypeOK, job \in Tasks, NEW s \in StatusObj, writeStatus(s)
    PROVE  /\ api'.ns = api.ns /\ api'.dying = api.dying /\ api'.vnet = api.vnet
           /\ api'.pod = api.pod /\ api'.pol = api.pol
           /\ behind.vnet \subseteq behind'.vnet /\ behind'.pol = behind.pol
           /\ \A v \in Vnets : v \in behind'.vnet \/ api'.status[v] = api.status[v]
           /\ needsWrite(s) /\ job.latest => job.vnet \in behind'.vnet
<1>0. api \in Clusters /\ behind \in Behind /\ job.vnet \in Vnets
  BY DEF TypeOK, Tasks
<1>1. CASE needsWrite(s) /\ job.latest
  BY <1>0, <1>1 DEF writeStatus, Clusters, Behind
<1>2. CASE ~(needsWrite(s) /\ job.latest)
  BY <1>0, <1>2 DEF writeStatus
<1> QED BY <1>1, <1>2

(* So is a policy; the others stay as they are.                            *)
LEMMA PolicyWrite ==
    ASSUME TypeOK, job \in Tasks, NEW P \in [Namespaces -> PolicyObj], WritePolicies(P)
    PROVE  /\ api'.ns = api.ns /\ api'.dying = api.dying /\ api'.vnet = api.vnet
           /\ api'.pod = api.pod /\ api'.status = api.status
           /\ behind'.vnet = behind.vnet /\ behind.pol \subseteq behind'.pol
           /\ api'.pol[job.vnet] = P
           /\ \A v \in Vnets \ {job.vnet} : api'.pol[v] = api.pol[v]
           /\ \A v \in Vnets, n \in Namespaces :
                 <<v, n>> \in behind'.pol \/ api'.pol[v][n] = api.pol[v][n]
<1>0. api \in Clusters /\ behind \in Behind /\ job.vnet \in Vnets
  BY DEF TypeOK, Tasks
<1>1. /\ api'.ns = api.ns /\ api'.dying = api.dying /\ api'.vnet = api.vnet
      /\ api'.pod = api.pod /\ api'.status = api.status
      /\ api'.pol[job.vnet] = P
      /\ \A v \in Vnets \ {job.vnet} : api'.pol[v] = api.pol[v]
  BY <1>0 DEF WritePolicies, Clusters
<1>2. /\ behind'.vnet = behind.vnet
      /\ behind'.pol = behind.pol \cup {<<job.vnet, n>> :
                          n \in {x \in Namespaces : P[x] # api.pol[job.vnet][x]}}
  BY <1>0 DEF WritePolicies, Behind
<1>3. \A n \in Namespaces : <<job.vnet, n>> \in behind'.pol \/ P[n] = api.pol[job.vnet][n]
  BY <1>2
<1> QED BY <1>1, <1>2, <1>3

(* Deleting policies: every one there is goes, or the vnet is due.         *)
LEMMA PolicyDelete ==
    ASSUME TypeOK, job \in Tasks, NEW S, DeletePolicies(S)
    PROVE  /\ api'.ns = api.ns /\ api'.dying = api.dying /\ api'.vnet = api.vnet
           /\ api'.pod = api.pod /\ api'.status = api.status
           /\ behind'.vnet = behind.vnet /\ behind.pol \subseteq behind'.pol
           /\ \A v \in Vnets \ {job.vnet} : api'.pol[v] = api.pol[v]
           /\ \A n \in Namespaces : n \in S => ~api'.pol[job.vnet][n].present
           /\ \A v \in Vnets, n \in Namespaces :
                 /\ <<v, n>> \in behind'.pol \/ api'.pol[v][n] = api.pol[v][n]
                 /\ api'.pol[v][n].present => api.pol[v][n].present
<1> DEFINE P == [n \in Namespaces |-> IF n \in S THEN NoPolicy ELSE api.pol[job.vnet][n]]
<1>1. P \in [Namespaces -> PolicyObj]
  <2>1. NoPolicy \in PolicyObj
    BY DEF NoPolicy, PolicyObj
  <2>2. api.pol[job.vnet] \in [Namespaces -> PolicyObj]
    BY DEF TypeOK, Tasks, Clusters
  <2> QED BY <2>1, <2>2
<1>2. WritePolicies(P)
  BY DEF DeletePolicies
<1>3. \A n \in Namespaces : /\ n \in S => ~P[n].present
                            /\ P[n].present => api.pol[job.vnet][n].present
  BY DEF NoPolicy
<1> HIDE DEF P
<1> QED BY <1>1, <1>2, <1>3, PolicyWrite

(* A worker at work is not idle.                                           *)
LEMMA WorkerBusy ==
    ASSUME TypeOK, Progress
    PROVE  /\ job \in Tasks /\ job # Idle /\ job.vnet \in Vnets
           /\ job.desired \in [Namespaces -> PolicyObj]
<1>1. job.pc \in {"home", "excluded", "discover", "apply", "status", "purge"}
  BY DEF Progress, CheckHome, reportExcluded, discover, applyPolicy, sweep, updateStatus, purge
<1>2. job # Idle
  BY <1>1 DEF Idle
<1> QED BY <1>2 DEF TypeOK, Jobs, Tasks

(* The worker reads caches and writes to the API server, and the informers *)
(* are told of each write.                                                 *)
LEMMA WorkerWrites ==
    ASSUME Base, Progress
    PROVE  /\ UNCHANGED <<cache, notes>> /\ queue \subseteq queue'
           /\ api'.ns = api.ns /\ api'.dying = api.dying /\ api'.vnet = api.vnet /\ api'.pod = api.pod
           /\ behind.vnet \subseteq behind'.vnet /\ behind.pol \subseteq behind'.pol
           /\ \A v \in Vnets : v \in behind'.vnet \/ api'.status[v] = api.status[v]
           /\ \A v \in Vnets, n \in Namespaces :
                 /\ <<v, n>> \in behind'.pol \/ api'.pol[v][n] = api.pol[v][n]
                 /\ api'.pol[v][n].present => api.pol[v][n].present \/ n \notin cache.dying
<1>0. TypeOK /\ job \in Tasks /\ job.vnet \in Vnets /\ job.desired \in [Namespaces -> PolicyObj]
  BY WorkerBusy DEF Base
<1> DEFINE Told == /\ api'.ns = api.ns /\ api'.dying = api.dying
                   /\ api'.vnet = api.vnet /\ api'.pod = api.pod
                   /\ behind.vnet \subseteq behind'.vnet /\ behind.pol \subseteq behind'.pol
                   /\ \A v \in Vnets : v \in behind'.vnet \/ api'.status[v] = api.status[v]
                   /\ \A v \in Vnets, n \in Namespaces :
                         /\ <<v, n>> \in behind'.pol \/ api'.pol[v][n] = api.pol[v][n]
                         /\ api'.pol[v][n].present => api.pol[v][n].present \/ n \notin cache.dying
<1>1. UNCHANGED <<api, behind>> => Told
  OBVIOUS
<1>2. \A s \in StatusObj : writeStatus(s) => Told
  BY <1>0, StatusWrite
<1>3. \A S : DeletePolicies(S) => Told
  BY <1>0, PolicyDelete
<1>4. Fail \/ Succeed \/ Stop => queue \subseteq queue'
  BY DEF Fail, Succeed, Stop
<1>5. ASSUME NEW n \in Namespaces, applyPolicy(n) PROVE Told
  <2>1. CASE UNCHANGED <<api, behind>>
    BY <1>1, <2>1
  <2>2. CASE /\ ~namespaceTerminating(n)
             /\ WritePolicies([api.pol[job.vnet] EXCEPT ![n] = job.desired[n]])
    <3> DEFINE P == [api.pol[job.vnet] EXCEPT ![n] = job.desired[n]]
    <3>1. P \in [Namespaces -> PolicyObj] /\ \A m \in Namespaces \ {n} : P[m] = api.pol[job.vnet][m]
      BY <1>0 DEF TypeOK, Clusters
    <3>2. WritePolicies(P) /\ n \notin cache.dying
      BY <2>2 DEF namespaceTerminating
    <3> HIDE DEF P
    <3> QED BY <1>0, <3>1, <3>2, PolicyWrite
  <2> QED BY <1>5, <2>1, <2>2 DEF applyPolicy
<1> HIDE DEF Told
<1>6. Told
  <2>1. CASE CheckHome \/ discover
    BY <1>1, <2>1 DEF CheckHome, discover
  <2>2. CASE reportExcluded
    BY <1>1, <1>2, <2>2, StatusTypes DEF reportExcluded
  <2>3. CASE sweep \/ purge
    BY <1>3, <2>3 DEF sweep, purge
  <2>4. CASE updateStatus
    BY <1>0, <1>1, <1>2, <2>4, StatusTypes DEF updateStatus
  <2> QED BY <1>5, <2>1, <2>2, <2>3, <2>4 DEF Progress
<1>7. UNCHANGED <<cache, notes>>
  BY DEF Progress, CheckHome, reportExcluded, discover, applyPolicy, sweep, updateStatus, purge
<1>8. queue \subseteq queue'
  BY <1>4 DEF Progress, CheckHome, reportExcluded, discover, applyPolicy, sweep, updateStatus, purge
<1> QED BY <1>6, <1>7, <1>8 DEF Told

(* So it keeps what it does not make due.                                  *)
LEMMA WorkerKeeps ==
    ASSUME Base, Base', NEW v \in Vnets, ~Due(v)',
           Progress
    PROVE  Kept(v)
<1>1. /\ UNCHANGED <<cache, notes>> /\ queue \subseteq queue'
      /\ behind.vnet \subseteq behind'.vnet /\ behind.pol \subseteq behind'.pol
      /\ \A n \in Namespaces : <<v, n>> \in behind'.pol \/ api'.pol[v][n] = api.pol[v][n]
  BY WorkerWrites
<1>2. ~Due(v) /\ \A n \in Namespaces : <<v, n>> \notin behind'.pol
  BY <1>1 DEF Due
<1>3. api'.pol[v] \in [Namespaces -> PolicyObj] /\ api.pol[v] \in [Namespaces -> PolicyObj]
  BY DEF Base, TypeOK, Clusters
<1>4. api'.pol[v] = api.pol[v]
  <2>1. \A n \in Namespaces : api'.pol[v][n] = api.pol[v][n]
    BY <1>1, <1>2
  <2> QED BY <1>3, <2>1
<1> QED BY <1>1, <1>2, <1>4, SameSight DEF Kept

(* It keeps the state outside it as it should be.                          *)
LEMMA WorkerBase == ASSUME Base, Reconcile PROVE Base'
<1>1. TypeOK'
  BY ReconcileType DEF Base
<1>2. cache.dying \subseteq Namespaces
  BY DEF Base, TypeOK, Clusters
<1>3. CASE \E v \in Vnets : Begin(v)
  <2>1. UNCHANGED <<api, cache, behind>>
    BY <1>3 DEF Begin
  <2> QED BY <1>1, <2>1 DEF Base, CacheFollows, GoneIsEmpty, Reserved, PodsHaveHomes
<1>4. CASE Progress
  <2>1. /\ UNCHANGED <<cache, notes>>
        /\ api'.ns = api.ns /\ api'.dying = api.dying /\ api'.vnet = api.vnet /\ api'.pod = api.pod
        /\ behind.vnet \subseteq behind'.vnet /\ behind.pol \subseteq behind'.pol
        /\ \A v \in Vnets : v \in behind'.vnet \/ api'.status[v] = api.status[v]
        /\ \A v \in Vnets, n \in Namespaces :
              /\ <<v, n>> \in behind'.pol \/ api'.pol[v][n] = api.pol[v][n]
              /\ api'.pol[v][n].present => api.pol[v][n].present \/ n \notin cache.dying
    BY <1>4, WorkerWrites
  <2>2. CacheFollows' /\ GoneIsEmpty' /\ Reserved(cache)'
    BY <1>2, <2>1, WritesAreSeen
  <2>3. Reserved(api)' /\ PodsHaveHomes'
    BY <2>1 DEF Base, Reserved, PodsHaveHomes
  <2> QED BY <1>1, <2>2, <2>3 DEF Base
<1> QED BY <1>3, <1>4 DEF Reconcile, Progress

-----------------------------------------------------------------------------
(* The worker's progress.                                                  *)

(* What discover computes is between the bounds.                           *)
LEMMA PlanIsMade ==
    ASSUME TypeOK, NEW v \in Vnets, NEW j, NEW P,
           j.members = DOMAIN discoverMembers(cache, v, cache.vnet[v]),
           j.invalid = invalidJoiners(cache, v, cache.vnet[v]),
           j.desired = Generate(discoverMembers(cache, v, cache.vnet[v])),
           j.todo = PoliciesIn(j.desired), j.applied = {}
    PROVE  PlanRight(j, P, Sight(v))
<1> DEFINE g == Sight(v)
           M == discoverMembers(cache, v, cache.vnet[v])
<1>1. DOMAIN M = {p \in Pods : /\ isStampedMember(cache.pod[p], v)
                               /\ IsManaged(cache, PodNS[p]) /\ Permitted(v, PodNS[p])}
  BY DEF discoverMembers, ineligible, Permitted
<1>2. g.sure \subseteq DOMAIN M /\ DOMAIN M \subseteq g.possible
  BY <1>1, SightFields DEF Sure, Possible
<1>3. \A p \in DOMAIN M : M[p] = g.dir[p]
  BY <1>1, SightFields DEF discoverMembers
<1>4. InvalidRight(j.invalid, g)
  BY SightFields DEF InvalidRight
<1>5. MembersRight(j.members, g)
  BY <1>2 DEF MembersRight
<1> HIDE DEF g
<1>6. ASSUME NEW n
      PROVE  /\ Receives(g.sure, g.dir, n) => hasReceiver(M, n)
             /\ hasReceiver(M, n) => Receives(g.possible, g.dir, n)
             /\ Initiates(g.sure, g.dir, n) => hasInitiator(M, n)
             /\ hasInitiator(M, n) => Initiates(g.possible, g.dir, n)
  <2> HIDE DEF M
  <2> QED BY <1>2, <1>3 DEF Receives, Initiates, hasReceiver, hasInitiator
<1> HIDE DEF M
<1>7. \A n \in Namespaces : /\ j.desired[n].present <=> hasReceiver(M, n)
                            /\ hasReceiver(M, n) =>
                                  j.desired[n].peers = {x \in Namespaces : hasInitiator(M, x)}
  BY DEF Generate, NoPolicy, M
<1>8. Between(j.desired, g, {})
  BY <1>6, <1>7 DEF Between
<1>9. \A n \in Namespaces : j.desired[n].present => n \in j.todo
  BY DEF PoliciesIn
<1>10. \A n \in Namespaces : Receives(g.sure, g.dir, n) => n \in j.todo
  BY <1>6, <1>7, <1>9
<1> QED BY <1>4, <1>5, <1>8, <1>9, <1>10 DEF PlanRight, g

(* A plan carried out and reported is a vnet at rest.                      *)
LEMMA PlanIsRest ==
    ASSUME NEW j, NEW P, NEW g, PlanRight(j, P, g), j.todo = {},
           \A n \in Namespaces : P[n].present => j.desired[n].present,
           NEW s, s.observed, s.members = j.members, s.invalid = j.invalid, s.refs = j.applied,
           s.ready = IF PoliciesIn(j.desired) = {} THEN "NoMembers" ELSE "PoliciesGenerated"
    PROVE  Between(P, g, g.dying) /\ StatusRight(s, g)
<1>1. Between(P, g, g.dying)
  <2> SUFFICES ASSUME NEW n \in Namespaces
               PROVE  /\ Receives(g.sure, g.dir, n) /\ n \notin g.dying =>
                            /\ P[n].present
                            /\ \A x \in Namespaces : Initiates(g.sure, g.dir, x) => x \in P[n].peers
                      /\ P[n].present =>
                            /\ Receives(g.possible, g.dir, n)
                            /\ n \notin g.dying => \A x \in P[n].peers : Initiates(g.possible, g.dir, x)
    BY DEF Between
  <2> QED BY DEF PlanRight, Between
<1>2. RefsRight(s.refs, g)
  BY DEF PlanRight, Between, RefsRight
<1>3. ReadyRight(s.ready, g)
  BY DEF PlanRight, Between, ReadyRight, PoliciesIn
<1> QED BY <1>1, <1>2, <1>3 DEF PlanRight, StatusRight

(* Nothing is deleted, so nothing was stale.                               *)
LEMMA NothingStale ==
    ASSUME Base, NEW v \in Vnets, job \in Tasks, job.vnet = v, ~Due(v), ~Due(v)',
           NEW keep, NEW spare, DeletePolicies(Stale(keep, spare))
    PROVE  \A n \in Namespaces : api.pol[v][n].present => n \in keep \cup spare
<1> SUFFICES ASSUME NEW n \in Namespaces, api.pol[v][n].present, n \notin keep \cup spare
             PROVE  FALSE
  OBVIOUS
<1>1. cache.pol[v][n] = api.pol[v][n]
  BY DEF Base, CacheFollows, Due
<1>2. n \in Stale(keep, spare)
  BY <1>1 DEF Stale
<1>3. ~api'.pol[v][n].present /\ (<<v, n>> \in behind'.pol \/ api'.pol[v][n] = api.pol[v][n])
  BY <1>2, PolicyDelete DEF Base
<1> QED BY <1>3 DEF Due

(* One step of the worker, when its vnet is not due after it.              *)
LEMMA TaskAdvances ==
    ASSUME Base, NEW v \in Vnets, job # Idle, job.vnet = v, TaskRight(job, v), Kept(v), ~Due(v)',
           Progress
    PROVE  /\ job' = Idle => AtRest(v)
           /\ job' # Idle => job'.vnet = v /\ \A j : j = job' => TaskRight(j, v)
<1>0. TypeOK /\ job \in Tasks /\ ~Due(v) /\ job.desired \in [Namespaces -> PolicyObj]
  BY WorkerBusy DEF Base, Kept
<1> DEFINE g == Sight(v)
<1>01. g.dying = cache.dying
  BY SightFields
<1>02. v \notin queue' /\ v \notin behind'.vnet /\ api'.pol[v] = api.pol[v]
  BY DEF Due, Kept
<1>03. Fail => FALSE
  BY <1>02 DEF Fail
<1>1. CASE CheckHome
  <2>1. /\ job.pc = "home"
        /\ job' = [job EXCEPT !.pc = IF homeServed(v) THEN "discover" ELSE "excluded"]
    BY <1>1 DEF CheckHome
  <2>2. job' # Idle /\ job'.vnet = v
    BY <1>0, <2>1 DEF Tasks, Idle
  <2>3. ASSUME NEW j, j = job' PROVE TaskRight(j, v)
    <3>1. /\ j.spec = job.spec /\ j.stored = job.stored /\ j.applied = job.applied
          /\ j.pc = IF homeServed(v) THEN "discover" ELSE "excluded"
      BY <1>0, <2>1, <2>3 DEF Tasks
    <3> QED BY <2>1, <3>1 DEF TaskRight, Serves
  <2> QED BY <2>2, <2>3
<1>2. CASE reportExcluded
  <2>1. job.pc = "excluded" /\ job' = [job EXCEPT !.pc = "purge"]
    BY <1>2 DEF reportExcluded
  <2>2. job' # Idle /\ job'.vnet = v
    BY <1>0, <2>1 DEF Tasks, Idle
  <2>3. ASSUME NEW j, j = job' PROVE TaskRight(j, v)
    <3>1. j.spec = job.spec /\ j.stored = job.stored /\ j.pc = "purge"
      BY <1>0, <2>1, <2>3 DEF Tasks
    <3> QED BY <2>1, <3>1 DEF TaskRight
  <2> QED BY <2>2, <2>3
<1>3. CASE discover
  <2> DEFINE M == discoverMembers(cache, v, cache.vnet[v])
  <2>1. /\ job.pc = "discover" /\ job.spec = cache.vnet[v] /\ job.stored = cache.status[v]
        /\ Serves(v) /\ job.applied = {}
    BY <1>3 DEF discover, TaskRight
  <2>2. job' = [job EXCEPT !.pc = "apply", !.members = DOMAIN M,
                           !.invalid = invalidJoiners(cache, v, cache.vnet[v]),
                           !.desired = Generate(M), !.todo = PoliciesIn(Generate(M))]
    BY <1>3, <2>1 DEF discover
  <2>3. /\ job'.pc = "apply" /\ job'.vnet = v /\ job'.spec = job.spec /\ job'.stored = job.stored
        /\ job'.members = DOMAIN M /\ job'.invalid = invalidJoiners(cache, v, cache.vnet[v])
        /\ job'.desired = Generate(M) /\ job'.todo = PoliciesIn(Generate(M))
        /\ job'.applied = {}
    <3> HIDE DEF M
    <3> QED BY <1>0, <2>1, <2>2 DEF Tasks
  <2>4. job' # Idle
    BY <2>3 DEF Idle
  <2>5. ASSUME NEW j, j = job' PROVE TaskRight(j, v)
    <3>1. PlanRight(j, api.pol[v], g)
      BY <1>0, <2>3, <2>5, PlanIsMade
    <3> QED BY <2>1, <2>3, <2>5, <3>1 DEF TaskRight
  <2> QED BY <2>3, <2>4, <2>5
<1>4. ASSUME NEW n \in Namespaces, applyPolicy(n)
      PROVE  job' # Idle /\ job'.vnet = v /\ \A j : j = job' => TaskRight(j, v)
  <2>1. /\ job.pc = "apply" /\ n \in job.todo /\ Serves(v)
        /\ job.spec = cache.vnet[v] /\ job.stored = cache.status[v]
        /\ job.failed = {} => PlanRight(job, api.pol[v], g)
    BY <1>4 DEF applyPolicy, TaskRight
  <2>2. /\ job'.pc = "apply" /\ job'.vnet = v /\ job'.spec = job.spec /\ job'.stored = job.stored
        /\ job'.members = job.members /\ job'.invalid = job.invalid /\ job'.desired = job.desired
        /\ job'.todo = job.todo \ {n}
        /\ \/ job'.applied = job.applied /\ job'.failed = job.failed /\ n \in cache.dying
           \/ job'.applied = job.applied \cup {n} /\ job'.failed = job.failed /\ n \notin cache.dying
              /\ WritePolicies([api.pol[v] EXCEPT ![n] = job.desired[n]])
           \/ job'.failed # {}
    BY <1>0, <1>4, <2>1 DEF applyPolicy, recordFailure, namespaceTerminating, Tasks
  <2>3. job' # Idle
    BY <2>2 DEF Idle
  <2>4. ASSUME NEW j, j = job', j.failed = {} PROVE PlanRight(j, api.pol[v], g)
    <3>1. PlanRight(job, api.pol[v], g)
      BY <2>1, <2>2, <2>4
    <3>2. \/ j.applied = job.applied /\ n \in g.dying
          \/ j.applied = job.applied \cup {n} /\ n \notin g.dying /\ api.pol[v][n] = job.desired[n]
      <4>1. ASSUME WritePolicies([api.pol[v] EXCEPT ![n] = job.desired[n]])
            PROVE  api.pol[v][n] = job.desired[n]
        <5>1. api.pol[v] \in [Namespaces -> PolicyObj]
          BY <1>0 DEF TypeOK, Clusters
        <5>2. [api.pol[v] EXCEPT ![n] = job.desired[n]] \in [Namespaces -> PolicyObj]
          BY <1>0, <5>1
        <5>3. api'.pol[v] = [api.pol[v] EXCEPT ![n] = job.desired[n]]
          BY <1>0, <4>1, <5>2, PolicyWrite
        <5> QED BY <1>02, <5>1, <5>3
      <4> QED BY <1>01, <2>2, <2>4, <4>1
    <3>3. /\ j.members = job.members /\ j.invalid = job.invalid /\ j.desired = job.desired
          /\ j.todo = job.todo \ {n}
      BY <2>2, <2>4
    <3>4. job.desired[n].present
      BY <2>1, <3>1 DEF PlanRight, PoliciesIn
    <3> HIDE DEF g
    <3> QED BY <3>1, <3>2, <3>3, <3>4 DEF PlanRight
  <2>5. ASSUME NEW j, j = job' PROVE TaskRight(j, v)
    BY <2>1, <2>2, <2>4, <2>5 DEF TaskRight
  <2> QED BY <2>2, <2>3, <2>5
<1>5. CASE sweep
  <2> DEFINE stale == Stale(PoliciesIn(job.desired), job.failed)
  <2>1. /\ job.pc = "apply" /\ job.todo = {} /\ Serves(v)
        /\ job.spec = cache.vnet[v] /\ job.stored = cache.status[v]
        /\ job.failed = {} => PlanRight(job, api.pol[v], g)
    BY <1>5 DEF sweep, TaskRight
  <2>2. /\ job' = [job EXCEPT !.pc = "status"]
        /\ DeletePolicies(stale) \/ job.failed # {}
    BY <1>03, <1>5 DEF sweep
  <2>3. /\ job'.pc = "status" /\ job'.vnet = v /\ job'.spec = job.spec /\ job'.stored = job.stored
        /\ job'.members = job.members /\ job'.invalid = job.invalid /\ job'.desired = job.desired
        /\ job'.todo = job.todo /\ job'.applied = job.applied /\ job'.failed = job.failed
    BY <1>0, <2>2 DEF Tasks
  <2>4. job' # Idle
    BY <2>3 DEF Idle
  <2>5. job.failed = {} => \A n \in Namespaces : api.pol[v][n].present => job.desired[n].present
    <3>1. ASSUME job.failed = {}
          PROVE  \A n \in Namespaces :
                    api.pol[v][n].present => n \in PoliciesIn(job.desired) \cup job.failed
      BY <1>0, <2>2, <3>1, NothingStale
    <3> QED BY <3>1 DEF PoliciesIn
  <2>6. ASSUME NEW j, j = job' PROVE TaskRight(j, v)
    <3>1. j.failed = {} => PlanRight(j, api.pol[v], g)
      BY <2>1, <2>3, <2>6 DEF PlanRight
    <3> QED BY <2>1, <2>3, <2>5, <2>6, <3>1 DEF TaskRight
  <2> QED BY <2>3, <2>4, <2>6
<1>6. CASE updateStatus
  <2>1. /\ job.pc = "status" /\ Serves(v) /\ job.stored = cache.status[v]
        /\ job.failed = {} => /\ PlanRight(job, api.pol[v], g) /\ job.todo = {}
                              /\ \A n \in Namespaces : api.pol[v][n].present => job.desired[n].present
    BY <1>6 DEF updateStatus, TaskRight
  <2>2. /\ writeStatus(Outcome) /\ job' = Idle
        /\ job.failed = {} /\ ~(needsWrite(Outcome) /\ ~job.latest)
    BY <1>03, <1>6 DEF updateStatus, Succeed
  <2>3. ~(needsWrite(Outcome) /\ job.latest)
    BY <1>0, <1>02, <2>2, StatusWrite, StatusTypes
  <2>4. Outcome = cache.status[v]
    BY <2>1, <2>2, <2>3 DEF needsWrite
  <2>5. Between(api.pol[v], g, g.dying) /\ StatusRight(cache.status[v], g)
    <3>1. PICK s : s = cache.status[v]
      OBVIOUS
    <3>2. /\ s.observed /\ s.members = job.members /\ s.invalid = job.invalid /\ s.refs = job.applied
          /\ s.ready = IF PoliciesIn(job.desired) = {} THEN "NoMembers" ELSE "PoliciesGenerated"
      BY <2>2, <2>4, <3>1 DEF Outcome
    <3> HIDE DEF g
    <3> QED BY <2>1, <2>2, <3>1, <3>2, PlanIsRest
  <2> QED BY <1>01, <2>1, <2>2, <2>5 DEF AtRest
<1>7. CASE purge
  <2>1. job.pc = "purge" /\ ~Serves(v)
    BY <1>7 DEF purge, TaskRight
  <2>2. DeletePolicies(Stale({}, {})) /\ job' = Idle
    BY <1>03, <1>7 DEF purge, Stop
  <2>3. \A n \in Namespaces : ~api.pol[v][n].present
    BY <1>0, <2>2, NothingStale
  <2> QED BY <2>1, <2>2, <2>3 DEF AtRest
<1> QED BY <1>1, <1>2, <1>3, <1>4, <1>5, <1>6, <1>7 DEF Progress

(* The worker keeps the invariant.                                         *)
LEMMA WorkerStep == ASSUME IInv, Reconcile PROVE IInv'
<1>0. Base /\ Base' /\ Rested /\ JobIsCurrent
  BY WorkerBase DEF IInv
<1>1. ASSUME NEW w \in Vnets, Begin(w) PROVE Rested' /\ JobIsCurrent'
  <2>1. /\ job = Idle /\ queue' = queue \ {w} /\ UNCHANGED <<api, cache, behind, notes>>
        /\ job'.vnet = w /\ job'.spec = cache.vnet[w] /\ job'.stored = cache.status[w]
        /\ job'.pc = IF cache.vnet[w].present THEN "home" ELSE "purge"
        /\ job'.applied = {}
    BY <1>1 DEF Begin
  <2>2. job' # Idle
    BY <2>1 DEF Idle
  <2>3. ASSUME NEW v \in Vnets, v # w, ~Due(v)' PROVE AtRest(v)'
    <3>1. ~Due(v)
      BY <2>1, <2>3 DEF Due
    <3>2. AtRest(v)
      BY <1>0, <2>1, <3>1 DEF Rested
    <3>3. Kept(v)
      BY <2>1, <3>1, SameSight DEF Kept
    <3> QED BY <3>2, <3>3, KeptIsRight
  <2>4. Rested'
    BY <2>1, <2>2, <2>3 DEF Rested
  <2>5. TaskRight(job, w)'
    <3>1. Serves(w)' => cache.vnet[w].present
      BY <2>1 DEF Serves
    <3> QED BY <2>1, <3>1 DEF TaskRight
  <2>6. JobIsCurrent'
    BY <2>1, <2>5 DEF JobIsCurrent
  <2> QED BY <2>4, <2>6
<1>2. ASSUME Progress
      PROVE  Rested' /\ JobIsCurrent'
  <2>1. PICK w \in Vnets : w = job.vnet
    BY <1>0, <1>2, WorkerBusy DEF Base
  <2>2. job # Idle
    BY <1>0, <1>2, WorkerBusy DEF Base
  <2>3. \A v \in Vnets : ~Due(v)' => Kept(v)
    BY <1>0, <1>2, WorkerKeeps
  <2>4. ASSUME ~Due(w)'
        PROVE  /\ job' = Idle => AtRest(w)'
               /\ job' # Idle => job'.vnet = w /\ TaskRight(job, w)'
    <3>1. Kept(w) /\ TaskRight(job, w)
      BY <1>0, <2>1, <2>2, <2>3, <2>4 DEF JobIsCurrent, Kept
    <3>2. /\ job' = Idle => AtRest(w)
          /\ job' # Idle => job'.vnet = w /\ \A j : j = job' => TaskRight(j, w)
      BY <1>0, <1>2, <2>1, <2>2, <2>4, <3>1, TaskAdvances
    <3>3. PICK j : j = job'
      OBVIOUS
    <3> QED BY <3>1, <3>2, <3>3, KeptIsRight
  <2>5. job' # Idle => job'.vnet = w
    <3>1. job \in Tasks
      BY <1>0, <1>2, WorkerBusy DEF Base
    <3> QED BY <1>2, <2>1, <3>1 DEF Progress, CheckHome, reportExcluded, discover, applyPolicy, recordFailure,
              sweep, updateStatus, purge, Fail, Succeed, Stop, Tasks
  <2>6. Rested'
    <3> SUFFICES ASSUME NEW v \in Vnets, ~Due(v)', ~(job' # Idle /\ job'.vnet = v)
                 PROVE  AtRest(v)'
      BY DEF Rested
    <3>1. CASE v = w
      BY <2>4, <2>5, <3>1
    <3>2. CASE v # w
      <4>1. AtRest(v)
        BY <1>0, <2>1, <2>3, <3>2 DEF Rested, Kept
      <4> QED BY <2>3, <4>1, KeptIsRight
    <3> QED BY <3>1, <3>2
  <2>7. JobIsCurrent'
    <3> SUFFICES ASSUME NEW v \in Vnets, job' # Idle, job'.vnet = v, ~Due(v)'
                 PROVE  TaskRight(job, v)'
      BY DEF JobIsCurrent
    <3>1. v = w
      BY <2>5
    <3> QED BY <2>4, <3>1
  <2> QED BY <2>6, <2>7
<1> QED BY <1>0, <1>1, <1>2 DEF Reconcile, Progress, IInv

(* A started operator has every vnet and every policy queued.              *)
LEMMA StartIsRight ==
    ASSUME NEW v \in Vnets, NEW c, v \notin StartQueue(c)
    PROVE  ~c.vnet[v].present /\ \A n \in Namespaces : ~c.pol[v][n].present
BY DEF StartQueue

(* So a restart keeps the invariant,                                       *)
LEMMA RestartStep == ASSUME IInv, Restart PROVE IInv'
<1>1. /\ TypeOK' /\ cache' = api /\ api' = api
      /\ behind' = UpToDate /\ queue' = StartQueue(api) /\ job' = Idle
  BY TypeStep DEF Next, IInv, Base, Restart
<1>2. CacheFollows' /\ GoneIsEmpty' /\ Reserved(api)' /\ Reserved(cache)' /\ PodsHaveHomes'
  BY <1>1 DEF IInv, Base, CacheFollows, GoneIsEmpty, Reserved, PodsHaveHomes
<1>3. ASSUME NEW v \in Vnets, ~Due(v)' PROVE AtRest(v)'
  <2>1. v \notin StartQueue(api)
    BY <1>1, <1>3 DEF Due
  <2>2. ~Serves(v)'
    BY <1>1, <2>1, StartIsRight DEF Serves
  <2> QED BY <1>1, <2>1, <2>2, StartIsRight DEF AtRest
<1> QED BY <1>1, <1>2, <1>3 DEF IInv, Base, Rested, JobIsCurrent

(* and the first start establishes it.                                     *)
LEMMA InitIsRight == ASSUME Init PROVE IInv
<1>1. TypeOK /\ api \in InitApis /\ cache = api /\ queue = StartQueue(api) /\ job = Idle
  BY InitType DEF Init
<1>2. CacheFollows /\ GoneIsEmpty
  BY <1>1 DEF CacheFollows, GoneIsEmpty
<1>3. Reserved(api) /\ Reserved(cache)
  BY <1>1, ReservedNameAssumption DEF Reserved
<1>4. PodsHaveHomes
  BY <1>1, HomesAssumption DEF PodsHaveHomes
<1>5. ASSUME NEW v \in Vnets, ~Due(v) PROVE AtRest(v)
  BY <1>1, <1>5, StartIsRight DEF Due, AtRest, Serves
<1> QED BY <1>1, <1>2, <1>3, <1>4, <1>5 DEF IInv, Base, Rested, JobIsCurrent

(* Every step keeps the invariant.                                         *)
LEMMA InvariantStep == ASSUME IInv, [Next]_vars PROVE IInv'
<1>1. CASE UNCHANGED vars
  <2>1. UNCHANGED <<api, cache, behind, notes, queue, job>>
    BY <1>1 DEF vars
  <2>2. Base'
    <3>1. TypeOK'
      BY <1>1, TypeStep DEF IInv, Base
    <3> QED BY <2>1, <3>1 DEF IInv, Base, CacheFollows, GoneIsEmpty, Reserved, PodsHaveHomes
  <2>3. ASSUME NEW v \in Vnets, ~Due(v)' PROVE Kept(v)
    <3>1. ~Due(v)
      BY <2>1, <2>3 DEF Due
    <3> QED BY <2>1, <3>1, SameSight DEF Kept
  <2>4. Rested'
    BY <2>1, <2>3, KeptIsRight DEF IInv, Rested, Kept
  <2>5. JobIsCurrent'
    <3> SUFFICES ASSUME NEW v \in Vnets, job' # Idle, job'.vnet = v, ~Due(v)'
                 PROVE  TaskRight(job, v)'
      BY DEF JobIsCurrent
    <3>1. TaskRight(job, v)
      BY <2>1, <2>3 DEF IInv, JobIsCurrent, Kept
    <3> QED BY <2>1, <2>3, <3>1, KeptIsRight
  <2> QED BY <2>2, <2>4, <2>5 DEF IInv
<1> QED
  BY <1>1, EnvironmentStep, WorkerStep, RestartStep DEF Next, Work

(* A vnet is always about to be reconciled, being reconciled with what the *)
(* caches show, or has the policies and the status that the stamped pods   *)
(* call for.                                                               *)
THEOREM InductiveInvariant == Spec => []IInv
BY InitIsRight, InvariantStep, PTL DEF Spec

-----------------------------------------------------------------------------
(* The timer.                                                              *)

(* A served vnet nobody is going to look at otherwise has its timer        *)
(* running.                                                                *)
Timed ==
    \A v \in Vnets : \/ Due(v) \/ (job # Idle /\ job.vnet = v)
                     \/ ~Serves(v) \/ v \in armed

(* A timer that expires queues its vnet; nothing else outside the worker   *)
(* stops one.                                                              *)
LEMMA EnvironmentTimed ==
    ASSUME IInv, Timed, \/ UserEdit \/ Deliver
                        \/ \E n \in Namespaces : EmptyNamespace(n)
                        \/ \E p \in Pods : Restamp(p)
                        \/ \E w \in Vnets : Resync(w)
    PROVE  Timed'
<1> SUFFICES ASSUME NEW v \in Vnets, ~Due(v)', ~(job' # Idle /\ job'.vnet = v), Serves(v)'
             PROVE  v \in armed'
  BY DEF Timed
<1>1. Kept(v) /\ ~(job # Idle /\ job.vnet = v)
  <2>1. Kept(v) /\ (job # Idle /\ job.vnet = v => job' = job)
    BY EnvironmentKeeps DEF IInv
  <2> QED BY <2>1
<1>2. v \in armed
  BY <1>1 DEF Timed, Kept
<1>3. CASE \E w \in Vnets : Resync(w)
  BY <1>2, <1>3 DEF Resync, Due
<1>4. CASE UserEdit
  BY <1>2, <1>4 DEF UserEdit, EditNamespace, EditVnet, CreatePod, RelabelPod, DeletePod, DamagePolicy, Edit
<1>5. CASE Deliver
  BY <1>2, <1>5 DEF Deliver, DeliverPod, DeliverNamespace, HandleNamespace, DeliverVnet, DeliverPolicy
<1>6. CASE (\E n \in Namespaces : EmptyNamespace(n)) \/ (\E p \in Pods : Restamp(p))
  BY <1>2, <1>6 DEF EmptyNamespace, Restamp
<1> QED BY <1>3, <1>4, <1>5, <1>6

(* The worker leaves a vnet it serves only with an error or with a timer.  *)
LEMMA WorkerTimed == ASSUME IInv, Timed, Reconcile PROVE Timed'
<1> SUFFICES ASSUME NEW v \in Vnets, ~Due(v)', ~(job' # Idle /\ job'.vnet = v), Serves(v)'
             PROVE  v \in armed'
  BY DEF Timed
<1>0. Base /\ Base' /\ JobIsCurrent
  BY WorkerBase DEF IInv
<1>1. ASSUME NEW w \in Vnets, Begin(w) PROVE v \in armed'
  <2>1. /\ job = Idle /\ queue' = queue \ {w} /\ UNCHANGED <<cache, behind, notes, armed>>
        /\ job'.vnet = w /\ job' # Idle
    BY <1>1 DEF Begin, Idle
  <2>2. ~Due(v)
    BY <2>1 DEF Due
  <2>3. Serves(v)
    BY <2>1, SameSight
  <2> QED BY <2>1, <2>2, <2>3 DEF Timed
<1>2. ASSUME Progress PROVE v \in armed'
  <2>1. Kept(v) /\ job # Idle /\ job \in Tasks
    BY <1>0, <1>2, WorkerKeeps, WorkerBusy DEF Base
  <2>2. armed \subseteq armed'
    BY <1>2 DEF Progress, CheckHome, reportExcluded, discover, applyPolicy, sweep, updateStatus, purge,
                Fail, Succeed, Stop
  <2>3. CASE job.vnet # v
    BY <2>1, <2>2, <2>3 DEF Timed, Kept
  <2>4. CASE job.vnet = v
    <3>1. TaskRight(job, v) /\ Serves(v) /\ job' = Idle /\ v \notin queue'
      <4>1. job' # Idle => job'.vnet = v
        BY <1>2, <2>1, <2>4 DEF Progress, CheckHome, reportExcluded, discover, applyPolicy,
                recordFailure, sweep, updateStatus, purge, Fail, Succeed, Stop, Tasks
      <4> QED BY <1>0, <2>1, <2>4, <4>1 DEF JobIsCurrent, Kept, Due
    <3>2. job.pc # "purge"
      BY <3>1 DEF TaskRight
    <3>3. Fail => FALSE
      BY <2>4, <3>1 DEF Fail
    <3>4. updateStatus
      BY <1>2, <2>1, <3>1, <3>2, <3>3 DEF Progress, CheckHome, reportExcluded, discover, applyPolicy,
                recordFailure, sweep, purge, Tasks, Idle
    <3> QED BY <2>4, <3>3, <3>4 DEF updateStatus, Succeed
  <2> QED BY <2>3, <2>4
<1> QED BY <1>1, <1>2 DEF Reconcile, Progress

(* So the timer of a served vnet always runs.                              *)
LEMMA TimerRuns == Spec => []Timed
<1>1. ASSUME Init PROVE Timed
  <2>1. api \in InitApis /\ cache = api /\ queue = StartQueue(api)
    BY <1>1 DEF Init
  <2> QED BY <2>1, StartIsRight DEF Timed, Due, Serves
<1>2. ASSUME IInv, Timed, [Next]_vars PROVE Timed'
  <2>1. CASE UNCHANGED vars
    <3>1. UNCHANGED <<cache, behind, notes, queue, armed, job>>
      BY <2>1 DEF vars
    <3>2. \A v \in Vnets : Serves(v)' = Serves(v)
      BY <3>1, SameSight
    <3> QED BY <1>2, <3>1, <3>2 DEF Timed, Due
  <2>2. CASE Restart
    <3>1. cache' = api /\ queue' = StartQueue(api)
      BY <2>2 DEF Restart
    <3> QED BY <3>1, StartIsRight DEF Timed, Due, Serves
  <2> QED BY <1>2, <2>1, <2>2, EnvironmentTimed, WorkerTimed DEF Next, Work
<1> QED BY <1>1, <1>2, InductiveInvariant, PTL DEF Spec

-----------------------------------------------------------------------------
(* What the invariant says when nothing is in flight.                      *)

(* A stamp Resolve yields comes from a rule that passed the filter.        *)
LEMMA StampIsPermitted ==
    ASSUME Reserved(api), NEW v \in Vnets, api.vnet[v].present, NEW pod, NEW n,
           DesiredLabels(api, pod, n)[stampedVnetKey(v)] # "none"
    PROVE  PermitsForVnet(api, v, api.vnet[v], n)
<1> DEFINE k      == stampedVnetKey(v)
           layers == [s \in Scopes |-> Layer(api, s, pod, n)]
           L      == AskedFor(layers, k)
<1>0. k \in Keys
  BY DEF stampedVnetKey, Keys
<1>1. EffectiveDirection(L) # "none"
  BY <1>0 DEF DesiredLabels, DesiredStamps
<1>2. PICK s \in Scopes : L[s] # {}
  BY <1>1 DEF EffectiveDirection, Speaking
<1>3. PICK r \in Layer(api, s, pod, n) : r[1] = k
  BY <1>2 DEF AskedFor
<1>4. PICK q : r = <<stampedVnetKey(q[1]), q[2]>> /\ Permits(api, q[1], n)
  BY <1>3 DEF Layer, filterPermittedRules
<1>5. CASE v[2] = Cluster
  BY <1>5 DEF Reserved, PermitsForVnet, matchesAllowedNamespaces
<1>6. CASE v[2] # Cluster
  <2>1. stampedVnetKey(q[1]) = v
    BY <1>3, <1>4, <1>6 DEF stampedVnetKey
  <2>2. v # ClusterKey
    BY <1>6 DEF ClusterKey
  <2>3. q[1] = v
    BY <2>1, <2>2 DEF stampedVnetKey
  <2> QED BY <1>4, <2>2, <2>3 DEF Permits
<1> QED BY <1>5, <1>6

(* A vnet nothing is in flight for is at rest, as the API server has it.   *)
LEMMA QuietIsRest ==
    ASSUME IInv, Quiet, NEW v \in Vnets
    PROVE  /\ AtRest(v) /\ cache = api /\ notes = {}
           /\ Serves(v) = Served(v)
<1>1. cache = api /\ notes = {} /\ ~Due(v) /\ job = Idle
  BY DEF Quiet, Due, UpToDate
<1>2. AtRest(v)
  BY <1>1 DEF IInv, Rested
<1>3. Serves(v) = Served(v)
  BY <1>1 DEF Serves, Served, homeServed
<1> QED BY <1>1, <1>2, <1>3

(* Resolution has given a live pod the stamps its labels call for.         *)
LEMMA LivePodsAreSettled ==
    ASSUME IInv, Quiet, NEW p \in Pods, api.pod[p].present, ~api.pod[p].terminating
    PROVE  IF IsManaged(api, PodNS[p])
           THEN /\ api.pod[p].resolved
                /\ api.pod[p].stamps = DesiredLabels(api, api.pod[p], PodNS[p])
           ELSE ~api.pod[p].resolved /\ api.pod[p].stamps = NoStamps
<1>1. api.ns[PodNS[p]].present /\ Settled(api, p)
  BY DEF IInv, Base, PodsHaveHomes, Quiet
<1> QED BY <1>1 DEF Settled

(* A live pod with a stamp for a vnet that exists is a member for certain. *)
LEMMA LiveMembersAreSure ==
    ASSUME IInv, Quiet, NEW p \in Pods, api.pod[p].present, ~api.pod[p].terminating,
           NEW v \in Vnets, api.vnet[v].present, api.pod[p].stamps[stampedVnetKey(v)] # "none"
    PROVE  p \in Sure(v)
<1>0. stampedVnetKey(v) \in Keys /\ cache = api /\ notes = {}
  BY QuietIsRest DEF stampedVnetKey, Keys
<1>1. IsManaged(api, PodNS[p])
  BY <1>0, LivePodsAreSettled DEF NoStamps
<1>2. api.pod[p].resolved /\ api.pod[p].stamps = DesiredLabels(api, api.pod[p], PodNS[p])
  BY <1>1, LivePodsAreSettled
<1>3. PermitsForVnet(api, v, api.vnet[v], PodNS[p])
  BY <1>2, StampIsPermitted DEF IInv, Base
<1> QED BY <1>0, <1>1, <1>2, <1>3 DEF Sure, isStampedMember, Permitted

(* Whenever nothing is in flight, a vnet that is gone or whose home is     *)
(* excluded has no policy left in any namespace: the worker's purge and    *)
(* sweep, with the events that queue a vnet, leave none behind.            *)
THEOREM OrphansAreSwept == Spec => []NoOrphanPolicies
<1>1. ASSUME IInv PROVE NoOrphanPolicies
  <2> SUFFICES ASSUME Quiet, NEW v \in Vnets, ~Served(v) PROVE PoliciesIn(api.pol[v]) = {}
    BY DEF NoOrphanPolicies
  <2> QED BY <1>1, QuietIsRest DEF AtRest, PoliciesIn
<1> QED BY <1>1, InductiveInvariant, PTL

(* Whenever nothing is in flight, the policies admit exactly what the      *)
(* users' labels grant: no connection the labels do not call for, and,     *)
(* outside namespaces being torn down, every one they do.                  *)
THEOREM TrafficIsMembership == Spec => []TrafficMatchesMembership
<1>1. ASSUME IInv PROVE TrafficMatchesMembership
  <2> SUFFICES ASSUME Quiet, NEW a \in Pods, NEW b \in Pods,
                      api.pod[a].present, ~api.pod[a].terminating,
                      api.pod[b].present, ~api.pod[b].terminating
               PROVE  LET granted == \E v \in Vnets : /\ Granted(a, v) \in peerInitiatorValues
                                                      /\ Granted(b, v) \in selfValuesReceiver
                      IN /\ PolicyAdmits(a, b) => granted
                         /\ granted /\ PodNS[b] \notin api.dying => PolicyAdmits(a, b)
    BY DEF TrafficMatchesMembership
  <2>0. PodNS[a] \in Namespaces /\ PodNS[b] \in Namespaces /\ cache = api
    BY NamesAssumption DEF Quiet
  <2>1. ASSUME NEW p \in {a, b}, NEW v \in Vnets, Served(v),
               api.pod[p].stamps[stampedVnetKey(v)] # "none"
        PROVE  Granted(p, v) = api.pod[p].stamps[stampedVnetKey(v)]
    <3>1. stampedVnetKey(v) \in Keys
      BY DEF stampedVnetKey, Keys
    <3>2. IsManaged(api, PodNS[p])
      BY <1>1, <2>1, <3>1, LivePodsAreSettled DEF NoStamps
    <3> QED BY <1>1, <2>1, <3>2, LivePodsAreSettled DEF Granted
  <2>2. ASSUME PolicyAdmits(a, b)
        PROVE  \E v \in Vnets : /\ Granted(a, v) \in peerInitiatorValues
                                /\ Granted(b, v) \in selfValuesReceiver
    <3>1. PICK v \in Vnets : /\ api.pol[v][PodNS[b]].present
                             /\ api.pod[b].stamps[stampedVnetKey(v)] \in selfValuesReceiver
                             /\ api.pod[a].stamps[stampedVnetKey(v)] \in peerInitiatorValues
      BY <2>2 DEF PolicyAdmits
    <3>2. Served(v)
      BY <1>1, <2>0, <3>1, QuietIsRest DEF AtRest
    <3>3. /\ Granted(a, v) = api.pod[a].stamps[stampedVnetKey(v)]
          /\ Granted(b, v) = api.pod[b].stamps[stampedVnetKey(v)]
      BY <2>1, <3>1, <3>2 DEF selfValuesReceiver, peerInitiatorValues
    <3> QED BY <3>1, <3>3
  <2>3. ASSUME NEW v \in Vnets, Granted(a, v) \in peerInitiatorValues,
               Granted(b, v) \in selfValuesReceiver, PodNS[b] \notin api.dying
        PROVE  PolicyAdmits(a, b)
    <3> DEFINE k == stampedVnetKey(v)
    <3>1. Served(v) /\ IsManaged(api, PodNS[a]) /\ IsManaged(api, PodNS[b])
      BY <2>3 DEF Granted, selfValuesReceiver, peerInitiatorValues
    <3>2. api.pod[a].stamps[k] = Granted(a, v) /\ api.pod[b].stamps[k] = Granted(b, v)
      BY <1>1, <3>1, LivePodsAreSettled DEF Granted
    <3>3. a \in Sure(v) /\ b \in Sure(v)
      BY <1>1, <2>3, <3>1, <3>2, LiveMembersAreSure
      DEF Served, selfValuesReceiver, peerInitiatorValues
    <3>4. /\ Receives(Sight(v).sure, Sight(v).dir, PodNS[b])
          /\ Initiates(Sight(v).sure, Sight(v).dir, PodNS[a])
      <4>1. Sight(v).dir[a] = api.pod[a].stamps[k] /\ Sight(v).dir[b] = api.pod[b].stamps[k]
        BY <2>0, SightFields
      <4>2. a \in Sight(v).sure /\ b \in Sight(v).sure
        BY <3>3, SightFields
      <4> QED BY <2>3, <3>2, <4>1, <4>2 DEF Receives, Initiates
    <3>5. Between(api.pol[v], Sight(v), api.dying)
      BY <1>1, <2>0, <3>1, QuietIsRest DEF AtRest
    <3>6. api.pol[v][PodNS[b]].present /\ PodNS[a] \in api.pol[v][PodNS[b]].peers
      BY <2>0, <2>3, <3>4, <3>5 DEF Between
    <3> QED BY <2>3, <3>2, <3>6 DEF PolicyAdmits
  <2> QED BY <2>2, <2>3
<1> QED BY <1>1, InductiveInvariant, PTL

(* Whenever nothing is in flight, a served vnet's status names the members *)
(* and policies there are, whatever conflicted or failed on the way, and   *)
(* the joiners it cannot honor, unless a timer is going to correct them.   *)
THEOREM StatusesAreAccurate == Spec => []StatusIsAccurate
<1>1. ASSUME IInv, Timed PROVE StatusIsAccurate
  <2> SUFFICES ASSUME Quiet, NEW v \in Vnets, Served(v), ~Lingering(v) PROVE Reported(v)
    BY DEF StatusIsAccurate
  <2> DEFINE g == Sight(v)
             S == Sure(v)
             M == discoverMembers(api, v, api.vnet[v])
             s == api.status[v]
  <2>0. /\ cache = api /\ notes = {}
        /\ Between(api.pol[v], g, api.dying) /\ StatusRight(s, g)
    BY <1>1, QuietIsRest DEF AtRest
  <2>1. Possible(v) = S
    <3>1. ASSUME NEW p \in Possible(v) PROVE p \in S
      <4>1. p \in Pods /\ isStampedMember(api.pod[p], v)
        BY <2>0 DEF Possible
      <4>2. ~api.pod[p].terminating
        BY <4>1 DEF Lingering
      <4> QED BY <1>1, <4>1, <4>2, LiveMembersAreSure DEF Served, isStampedMember
    <3> QED BY <3>1, SightFields
  <2>2. DOMAIN M = S
    BY <2>0 DEF discoverMembers, ineligible, Sure, Permitted
  <2>3. g.sure = S /\ g.possible = S /\ g.dying = api.dying
    BY <2>0, <2>1, SightFields
  <2>4. \A n \in Namespaces : Receives(S, g.dir, n) <=> hasReceiver(M, n)
    <3>1. \A p \in S : M[p] = g.dir[p]
      <4>1. \A p \in DOMAIN M : M[p] = api.pod[p].stamps[stampedVnetKey(v)] /\ p \in Pods
        BY DEF discoverMembers
      <4> QED BY <2>0, <2>2, <4>1, SightFields
    <3> HIDE DEF M, S, g
    <3> QED BY <2>2, <3>1 DEF Receives, hasReceiver
  <2>5. \A n \in Namespaces : n \in PoliciesIn(Wanted(v)) <=> Receives(S, g.dir, n)
    BY <2>4 DEF Wanted, Generate, PoliciesIn, NoPolicy
  <2>6. \A n \in Namespaces : Receives(S, g.dir, n) => n \notin g.told
    BY <2>0, SightFields DEF Receives, Sure
  <2>7. s.refs \subseteq Namespaces
    BY <1>1 DEF IInv, Base, TypeOK, Clusters, StatusObj
  <2>8. s.observed /\ s.members = DOMAIN M
    BY <2>0, <2>2, <2>3 DEF StatusRight, MembersRight
  <2>9. s.refs = PoliciesIn(Wanted(v)) \ api.dying
    <3>1. RefsRight(s.refs, g)
      BY <2>0 DEF StatusRight
    <3>2. \A n \in Namespaces : n \in s.refs <=> Receives(S, g.dir, n) /\ n \notin api.dying
      <4> HIDE DEF S, g, s
      <4> QED BY <2>3, <2>6, <3>1 DEF RefsRight
    <3> QED BY <2>5, <2>7, <3>2 DEF PoliciesIn
  <2>10. s.refs = PoliciesIn(api.pol[v]) \ api.dying
    <3>1. \A n \in Namespaces \ api.dying : api.pol[v][n].present <=> Receives(S, g.dir, n)
      <4> HIDE DEF S, g
      <4> QED BY <2>0, <2>3 DEF Between
    <3> QED BY <2>5, <2>9, <3>1 DEF PoliciesIn
  <2>11. s.ready = IF PoliciesIn(Wanted(v)) = {} THEN "NoMembers" ELSE "PoliciesGenerated"
    <3>1. ReadyRight(s.ready, g)
      BY <2>0 DEF StatusRight
    <3>2. PoliciesIn(Wanted(v)) = {} <=> \A n \in Namespaces : ~Receives(S, g.dir, n)
      BY <2>5 DEF PoliciesIn
    <3> HIDE DEF S, g, s
    <3> QED BY <2>3, <3>1, <3>2 DEF ReadyRight
  <2>12. api.vnet[v].selector = {} => s.invalid = invalidJoiners(api, v, api.vnet[v])
    <3>1. s.invalid \subseteq Pods /\ invalidJoiners(api, v, api.vnet[v]) \subseteq Pods
      BY <1>1 DEF IInv, Base, TypeOK, Clusters, StatusObj, invalidJoiners
    <3>2. InvalidRight(s.invalid, g) /\ \A p \in Pods : p \notin g.unsure
      BY <2>0, SightFields DEF StatusRight
    <3>3. g.exact = (api.vnet[v].selector = {}) /\ g.invalid = invalidJoiners(api, v, api.vnet[v])
      BY <2>0, SightFields
    <3> HIDE DEF g, s
    <3> QED BY <3>1, <3>2, <3>3 DEF InvalidRight
  <2>13. v \in armed
    BY <1>1, QuietIsRest DEF Quiet, Timed, Due, UpToDate
  <2> QED BY <2>8, <2>9, <2>10, <2>11, <2>12, <2>13 DEF Reported
<1> QED BY <1>1, InductiveInvariant, TimerRuns, PTL

=============================================================================
