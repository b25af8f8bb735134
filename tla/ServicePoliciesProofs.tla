------------------------ MODULE ServicePoliciesProofs ------------------------
(***************************************************************************)
(* Proofs about ServicePolicies, for any Services, pods, discovery         *)
(* resources, ports, edits and bounds.                                     *)
(***************************************************************************)
EXTENDS ServicePolicies, TLAPS

-----------------------------------------------------------------------------
(* Types.                                                                  *)

(* Policies and the values that stand for none.                            *)
LEMMA PolicyTypes ==
    /\ \A p \in Policy : p.owner # 0 /\ p # NoPolicy /\ p # Unresolvable
    /\ NoPolicy # Unresolvable /\ NoPolicy.owner = 0
BY DEF Policy, NoPolicy, Unresolvable

(* Named ports resolve to port numbers.                                    *)
LEMMA ResolvedPorts ==
    ASSUME NEW pods \in [Pods -> Pod \cup {NoPod}], NEW t \in Ports \cup {Named}, NEW l \in Labels
    PROVE  resolveTargetPorts(t, l, pods) \in SUBSET Ports
<1>1. CASE t # Named
  BY <1>1 DEF resolveTargetPorts
<1>2. CASE t = Named
  <2>1. declared(pods, l) \subseteq Ports \cup {0}
    BY DEF declared, Pod, NoPod
  <2> QED BY <1>2, <2>1 DEF resolveTargetPorts
<1> QED BY <1>1, <1>2

(* A policy can be built, or the Service has to wait.                      *)
LEMMA PolicyForType ==
    ASSUME NEW o \in Service, Present(o), o.selector \in Labels,
           NEW ports \in SUBSET (Ports \X (Ports \cup {Named})),
           NEW pods \in [Pods -> Pod \cup {NoPod}]
    PROVE  policyFor(o, ports, pods) \in Policy \cup {Unresolvable}
<1> DEFINE targets == {resolveTargetPorts(p[2], o.selector, pods) : p \in ports}
<1>1. \A t \in targets : t \in SUBSET Ports
  BY ResolvedPorts
<1>2. UNION targets \in SUBSET Ports
  BY <1>1
<1>3. o.uid \in 1 .. MaxUid
  BY ServicesAssumption DEF Service, Present
<1> HIDE DEF targets
<1>4. [owner |-> o.uid, selector |-> o.selector, ports |-> UNION targets] \in Policy
  BY <1>2, <1>3 DEF Policy
<1> QED BY <1>4 DEF policyFor, targets

(* The ports that discovery resources refer to are port numbers.           *)
LEMMA RefsType ==
    ASSUME NEW view \in Clusters, NEW s \in Services, NEW o \in Service
    PROVE  collectReferencedPorts(s, o, view.disc) \in SUBSET Ports
<1>1. \A d \in Discoveries : view.disc[d] \in SUBSET (Services \X Ports)
  BY DEF Clusters
<1>2. UNION {view.disc[d] : d \in Discoveries} \in SUBSET (Services \X Ports)
  BY <1>1
<1>3. o.ports \in SUBSET (Ports \X (Ports \cup {Named}))
  BY DEF Service
<1> QED BY <1>2, <1>3 DEF collectReferencedPorts

(* A Service asks for a policy, for none, or has to wait.                  *)
LEMMA DesiredType ==
    ASSUME NEW k \in Kinds, NEW o \in Service, Present(o), NEW refs \in SUBSET Ports,
           NEW pods \in [Pods -> Pod \cup {NoPod}]
    PROVE  desired(k, o, refs, pods) \in Policy \cup {NoPolicy, Unresolvable}
<1>1. o.ports \in SUBSET (Ports \X (Ports \cup {Named})) /\ o.selector \in Labels \cup {NoSelector}
  BY DEF Service
<1> DEFINE ports == {p \in o.ports : p[1] \in refs} \cup {<<r, r>> : r \in refs \ {p[1] : p \in o.ports}}
<1>2. ports \in SUBSET (Ports \X (Ports \cup {Named}))
  BY <1>1
<1> HIDE DEF ports
<1>3. buildExternalAllowPolicy(o, pods) \in Policy \cup {NoPolicy, Unresolvable}
  BY <1>1, PolicyForType DEF buildExternalAllowPolicy
<1>4. buildApiserverReachablePolicy(o, refs, pods) \in Policy \cup {NoPolicy, Unresolvable}
  BY <1>1, <1>2, PolicyForType DEF buildApiserverReachablePolicy, ports
<1> QED BY <1>3, <1>4 DEF desired

(* A write keeps the cluster well-typed and concerns one object.           *)
LEMMA PutPolicyType ==
    ASSUME TypeOK, NEW n \in PolicyNames, NEW p \in Policy \cup {NoPolicy}, PutPolicy(n, p)
    PROVE  /\ api' \in Clusters /\ behind' \subseteq Objects
           /\ api'.ns = api.ns /\ api'.svc = api.svc /\ api'.pod = api.pod /\ api'.disc = api.disc
           /\ \A m \in PolicyNames : m # n => api'.policy[m] = api.policy[m]
           /\ api'.policy[n] = p
           /\ \A x : x # <<"policy", n>> => (x \in behind' <=> x \in behind)
           /\ <<"policy", n>> \notin behind' =>
                 <<"policy", n>> \notin behind /\ p = api.policy[n]
           /\ behind \subseteq behind'
<1>1. api' = [api EXCEPT !.policy[n] = p] /\ api \in Clusters /\ behind \subseteq Objects
  BY DEF PutPolicy, TypeOK
<1>2. <<"policy", n>> \in Objects
  BY DEF Objects
<1> QED BY <1>1, <1>2 DEF PutPolicy, Clusters

(* The legacy policy of Service s is not renewed.                          *)
LegacyShrinks(s) ==
    api'.policy[<<s, "legacy">>].owner \in {api.policy[<<s, "legacy">>].owner, 0}

(* A pod keeps its ports, and one whose name was used before is created    *)
(* when the cache does not show the other any more.                        *)
PortsStay(p) ==
    \/ api'.pod[p] = NoPod \/ cache.pod[p] = NoPod
    \/ api.pod[p] # NoPod /\ api'.pod[p].port = api.pod[p].port

(* What a write changes the cache is behind with.                          *)
Recorded ==
    /\ api' \in Clusters /\ behind \subseteq behind' /\ behind' \subseteq Objects
    /\ <<"ns", "">> \in behind' \/ api'.ns = api.ns
    /\ \A s \in Services : <<"svc", s>> \in behind' \/ api'.svc[s] = api.svc[s]
    /\ \A p \in Pods : <<"pod", p>> \in behind' \/ api'.pod[p] = api.pod[p]
    /\ \A d \in Discoveries : <<"disc", d>> \in behind' \/ api'.disc[d] = api.disc[d]
    /\ \A n \in PolicyNames : <<"policy", n>> \in behind' \/ api'.policy[n] = api.policy[n]
    /\ \A s \in Services : LegacyShrinks(s)
    /\ \A p \in Pods : PortsStay(p)

(* A policy is written, one of the legacy name without another owner.      *)
LEMMA PutPolicyRecorded ==
    ASSUME TypeOK, NEW n \in PolicyNames, NEW p \in Policy \cup {NoPolicy}, PutPolicy(n, p),
           n[2] = "legacy" => p.owner \in {api.policy[n].owner, 0}
    PROVE  Recorded
<1>1. \A s \in Services : <<s, "legacy">> \in PolicyNames
  BY DEF PolicyNames
<1>2. \A s \in Services : LegacyShrinks(s)
  <2> TAKE s \in Services
  <2>1. CASE n = <<s, "legacy">>
    BY <2>1, PutPolicyType DEF LegacyShrinks
  <2>2. CASE n # <<s, "legacy">>
    BY <1>1, <2>2, PutPolicyType DEF LegacyShrinks
  <2> QED BY <2>1, <2>2
<1> QED BY <1>2, PutPolicyType DEF Recorded, PortsStay

(* A Service is written.                                                   *)
LEMMA PutServiceRecorded ==
    ASSUME TypeOK, NEW s \in Services, NEW o \in Service, Writes(<<"svc", s>>),
           api' = [api EXCEPT !.svc[s] = o]
    PROVE  Recorded
<1>1. api \in Clusters /\ behind \subseteq Objects /\ <<"svc", s>> \in Objects
  BY DEF TypeOK, Objects
<1>2. /\ api' \in Clusters /\ api'.ns = api.ns /\ api'.pod = api.pod /\ api'.disc = api.disc
      /\ api'.policy = api.policy /\ \A t \in Services : t # s => api'.svc[t] = api.svc[t]
  BY <1>1 DEF Clusters
<1> QED BY <1>1, <1>2 DEF Recorded, LegacyShrinks, PortsStay, Writes

(* A pod is written.                                                       *)
LEMMA PutPodRecorded ==
    ASSUME TypeOK, NEW p \in Pods, NEW o \in Pod \cup {NoPod}, Writes(<<"pod", p>>),
           api' = [api EXCEPT !.pod[p] = o],
           o = NoPod \/ cache.pod[p] = NoPod \/ (api.pod[p] # NoPod /\ o.port = api.pod[p].port)
    PROVE  Recorded
<1>1. api \in Clusters /\ behind \subseteq Objects /\ <<"pod", p>> \in Objects
  BY DEF TypeOK, Objects
<1>2. /\ api' \in Clusters /\ api'.ns = api.ns /\ api'.svc = api.svc /\ api'.disc = api.disc
      /\ api'.policy = api.policy /\ \A q \in Pods : q # p => api'.pod[q] = api.pod[q]
      /\ api'.pod[p] = o
  BY <1>1 DEF Clusters
<1> QED BY <1>1, <1>2 DEF Recorded, LegacyShrinks, PortsStay, Writes

(* A discovery resource is written.                                        *)
LEMMA PutDiscoveryRecorded ==
    ASSUME TypeOK, NEW d \in Discoveries, NEW r \in SUBSET (Services \X Ports),
           Writes(<<"disc", d>>), api' = [api EXCEPT !.disc[d] = r]
    PROVE  Recorded
<1>1. api \in Clusters /\ behind \subseteq Objects /\ <<"disc", d>> \in Objects
  BY DEF TypeOK, Objects
<1>2. /\ api' \in Clusters /\ api'.ns = api.ns /\ api'.svc = api.svc /\ api'.pod = api.pod
      /\ api'.policy = api.policy /\ \A e \in Discoveries : e # d => api'.disc[e] = api.disc[e]
  BY <1>1 DEF Clusters
<1> QED BY <1>1, <1>2 DEF Recorded, LegacyShrinks, PortsStay, Writes

(* The namespace is written.                                               *)
LEMMA PutNamespaceRecorded ==
    ASSUME TypeOK, NEW p \in Phases, Writes(<<"ns", "">>), api' = [api EXCEPT !.ns = p]
    PROVE  Recorded
<1>1. api \in Clusters /\ behind \subseteq Objects /\ <<"ns", "">> \in Objects
  BY DEF TypeOK, Objects
<1>2. /\ api' \in Clusters /\ api'.svc = api.svc /\ api'.pod = api.pod
      /\ api'.disc = api.disc /\ api'.policy = api.policy
  BY <1>1 DEF Clusters
<1> QED BY <1>1, <1>2 DEF Recorded, LegacyShrinks, PortsStay, Writes

(* Whatever users, the garbage collector and the teardown of a namespace   *)
(* do, the informers will see.                                             *)
LEMMA OthersRecorded ==
    ASSUME TypeOK, Others
    PROVE  Recorded /\ UNCHANGED <<cache, memory, faults>> /\ edits' \in 0 .. MaxEdits
<1>0. /\ \A s \in Services : api.svc[s] \in Service
      /\ \A p \in Pods : api.pod[p] \in Pod \cup {NoPod}
      /\ \A n \in PolicyNames : api.policy[n] \in Policy \cup {NoPolicy}
      /\ api.ns \in Phases /\ edits \in 0 .. MaxEdits
      /\ NoPolicy \in Policy \cup {NoPolicy} /\ NoPolicy.owner = 0
  BY DEF TypeOK, Clusters, NoPolicy
<1>u. ASSUME UserEdit PROVE UNCHANGED <<cache, memory, faults>> /\ edits' \in 0 .. MaxEdits
  BY <1>0, <1>u, ServicesAssumption DEF UserEdit
<1>1. CASE EditNamespace
  <2>1. PICK p \in Phases : api' = [api EXCEPT !.ns = p]
    BY <1>1 DEF EditNamespace, Phases
  <2> QED BY <1>1, <1>u, <2>1, PutNamespaceRecorded DEF EditNamespace
<1>2. CASE EmptyNamespace
  <2>1. UNCHANGED <<cache, memory, edits, faults>>
    BY <1>2 DEF EmptyNamespace
  <2>2. CASE \E n \in PolicyNames : api.policy[n] # NoPolicy /\ PutPolicy(n, NoPolicy)
    BY <1>0, <2>1, <2>2, PutPolicyRecorded
  <2>3. CASE \E s \in Services : Writes(<<"svc", s>>) /\ api' = [api EXCEPT !.svc[s].uid = 0]
    <3>1. PICK s \in Services : Writes(<<"svc", s>>) /\ api' = [api EXCEPT !.svc[s].uid = 0]
      BY <2>3
    <3>2. [api.svc[s] EXCEPT !.uid = 0] \in Service
      BY <1>0, ServicesAssumption DEF Service
    <3>3. api' = [api EXCEPT !.svc[s] = [api.svc[s] EXCEPT !.uid = 0]]
      BY <3>1
    <3> QED BY <1>0, <2>1, <3>1, <3>2, <3>3, PutServiceRecorded
  <2>4. CASE \E p \in Pods : Writes(<<"pod", p>>) /\ api' = [api EXCEPT !.pod[p] = NoPod]
    BY <1>0, <2>1, <2>4, PutPodRecorded
  <2>5. CASE api' = [api EXCEPT !.ns = "absent"] /\ Writes(<<"ns", "">>)
    BY <1>0, <2>1, <2>5, PutNamespaceRecorded DEF Phases
  <2> QED BY <1>0, <1>2, <2>1, <2>2, <2>3, <2>4, <2>5 DEF EmptyNamespace
<1>3. ASSUME NEW s \in Services, EditService(s) PROVE Recorded /\ UserEdit
  <2>1. PICK o \in Service : api' = [api EXCEPT !.svc[s] = o]
    <3>1. CASE \E o \in ServiceEdits, u \in 1 .. MaxUid : api' = [api EXCEPT !.svc[s] = [o EXCEPT !.uid = u]]
      <4>1. PICK o \in ServiceEdits, u \in 1 .. MaxUid : api' = [api EXCEPT !.svc[s] = [o EXCEPT !.uid = u]]
        BY <3>1
      <4>2. [o EXCEPT !.uid = u] \in Service
        BY ServicesAssumption DEF Service
      <4> QED BY <4>1, <4>2
    <3>2. CASE api' = [api EXCEPT !.svc[s].uid = 0]
      <4>1. [api.svc[s] EXCEPT !.uid = 0] \in Service
        BY <1>0, ServicesAssumption DEF Service
      <4>2. api' = [api EXCEPT !.svc[s] = [api.svc[s] EXCEPT !.uid = 0]]
        BY <3>2
      <4> QED BY <4>1, <4>2
    <3> QED BY <1>3, <3>1, <3>2 DEF EditService
  <2> QED BY <1>3, <2>1, PutServiceRecorded DEF EditService
<1>4. ASSUME NEW p \in Pods, EditPod(p) PROVE Recorded /\ UserEdit
  <2>1. PICK o \in Pod \cup {NoPod} :
           /\ api' = [api EXCEPT !.pod[p] = o]
           /\ \/ o = NoPod \/ cache.pod[p] = NoPod
              \/ api.pod[p] # NoPod /\ o.port = api.pod[p].port
    <3>1. CASE cache.pod[p] = NoPod /\ \E o \in PodEdits : api' = [api EXCEPT !.pod[p] = o]
      BY <3>1, ServicesAssumption
    <3>2. CASE api.pod[p] # NoPod /\ \E l \in Labels : api' = [api EXCEPT !.pod[p].label = l]
      <4>1. PICK l \in Labels : api' = [api EXCEPT !.pod[p] = [api.pod[p] EXCEPT !.label = l]]
        BY <3>2
      <4>2. /\ [api.pod[p] EXCEPT !.label = l] \in Pod
            /\ [api.pod[p] EXCEPT !.label = l].port = api.pod[p].port
        BY <1>0, <3>2 DEF Pod
      <4> QED BY <3>2, <4>1, <4>2
    <3>3. CASE api' = [api EXCEPT !.pod[p] = NoPod]
      BY <3>3
    <3> QED BY <1>4, <3>1, <3>2, <3>3 DEF EditPod
  <2> QED BY <1>4, <2>1, PutPodRecorded DEF EditPod
<1>5. ASSUME NEW d \in Discoveries, EditDiscovery(d) PROVE Recorded /\ UserEdit
  BY <1>5, ServicesAssumption, PutDiscoveryRecorded DEF EditDiscovery
<1>6. ASSUME NEW n \in PolicyNames, DamagePolicy(n) PROVE Recorded /\ UserEdit
  <2>1. PICK p \in {NoPolicy, [api.policy[n] EXCEPT !.ports = {}]} : PutPolicy(n, p)
    BY <1>6 DEF DamagePolicy
  <2>2. p \in Policy \cup {NoPolicy} /\ p.owner \in {api.policy[n].owner, 0}
    BY <1>0, <1>6, <2>1 DEF DamagePolicy, Policy
  <2> QED BY <1>6, <2>1, <2>2, PutPolicyRecorded DEF DamagePolicy
<1>7. ASSUME NEW n \in PolicyNames, GarbageCollect(n)
      PROVE  Recorded /\ UNCHANGED <<cache, memory, edits, faults>>
  BY <1>0, <1>7, PutPolicyRecorded DEF GarbageCollect
<1> QED BY <1>0, <1>u, <1>1, <1>2, <1>3, <1>4, <1>5, <1>6, <1>7 DEF Others

-----------------------------------------------------------------------------
(* The inductive invariant.                                                *)

(* What the cache does not show has an event on its way.                   *)
CacheFollows ==
    /\ <<"ns", "">> \in behind \/ cache.ns = api.ns
    /\ \A s \in Services : <<"svc", s>> \in behind \/ cache.svc[s] = api.svc[s]
    /\ \A p \in Pods : <<"pod", p>> \in behind \/ cache.pod[p] = api.pod[p]
    /\ \A d \in Discoveries : <<"disc", d>> \in behind \/ cache.disc[d] = api.disc[d]
    /\ \A n \in PolicyNames : <<"policy", n>> \in behind \/ cache.policy[n] = api.policy[n]

(* Legacy policies are only removed: the cache shows every one there is.   *)
LegacyIsKnown ==
    \A s \in Services :
        api.policy[<<s, "legacy">>].owner \in {cache.policy[<<s, "legacy">>].owner, 0}

(* A pod that the cache shows has the ports of the pod there is.           *)
PortsAreKnown ==
    \A p \in Pods : \/ api.pod[p] = NoPod \/ cache.pod[p] = NoPod
                    \/ cache.pod[p].port = api.pod[p].port

(* The caches show Service s in a namespace that is served.                *)
Served(s) == Present(cache.svc[s]) /\ ~skipped(cache.ns)

(* What it asks for by the caches.                                         *)
Wants(k, s) == wantedPolicy(k, s, cache.svc[s], cache)

(* The ports that it is referred to by.                                    *)
Refs(s) == collectReferencedPorts(s, cache.svc[s], cache.disc)

Working(k, s) == job[k] # Idle /\ job[k].svc = s

(* No event of the policy of kind k is on its way.                         *)
Steady(k, s) == s \notin queue[k] /\ <<"policy", <<s, k>>>> \notin behind

(* The policies of kind k are what Service s, as the caches show it, asks  *)
(* for.                                                                    *)
PoliciesRight(k, s) ==
    LET want == Wants(k, s)
        uid  == cache.svc[s].uid
    IN want # Unresolvable =>
          /\ want # NoPolicy => api.policy[<<s, k>>] = want
          /\ want = NoPolicy => api.policy[<<s, k>>].owner # uid
          /\ k = "svc" => api.policy[<<s, "legacy">>].owner # uid

(* The stages of a reconcile: what the worker may be about to do.          *)
StageIsRight(k, s) ==
    LET j == job[k]
    IN Working(k, s) =>
          /\ j.pc = "purge" => ~Present(j.o)
          /\ j.pc \in {"decide", "collect", "build", "read", "patch", "sweep"} => Present(j.o)
          /\ j.pc \in {"decide", "collect", "build"} => j.want = NoPolicy
          /\ j.pc \in {"read", "patch"} => j.want # NoPolicy
          /\ j.pc = "purge" \/ ~Present(j.o) => j.want = NoPolicy
          /\ j.pc = "delete" =>
                \A n \in j.todo : /\ n[1] = s /\ sweepable(k, n)
                                  /\ j.want # NoPolicy => n[2] # k

(* What the worker has read of the Service, and decided, is still so, or   *)
(* the Service is queued again.                                            *)
ReadsAreCurrent(k, s) ==
    LET j == job[k]
    IN Working(k, s) /\ s \notin queue[k] =>
          /\ j.o = cache.svc[s]
          /\ Present(j.o) /\ j.pc # "decide" => Served(s)
          /\ j.pc \in {"collect", "build"} => ~closed(j.o, cache.ns)
          /\ j.pc = "build" /\ k # "svc" => j.refs = Refs(s)
          /\ Present(j.o) /\ j.pc \notin {"decide", "collect", "build"} => j.want = Wants(k, s)

(* What the worker has applied is still there, and what it has yet to      *)
(* delete it knows of, unless an event brings the Service back.            *)
WorkIsKept(k, s) ==
    LET j == job[k]
    IN Working(k, s) /\ Steady(k, s) /\ Present(j.o) =>
          /\ j.pc \in {"sweep", "delete"} /\ j.want # NoPolicy => api.policy[<<s, k>>] = j.want
          /\ j.pc = "delete" =>
                /\ j.want = NoPolicy /\ api.policy[<<s, k>>].owner = j.o.uid => <<s, k>> \in j.todo
                /\ k = "svc" /\ api.policy[<<s, "legacy">>].owner = j.o.uid =>
                      <<s, "legacy">> \in j.todo

(* A Service that is not being reconciled and has no event is right.       *)
RestIsRight(k, s) == Steady(k, s) /\ ~Working(k, s) /\ Served(s) => PoliciesRight(k, s)

(* A Service that waits and is not being reconciled has been reported.     *)
WaitIsReported(k, s) ==
    s \notin queue[k] /\ ~Working(k, s) /\ Served(s) /\ Wants(k, s) = Unresolvable =>
        pending[k][s] = cache.svc[s].uid /\ s \in timers[k]

KeyInv(k, s) ==
    /\ StageIsRight(k, s) /\ ReadsAreCurrent(k, s) /\ WorkIsKept(k, s)
    /\ RestIsRight(k, s) /\ WaitIsReported(k, s)

Base == TypeOK /\ CacheFollows /\ LegacyIsKnown /\ PortsAreKnown

IInv == Base /\ \A k \in Kinds, s \in Services : KeyInv(k, s)

-----------------------------------------------------------------------------
(* Steps that leave a key alone, or bring it back.                         *)

(* The caches show the same of s.                                          *)
LooksTheSame(k, s) ==
    /\ cache'.svc[s] = cache.svc[s]
    /\ Served(s)' <=> Served(s)
    /\ Served(s) => /\ Wants(k, s)' = Wants(k, s) /\ cache'.ns = cache.ns
                    /\ k # "svc" => Refs(s)' = Refs(s)

(* Controller k will look at s again, or sees the same of it.              *)
InputsNoticed(k, s) ==
    s \in queue'[k] \/ (s \notin queue[k] /\ LooksTheSame(k, s))

(* Its policies are the same, or an event is on its way.                   *)
PolicyNoticed(k, s) ==
    /\ \/ s \in queue'[k] \/ <<"policy", <<s, k>>>> \in behind'
       \/ /\ <<"policy", <<s, k>>>> \notin behind
          /\ api'.policy[<<s, k>>] = api.policy[<<s, k>>]
    /\ LegacyShrinks(s)

(* It has not worked on s, and has kept its record of a wait.              *)
MemoryKept(k, s) ==
    /\ Working(k, s) \/ Working(k, s)' => job'[k] = job[k]
    /\ \/ s \in queue'[k]
       \/ pending'[k][s] = pending[k][s] /\ (s \in timers[k] => s \in timers'[k])

(* Such a step keeps what the invariant says of the key.                   *)
LEMMA KeyKept ==
    ASSUME TypeOK, TypeOK', NEW k \in Kinds, NEW s \in Services, KeyInv(k, s),
           InputsNoticed(k, s), PolicyNoticed(k, s), MemoryKept(k, s)
    PROVE  KeyInv(k, s)'
<1>0. Working(k, s)' <=> Working(k, s)
  BY DEF MemoryKept, Working
<1>1. StageIsRight(k, s)'
  BY <1>0 DEF KeyInv, StageIsRight, MemoryKept
<1>2. ReadsAreCurrent(k, s)'
  <2> SUFFICES ASSUME Working(k, s)', s \notin queue'[k]
               PROVE  ReadsAreCurrent(k, s)'
    BY DEF ReadsAreCurrent
  <2>1. /\ Working(k, s) /\ job'[k] = job[k] /\ s \notin queue[k] /\ LooksTheSame(k, s)
        /\ StageIsRight(k, s) /\ ReadsAreCurrent(k, s)
    BY <1>0 DEF MemoryKept, InputsNoticed, KeyInv
  <2>2. job[k].pc \in {"collect", "build"} => Present(job[k].o) /\ job[k].pc # "decide"
    BY <2>1 DEF StageIsRight
  <2> QED BY <2>1, <2>2 DEF ReadsAreCurrent, LooksTheSame
<1>3. Steady(k, s)' =>
         /\ Steady(k, s) /\ s \notin queue[k] /\ s \notin queue'[k]
         /\ api'.policy[<<s, k>>] = api.policy[<<s, k>>]
  BY DEF Steady, PolicyNoticed, InputsNoticed
<1>4. api'.policy[<<s, "legacy">>].owner \in {api.policy[<<s, "legacy">>].owner, 0}
  BY DEF PolicyNoticed, LegacyShrinks
<1>5. WorkIsKept(k, s)'
  BY <1>0, <1>3, <1>4 DEF KeyInv, WorkIsKept, MemoryKept, Present
<1>6. RestIsRight(k, s)'
  BY <1>0, <1>3, <1>4 DEF KeyInv, RestIsRight, PoliciesRight, InputsNoticed, LooksTheSame,
                              Served, Present
<1>7. WaitIsReported(k, s)'
  BY <1>0 DEF KeyInv, WaitIsReported, InputsNoticed, LooksTheSame, MemoryKept
<1> QED BY <1>1, <1>2, <1>5, <1>6, <1>7 DEF KeyInv

-----------------------------------------------------------------------------
(* What a Service asks for depends on.                                     *)

(* The namespace, the pods and the discovery resources, besides the        *)
(* Service itself.                                                         *)
LEMMA WantedReads ==
    ASSUME NEW V, NEW W, V.ns = W.ns, V.pod = W.pod, V.disc = W.disc
    PROVE  \A k, s, o : wantedPolicy(k, s, o, V) = wantedPolicy(k, s, o, W)
BY DEF wantedPolicy

(* A Service without a named port does not look at pods.                   *)
LEMMA NumbersNeedNoPods ==
    ASSUME NEW o, NEW ports, NEW V, NEW W, \A p \in ports : p[2] # Named
    PROVE  policyFor(o, ports, V) = policyFor(o, ports, W)
<1>1. \A p \in ports : resolveTargetPorts(p[2], o.selector, V) = resolveTargetPorts(p[2], o.selector, W)
  BY DEF resolveTargetPorts
<1>2. {resolveTargetPorts(p[2], o.selector, V) : p \in ports}
         = {resolveTargetPorts(p[2], o.selector, W) : p \in ports}
  BY <1>1
<1> QED BY <1>2 DEF policyFor

(* A pod that does not matter to its selector.                             *)
LEMMA UnaffectedDeclares ==
    ASSUME NEW V, NEW W, NEW q \in Pods, NEW sel, \A p \in Pods : p # q => W[p] = V[p],
           V[q] \in Pod \cup {NoPod}, W[q] \in Pod \cup {NoPod},
           V[q] = NoPod \/ W[q] = NoPod \/ V[q].port = W[q].port, ~affected(V[q], W[q], sel)
    PROVE  declared(W, sel) = declared(V, sel)
<1> DEFINE was == labelsMatchSelector(V[q].label, sel)
           is  == labelsMatchSelector(W[q].label, sel)
<1>1. was \in BOOLEAN /\ is \in BOOLEAN
  BY DEF labelsMatchSelector
<1>2. is = was /\ (was => V[q].port = W[q].port)
  BY <1>1 DEF affected, labelsMatchSelector, NoPod
<1>3. \A p \in Pods : /\ labelsMatchSelector(W[p].label, sel) <=> labelsMatchSelector(V[p].label, sel)
                      /\ labelsMatchSelector(W[p].label, sel) => W[p].port = V[p].port
  BY <1>2
<1> QED BY <1>3 DEF declared

(* Pods matter only through what they declare to the selector.             *)
LEMMA PolicyReadsDeclared ==
    ASSUME NEW o, NEW ports, NEW V, NEW W, declared(W, o.selector) = declared(V, o.selector)
    PROVE  policyFor(o, ports, W) = policyFor(o, ports, V)
BY DEF policyFor, resolveTargetPorts

(* podToSelectingServices leaves out only Services that ask for the same.  *)
LEMMA PodReads ==
    ASSUME NEW V \in Clusters, NEW W \in Clusters, W.ns = V.ns, W.disc = V.disc,
           NEW q \in Pods, \A p \in Pods : p # q => W.pod[p] = V.pod[p],
           NEW k \in Kinds, NEW s \in Services, NEW o \in Service,
           V.pod[q] = NoPod \/ W.pod[q] = NoPod \/ V.pod[q].port = W.pod[q].port,
           ~hasNamedTargetPort(o) \/ ~affected(V.pod[q], W.pod[q], o.selector)
    PROVE  wantedPolicy(k, s, o, W) = wantedPolicy(k, s, o, V)
<1> DEFINE refs == collectReferencedPorts(s, o, V.disc)
           ports == {p \in o.ports : p[1] \in refs}
                       \cup {<<r, r>> : r \in refs \ {p[1] : p \in o.ports}}
<1>1. o.ports \in SUBSET (Ports \X (Ports \cup {Named})) /\ Named \notin Ports
  BY ServicesAssumption DEF Service
<1>2. /\ policyFor(o, o.ports, W.pod) = policyFor(o, o.ports, V.pod)
      /\ policyFor(o, ports, W.pod) = policyFor(o, ports, V.pod)
  <2>1. CASE ~hasNamedTargetPort(o)
    <3>1. \A p \in o.ports : p[2] # Named
      BY <2>1 DEF hasNamedTargetPort
    <3>2. refs \in SUBSET Ports
      <4>1. \A d \in Discoveries : V.disc[d] \in SUBSET (Services \X Ports)
        BY DEF Clusters
      <4>2. UNION {V.disc[d] : d \in Discoveries} \in SUBSET (Services \X Ports)
        BY <4>1
      <4> QED BY <1>1, <4>2 DEF collectReferencedPorts
    <3> HIDE DEF refs
    <3>3. \A p \in ports : p[2] # Named
      BY <1>1, <3>1, <3>2
    <3> HIDE DEF ports
    <3> QED BY <3>1, <3>3, NumbersNeedNoPods
  <2>2. CASE ~affected(V.pod[q], W.pod[q], o.selector)
    <3>1. declared(W.pod, o.selector) = declared(V.pod, o.selector)
      BY <2>2, UnaffectedDeclares DEF Clusters
    <3> HIDE DEF ports
    <3> QED BY <3>1, PolicyReadsDeclared
  <2> QED BY <2>1, <2>2
<1>3. buildExternalAllowPolicy(o, W.pod) = buildExternalAllowPolicy(o, V.pod)
  BY <1>2 DEF buildExternalAllowPolicy
<1>4. buildApiserverReachablePolicy(o, refs, W.pod) = buildApiserverReachablePolicy(o, refs, V.pod)
  <2> HIDE DEF refs
  <2> QED BY <1>2 DEF buildApiserverReachablePolicy
<1> QED BY <1>3, <1>4 DEF wantedPolicy, desired

(* discoveryToServices leaves out only Services that are referred to as    *)
(* before.                                                                 *)
LEMMA DiscoveryReads ==
    ASSUME NEW V \in Clusters, NEW W \in Clusters, W.ns = V.ns, W.pod = V.pod,
           NEW d \in Discoveries, \A e \in Discoveries : e # d => W.disc[e] = V.disc[e],
           NEW k \in Kinds, NEW s \in Services, NEW o,
           k = "svc" \/ s \notin discoveryToServices(V.disc[d], W.disc[d])
    PROVE  /\ wantedPolicy(k, s, o, W) = wantedPolicy(k, s, o, V)
           /\ k # "svc" => collectReferencedPorts(s, o, W.disc) = collectReferencedPorts(s, o, V.disc)
<1>1. CASE k = "svc"
  BY <1>1 DEF wantedPolicy, desired
<1>2. CASE s \notin discoveryToServices(V.disc[d], W.disc[d])
  <2>1. \A q \in V.disc[d] \cup W.disc[d] : q[1] # s
    BY <1>2 DEF discoveryToServices
  <2>2. {q \in UNION {W.disc[e] : e \in Discoveries} : q[1] = s}
           = {q \in UNION {V.disc[e] : e \in Discoveries} : q[1] = s}
    <3>1. ASSUME NEW q, q[1] = s
          PROVE  (\E e \in Discoveries : q \in W.disc[e]) <=> (\E e \in Discoveries : q \in V.disc[e])
      BY <2>1, <3>1
    <3> QED BY <3>1
  <2>3. collectReferencedPorts(s, o, W.disc) = collectReferencedPorts(s, o, V.disc)
    BY <2>2 DEF collectReferencedPorts
  <2> QED BY <2>3 DEF wantedPolicy
<1> QED BY <1>1, <1>2

-----------------------------------------------------------------------------
(* Everybody else's steps.                                                 *)

(* A step that the informers will see, and that does not touch the caches. *)
LEMMA BaseKept ==
    ASSUME Base, TypeOK', Recorded, cache' = cache
    PROVE  Base'
<1>1. CacheFollows'
  BY DEF Base, CacheFollows, Recorded
<1>2. LegacyIsKnown'
  BY DEF Base, LegacyIsKnown, Recorded, LegacyShrinks
<1>3. PortsAreKnown'
  BY DEF Base, PortsAreKnown, Recorded, PortsStay
<1> QED BY <1>1, <1>2, <1>3 DEF Base

(* A change of the cluster that no cache shows yet keeps a key's           *)
(* invariant: whatever it disturbs has an event on its way.                *)
LEMMA UntouchedKept ==
    ASSUME TypeOK, TypeOK', Recorded, cache' = cache,
           NEW k \in Kinds, NEW s \in Services, KeyInv(k, s),
           s \in queue[k] => s \in queue'[k], MemoryKept(k, s)
    PROVE  KeyInv(k, s)'
<1>1. InputsNoticed(k, s)
  BY DEF InputsNoticed, LooksTheSame, Served, Wants, Refs
<1>2. <<s, k>> \in PolicyNames
  BY DEF PolicyNames
<1>3. PolicyNoticed(k, s)
  BY <1>2 DEF PolicyNoticed, Recorded
<1> QED BY <1>1, <1>3, KeyKept

(* Users, Kubernetes and the garbage collector keep the invariant.         *)
LEMMA OthersKept ==
    ASSUME IInv, Others
    PROVE  IInv'
<1>1. TypeOK
  BY DEF IInv, Base
<1>2. Recorded /\ UNCHANGED <<cache, memory, faults>> /\ edits' \in 0 .. MaxEdits
  BY <1>1, OthersRecorded
<1>3. TypeOK'
  BY <1>1, <1>2 DEF TypeOK, Recorded, memory
<1>4. ASSUME NEW k \in Kinds, NEW s \in Services PROVE KeyInv(k, s)'
  <2>1. MemoryKept(k, s) /\ queue' = queue
    BY <1>2 DEF MemoryKept, memory
  <2> QED BY <1>1, <1>2, <1>3, <2>1, UntouchedKept DEF IInv
<1> QED BY <1>2, <1>3, <1>4, BaseKept DEF IInv

(* The timer of a wait.                                                    *)
LEMMA TimerKept ==
    ASSUME IInv, NEW k \in Kinds, NEW s \in Services, Timer(k, s)
    PROVE  IInv'
<1>1. TypeOK
  BY DEF IInv, Base
<1>2. UNCHANGED <<api, cache, behind, job, pending, edits, faults>>
  BY DEF Timer
<1>3. /\ timers' \in [Kinds -> SUBSET Services] /\ queue' \in [Kinds -> SUBSET Services]
      /\ \A m \in Kinds, t \in Services :
            /\ t \in queue[m] => t \in queue'[m]
            /\ t \in timers[m] => t \in timers'[m] \/ t \in queue'[m]
  BY <1>1 DEF Timer, TypeOK
<1>4. TypeOK'
  BY <1>1, <1>2, <1>3 DEF TypeOK
<1>5. Recorded
  BY <1>1, <1>2 DEF Recorded, LegacyShrinks, PortsStay, TypeOK
<1>6. ASSUME NEW m \in Kinds, NEW t \in Services PROVE KeyInv(m, t)'
  <2>1. MemoryKept(m, t)
    BY <1>2, <1>3 DEF MemoryKept
  <2> QED BY <1>1, <1>2, <1>3, <1>4, <1>5, <2>1, UntouchedKept DEF IInv
<1> QED BY <1>2, <1>4, <1>5, <1>6, BaseKept DEF IInv

(* A starting operator has everything to look at that it can find.         *)
LEMMA StartKept ==
    ASSUME TypeOK, cache = api, queue = StartQueue(api), job = NoWork
    PROVE  IInv
<1>1. CacheFollows /\ LegacyIsKnown /\ PortsAreKnown
  BY DEF CacheFollows, LegacyIsKnown, PortsAreKnown
<1>2. ASSUME NEW k \in Kinds, NEW s \in Services PROVE KeyInv(k, s)
  <2>1. ~Working(k, s)
    BY DEF Working, NoWork
  <2>2. s \notin queue[k] => ~Served(s)
    BY DEF StartQueue, Served
  <2> QED BY <2>1, <2>2 DEF KeyInv, StageIsRight, ReadsAreCurrent, WorkIsKept, RestIsRight,
                            WaitIsReported, Steady
<1> QED BY <1>1, <1>2 DEF IInv, Base

(* The types of what a starting operator has in memory.                    *)
LEMMA StartTypes ==
    ASSUME NEW view \in Clusters
    PROVE  /\ StartQueue(view) \in [Kinds -> SUBSET Services]
           /\ None \in [Kinds -> SUBSET Services] /\ NoWork \in [Kinds -> Jobs]
           /\ NoneReported \in [Kinds -> [Services -> 0 .. MaxUid]]
<1>1. 0 \in 0 .. MaxUid
  BY ServicesAssumption
<1> QED BY <1>1 DEF StartQueue, None, NoWork, NoneReported, Jobs

(* A starting operator queues every Service it finds.                      *)
LEMMA InitInv ==
    ASSUME Init
    PROVE  IInv
<1>1. api \in Clusters /\ cache = api /\ behind = {} /\ edits = 0 /\ faults = 0
  BY ServicesAssumption DEF Init
<1>2. TypeOK
  BY <1>1, StartTypes, ServicesAssumption DEF TypeOK, Init
<1> QED BY <1>1, <1>2, StartKept DEF Init

(* StartKept, of the state after the step.                                 *)
LEMMA RestartKept ==
    ASSUME IInv, Restart
    PROVE  IInv'
<1>1. api \in Clusters /\ edits \in 0 .. MaxEdits /\ faults \in 0 .. MaxFaults
  BY DEF IInv, Base, TypeOK
<1>2. /\ cache' = api /\ api' = api /\ behind' = {} /\ edits' = edits /\ faults' \in 0 .. MaxFaults
      /\ queue' = StartQueue(api) /\ timers' = None /\ job' = NoWork /\ pending' = NoneReported
  BY <1>1, ServicesAssumption DEF Restart
<1>3. TypeOK'
  BY <1>1, <1>2, StartTypes DEF TypeOK
<1>4. CacheFollows' /\ LegacyIsKnown' /\ PortsAreKnown'
  BY <1>2 DEF CacheFollows, LegacyIsKnown, PortsAreKnown
<1>5. ASSUME NEW k \in Kinds, NEW s \in Services PROVE KeyInv(k, s)'
  <2>1. ~Working(k, s)'
    BY <1>2 DEF Working, NoWork
  <2>2. s \notin queue'[k] => ~Served(s)'
    BY <1>2 DEF StartQueue, Served
  <2> QED BY <2>1, <2>2 DEF KeyInv, StageIsRight, ReadsAreCurrent, WorkIsKept, RestIsRight,
                            WaitIsReported, Steady
<1> QED BY <1>3, <1>4, <1>5 DEF IInv, Base

-----------------------------------------------------------------------------
(* The informers.                                                          *)

(* An event: the cache takes over object x, and Services may be enqueued.  *)
Delivered(x) ==
    /\ behind' = behind \ {x} /\ UNCHANGED <<api, timers, job, pending, edits, faults>>
    /\ cache' \in Clusters /\ queue' \in [Kinds -> SUBSET Services]
    /\ \A k \in Kinds : queue[k] \subseteq queue'[k]
    /\ cache'.ns = IF x = <<"ns", "">> THEN api.ns ELSE cache.ns
    /\ \A s \in Services : cache'.svc[s] = IF x = <<"svc", s>> THEN api.svc[s] ELSE cache.svc[s]
    /\ \A p \in Pods : cache'.pod[p] = IF x = <<"pod", p>> THEN api.pod[p] ELSE cache.pod[p]
    /\ \A d \in Discoveries :
          cache'.disc[d] = IF x = <<"disc", d>> THEN api.disc[d] ELSE cache.disc[d]
    /\ \A n \in PolicyNames :
          cache'.policy[n] = IF x = <<"policy", n>> THEN api.policy[n] ELSE cache.policy[n]

(* An event is taken by every Service that it changes something for.       *)
LEMMA DeliveredKept ==
    ASSUME IInv, NEW x, Delivered(x),
           \A k \in Kinds, s \in Services : x = <<"policy", <<s, k>>>> => s \in queue'[k],
           \A k \in Kinds, s \in Services :
              s \in queue'[k] \/ LooksTheSame(k, s)
    PROVE  IInv'
<1>1. TypeOK /\ CacheFollows /\ LegacyIsKnown /\ PortsAreKnown
  BY DEF IInv, Base
<1>2. TypeOK'
  BY <1>1 DEF TypeOK, Delivered
<1>3. CacheFollows'
  BY <1>1 DEF CacheFollows, Delivered
<1>4. LegacyIsKnown'
  <2>1. \A s \in Services : <<s, "legacy">> \in PolicyNames
    BY DEF PolicyNames
  <2> QED BY <1>1, <2>1 DEF LegacyIsKnown, Delivered
<1>6. PortsAreKnown'
  BY <1>1 DEF PortsAreKnown, Delivered
<1>5. ASSUME NEW k \in Kinds, NEW s \in Services PROVE KeyInv(k, s)'
  <2>1. InputsNoticed(k, s)
    BY DEF InputsNoticed, Delivered
  <2>2. PolicyNoticed(k, s)
    BY DEF PolicyNoticed, LegacyShrinks, Delivered
  <2>3. MemoryKept(k, s)
    BY DEF MemoryKept, Delivered
  <2> QED BY <1>1, <1>2, <2>1, <2>2, <2>3, KeyKept DEF IInv
<1> QED BY <1>2, <1>3, <1>4, <1>5, <1>6 DEF IInv, Base

(* What Enqueue adds.                                                      *)
LEMMA Enqueued ==
    ASSUME TypeOK, NEW services \in [Kinds -> SUBSET Services], Enqueue(services)
    PROVE  /\ queue' \in [Kinds -> SUBSET Services]
           /\ \A k \in Kinds : queue[k] \subseteq queue'[k] /\ services[k] \subseteq queue'[k]
BY DEF TypeOK, Enqueue

(* The watches that concern both controllers.                              *)
LEMMA BothTypes ==
    ASSUME NEW services \in SUBSET Services
    PROVE  Both(services) \in [Kinds -> SUBSET Services] /\ \A k \in Kinds : Both(services)[k] = services
BY DEF Both

(* The event of a Service queues it for both controllers.                  *)
LEMMA DeliverServiceKept ==
    ASSUME IInv, NEW t \in Services, DeliverService(t)
    PROVE  IInv'
<1>1. TypeOK /\ api \in Clusters /\ cache \in Clusters
  BY DEF IInv, Base, TypeOK
<1>2. /\ queue' \in [Kinds -> SUBSET Services]
      /\ \A k \in Kinds : queue[k] \subseteq queue'[k] /\ t \in queue'[k]
  <2>1. {t} \in SUBSET Services
    OBVIOUS
  <2> QED BY <1>1, <2>1, Enqueued, BothTypes DEF DeliverService
<1>3. /\ cache' \in Clusters /\ cache'.ns = cache.ns /\ cache'.pod = cache.pod
      /\ cache'.disc = cache.disc /\ cache'.policy = cache.policy /\ cache'.svc[t] = api.svc[t]
      /\ \A s \in Services : s # t => cache'.svc[s] = cache.svc[s]
  BY <1>1 DEF DeliverService, Clusters
<1>4. Delivered(<<"svc", t>>)
  BY <1>2, <1>3 DEF Delivered, DeliverService, Delivery, Seen
<1>5. ASSUME NEW k \in Kinds, NEW s \in Services, s \notin queue'[k]
      PROVE  LooksTheSame(k, s)
  <2>1. cache'.svc[s] = cache.svc[s]
    BY <1>2, <1>3, <1>5
  <2> QED BY <1>3, <2>1, WantedReads DEF LooksTheSame, Served, Wants, Refs
<1>6. \A k, s : <<"svc", t>> # <<"policy", <<s, k>>>>
  OBVIOUS
<1> QED BY <1>4, <1>5, <1>6, DeliveredKept

(* A namespace's event is taken by every Service in the cache; the others  *)
(* have nothing to ask for.                                                *)
LEMMA DeliverNamespaceKept ==
    ASSUME IInv, DeliverNamespace
    PROVE  IInv'
<1>1. TypeOK /\ api \in Clusters /\ cache \in Clusters
  BY DEF IInv, Base, TypeOK
<1>2. /\ queue' \in [Kinds -> SUBSET Services]
      /\ \A k \in Kinds : queue[k] \subseteq queue'[k] /\ InCache \subseteq queue'[k]
  <2>1. InCache \in SUBSET Services
    BY DEF InCache
  <2>2. Enqueue(Both(InCache))
    BY DEF DeliverNamespace, namespaceToServices
  <2> QED BY <1>1, <2>1, <2>2, Enqueued, BothTypes
<1>3. /\ cache' \in Clusters /\ cache'.ns = api.ns /\ cache'.pod = cache.pod
      /\ cache'.disc = cache.disc /\ cache'.policy = cache.policy /\ cache'.svc = cache.svc
  BY <1>1 DEF DeliverNamespace, Clusters
<1>4. Delivered(<<"ns", "">>)
  <2>1. behind' = behind \ {<<"ns", "">>} /\ UNCHANGED <<api, timers, job, pending, edits, faults>>
    BY DEF DeliverNamespace, Delivery, Seen
  <2> QED BY <1>2, <1>3, <2>1 DEF Delivered
<1>5. ASSUME NEW k \in Kinds, NEW s \in Services, s \notin queue'[k]
      PROVE  LooksTheSame(k, s)
  <2>1. ~Present(cache.svc[s])
    BY <1>2, <1>5 DEF InCache
  <2> QED BY <1>3, <2>1 DEF LooksTheSame, Served
<1>6. \A k, s : <<"ns", "">> # <<"policy", <<s, k>>>>
  OBVIOUS
<1> QED BY <1>4, <1>5, <1>6, DeliveredKept

(* A pod's event queues the Services that select its old or new labels and *)
(* have a named port; what the others ask for does not depend on it.       *)
LEMMA DeliverPodKept ==
    ASSUME IInv, NEW q \in Pods, DeliverPod(q)
    PROVE  IInv'
<1>1. TypeOK /\ api \in Clusters /\ cache \in Clusters
  BY DEF IInv, Base, TypeOK
<1> DEFINE selecting == podToSelectingServices(cache.pod[q], api.pod[q])
<1>2. /\ queue' \in [Kinds -> SUBSET Services]
      /\ \A k \in Kinds : queue[k] \subseteq queue'[k] /\ selecting \subseteq queue'[k]
  <2>1. selecting \in SUBSET Services
    BY DEF podToSelectingServices, InCache
  <2> QED BY <1>1, <2>1, Enqueued, BothTypes DEF DeliverPod
<1>3. /\ cache' \in Clusters /\ cache'.ns = cache.ns /\ cache'.svc = cache.svc
      /\ cache'.disc = cache.disc /\ cache'.policy = cache.policy /\ cache'.pod[q] = api.pod[q]
      /\ \A p \in Pods : p # q => cache'.pod[p] = cache.pod[p]
  BY <1>1 DEF DeliverPod, Clusters
<1>4. Delivered(<<"pod", q>>)
  BY <1>2, <1>3 DEF Delivered, DeliverPod, Delivery, Seen
<1>5. ASSUME NEW k \in Kinds, NEW s \in Services, s \notin queue'[k]
      PROVE  LooksTheSame(k, s)
  <2>1. cache'.svc[s] = cache.svc[s] /\ (Served(s)' <=> Served(s))
    BY <1>3 DEF Served
  <2>2. ASSUME Served(s) PROVE Wants(k, s)' = Wants(k, s)
    <3>1. cache.svc[s] \in Service
      BY <1>1 DEF Clusters
    <3>2. \/ ~hasNamedTargetPort(cache.svc[s])
          \/ ~affected(cache.pod[q], cache'.pod[q], cache.svc[s].selector)
      BY <1>2, <1>3, <1>5, <2>2 DEF podToSelectingServices, InCache, Served
    <3>3. cache.pod[q] = NoPod \/ cache'.pod[q] = NoPod \/ cache.pod[q].port = cache'.pod[q].port
      BY <1>3 DEF IInv, Base, PortsAreKnown
    <3>4. wantedPolicy(k, s, cache.svc[s], cache') = wantedPolicy(k, s, cache.svc[s], cache)
      BY <1>1, <1>3, <3>1, <3>2, <3>3, PodReads
    <3> QED BY <2>1, <3>4 DEF Wants
  <2> QED BY <1>3, <2>1, <2>2 DEF LooksTheSame, Refs
<1>6. \A k, s : <<"pod", q>> # <<"policy", <<s, k>>>>
  OBVIOUS
<1> QED BY <1>4, <1>5, <1>6, DeliveredKept

(* The event of a discovery resource queues the Services that its old or   *)
(* new version refers to; what the others ask for does not depend on it.   *)
LEMMA DeliverDiscoveryKept ==
    ASSUME IInv, NEW d \in Discoveries, DeliverDiscovery(d)
    PROVE  IInv'
<1>1. TypeOK /\ api \in Clusters /\ cache \in Clusters
  BY DEF IInv, Base, TypeOK
<1> DEFINE referred == discoveryToServices(cache.disc[d], api.disc[d])
           taken == [k \in Kinds |-> IF k = "svc" THEN {} ELSE referred]
<1>2. /\ queue' \in [Kinds -> SUBSET Services]
      /\ \A k \in Kinds : queue[k] \subseteq queue'[k] /\ (k # "svc" => referred \subseteq queue'[k])
  <2>1. referred \in SUBSET Services
    <3>1. cache.disc[d] \cup api.disc[d] \subseteq Services \X Ports
      BY <1>1 DEF Clusters
    <3> QED BY <3>1 DEF discoveryToServices
  <2>2. Enqueue(taken)
    BY DEF DeliverDiscovery
  <2> HIDE DEF referred
  <2>3. taken \in [Kinds -> SUBSET Services] /\ \A k \in Kinds : k # "svc" => taken[k] = referred
    BY <2>1
  <2> HIDE DEF taken
  <2> QED BY <1>1, <2>2, <2>3, Enqueued
<1>3. /\ cache' \in Clusters /\ cache'.ns = cache.ns /\ cache'.svc = cache.svc
      /\ cache'.pod = cache.pod /\ cache'.policy = cache.policy /\ cache'.disc[d] = api.disc[d]
      /\ \A e \in Discoveries : e # d => cache'.disc[e] = cache.disc[e]
  BY <1>1 DEF DeliverDiscovery, Clusters
<1>4. Delivered(<<"disc", d>>)
  BY <1>2, <1>3 DEF Delivered, DeliverDiscovery, Delivery, Seen
<1>5. ASSUME NEW k \in Kinds, NEW s \in Services, s \notin queue'[k]
      PROVE  LooksTheSame(k, s)
  <2>1. cache'.svc[s] = cache.svc[s] /\ (Served(s)' <=> Served(s))
    BY <1>3 DEF Served
  <2>2. k = "svc" \/ s \notin discoveryToServices(cache.disc[d], cache'.disc[d])
    BY <1>2, <1>3, <1>5
  <2>3. /\ wantedPolicy(k, s, cache.svc[s], cache') = wantedPolicy(k, s, cache.svc[s], cache)
        /\ k # "svc" => collectReferencedPorts(s, cache.svc[s], cache'.disc)
                           = collectReferencedPorts(s, cache.svc[s], cache.disc)
    BY <1>1, <1>3, <2>2, DiscoveryReads
  <2> QED BY <1>3, <2>1, <2>3 DEF LooksTheSame, Wants, Refs
<1>6. \A k, s : <<"disc", d>> # <<"policy", <<s, k>>>>
  OBVIOUS
<1> QED BY <1>4, <1>5, <1>6, DeliveredKept

(* A policy's event queues its Service for the controller of its kind.     *)
LEMMA DeliverPolicyKept ==
    ASSUME IInv, NEW n \in PolicyNames, DeliverPolicy(n)
    PROVE  IInv'
<1>1. TypeOK /\ api \in Clusters /\ cache \in Clusters
  BY DEF IInv, Base, TypeOK
<1> DEFINE taken == [k \in Kinds |-> IF externalAllowPolicyPredicate(n, k) THEN {n[1]} ELSE {}]
<1>2. /\ queue' \in [Kinds -> SUBSET Services]
      /\ \A k \in Kinds : queue[k] \subseteq queue'[k] /\ (n[2] = k => n[1] \in queue'[k])
  <2>1. Enqueue(taken)
    BY DEF DeliverPolicy
  <2>2. taken \in [Kinds -> SUBSET Services] /\ \A k \in Kinds : n[2] = k => n[1] \in taken[k]
    BY DEF PolicyNames, externalAllowPolicyPredicate
  <2> HIDE DEF taken
  <2> QED BY <1>1, <2>1, <2>2, Enqueued
<1>3. /\ cache' \in Clusters /\ cache'.ns = cache.ns /\ cache'.svc = cache.svc
      /\ cache'.pod = cache.pod /\ cache'.disc = cache.disc /\ cache'.policy[n] = api.policy[n]
      /\ \A m \in PolicyNames : m # n => cache'.policy[m] = cache.policy[m]
  BY <1>1 DEF DeliverPolicy, Clusters
<1>4. Delivered(<<"policy", n>>)
  BY <1>2, <1>3 DEF Delivered, DeliverPolicy, Delivery, Seen
<1>5. ASSUME NEW k \in Kinds, NEW s \in Services
      PROVE  LooksTheSame(k, s)
  BY <1>3, WantedReads DEF LooksTheSame, Served, Wants, Refs
<1>6. \A k \in Kinds, s \in Services : <<"policy", n>> = <<"policy", <<s, k>>>> => s \in queue'[k]
  BY <1>2
<1> QED BY <1>4, <1>5, <1>6, DeliveredKept

-----------------------------------------------------------------------------
(* The workers.                                                            *)

(* What a step of worker k on Service s leaves alone.                      *)
StepOn(k, s) ==
    /\ cache' = cache /\ Recorded
    /\ job[k] = Idle \/ job[k].svc = s
    /\ job'[k] = Idle \/ job'[k].svc = s
    /\ \A m \in Kinds : m # k => job'[m] = job[m]
    /\ \A m \in Kinds, t \in Services :
          \/ m = k /\ t = s
          \/ /\ t \in queue'[m] <=> t \in queue[m]
             /\ t \in timers'[m] <=> t \in timers[m]
             /\ pending'[m][t] = pending[m][t]

(* Such a step keeps the invariant if it does so for its own Service.      *)
LEMMA StepKept ==
    ASSUME IInv, TypeOK', NEW k \in Kinds, NEW s \in Services, StepOn(k, s), KeyInv(k, s)'
    PROVE  IInv'
<1>1. Base'
  BY BaseKept DEF IInv, StepOn
<1>2. ASSUME NEW m \in Kinds, NEW t \in Services, ~(m = k /\ t = s) PROVE KeyInv(m, t)'
  <2>1. MemoryKept(m, t)
    BY <1>2 DEF StepOn, MemoryKept, Working
  <2>2. KeyInv(m, t) /\ TypeOK
    BY DEF IInv, Base
  <2> QED BY <1>2, <2>1, <2>2, UntouchedKept DEF StepOn
<1> QED BY <1>1, <1>2 DEF IInv

(* Nothing is written.                                                     *)
LEMMA ReadsRecorded ==
    ASSUME TypeOK, UNCHANGED <<api, behind>>
    PROVE  Recorded
BY DEF TypeOK, Recorded, LegacyShrinks, PortsStay

(* A reconcile in progress is a task.                                      *)
LEMMA TaskType ==
    ASSUME TypeOK, NEW k \in Kinds
    PROVE  /\ job[k] # Idle => job[k] \in Tasks
           /\ job[k].pc # "idle" => job[k] \in Tasks
           /\ Idle \in Jobs
           /\ \A j \in Tasks : j # Idle /\ j \in Jobs
BY DEF TypeOK, Jobs, Tasks, Idle

(* The worker's next task.                                                 *)
LEMMA GoKept ==
    ASSUME TypeOK, NEW k \in Kinds, NEW j \in Jobs, Go(k, j)
    PROVE  /\ job' \in [Kinds -> Jobs] /\ job'[k] = j
           /\ \A m \in Kinds : m # k => job'[m] = job[m]
BY DEF TypeOK, Go

(* The end of a wait touches one record only.                              *)
LEMMA ClearKept ==
    ASSUME TypeOK, NEW k \in Kinds, NEW s \in Services, clear(k, s)
    PROVE  /\ pending' \in [Kinds -> [Services -> 0 .. MaxUid]]
           /\ \A m \in Kinds, t \in Services : (m = k /\ t = s) \/ pending'[m][t] = pending[m][t]
BY ServicesAssumption DEF TypeOK, clear

(* The reconcile ends.                                                     *)
LEMMA DoneKept ==
    ASSUME TypeOK, NEW k \in Kinds, job[k] \in Tasks, Done(k), cache' = cache, Recorded,
           edits' = edits, faults' \in 0 .. MaxFaults
    PROVE  /\ TypeOK' /\ StepOn(k, job[k].svc) /\ job'[k] = Idle
           /\ queue' = queue
<1> DEFINE s == job[k].svc
<1>1. s \in Services
  BY DEF Tasks
<1>2. /\ job' \in [Kinds -> Jobs] /\ job'[k] = Idle
      /\ \A m \in Kinds : m # k => job'[m] = job[m]
  BY TaskType, GoKept DEF Done
<1>3. /\ pending' \in [Kinds -> [Services -> 0 .. MaxUid]]
      /\ \A m \in Kinds, t \in Services : (m = k /\ t = s) \/ pending'[m][t] = pending[m][t]
  BY <1>1, ClearKept DEF Done
<1>4. UNCHANGED <<queue, timers>>
  BY DEF Done
<1>5. TypeOK'
  BY <1>2, <1>3, <1>4 DEF TypeOK, Recorded
<1>6. StepOn(k, s)
  BY <1>2, <1>3, <1>4 DEF StepOn
<1> QED BY <1>2, <1>4, <1>5, <1>6

(* The reconcile goes on with task j.                                      *)
LEMMA TaskKept ==
    ASSUME TypeOK, NEW k \in Kinds, job[k] \in Tasks, NEW j \in Tasks, j.svc = job[k].svc, Go(k, j),
           cache' = cache, Recorded, UNCHANGED <<queue, timers, pending, edits, faults>>
    PROVE  TypeOK' /\ StepOn(k, job[k].svc) /\ job'[k] = j /\ j # Idle
<1>1. /\ job' \in [Kinds -> Jobs] /\ job'[k] = j /\ j # Idle
      /\ \A m \in Kinds : m # k => job'[m] = job[m]
  BY TaskType, GoKept
<1>2. TypeOK'
  BY <1>1 DEF TypeOK, Recorded
<1>3. StepOn(k, job[k].svc)
  BY <1>1 DEF StepOn
<1> QED BY <1>1, <1>2, <1>3

(* An error.  The Service is queued again, so that nothing has to hold.    *)
LEMMA FailKept ==
    ASSUME IInv, NEW k \in Kinds, job[k] \in Tasks, Fail(k), cache' = cache, UNCHANGED <<api, behind>>,
           edits' = edits, faults' \in 0 .. MaxFaults
    PROVE  IInv'
<1>0. PICK s \in Services : s = job[k].svc
  BY DEF Tasks
<1>1. TypeOK
  BY DEF IInv, Base
<1>2. /\ job' \in [Kinds -> Jobs] /\ job'[k] = Idle
      /\ \A m \in Kinds : m # k => job'[m] = job[m]
  BY <1>1, TaskType, GoKept DEF Fail
<1>3. /\ pending' \in [Kinds -> [Services -> 0 .. MaxUid]]
      /\ \A m \in Kinds, t \in Services : (m = k /\ t = s) \/ pending'[m][t] = pending[m][t]
  BY <1>0, <1>1, ClearKept DEF Fail
<1>4. /\ queue' \in [Kinds -> SUBSET Services] /\ timers' = timers /\ s \in queue'[k]
      /\ \A m \in Kinds, t \in Services : (m = k /\ t = s) \/ (t \in queue'[m] <=> t \in queue[m])
  BY <1>0, <1>1 DEF Fail, TypeOK
<1>5. Recorded
  BY <1>1, ReadsRecorded
<1>6. TypeOK'
  BY <1>1, <1>2, <1>3, <1>4 DEF TypeOK
<1>7. StepOn(k, s)
  BY <1>0, <1>2, <1>3, <1>4, <1>5 DEF StepOn
<1>8. KeyInv(k, s)'
  BY <1>2, <1>4 DEF KeyInv, StageIsRight, ReadsAreCurrent, WorkIsKept, RestIsRight, WaitIsReported,
                    Working, Steady
<1> QED BY <1>6, <1>7, <1>8, StepKept

(* A failing call puts the Service back into the queue.                    *)
LEMMA CallFailsKept ==
    ASSUME IInv, NEW k \in Kinds, CallFails(k)
    PROVE  IInv'
<1>1. TypeOK
  BY DEF IInv, Base
<1>2. job[k] \in Tasks
  BY <1>1, TaskType DEF CallFails
<1>3. faults' \in 0 .. MaxFaults
  BY <1>1, ServicesAssumption DEF CallFails, TypeOK
<1> QED BY <1>2, <1>3, FailKept DEF CallFails

(* A reconcile begins with the Service as the cache shows it.              *)
LEMMA BeginKept ==
    ASSUME IInv, NEW k \in Kinds, NEW s \in Services, Begin(k, s)
    PROVE  IInv'
<1> DEFINE o == cache.svc[s]
           start == [pc |-> "decide", svc |-> s, o |-> o, refs |-> {}, want |-> NoPolicy, todo |-> {}]
           next == IF Present(o) THEN start ELSE [start EXCEPT !.pc = "purge"]
<1>1. TypeOK /\ o \in Service
  BY DEF IInv, Base, TypeOK, Clusters
<1>2. start \in Tasks /\ [start EXCEPT !.pc = "purge"] \in Tasks
  BY <1>1 DEF Tasks
<1>3. /\ job[k] = Idle /\ UNCHANGED <<timers, api, cache, behind, edits, faults>>
      /\ queue' = [queue EXCEPT ![k] = @ \ {s}] /\ Go(k, next)
      /\ pending' = pending \/ clear(k, s)
  BY DEF Begin, Reads
<1>4. next \in Tasks
  BY <1>2
<1>5. /\ next.svc = s /\ next.o = o /\ next.want = NoPolicy
  OBVIOUS
<1>6. /\ Present(o) => next.pc = "decide"
      /\ ~Present(o) => next.pc = "purge"
  OBVIOUS
<1> HIDE DEF start, next
<1>7. /\ job' \in [Kinds -> Jobs] /\ job'[k] = next /\ next # Idle
      /\ \A m \in Kinds : m # k => job'[m] = job[m]
  BY <1>1, <1>3, <1>4, TaskType, GoKept
<1>8. /\ queue' \in [Kinds -> SUBSET Services]
      /\ \A m \in Kinds, t \in Services : (m = k /\ t = s) \/ (t \in queue'[m] <=> t \in queue[m])
  BY <1>1, <1>3 DEF TypeOK
<1>9. /\ pending' \in [Kinds -> [Services -> 0 .. MaxUid]]
      /\ \A m \in Kinds, t \in Services : (m = k /\ t = s) \/ pending'[m][t] = pending[m][t]
  <2>1. pending \in [Kinds -> [Services -> 0 .. MaxUid]]
    BY <1>1 DEF TypeOK
  <2> QED BY <1>1, <1>3, <2>1, ClearKept
<1>10. TypeOK'
  BY <1>1, <1>3, <1>7, <1>8, <1>9 DEF TypeOK
<1>11. StepOn(k, s)
  BY <1>1, <1>3, <1>5, <1>7, <1>8, <1>9, ReadsRecorded DEF StepOn
<1>12. KeyInv(k, s)'
  BY <1>3, <1>5, <1>6, <1>7 DEF KeyInv, StageIsRight, ReadsAreCurrent, WorkIsKept, RestIsRight,
                                WaitIsReported, Working
<1> QED BY <1>10, <1>11, <1>12, StepKept

(* A reconcile in progress, and what the invariant says of it.             *)
LEMMA AtWork ==
    ASSUME IInv, NEW k \in Kinds, job[k].pc # "idle"
    PROVE  /\ TypeOK /\ job[k] \in Tasks /\ job[k] # Idle
           /\ \E s \in Services : s = job[k].svc /\ Working(k, s) /\ KeyInv(k, s)
<1>1. TypeOK
  BY DEF IInv, Base
<1>2. job[k] \in Tasks /\ job[k] # Idle
  BY <1>1, TaskType DEF Idle
<1>3. job[k].svc \in Services
  BY <1>2 DEF Tasks
<1> QED BY <1>1, <1>2, <1>3 DEF IInv, Working

(* The namespace is read: the reconcile goes on if it is served.           *)
LEMMA DecideKept ==
    ASSUME IInv, NEW k \in Kinds, Decide(k)
    PROVE  IInv'
<1>1. job[k].pc = "decide" /\ UNCHANGED <<api, cache, behind, edits, faults>>
  BY DEF Decide, Reads
<1>2. TypeOK /\ job[k] \in Tasks /\ job[k] # Idle
  BY <1>1, AtWork
<1>3. PICK s \in Services : s = job[k].svc /\ Working(k, s) /\ KeyInv(k, s)
  BY <1>1, AtWork
<1>4. /\ Present(job[k].o) /\ job[k].want = NoPolicy
      /\ s \notin queue[k] => job[k].o = cache.svc[s]
  BY <1>1, <1>3 DEF KeyInv, StageIsRight, ReadsAreCurrent
<1>5. Recorded /\ faults' \in 0 .. MaxFaults
  BY <1>1, <1>2, ReadsRecorded DEF TypeOK
<1>6. CASE skipped(cache.ns)
  <2>1. Done(k)
    BY <1>6 DEF Decide
  <2>2. TypeOK' /\ StepOn(k, s) /\ job'[k] = Idle
    BY <1>1, <1>2, <1>3, <1>5, <2>1, DoneKept
  <2>3. ~Working(k, s)' /\ ~Served(s)'
    BY <1>1, <1>6, <2>2 DEF Working, Served
  <2>4. KeyInv(k, s)'
    BY <2>3 DEF KeyInv, StageIsRight, ReadsAreCurrent, WorkIsKept, RestIsRight, WaitIsReported
  <2> QED BY <2>2, <2>4, StepKept
<1>7. CASE ~skipped(cache.ns)
  <2>1. PICK h : h = [job[k] EXCEPT !.pc = IF closed(job[k].o, cache.ns) THEN "sweep"
                                           ELSE IF k = "svc" THEN "build" ELSE "collect"]
    OBVIOUS
  <2>2. /\ h \in Tasks /\ h.svc = s /\ h.o = job[k].o /\ h.want = NoPolicy
        /\ closed(h.o, cache.ns) => h.pc = "sweep"
        /\ ~closed(h.o, cache.ns) => h.pc = IF k = "svc" THEN "build" ELSE "collect"
    BY <1>2, <1>3, <1>4, <2>1 DEF Tasks
  <2>3. Go(k, h) /\ UNCHANGED <<queue, timers, pending>>
    BY <1>7, <2>1 DEF Decide, Goto, Undisturbed
  <2>4. TypeOK' /\ StepOn(k, s) /\ job'[k] = h /\ h # Idle
    BY <1>1, <1>2, <1>3, <1>5, <2>2, <2>3, TaskKept
  <2>5. s \notin queue'[k] => h.o = cache'.svc[s] /\ Served(s)'
    BY <1>1, <1>4, <1>7, <2>2, <2>3 DEF Served
  <2>6. s \notin queue'[k] /\ closed(h.o, cache.ns) => Wants(k, s)' = NoPolicy
    BY <1>1, <2>5 DEF Wants, wantedPolicy
  <2>7. KeyInv(k, s)'
    BY <1>1, <1>4, <2>2, <2>4, <2>5, <2>6 DEF KeyInv, StageIsRight, ReadsAreCurrent, WorkIsKept,
                                        RestIsRight, WaitIsReported, Working
  <2> QED BY <2>4, <2>7, StepKept
<1> QED BY <1>6, <1>7

(* The discovery resources are listed.                                     *)
LEMMA CollectKept ==
    ASSUME IInv, NEW k \in Kinds, Collect(k)
    PROVE  IInv'
<1>1. job[k].pc = "collect" /\ UNCHANGED <<api, cache, behind, queue, timers, pending, edits, faults>>
  BY DEF Collect, Reads, Undisturbed
<1>2. TypeOK /\ job[k] \in Tasks /\ job[k] # Idle
  BY <1>1, AtWork
<1>3. PICK s \in Services : s = job[k].svc /\ Working(k, s) /\ KeyInv(k, s)
  BY <1>1, AtWork
<1>4. /\ Present(job[k].o) /\ job[k].want = NoPolicy
      /\ s \notin queue[k] =>
            job[k].o = cache.svc[s] /\ Served(s) /\ ~closed(job[k].o, cache.ns)
  BY <1>1, <1>3 DEF KeyInv, StageIsRight, ReadsAreCurrent
<1>5. PICK refs : refs = collectReferencedPorts(s, job[k].o, cache.disc)
  OBVIOUS
<1>6. refs \in SUBSET Ports
  BY <1>2, <1>5, RefsType DEF TypeOK, Tasks
<1>7. PICK h : h = [job[k] EXCEPT !.pc = "build", !.refs = refs]
  OBVIOUS
<1>8. /\ h \in Tasks /\ h.svc = s /\ h.o = job[k].o /\ h.want = NoPolicy
      /\ h.pc = "build" /\ h.refs = refs
  BY <1>2, <1>3, <1>4, <1>6, <1>7 DEF Tasks
<1>9. TypeOK' /\ StepOn(k, s) /\ job'[k] = h /\ h # Idle
  BY <1>1, <1>2, <1>3, <1>5, <1>7, <1>8, ReadsRecorded, TaskKept DEF Collect
<1>10. s \notin queue'[k] => /\ h.o = cache'.svc[s] /\ Served(s)' /\ ~closed(h.o, cache'.ns)
                             /\ h.refs = Refs(s)'
  BY <1>1, <1>4, <1>5, <1>8 DEF Served, Refs
<1>11. KeyInv(k, s)'
  BY <1>4, <1>8, <1>9, <1>10 DEF KeyInv, StageIsRight, ReadsAreCurrent, WorkIsKept, RestIsRight,
                                 WaitIsReported, Working
<1> QED BY <1>9, <1>11, StepKept

(* The pods are listed.  What was read is current, or the Service is       *)
(* queued again.                                                           *)
LEMMA BuildKept ==
    ASSUME IInv, NEW k \in Kinds, Build(k)
    PROVE  IInv'
<1>1. TypeOK /\ job[k].pc = "build" /\ UNCHANGED <<api, cache, behind, edits, faults>>
  BY DEF IInv, Base, Build, Reads
<1>2. job[k] \in Tasks /\ job[k] # Idle
  BY <1>1, TaskType DEF Idle
<1>3. PICK s \in Services : s = job[k].svc
  BY <1>2 DEF Tasks
<1>4. PICK o \in Service : o = job[k].o
  BY <1>2 DEF Tasks
<1>5. Working(k, s) /\ KeyInv(k, s)
  BY <1>2, <1>3 DEF Working, IInv
<1>6. /\ Present(o)
      /\ s \notin queue[k] =>
            /\ o = cache.svc[s] /\ Served(s) /\ ~closed(o, cache.ns)
            /\ k # "svc" => job[k].refs = Refs(s)
  BY <1>1, <1>4, <1>5 DEF KeyInv, StageIsRight, ReadsAreCurrent
<1>7. Recorded /\ faults' \in 0 .. MaxFaults
  BY <1>1, ReadsRecorded DEF TypeOK
<1>8. PICK refs \in SUBSET Ports : refs = job[k].refs
  BY <1>2 DEF Tasks
<1>9. PICK want : want = desired(k, o, refs, cache.pod)
  OBVIOUS
<1>10. want \in Policy \cup {NoPolicy, Unresolvable}
  BY <1>1, <1>6, <1>9, DesiredType DEF TypeOK, Clusters
<1>11. s \notin queue[k] => want = Wants(k, s)
  BY <1>6, <1>8, <1>9 DEF Wants, wantedPolicy, Refs, desired
<1>12. IF want = Unresolvable THEN Wait(k, s)
       ELSE /\ Go(k, [job[k] EXCEPT !.pc = IF want = NoPolicy THEN "sweep" ELSE "read",
                                    !.refs = {}, !.want = want])
            /\ UNCHANGED <<queue, timers, pending>>
  BY <1>3, <1>4, <1>8, <1>9 DEF Build, Undisturbed
<1>13. CASE want = Unresolvable
  <2>1. Wait(k, s)
    BY <1>12, <1>13
  <2>2. o.uid \in 0 .. MaxUid
    BY DEF Service
  <2>3. /\ job' \in [Kinds -> Jobs] /\ job'[k] = Idle
        /\ \A m \in Kinds : m # k => job'[m] = job[m]
    BY <1>1, <2>1, TaskType, GoKept DEF Wait
  <2>4. /\ pending' \in [Kinds -> [Services -> 0 .. MaxUid]] /\ pending'[k][s] = o.uid
        /\ \A m \in Kinds, t \in Services : (m = k /\ t = s) \/ pending'[m][t] = pending[m][t]
    <3>1. pending \in [Kinds -> [Services -> 0 .. MaxUid]] /\ pending' = [pending EXCEPT ![k][s] = o.uid]
      BY <1>1, <1>4, <2>1 DEF Wait, first, TypeOK
    <3> QED BY <2>2, <3>1
  <2>t. /\ timers' \in [Kinds -> SUBSET Services] /\ s \in timers'[k] /\ queue' = queue
        /\ \A m \in Kinds, t \in Services : (m = k /\ t = s) \/ (t \in timers'[m] <=> t \in timers[m])
    <3>1. /\ timers \in [Kinds -> SUBSET Services]
          /\ timers' = [timers EXCEPT ![k] = @ \cup {s}] /\ queue' = queue
      BY <1>1, <2>1 DEF Wait, TypeOK
    <3> QED BY <3>1
  <2>5. TypeOK'
    BY <1>1, <2>3, <2>4, <2>t DEF TypeOK
  <2>6. StepOn(k, s)
    BY <1>1, <1>3, <1>7, <2>3, <2>4, <2>t DEF StepOn
  <2>7. KeyInv(k, s)'
    <3>1. ~Working(k, s)'
      BY <2>3 DEF Working
    <3>2. s \notin queue'[k] => Wants(k, s)' = Unresolvable /\ pending'[k][s] = cache'.svc[s].uid
      BY <1>1, <1>6, <1>11, <1>13, <2>4, <2>t DEF Wants
    <3> QED BY <2>4, <2>t, <3>1, <3>2 DEF KeyInv, StageIsRight, ReadsAreCurrent, WorkIsKept, RestIsRight,
                                   WaitIsReported, Steady, PoliciesRight
  <2> QED BY <2>5, <2>6, <2>7, StepKept
<1>14. CASE want # Unresolvable
  <2> DEFINE j == [job[k] EXCEPT !.pc = IF want = NoPolicy THEN "sweep" ELSE "read",
                                 !.refs = {}, !.want = want]
  <2>1. PICK h : h = j
    OBVIOUS
  <2>2. /\ h \in Tasks /\ h.svc = s /\ h.o = o /\ h.want = want
        /\ h.pc = IF want = NoPolicy THEN "sweep" ELSE "read"
    BY <1>2, <1>3, <1>4, <1>10, <1>14, <2>1 DEF Tasks
  <2>3. TypeOK' /\ StepOn(k, s) /\ job'[k] = h /\ h # Idle /\ queue' = queue
    BY <1>1, <1>2, <1>3, <1>7, <1>12, <1>14, <2>1, <2>2, TaskKept
  <2>4. s \notin queue'[k] => o = cache'.svc[s] /\ Served(s)' /\ want = Wants(k, s)'
    BY <1>1, <1>6, <1>11, <2>3 DEF Served, Wants
  <2>5. KeyInv(k, s)'
    BY <1>6, <2>2, <2>3, <2>4 DEF KeyInv, StageIsRight, ReadsAreCurrent, WorkIsKept, RestIsRight,
                                   WaitIsReported, Working
  <2> QED BY <2>3, <2>5, StepKept
<1> QED BY <1>13, <1>14

(* The read before the write of a policy finds that it is up to date, or a *)
(* patch has to follow.                                                    *)
LEMMA ApplyKept ==
    ASSUME IInv, NEW k \in Kinds, applyPolicy(k)
    PROVE  IInv'
<1>1. job[k].pc = "read" /\ UNCHANGED <<api, cache, behind, queue, timers, pending, edits, faults>>
  BY DEF applyPolicy, Reads, Undisturbed
<1>2. TypeOK /\ CacheFollows /\ job[k] \in Tasks
  BY <1>1, AtWork DEF IInv, Base
<1>3. PICK s \in Services : s = job[k].svc /\ Working(k, s) /\ KeyInv(k, s)
  BY <1>1, AtWork
<1>4. PICK j : j = [job[k] EXCEPT !.pc = IF cache.policy[<<s, k>>] = job[k].want THEN "sweep" ELSE "patch"]
  OBVIOUS
<1>5. /\ j \in Tasks /\ j.svc = s /\ j.o = job[k].o /\ j.want = job[k].want
      /\ j.pc \in {"sweep", "patch"} /\ (j.pc = "sweep" => cache.policy[<<s, k>>] = j.want)
  BY <1>2, <1>3, <1>4 DEF Tasks
<1>6. Go(k, j)
  BY <1>3, <1>4 DEF applyPolicy, Goto
<1>7. TypeOK' /\ StepOn(k, s) /\ job'[k] = j /\ j # Idle
  BY <1>1, <1>2, <1>3, <1>5, <1>6, ReadsRecorded, TaskKept
<1>8. KeyInv(k, s)'
  <2>1. Steady(k, s)' /\ j.pc = "sweep" => api'.policy[<<s, k>>] = j.want
    <3>1. <<s, k>> \in PolicyNames
      BY DEF PolicyNames
    <3> QED BY <1>1, <1>2, <1>5, <3>1 DEF Steady, CacheFollows
  <2>2. Working(k, s)'
    BY <1>5, <1>7 DEF Working
  <2>3. StageIsRight(k, s)'
    BY <1>1, <1>3, <1>5, <1>7 DEF KeyInv, StageIsRight
  <2>4. ReadsAreCurrent(k, s)'
    BY <1>1, <1>3, <1>5, <1>7 DEF KeyInv, ReadsAreCurrent, Served, Wants
  <2>5. WorkIsKept(k, s)'
    BY <1>5, <1>7, <2>1 DEF WorkIsKept
  <2> QED BY <2>2, <2>3, <2>4, <2>5 DEF KeyInv, RestIsRight, WaitIsReported
<1> QED BY <1>7, <1>8, StepKept

(* After the patch the policy is what the worker wanted; if that is a      *)
(* change, its event is on its way.                                        *)
LEMMA PatchKept ==
    ASSUME IInv, NEW k \in Kinds, Patch(k)
    PROVE  IInv'
<1>1. job[k].pc = "patch" /\ UNCHANGED <<cache, edits, faults>>
  BY DEF Patch
<1>2. TypeOK /\ job[k] \in Tasks
  BY <1>1, AtWork
<1>3. PICK s \in Services : s = job[k].svc /\ Working(k, s) /\ KeyInv(k, s)
  BY <1>1, AtWork
<1> DEFINE n == <<s, k>>
<1>4. CASE api.policy[n] # NoPolicy \/ api.ns \in {"open", "closed"}
  <2>1. PutPolicy(n, job[k].want) /\ Goto(k, "sweep") /\ UNCHANGED <<queue, timers, pending>>
    BY <1>3, <1>4 DEF Patch, Undisturbed
  <2>2. n \in PolicyNames /\ n[2] # "legacy" /\ job[k].want \in Policy \cup {NoPolicy}
    BY <1>2 DEF PolicyNames, Kinds, Tasks
  <2>3. Recorded /\ api'.policy[n] = job[k].want
    BY <1>2, <2>1, <2>2, PutPolicyRecorded, PutPolicyType
  <2>4. PICK j : j = [job[k] EXCEPT !.pc = "sweep"]
    OBVIOUS
  <2>5. j \in Tasks /\ j.svc = s /\ j.o = job[k].o /\ j.want = job[k].want /\ j.pc = "sweep"
    BY <1>2, <1>3, <2>4 DEF Tasks
  <2>6. TypeOK' /\ StepOn(k, s) /\ job'[k] = j /\ j # Idle
    BY <1>1, <1>2, <1>3, <2>1, <2>3, <2>4, <2>5, TaskKept DEF Goto
  <2>7. KeyInv(k, s)'
    <3>1. Working(k, s)'
      BY <2>5, <2>6 DEF Working
    <3>2. StageIsRight(k, s)'
      BY <1>1, <1>3, <2>5, <2>6 DEF KeyInv, StageIsRight
    <3>3. ReadsAreCurrent(k, s)'
      BY <1>1, <1>3, <2>1, <2>5, <2>6 DEF KeyInv, ReadsAreCurrent, Served, Wants
    <3>4. WorkIsKept(k, s)'
      BY <2>3, <2>5, <2>6 DEF WorkIsKept
    <3> QED BY <3>1, <3>2, <3>3, <3>4 DEF KeyInv, RestIsRight, WaitIsReported
  <2> QED BY <2>6, <2>7, StepKept
<1>5. CASE ~(api.policy[n] # NoPolicy \/ api.ns \in {"open", "closed"})
  <2>1. Fail(k) /\ UNCHANGED <<api, behind>>
    BY <1>3, <1>5 DEF Patch
  <2> QED BY <1>1, <1>2, <2>1, FailKept DEF TypeOK
<1> QED BY <1>4, <1>5

(* What is left to delete after the last read of the cache.                *)
LEMMA StaleIsKnown ==
    ASSUME IInv, NEW k \in Kinds, NEW s \in Services, s = job[k].svc, Present(job[k].o), Steady(k, s)
    PROVE  /\ job[k].want = NoPolicy /\ api.policy[<<s, k>>].owner = job[k].o.uid => <<s, k>> \in Stale(k)
           /\ k = "svc" /\ api.policy[<<s, "legacy">>].owner = job[k].o.uid =>
                 <<s, "legacy">> \in Stale(k)
<1>1. <<s, k>> \in PolicyNames /\ <<s, "legacy">> \in PolicyNames
  BY DEF PolicyNames
<1>2. cache.policy[<<s, k>>] = api.policy[<<s, k>>]
  BY <1>1 DEF IInv, Base, CacheFollows, Steady
<1>3. api.policy[<<s, "legacy">>].owner \in {cache.policy[<<s, "legacy">>].owner, 0}
  BY DEF IInv, Base, LegacyIsKnown
<1>4. sweepable(k, <<s, k>>) /\ (k = "svc" => sweepable(k, <<s, "legacy">>))
  BY DEF sweepable
<1> QED BY <1>1, <1>2, <1>3, <1>4 DEF Stale, Present

(* Nothing to delete: the Service is right.  Else the worker deletes.      *)
LEMMA SweepKept ==
    ASSUME IInv, NEW k \in Kinds, sweep(k)
    PROVE  IInv'
<1>1. /\ job[k].pc = "sweep" /\ UNCHANGED <<api, cache, behind, edits, faults>>
      /\ IF Stale(k) = {} THEN Done(k)
         ELSE /\ Go(k, [job[k] EXCEPT !.pc = "delete", !.todo = Stale(k)])
              /\ UNCHANGED <<queue, timers, pending>>
  BY DEF sweep, sweepStalePolicies, Reads, Undisturbed
<1>2. TypeOK /\ job[k] \in Tasks
  BY <1>1, AtWork
<1>3. PICK s \in Services : s = job[k].svc /\ Working(k, s) /\ KeyInv(k, s)
  BY <1>1, AtWork
<1>4. Present(job[k].o)
  BY <1>1, <1>3 DEF KeyInv, StageIsRight
<1>5. Recorded /\ faults' \in 0 .. MaxFaults
  BY <1>1, <1>2, ReadsRecorded DEF TypeOK
<1>6. CASE Stale(k) = {}
  <2>1. TypeOK' /\ StepOn(k, s) /\ job'[k] = Idle /\ queue' = queue
    BY <1>1, <1>2, <1>3, <1>5, <1>6, DoneKept
  <2>2. ~Working(k, s)'
    BY <2>1 DEF Working
  <2>3. ASSUME s \notin queue'[k]
        PROVE  Wants(k, s)' = job[k].want /\ cache'.svc[s] = job[k].o /\ job[k].want # Unresolvable
    <3>1. Wants(k, s) = job[k].want /\ cache.svc[s] = job[k].o
      BY <1>1, <1>3, <1>4, <2>1, <2>3 DEF KeyInv, ReadsAreCurrent
    <3>2. job[k].want # Unresolvable
      BY <1>2, PolicyTypes DEF Tasks
    <3> QED BY <1>1, <3>1, <3>2 DEF Wants
  <2>4. WaitIsReported(k, s)'
    BY <2>3 DEF WaitIsReported
  <2>5. RestIsRight(k, s)'
    <3>1. SUFFICES ASSUME Steady(k, s)' PROVE PoliciesRight(k, s)'
      BY DEF RestIsRight
    <3>2. Steady(k, s)
      BY <1>1, <2>1, <3>1 DEF Steady
    <3>3. job[k].want # NoPolicy => api.policy[<<s, k>>] = job[k].want
      BY <1>1, <1>3, <1>4, <3>2 DEF KeyInv, WorkIsKept
    <3>4. /\ job[k].want = NoPolicy => api.policy[<<s, k>>].owner # job[k].o.uid
          /\ k = "svc" => api.policy[<<s, "legacy">>].owner # job[k].o.uid
      BY <1>3, <1>4, <1>6, <3>2, StaleIsKnown
    <3>5. s \notin queue'[k]
      BY <3>1 DEF Steady
    <3> QED BY <1>1, <2>3, <3>3, <3>4, <3>5 DEF PoliciesRight
  <2>6. KeyInv(k, s)'
    BY <2>2, <2>4, <2>5 DEF KeyInv, StageIsRight, ReadsAreCurrent, WorkIsKept
  <2> QED BY <2>1, <2>6, StepKept
<1>7. CASE Stale(k) # {}
  <2>1. PICK j : j = [job[k] EXCEPT !.pc = "delete", !.todo = Stale(k)]
    OBVIOUS
  <2>2. /\ j \in Tasks /\ j.svc = s /\ j.o = job[k].o /\ j.want = job[k].want
        /\ j.pc = "delete" /\ j.todo = Stale(k)
    <3>1. Stale(k) \in SUBSET PolicyNames
      BY DEF Stale
    <3> QED BY <1>2, <1>3, <2>1, <3>1 DEF Tasks
  <2>3. TypeOK' /\ StepOn(k, s) /\ job'[k] = j /\ j # Idle /\ queue' = queue
    BY <1>1, <1>2, <1>3, <1>5, <1>7, <2>1, <2>2, TaskKept
  <2>4. \A n \in Stale(k) : n[1] = s /\ sweepable(k, n) /\ (job[k].want # NoPolicy => n[2] # k)
    BY <1>3 DEF Stale
  <2>5. StageIsRight(k, s)'
    BY <1>4, <2>2, <2>3, <2>4 DEF StageIsRight, sweepable
  <2>6. ReadsAreCurrent(k, s)'
    BY <1>1, <1>3, <2>2, <2>3 DEF KeyInv, ReadsAreCurrent, Served, Wants
  <2>7. WorkIsKept(k, s)'
    <3>1. SUFFICES ASSUME Steady(k, s)' PROVE WorkIsKept(k, s)'
      BY DEF WorkIsKept
    <3>2. Steady(k, s)
      BY <1>1, <2>3, <3>1 DEF Steady
    <3>3. job[k].want # NoPolicy => api.policy[<<s, k>>] = job[k].want
      BY <1>1, <1>3, <1>4, <3>2 DEF KeyInv, WorkIsKept
    <3>4. /\ job[k].want = NoPolicy /\ api.policy[<<s, k>>].owner = job[k].o.uid => <<s, k>> \in Stale(k)
          /\ k = "svc" /\ api.policy[<<s, "legacy">>].owner = job[k].o.uid => <<s, "legacy">> \in Stale(k)
      BY <1>3, <1>4, <3>2, StaleIsKnown
    <3> QED BY <1>1, <2>2, <2>3, <3>3, <3>4 DEF WorkIsKept
  <2>8. Working(k, s)'
    BY <2>2, <2>3 DEF Working
  <2>9. KeyInv(k, s)'
    BY <2>5, <2>6, <2>7, <2>8 DEF KeyInv, RestIsRight, WaitIsReported
  <2> QED BY <2>3, <2>9, StepKept
<1> QED BY <1>6, <1>7

(* A Service that is gone has nothing to ask for.                          *)
LEMMA PurgeKept ==
    ASSUME IInv, NEW k \in Kinds, deleteByServiceKey(k)
    PROVE  IInv'
<1>1. /\ job[k].pc = "purge" /\ UNCHANGED <<api, cache, behind, edits, faults>>
      /\ IF Leftovers(k) = {} THEN Done(k)
         ELSE /\ Go(k, [job[k] EXCEPT !.pc = "delete", !.todo = Leftovers(k)])
              /\ UNCHANGED <<queue, timers, pending>>
  BY DEF deleteByServiceKey, sweepStalePolicies, Reads, Undisturbed
<1>2. TypeOK /\ job[k] \in Tasks
  BY <1>1, AtWork
<1>3. PICK s \in Services : s = job[k].svc /\ Working(k, s) /\ KeyInv(k, s)
  BY <1>1, AtWork
<1>4. ~Present(job[k].o) /\ job[k].want = NoPolicy
  BY <1>1, <1>3 DEF KeyInv, StageIsRight
<1>5. Recorded /\ faults' \in 0 .. MaxFaults
  BY <1>1, <1>2, ReadsRecorded DEF TypeOK
<1>6. CASE Leftovers(k) = {}
  <2>1. TypeOK' /\ StepOn(k, s) /\ job'[k] = Idle /\ queue' = queue
    BY <1>1, <1>2, <1>3, <1>5, <1>6, DoneKept
  <2>2. ~Working(k, s)'
    BY <2>1 DEF Working
  <2>3. s \notin queue'[k] => ~Served(s)'
    BY <1>1, <1>3, <1>4, <2>1 DEF KeyInv, ReadsAreCurrent, Served
  <2>4. KeyInv(k, s)'
    BY <2>2, <2>3 DEF KeyInv, StageIsRight, ReadsAreCurrent, WorkIsKept, RestIsRight, WaitIsReported,
                      Steady
  <2> QED BY <2>1, <2>4, StepKept
<1>7. CASE Leftovers(k) # {}
  <2>1. PICK j : j = [job[k] EXCEPT !.pc = "delete", !.todo = Leftovers(k)]
    OBVIOUS
  <2>2. /\ j \in Tasks /\ j.svc = s /\ j.o = job[k].o /\ j.want = job[k].want
        /\ j.pc = "delete" /\ j.todo \subseteq {<<s, k>>}
    <3>1. Leftovers(k) \in SUBSET PolicyNames /\ Leftovers(k) \subseteq {<<s, k>>}
      BY <1>3 DEF Leftovers, PolicyNames
    <3> QED BY <1>2, <1>3, <2>1, <3>1 DEF Tasks
  <2>3. TypeOK' /\ StepOn(k, s) /\ job'[k] = j /\ j # Idle /\ queue' = queue
    BY <1>1, <1>2, <1>3, <1>5, <1>7, <2>1, <2>2, TaskKept
  <2>4. KeyInv(k, s)'
    BY <1>1, <1>3, <1>4, <2>2, <2>3 DEF KeyInv, StageIsRight, ReadsAreCurrent, WorkIsKept, RestIsRight,
                                        WaitIsReported, Working, sweepable
  <2> QED BY <2>3, <2>4, StepKept
<1> QED BY <1>6, <1>7

(* The last deletion leaves the Service right.                             *)
LEMMA DeleteKept ==
    ASSUME IInv, NEW k \in Kinds, Delete(k)
    PROVE  IInv'
<1>1. job[k].pc = "delete" /\ UNCHANGED <<cache, edits, faults>>
  BY DEF Delete
<1>2. TypeOK /\ job[k] \in Tasks
  BY <1>1, AtWork
<1>3. PICK s \in Services : s = job[k].svc /\ Working(k, s) /\ KeyInv(k, s)
  BY <1>1, AtWork
<1>4. PICK todo : todo = job[k].todo
  OBVIOUS
<1>5. PICK n \in todo :
         /\ PutPolicy(n, NoPolicy)
         /\ IF todo = {n} THEN Done(k)
            ELSE /\ Go(k, [job[k] EXCEPT !.todo = @ \ {n}])
                 /\ UNCHANGED <<queue, timers, pending>>
  BY <1>4 DEF Delete, Undisturbed
<1>6. n \in PolicyNames /\ todo \in SUBSET PolicyNames /\ NoPolicy.owner = 0
  BY <1>2, <1>4, PolicyTypes DEF Tasks
<1>7. Recorded /\ faults' \in 0 .. MaxFaults
  <2>1. Recorded
    BY <1>2, <1>5, <1>6, PutPolicyRecorded
  <2> QED BY <1>1, <1>2, <2>1 DEF TypeOK
<1>8. \A m \in todo : m[1] = s /\ sweepable(k, m) /\ (job[k].want # NoPolicy => m[2] # k)
  BY <1>1, <1>3, <1>4 DEF KeyInv, StageIsRight
<1>9. ASSUME Steady(k, s)', queue' = queue, Present(job[k].o)
      PROVE  /\ Steady(k, s)
             /\ job[k].want # NoPolicy => api'.policy[<<s, k>>] = job[k].want
             /\ job[k].want = NoPolicy /\ api'.policy[<<s, k>>].owner = job[k].o.uid =>
                   <<s, k>> \in todo \ {n}
             /\ k = "svc" /\ api'.policy[<<s, "legacy">>].owner = job[k].o.uid =>
                   <<s, "legacy">> \in todo \ {n}
  <2>1. <<s, k>> \in PolicyNames /\ <<s, "legacy">> \in PolicyNames
    BY DEF PolicyNames
  <2>2. behind \subseteq behind' /\ api'.policy[n] = NoPolicy
        /\ \A m \in PolicyNames : m # n => api'.policy[m] = api.policy[m]
    BY <1>2, <1>5, <1>6, PutPolicyType
  <2>3. Steady(k, s)
    BY <1>9, <2>2 DEF Steady
  <2>4. job[k].want # NoPolicy => n # <<s, k>>
    BY <1>8
  <2>5. job[k].want # NoPolicy => api.policy[<<s, k>>] = job[k].want
    BY <1>1, <1>3, <1>9, <2>3 DEF KeyInv, WorkIsKept
  <2>6. /\ job[k].want = NoPolicy /\ api.policy[<<s, k>>].owner = job[k].o.uid => <<s, k>> \in todo
        /\ k = "svc" /\ api.policy[<<s, "legacy">>].owner = job[k].o.uid => <<s, "legacy">> \in todo
    BY <1>1, <1>3, <1>4, <1>9, <2>3 DEF KeyInv, WorkIsKept
  <2>7. job[k].o.uid # 0
    BY <1>9 DEF Present
  <2> QED BY <1>6, <2>1, <2>2, <2>3, <2>4, <2>5, <2>6, <2>7
<1>10. CASE todo = {n}
  <2>1. TypeOK' /\ StepOn(k, s) /\ job'[k] = Idle /\ queue' = queue
    BY <1>1, <1>2, <1>3, <1>5, <1>7, <1>10, DoneKept
  <2>2. ~Working(k, s)'
    BY <2>1 DEF Working
  <2>3. ASSUME s \notin queue'[k], Served(s)'
        PROVE  /\ Present(job[k].o) /\ Wants(k, s)' = job[k].want /\ cache'.svc[s] = job[k].o
               /\ job[k].want # Unresolvable
    <3>1. cache.svc[s] = job[k].o /\ Present(job[k].o)
      BY <1>1, <1>3, <2>1, <2>3 DEF KeyInv, ReadsAreCurrent, Served
    <3>2. Wants(k, s) = job[k].want
      BY <1>1, <1>3, <2>1, <2>3, <3>1 DEF KeyInv, ReadsAreCurrent
    <3>3. job[k].want # Unresolvable
      BY <1>2, PolicyTypes DEF Tasks
    <3> QED BY <1>1, <3>1, <3>2, <3>3 DEF Wants
  <2>4. WaitIsReported(k, s)'
    BY <2>3 DEF WaitIsReported
  <2>5. RestIsRight(k, s)'
    <3>1. SUFFICES ASSUME Steady(k, s)', Served(s)' PROVE PoliciesRight(k, s)'
      BY DEF RestIsRight
    <3>2. s \notin queue'[k]
      BY <3>1 DEF Steady
    <3>3. /\ job[k].want # NoPolicy => api'.policy[<<s, k>>] = job[k].want
          /\ job[k].want = NoPolicy => api'.policy[<<s, k>>].owner # job[k].o.uid
          /\ k = "svc" => api'.policy[<<s, "legacy">>].owner # job[k].o.uid
      BY <1>9, <1>10, <2>1, <2>3, <3>1, <3>2
    <3> QED BY <2>3, <3>1, <3>2, <3>3 DEF PoliciesRight
  <2>6. KeyInv(k, s)'
    BY <2>2, <2>4, <2>5 DEF KeyInv, StageIsRight, ReadsAreCurrent, WorkIsKept
  <2> QED BY <2>1, <2>6, StepKept
<1>11. CASE todo # {n}
  <2>1. PICK j : j = [job[k] EXCEPT !.todo = @ \ {n}]
    OBVIOUS
  <2>2. /\ j \in Tasks /\ j.svc = s /\ j.o = job[k].o /\ j.want = job[k].want
        /\ j.pc = "delete" /\ j.todo = todo \ {n}
    BY <1>1, <1>2, <1>3, <1>4, <1>6, <2>1 DEF Tasks
  <2>3. TypeOK' /\ StepOn(k, s) /\ job'[k] = j /\ j # Idle /\ queue' = queue
    BY <1>1, <1>2, <1>3, <1>5, <1>7, <1>11, <2>1, <2>2, TaskKept
  <2>4. StageIsRight(k, s)'
    BY <1>1, <1>3, <1>8, <2>2, <2>3 DEF KeyInv, StageIsRight, sweepable
  <2>5. ReadsAreCurrent(k, s)'
    BY <1>1, <1>3, <2>2, <2>3 DEF KeyInv, ReadsAreCurrent, Served, Wants
  <2>6. WorkIsKept(k, s)'
    BY <1>9, <2>2, <2>3 DEF WorkIsKept
  <2>7. Working(k, s)'
    BY <2>2, <2>3 DEF Working
  <2>8. KeyInv(k, s)'
    BY <2>4, <2>5, <2>6, <2>7 DEF KeyInv, RestIsRight, WaitIsReported
  <2> QED BY <2>3, <2>8, StepKept
<1> QED BY <1>10, <1>11

(* Every step keeps the invariant.                                         *)
LEMMA NextKept ==
    ASSUME IInv, [Next]_vars
    PROVE  IInv'
<1>1. CASE Others
  BY <1>1, OthersKept
<1>2. CASE DeliverInput
  BY <1>2, DeliverNamespaceKept, DeliverServiceKept, DeliverPodKept, DeliverDiscoveryKept
     DEF DeliverInput
<1>3. CASE DeliverOutput
  BY <1>3, DeliverPolicyKept DEF DeliverOutput
<1>4. CASE Restart
  BY <1>4, RestartKept
<1>5. ASSUME NEW k \in Kinds, Reconcile(k) PROVE IInv'
  BY <1>5, BeginKept, DecideKept, CollectKept, BuildKept, ApplyKept, PatchKept, SweepKept, PurgeKept, DeleteKept
     DEF Reconcile
<1>6. ASSUME NEW k \in Kinds, CallFails(k) PROVE IInv'
  BY <1>6, CallFailsKept
<1>7. ASSUME NEW k \in Kinds, NEW s \in Services, Timer(k, s) PROVE IInv'
  BY <1>7, TimerKept
<1>8. CASE UNCHANGED vars
  <2>1. TypeOK /\ TypeOK'
    BY <1>8 DEF IInv, Base, TypeOK, vars, memory
  <2>2. Recorded /\ cache' = cache
    BY <1>8, <2>1, ReadsRecorded DEF vars
  <2>3. ASSUME NEW k \in Kinds, NEW s \in Services PROVE KeyInv(k, s)'
    <3>1. MemoryKept(k, s) /\ queue' = queue
      BY <1>8 DEF MemoryKept, vars, memory
    <3> QED BY <2>1, <2>2, <3>1, UntouchedKept DEF IInv
  <2> QED BY <2>1, <2>2, <2>3, BaseKept DEF IInv
<1> QED BY <1>1, <1>2, <1>3, <1>4, <1>5, <1>6, <1>7, <1>8 DEF Next

-----------------------------------------------------------------------------
(* The theorems.                                                           *)

(* IInv is inductive.                                                      *)
THEOREM InductiveInvariant == Spec => []IInv
BY InitInv, NextKept, PTL DEF Spec

(* Every variable keeps its type: a policy opens port numbers only, never  *)
(* a name that no pod declares, and belongs to a Service that has existed. *)
THEOREM TypeCorrect == Spec => []TypeOK
<1>1. IInv => TypeOK
  BY DEF IInv, Base
<1> QED BY <1>1, InductiveInvariant, PTL

(* A policy belongs to the Service it was built for.                       *)
LEMMA WantedOwner ==
    ASSUME NEW k \in Kinds, NEW s, NEW o, NEW view
    PROVE  LET want == wantedPolicy(k, s, o, view)
           IN want # NoPolicy /\ want # Unresolvable => want.owner = o.uid
BY DEF wantedPolicy, desired, buildExternalAllowPolicy, buildApiserverReachablePolicy, policyFor

(* When none of its inputs has an event on its way, what the caches say a  *)
(* Service asks for is what it asks for.                                   *)
LEMMA CachesDecide ==
    ASSUME IInv, NEW k \in Kinds, NEW s \in Services, behind \cap Inputs(k, s) = {}
    PROVE  cache.ns = api.ns /\ cache.svc[s] = api.svc[s] /\ Wants(k, s) = Wanted(k, s)
<1>1. CacheFollows /\ api \in Clusters /\ cache \in Clusters
  BY DEF IInv, Base, TypeOK
<1>2. cache.ns = api.ns /\ cache.svc[s] = api.svc[s]
  BY <1>1 DEF CacheFollows, Inputs
<1>3. cache.pod = api.pod
  <2>1. ASSUME NEW p \in Pods PROVE <<"pod", p>> \notin behind
    <3>1. <<"pod", p>> \in {"pod"} \X Pods
      OBVIOUS
    <3> QED BY <3>1 DEF Inputs
  <2>2. \A p \in Pods : cache.pod[p] = api.pod[p]
    BY <1>1, <2>1 DEF CacheFollows
  <2> QED BY <1>1, <2>2 DEF Clusters
<1>4. CASE k = "svc"
  BY <1>2, <1>3, <1>4 DEF Wants, Wanted, wantedPolicy, desired
<1>5. CASE k # "svc"
  <2>1. ASSUME NEW d \in Discoveries PROVE <<"disc", d>> \notin behind
    <3>1. <<"disc", d>> \in {"disc"} \X Discoveries
      OBVIOUS
    <3> QED BY <1>5, <3>1 DEF Inputs
  <2>2. \A d \in Discoveries : cache.disc[d] = api.disc[d]
    BY <1>1, <2>1 DEF CacheFollows
  <2>3. cache.disc = api.disc
    BY <1>1, <2>2 DEF Clusters
  <2> QED BY <1>2, <1>3, <2>3, WantedReads DEF Wants, Wanted
<1> QED BY <1>2, <1>4, <1>5

(* A Service nobody attends to, as the caches show it.                     *)
LEMMA Unattended ==
    ASSUME IInv, NEW k \in Kinds, NEW s \in Services, Live(s), ~Attended(k, s)
    PROVE  /\ Steady(k, s) /\ ~Working(k, s) /\ Served(s) /\ cache.svc[s] = api.svc[s]
           /\ Wants(k, s) = Wanted(k, s)
<1>1. /\ s \notin queue[k] /\ behind \cap Inputs(k, s) = {}
      /\ Steady(k, s) /\ ~Working(k, s)
  BY DEF Attended, DueAgain, Steady, Working
<1>2. cache.ns = api.ns /\ cache.svc[s] = api.svc[s] /\ Wants(k, s) = Wanted(k, s)
  BY <1>1, CachesDecide
<1> QED BY <1>1, <1>2 DEF Live, Served, skipped

(* However events, restarts and the recreation of a Service interleave, a  *)
(* Service that waits for a pod and that no event will bring back has its  *)
(* wait on record, under its own uid, and a timer.                         *)
THEOREM WaitsAreAlwaysReported == Spec => []WaitsAreReported
<1>1. IInv => WaitsAreReported
  <2>1. SUFFICES ASSUME IInv, NEW k \in Kinds, NEW s \in Services,
                        Live(s), ~Attended(k, s), Wanted(k, s) = Unresolvable
                 PROVE  pending[k][s] = api.svc[s].uid /\ s \in timers[k]
    BY DEF WaitsAreReported
  <2>2. WaitIsReported(k, s)
    BY <2>1 DEF IInv, KeyInv
  <2> QED BY <2>1, <2>2, Unattended DEF WaitIsReported, Steady
<1> QED BY <1>1, InductiveInvariant, PTL

(* A Service nobody attends to has the policies the cluster's state asks   *)
(* for.                                                                    *)
LEMMA UnattendedIsRight ==
    ASSUME IInv, NEW k \in Kinds, NEW s \in Services, Live(s), ~Attended(k, s)
    PROVE  Right(k, s)
<1>1. /\ Steady(k, s) /\ ~Working(k, s) /\ Served(s) /\ cache.svc[s] = api.svc[s]
      /\ Wants(k, s) = Wanted(k, s)
  BY Unattended
<1>2. RestIsRight(k, s)
  BY DEF IInv, KeyInv
<1>3. PoliciesRight(k, s)
  BY <1>1, <1>2 DEF RestIsRight
<1>4. CASE Wanted(k, s) = Unresolvable
  BY <1>4 DEF Right
<1>5. CASE Wanted(k, s) # Unresolvable
  <2>1. /\ Wanted(k, s) # NoPolicy => api.policy[<<s, k>>] = Wanted(k, s)
        /\ Wanted(k, s) = NoPolicy => api.policy[<<s, k>>].owner # api.svc[s].uid
        /\ k = "svc" => api.policy[<<s, "legacy">>].owner # api.svc[s].uid
    BY <1>1, <1>3, <1>5 DEF PoliciesRight
  <2>2. Wanted(k, s) # NoPolicy => Wanted(k, s).owner = api.svc[s].uid
    BY <1>5, WantedOwner DEF Wanted
  <2>3. {n \in Owned(s) : n[2] = k} = (IF Wanted(k, s) = NoPolicy THEN {} ELSE {<<s, k>>})
    <3>1. \A n \in PolicyNames : n[1] = s /\ n[2] = k => n = <<s, k>>
      BY DEF PolicyNames
    <3>2. <<s, k>> \in PolicyNames
      BY DEF PolicyNames
    <3> QED BY <2>1, <2>2, <3>1, <3>2 DEF Owned
  <2>4. k = "svc" => <<s, "legacy">> \notin Owned(s)
    BY <2>1 DEF Owned
  <2> QED BY <2>1, <2>3, <2>4 DEF Right
<1> QED BY <1>4, <1>5

(* Both controllers implement LevelTriggered's safety: in whatever order   *)
(* Services, pods, discovery resources, policies and the namespace change  *)
(* and are seen, and whichever calls fail, each lets go of a Service only  *)
(* with the policies it asks for, and takes note of every change.          *)
THEOREM LevelTriggeredCorrect == Spec => IsLevelTriggered
<1> DEFINE AtRest == \A k \in Kinds, s \in Services :
                        ~Attended(k, s) => (Live(s) => Right(k, s))
<1>1. IInv => AtRest
  BY UnattendedIsRight
<1>2. AtRest => Level!Init
  BY DEF Level!Init
<1>3. AtRest /\ AtRest' => Level!Next
  BY DEF Level!Next, Level!Disturbed, Level!Attended, Level!Released, Level!Resting
<1> HIDE DEF AtRest
<1> QED BY <1>1, <1>2, <1>3, InductiveInvariant, PTL DEF IsLevelTriggered, Level!Safety

(* Only one who edits, the garbage collector, the teardown of the          *)
(* namespace and the policy's own controller delete a policy.              *)
LEMMA WhoDeletes ==
    ASSUME IInv, [Next]_vars, NEW k \in Kinds, NEW s \in Services,
           api.policy[<<s, k>>] # NoPolicy, api'.policy[<<s, k>>] = NoPolicy
    PROVE  \/ edits' # edits \/ Orphaned(<<s, k>>) \/ api.ns = "terminating"
           \/ job[k].pc = "delete" /\ <<s, k>> \in job[k].todo
<1>1. TypeOK /\ <<s, k>> \in PolicyNames /\ edits \in Nat
  BY DEF IInv, Base, TypeOK, PolicyNames
<1>2. api' # api
  OBVIOUS
<1>3. ASSUME NEW n \in PolicyNames, NEW p \in Policy \cup {NoPolicy}, PutPolicy(n, p)
      PROVE  n = <<s, k>> /\ p = NoPolicy
  BY <1>1, <1>3, PutPolicyType
<1>4. CASE Others
  <2>1. CASE UserEdit
    BY <1>1, <2>1 DEF UserEdit
  <2>2. CASE EmptyNamespace
    BY <2>2 DEF EmptyNamespace
  <2>3. ASSUME NEW n \in PolicyNames, GarbageCollect(n) PROVE Orphaned(<<s, k>>)
    BY <1>3, <2>3 DEF GarbageCollect
  <2> QED BY <1>4, <2>1, <2>2, <2>3 DEF Others, EditNamespace, EditService, EditPod, EditDiscovery,
                                      DamagePolicy
<1>5. CASE DeliverInput \/ DeliverOutput
  BY <1>2, <1>5 DEF DeliverInput, DeliverOutput, DeliverNamespace, DeliverService, DeliverPod,
                    DeliverDiscovery, DeliverPolicy, Delivery
<1>6. CASE Restart \/ UNCHANGED vars
  BY <1>2, <1>6 DEF Restart, vars
<1>7. ASSUME NEW m \in Kinds, Reconcile(m)
      PROVE  job[k].pc = "delete" /\ <<s, k>> \in job[k].todo
  <2>1. CASE Patch(m)
    <3>1. job[m].pc = "patch"
      BY <2>1 DEF Patch
    <3>2. PICK t \in Services : t = job[m].svc /\ Working(m, t) /\ KeyInv(m, t)
      BY <3>1, AtWork
    <3>3. job[m].want # NoPolicy /\ job[m].want \in Policy \cup {NoPolicy}
      BY <3>1, <3>2, AtWork DEF KeyInv, StageIsRight, Tasks
    <3>4. PutPolicy(<<t, m>>, job[m].want)
      BY <1>2, <2>1, <3>2 DEF Patch
    <3>5. <<t, m>> \in PolicyNames
      BY DEF PolicyNames
    <3> QED BY <1>3, <3>3, <3>4, <3>5
  <2>2. CASE Delete(m)
    <3>1. job[m].pc = "delete"
      BY <2>2 DEF Delete
    <3>2. PICK t \in Services : t = job[m].svc /\ Working(m, t) /\ KeyInv(m, t)
      BY <3>1, AtWork
    <3>3. PICK n \in job[m].todo : PutPolicy(n, NoPolicy)
      BY <2>2 DEF Delete
    <3>4. n \in PolicyNames /\ sweepable(m, n)
      BY <3>1, <3>2, <3>3, AtWork DEF KeyInv, StageIsRight, Tasks
    <3>5. n = <<s, k>> /\ m = k
      BY <1>3, <3>3, <3>4 DEF sweepable, Kinds
    <3> QED BY <3>1, <3>3, <3>5
  <2>3. CASE (\E t \in Services : Begin(m, t)) \/ Decide(m) \/ Collect(m) \/ Build(m) \/ applyPolicy(m)
    BY <1>2, <2>3 DEF Begin, Decide, Collect, Build, applyPolicy, Reads
  <2>4. CASE sweep(m) \/ deleteByServiceKey(m)
    BY <1>2, <2>4 DEF sweep, deleteByServiceKey, sweepStalePolicies, Reads
  <2> QED BY <1>7, <2>1, <2>2, <2>3, <2>4 DEF Reconcile
<1>8. ASSUME NEW m \in Kinds, CallFails(m) \/ \E t \in Services : Timer(m, t)
      PROVE  FALSE
  BY <1>2, <1>8 DEF CallFails, Timer
<1> QED BY <1>4, <1>5, <1>6, <1>7, <1>8 DEF Next

(* Its own controller deletes a policy that the Service asks for only when *)
(* it read an older state, and the event that tells it so is on its way.   *)
LEMMA DeletesOnOlderReads ==
    ASSUME IInv, NEW k \in Kinds, NEW s \in Services,
           job[k].pc = "delete", <<s, k>> \in job[k].todo, ~Orphaned(<<s, k>>),
           api.policy[<<s, k>>] # NoPolicy, api.policy[<<s, k>>] = Wanted(k, s)
    PROVE  DueAgain(k, s)
<1>1. PICK t \in Services : t = job[k].svc /\ Working(k, t) /\ KeyInv(k, t)
  BY AtWork
<1>2. t = s /\ job[k].want = NoPolicy
  BY <1>1 DEF KeyInv, StageIsRight
<1>3. SUFFICES ASSUME s \notin queue[k], behind \cap Inputs(k, s) = {} PROVE FALSE
  BY DEF DueAgain
<1>4. cache.svc[s] = api.svc[s] /\ Wants(k, s) = Wanted(k, s)
  BY <1>3, CachesDecide
<1>5. job[k].o = api.svc[s]
  BY <1>1, <1>2, <1>3, <1>4 DEF KeyInv, ReadsAreCurrent
<1>6. CASE Present(job[k].o)
  BY <1>1, <1>2, <1>3, <1>4, <1>6 DEF KeyInv, ReadsAreCurrent
<1>7. CASE ~Present(job[k].o)
  <2>1. api.policy[<<s, k>>].owner = 0
    BY <1>5, <1>7 DEF Orphaned, Present
  <2>2. api.policy[<<s, k>>] \in Policy
    BY DEF IInv, Base, TypeOK, Clusters, PolicyNames
  <2> QED BY <2>1, <2>2, PolicyTypes
<1> QED BY <1>6, <1>7

(* Whatever the two controllers' interleaving and the delay of events, the *)
(* operator deletes a policy that is as the cluster asks for only on older *)
(* reads, and then the Service is yet to be reconciled again.              *)
THEOREM PoliciesInUseAreKept == Spec => PoliciesInUseStay
<1>1. ASSUME IInv, [Next]_vars, NEW k \in Kinds, NEW s \in Services,
             api.ns = "open", edits' = edits, ~Orphaned(<<s, k>>),
             api.policy[<<s, k>>] # NoPolicy, api.policy[<<s, k>>] = Wanted(k, s),
             api'.policy[<<s, k>>] = NoPolicy
      PROVE  DueAgain(k, s)
  BY <1>1, WhoDeletes, DeletesOnOlderReads
<1>2. IInv /\ [Next]_vars =>
         [\A k \in Kinds, s \in Services :
            /\ api.ns = "open" /\ edits' = edits /\ ~Orphaned(<<s, k>>)
            /\ api.policy[<<s, k>>] # NoPolicy /\ api.policy[<<s, k>>] = Wanted(k, s)
            /\ api'.policy[<<s, k>>] = NoPolicy
            => DueAgain(k, s)]_vars
  BY <1>1
<1> QED BY <1>2, InductiveInvariant, PTL DEF Spec, PoliciesInUseStay

=============================================================================
