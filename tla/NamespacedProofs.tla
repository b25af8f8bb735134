---------------------------- MODULE NamespacedProofs ----------------------------
(***************************************************************************)
(* What the proofs about the namespace-keyed controllers share: whatever   *)
(* users and Kubernetes do to a namespace and its objects is noticed.      *)
(***************************************************************************)
EXTENDS Namespaced, TLAPS

(* An event of namespace n, or of one of its objects, is yet to be acted   *)
(* upon by a reconcile that has not begun.                                 *)
EventDue(n) ==
    \/ n \in queue
    \/ <<n, "ns">> \in behind
    \/ \E x \in Names : <<n, x>> \in due

(* Two versions of an object are alike to a controller that knows its      *)
(* objects by their labels.                                                *)
Alike(o, p) == o = p \/ (~operatorManaged(o) /\ ~operatorManaged(p))

(* The cache lacks nothing that no event is on its way for.                *)
CacheFollows ==
    /\ \A n \in Namespaces : <<n, "ns">> \notin behind => cache.ns[n] = api.ns[n]
    /\ \A n \in Namespaces, x \in Names :
          <<n, x>> \notin due => Alike(cache.obj[n][x], api.obj[n][x])

(* In this step namespace n stays as it is, to the controller, or an event *)
(* is due.                                                                 *)
Noticed(n) ==
    \/ EventDue(n)'
    \/ /\ ~EventDue(n)
       /\ api'.ns[n] = api.ns[n]
       /\ \A x \in Names : Alike(api.obj[n][x], api'.obj[n][x])

-----------------------------------------------------------------------------
(* Types.                                                                  *)

(* The values the module names are objects.                                *)
LEMMA ObjectTypes ==
    /\ None \in Objs /\ Desired \in Objs
    /\ \A o \in Objs : Applied(o) \in Objs
BY DEF None, Desired, Objs, Applied

(* A write of an object keeps the types.                                   *)
LEMMA PutType ==
    ASSUME WorldOK, NEW n \in Namespaces, NEW x \in Names, NEW o \in Objs, Put(n, x, o)
    PROVE  /\ api' \in Clusters
           /\ behind' \subseteq Namespaces \X (Names \cup {"ns"})
           /\ due' \subseteq behind' \cap (Namespaces \X Names)
<1>1. api' \in Clusters
  BY DEF WorldOK, Put, Clusters
<1>2. behind' \subseteq Namespaces \X (Names \cup {"ns"}) /\ due' \subseteq behind' \cap (Namespaces \X Names)
  BY DEF WorldOK, Put
<1> QED BY <1>1, <1>2

(* So does a write of a namespace.                                         *)
LEMMA PutNamespaceType ==
    ASSUME WorldOK, NEW n \in Namespaces, NEW o \in NamespaceObj, PutNamespace(n, o)
    PROVE  /\ api' \in Clusters
           /\ behind' \subseteq Namespaces \X (Names \cup {"ns"})
           /\ due' \subseteq behind' \cap (Namespaces \X Names)
<1>1. api' \in Clusters
  BY DEF WorldOK, PutNamespace, Clusters
<1>2. behind' \subseteq Namespaces \X (Names \cup {"ns"}) /\ due' \subseteq behind' \cap (Namespaces \X Names)
  BY DEF WorldOK, PutNamespace
<1> QED BY <1>1, <1>2

(* What users and Kubernetes do keeps the types.                           *)
LEMMA OthersType == ASSUME WorldOK, Others PROVE WorldOK' /\ UNCHANGED <<cache, queue, job>>
<1> USE NamespacedAssumption
<1>1. PICK n \in Namespaces :
         \/ AnnotateNamespace(n) \/ DeleteNamespace(n) \/ CreateNamespace(n)
         \/ \E x \in Names : EditObject(n, x) \/ CreateObject(n, x)
         \/ EmptyNamespace(n)
  BY DEF Others
<1>2. api.ns[n] \in NamespaceObj
  BY DEF WorldOK, Clusters
<1>3. ASSUME UserEdit,
             api' \in Clusters /\ behind' \subseteq Namespaces \X (Names \cup {"ns"})
                /\ due' \subseteq behind' \cap (Namespaces \X Names)
      PROVE  WorldOK' /\ UNCHANGED <<cache, queue, job>>
  BY <1>3 DEF UserEdit, WorldOK
<1>4. CASE AnnotateNamespace(n) \/ DeleteNamespace(n) \/ CreateNamespace(n)
  <2>1. UserEdit
    BY <1>4 DEF AnnotateNamespace, DeleteNamespace, CreateNamespace
  <2>2. PICK o \in NamespaceObj : PutNamespace(n, o)
    <3>1. /\ [api.ns[n] EXCEPT !.disabled = ~@] \in NamespaceObj
          /\ [api.ns[n] EXCEPT !.phase = "terminating"] \in NamespaceObj
          /\ [phase |-> "active", disabled |-> FALSE] \in NamespaceObj
      BY <1>2 DEF NamespaceObj
    <3> QED BY <1>4, <3>1 DEF AnnotateNamespace, DeleteNamespace, CreateNamespace
  <2> QED BY <1>3, <2>1, <2>2, PutNamespaceType
<1>5. ASSUME NEW x \in Names, EditObject(n, x) \/ CreateObject(n, x)
      PROVE  WorldOK' /\ UNCHANGED <<cache, queue, job>>
  <2>1. PICK o \in ObjectEdits : Put(n, x, o)
    BY <1>5 DEF EditObject, CreateObject
  <2> QED BY <1>3, <1>5, <2>1, PutType DEF EditObject, CreateObject
<1>6. CASE EmptyNamespace(n)
  <2>1. api' \in Clusters /\ behind' \subseteq Namespaces \X (Names \cup {"ns"})
           /\ due' \subseteq behind' \cap (Namespaces \X Names)
    <3>1. [phase |-> "absent", disabled |-> FALSE] \in NamespaceObj
      BY DEF NamespaceObj
    <3> QED BY <1>6, <3>1, PutType, PutNamespaceType, ObjectTypes DEF EmptyNamespace
  <2> QED BY <1>6, <2>1 DEF EmptyNamespace, WorldOK
<1> QED BY <1>1, <1>4, <1>5, <1>6

(* So do the informers.                                                    *)
LEMMA DeliverType == ASSUME WorldOK, Deliver PROVE WorldOK' /\ UNCHANGED job
<1>1. ASSUME NEW n \in Namespaces, DeliverNamespace(n) PROVE WorldOK' /\ UNCHANGED job
  <2>1. cache' \in Clusters
    BY <1>1 DEF DeliverNamespace, WorldOK, Clusters
  <2>2. due' \subseteq behind' \cap (Namespaces \X Names)
    BY <1>1, NamespacedAssumption DEF DeliverNamespace, WorldOK
  <2> QED BY <1>1, <2>1, <2>2 DEF DeliverNamespace, WorldOK
<1>2. ASSUME NEW n \in Namespaces, NEW x \in Names, DeliverObject(n, x)
      PROVE  WorldOK' /\ UNCHANGED job
  <2>1. api.obj[n][x] \in Objs
    BY DEF WorldOK, Clusters
  <2>2. cache' \in Clusters
    BY <1>2, <2>1 DEF DeliverObject, WorldOK, Clusters
  <2> QED BY <1>2, <2>2 DEF DeliverObject, WorldOK
<1> QED BY <1>1, <1>2 DEF Deliver

-----------------------------------------------------------------------------
(* Changes are noticed.                                                    *)

(* A write is noticed in its namespace if it does not change the labels of *)
(* an object that stays; elsewhere it changes nothing.                     *)
LEMMA PutNoticed ==
    ASSUME WorldOK, CacheFollows, NEW n \in Namespaces, NEW x \in Names, NEW o \in Objs,
           Put(n, x, o), UNCHANGED <<cache, queue>>,
           o.present => o.labelled \/ ~operatorManaged(api.obj[n][x])
    PROVE  CacheFollows' /\ \A k \in Namespaces : Noticed(k)
<1> USE NamespacedAssumption
<1>1. ASSUME NEW k \in Namespaces, NEW y \in Names, <<k, y>> \notin due'
      PROVE  /\ Alike(api.obj[k][y], api'.obj[k][y])
             /\ Alike(cache.obj[k][y], api'.obj[k][y])
  <2>1. <<k, y>> \notin due /\ Alike(cache.obj[k][y], api.obj[k][y])
    BY <1>1 DEF Put, CacheFollows
  <2>2. CASE k = n /\ y = x
    <3>1. api'.obj[k][y] = o
      BY <2>2 DEF Put, WorldOK, Clusters
    <3>2. o = api.obj[n][x] \/ ~watched(api.obj[n][x], o)
      BY <1>1, <2>2 DEF Put
    <3>3. Alike(api.obj[n][x], o)
      BY <3>2 DEF Alike, watched, operatorManaged
    <3> QED BY <2>1, <2>2, <3>1, <3>3 DEF Alike
  <2>3. CASE k # n \/ y # x
    <3>1. api'.obj[k][y] = api.obj[k][y]
      BY <2>3 DEF Put, WorldOK, Clusters
    <3> QED BY <2>1, <3>1 DEF Alike
  <2> QED BY <2>2, <2>3
<1>2. \A k \in Namespaces : api'.ns[k] = api.ns[k] /\ (<<k, "ns">> \in behind' <=> <<k, "ns">> \in behind)
  BY DEF Put, WorldOK, Clusters
<1>3. CacheFollows'
  BY <1>1, <1>2 DEF CacheFollows
<1>4. ASSUME NEW k \in Namespaces PROVE Noticed(k)
  <2>1. due \subseteq due'
    BY DEF Put
  <2> QED BY <1>1, <1>2, <2>1 DEF Noticed, EventDue
<1> QED BY <1>3, <1>4

(* Every change of a namespace is an event.                                *)
LEMMA PutNamespaceNoticed ==
    ASSUME WorldOK, CacheFollows, NEW n \in Namespaces, NEW o \in NamespaceObj,
           PutNamespace(n, o), UNCHANGED <<cache, queue>>
    PROVE  CacheFollows' /\ \A k \in Namespaces : Noticed(k)
<1>1. /\ \A k \in Namespaces : k # n => api'.ns[k] = api.ns[k]
      /\ api'.obj = api.obj /\ behind \subseteq behind' /\ <<n, "ns">> \in behind' /\ due' = due
  BY DEF PutNamespace, WorldOK, Clusters
<1>2. CacheFollows'
  BY <1>1 DEF CacheFollows
<1>3. \A k \in Namespaces : k # n => (<<k, "ns">> \in behind' <=> <<k, "ns">> \in behind)
  BY DEF PutNamespace
<1>4. \A k \in Namespaces : Noticed(k)
  BY <1>1, <1>3 DEF Noticed, EventDue, Alike
<1> QED BY <1>2, <1>4

(* Whatever users and Kubernetes do is noticed.                            *)
LEMMA OthersNoticed ==
    ASSUME WorldOK, CacheFollows, Others
    PROVE  CacheFollows' /\ \A k \in Namespaces : Noticed(k)
<1> USE NamespacedAssumption
<1>1. PICK n \in Namespaces :
         \/ AnnotateNamespace(n) \/ DeleteNamespace(n) \/ CreateNamespace(n)
         \/ \E x \in Names : EditObject(n, x) \/ CreateObject(n, x)
         \/ EmptyNamespace(n)
  BY DEF Others
<1>2. api.ns[n] \in NamespaceObj
  BY DEF WorldOK, Clusters
<1>3. UNCHANGED <<cache, queue>>
  BY OthersType
<1>4. CASE \E o \in NamespaceObj : PutNamespace(n, o)
  BY <1>3, <1>4, PutNamespaceNoticed
<1>5. CASE AnnotateNamespace(n) \/ DeleteNamespace(n) \/ CreateNamespace(n)
  <2>1. /\ [api.ns[n] EXCEPT !.disabled = ~@] \in NamespaceObj
        /\ [api.ns[n] EXCEPT !.phase = "terminating"] \in NamespaceObj
        /\ [phase |-> "active", disabled |-> FALSE] \in NamespaceObj
    BY <1>2 DEF NamespaceObj
  <2> QED BY <1>4, <1>5, <2>1 DEF AnnotateNamespace, DeleteNamespace, CreateNamespace
<1>6. ASSUME NEW x \in Names, EditObject(n, x) \/ CreateObject(n, x)
      PROVE  CacheFollows' /\ \A k \in Namespaces : Noticed(k)
  <2>1. PICK o \in ObjectEdits :
           /\ Put(n, x, o)
           /\ o.present => o.labelled = api.obj[n][x].labelled \/ ~api.obj[n][x].present
    BY <1>6 DEF EditObject, CreateObject
  <2>2. o.present => o.labelled \/ ~operatorManaged(api.obj[n][x])
    BY <2>1 DEF operatorManaged
  <2> QED BY <1>3, <2>1, <2>2, PutNoticed
<1>7. CASE EmptyNamespace(n)
  <2>1. CASE \E x \in Names : Put(n, x, None)
    <3>1. ~None.present
      BY DEF None
    <3> QED BY <1>3, <2>1, <3>1, PutNoticed, ObjectTypes
  <2>2. [phase |-> "absent", disabled |-> FALSE] \in NamespaceObj
    BY DEF NamespaceObj
  <2> QED BY <1>4, <1>7, <2>1, <2>2 DEF EmptyNamespace
<1> QED BY <1>1, <1>5, <1>6, <1>7

(* A delivered event is in the queue.                                      *)
LEMMA DeliverNoticed ==
    ASSUME WorldOK, CacheFollows, Deliver
    PROVE  CacheFollows' /\ \A k \in Namespaces : Noticed(k)
<1> USE NamespacedAssumption
<1>1. ASSUME NEW n \in Namespaces, DeliverNamespace(n)
      PROVE  CacheFollows' /\ \A k \in Namespaces : Noticed(k)
  <2>1. CacheFollows'
    <3>1. /\ cache'.ns[n] = api.ns[n] /\ cache'.obj = cache.obj
          /\ \A k \in Namespaces : k # n => cache'.ns[k] = cache.ns[k]
      BY <1>1 DEF DeliverNamespace, WorldOK, Clusters
    <3> QED BY <1>1, <3>1 DEF DeliverNamespace, CacheFollows
  <2>2. \A k \in Namespaces : Noticed(k)
    BY <1>1 DEF DeliverNamespace, Noticed, EventDue, Alike
  <2> QED BY <2>1, <2>2
<1>2. ASSUME NEW n \in Namespaces, NEW x \in Names, DeliverObject(n, x)
      PROVE  CacheFollows' /\ \A k \in Namespaces : Noticed(k)
  <2>1. CacheFollows'
    <3>1. /\ cache'.ns = cache.ns /\ cache'.obj[n][x] = api.obj[n][x]
          /\ \A k \in Namespaces, y \in Names :
                 k # n \/ y # x => cache'.obj[k][y] = cache.obj[k][y]
      BY <1>2 DEF DeliverObject, WorldOK, Clusters
    <3>2. \A k \in Namespaces : <<k, "ns">> \notin behind' => <<k, "ns">> \notin behind
      BY <1>2 DEF DeliverObject
    <3>3. \A k \in Namespaces, y \in Names :
             (k # n \/ y # x) /\ <<k, y>> \notin due' => <<k, y>> \notin due
      BY <1>2 DEF DeliverObject
    <3> QED BY <1>2, <3>1, <3>2, <3>3 DEF DeliverObject, CacheFollows, Alike
  <2>2. \A k \in Namespaces : Noticed(k)
    BY <1>2 DEF DeliverObject, Noticed, EventDue, Alike
  <2> QED BY <2>1, <2>2
<1> QED BY <1>1, <1>2 DEF Deliver

(* A starting operator has everything in its caches, and every namespace   *)
(* that exists in its queue.                                               *)
LEMMA StartFollows ==
    ASSUME cache = api, behind = {}, due = {}, queue = StartQueue(api)
    PROVE  /\ CacheFollows
           /\ \A n \in Namespaces : api.ns[n].phase = "active" => EventDue(n)
BY DEF CacheFollows, Alike, StartQueue, EventDue

(* An object with the operator's fields has its labels, and applying them  *)
(* again changes nothing.                                                  *)
LEMMA AppliedIsManaged ==
    ASSUME NEW o \in Objs
    PROVE  operatorManaged(Applied(o)) /\ Applied(Applied(o)) = Applied(o)
<1> DEFINE p == Applied(o)
<1>1. p \in Objs /\ p.present /\ p.labelled = TRUE /\ p.owned = TRUE
  BY DEF Objs, Applied, Desired
<1>2. [p EXCEPT !.labelled = TRUE, !.owned = TRUE] = p
  BY <1>1 DEF Objs
<1> QED BY <1>1, <1>2 DEF Applied, operatorManaged

(* Where no event is due after a step, none was before, and nothing has    *)
(* changed that the controllers go by.                                     *)
LEMMA QuietNamespace ==
    ASSUME WorldOK, WorldOK', NEW n \in Namespaces, Noticed(n), ~EventDue(n)'
    PROVE  /\ ~EventDue(n)
           /\ api'.ns[n] = api.ns[n] /\ (Managed(n)' <=> Managed(n))
           /\ \A x \in Names :
                 LET o == api.obj[n][x]
                     p == api'.obj[n][x]
                 IN /\ operatorManaged(p) <=> operatorManaged(o)
                    /\ p = Applied(p) <=> o = Applied(o)
<1>1. /\ ~EventDue(n) /\ api'.ns[n] = api.ns[n]
      /\ \A x \in Names : Alike(api.obj[n][x], api'.obj[n][x])
  BY DEF Noticed
<1>2. Managed(n)' <=> Managed(n)
  BY <1>1 DEF Managed
<1>3. ASSUME NEW x \in Names
      PROVE  /\ operatorManaged(api'.obj[n][x]) <=> operatorManaged(api.obj[n][x])
             /\ api'.obj[n][x] = Applied(api'.obj[n][x])
                   <=> api.obj[n][x] = Applied(api.obj[n][x])
  <2>1. api.obj[n][x] \in Objs /\ api'.obj[n][x] \in Objs
    BY DEF WorldOK, Clusters
  <2>2. CASE api.obj[n][x] = api'.obj[n][x]
    BY <2>2
  <2>3. CASE ~operatorManaged(api.obj[n][x]) /\ ~operatorManaged(api'.obj[n][x])
    BY <2>1, <2>3, AppliedIsManaged
  <2> QED BY <1>1, <2>2, <2>3 DEF Alike
<1> QED BY <1>1, <1>2, <1>3

(* The same of the namespace object alone.                                 *)
NamespaceNoticed(n) ==
    \/ n \in queue' \/ <<n, "ns">> \in behind'
    \/ n \notin queue /\ <<n, "ns">> \notin behind /\ api'.ns[n] = api.ns[n]

(* Whatever users, Kubernetes and the informers do to a namespace is       *)
(* noticed, and a write of an object does nothing to it.                   *)
LEMMA NamespacesNoticed ==
    ASSUME WorldOK, NEW n \in Namespaces,
           \/ Others
           \/ Deliver
           \/ UNCHANGED queue /\ \E k \in Namespaces, x \in Names : \E o \in Objs : Put(k, x, o)
    PROVE  NamespaceNoticed(n)
<1> USE NamespacedAssumption DEF NamespaceNoticed
<1>1. ASSUME NEW k \in Namespaces, NEW x \in Names, NEW o, Put(k, x, o), UNCHANGED queue
      PROVE  NamespaceNoticed(n)
  BY <1>1 DEF Put, WorldOK, Clusters
<1>2. ASSUME NEW k \in Namespaces, NEW o, PutNamespace(k, o), UNCHANGED queue
      PROVE  NamespaceNoticed(n)
  BY <1>2 DEF PutNamespace, WorldOK, Clusters
<1>3. CASE Others
  <2>1. UNCHANGED queue
    BY <1>3, OthersType
  <2>2. \E k \in Namespaces :
           (\E o : PutNamespace(k, o)) \/ \E x \in Names : \E o : Put(k, x, o)
    BY <1>3 DEF Others, AnnotateNamespace, DeleteNamespace, CreateNamespace, EditObject, CreateObject,
                EmptyNamespace
  <2> QED BY <1>1, <1>2, <2>1, <2>2
<1>4. CASE Deliver
  BY <1>4 DEF Deliver, DeliverNamespace, DeliverObject
<1> QED BY <1>1, <1>3, <1>4

=============================================================================
