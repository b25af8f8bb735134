--------------------------- MODULE ResolutionProofs ---------------------------
(***************************************************************************)
(* Proofs about what becomes of a pod: the directions Resolve gives it,    *)
(* what the resolution controller (Resolution) and the webhooks beside it  *)
(* (Admission) write of them, and the network wait that the webhook gives  *)
(* it and the controller reports (NetworkWait); for any clusters, inputs,  *)
(* edits, requests, nodes and bounds.                                      *)
(***************************************************************************)
EXTENDS Admission, Resolve, NetworkWait, TLAPS

-----------------------------------------------------------------------------
(* Resolve.                                                                *)

(* The directions of the group that have been merged.                      *)
Merged == {input[scope][vnet][k] : k \in 1 .. i}

(* The loops have not got to what tier s asks for vnet v.                  *)
Unheard(s, v) ==
    s > scope \/ (s = scope /\ (v \in todo \/ (pc = "merge" /\ v = vnet)))

(* What the tiers have asked for vnet v so far.                            *)
Heard(v) == [s \in Scopes |-> IF Unheard(s, v) THEN {} ELSE Asked(s, v)]

LoopTypes ==
    /\ input \in [Scopes -> [VnetKeys -> Seq(Directions)]] /\ scope \in Scopes
    /\ todo \subseteq Groups(scope) /\ pc \in {"vnet", "merge", "done"}
    /\ pc = "merge" => /\ vnet \in Groups(scope) /\ i \in 1 .. Len(input[scope][vnet])
                       /\ eff \in Directions
    /\ disagree \in BOOLEAN /\ anyDefault \in BOOLEAN /\ anyBare \in BOOLEAN
    /\ current \in [VnetKeys -> {Unset} \cup [dir : Directions, from : Scopes]]

(* The inner loop: the running values say of the rules merged so far what  *)
(* they are to say of the whole group.                                     *)
GroupIsMerged ==
    pc = "merge" =>
        /\ vnet \notin todo
        /\ Caps(eff) = CommonCaps(Merged)
        /\ anyBare => ~IsDefault(eff)
        /\ anyDefault <=> \E d \in Merged : IsDefault(d)
        /\ anyBare <=> \E d \in Merged : ~IsDefault(d)
        /\ ~disagree => \A d \in Merged : Bare(d) = Bare(eff)
        /\ disagree => \E a, b \in Merged : Bare(a) # Bare(b)

(* The outer loops: current is the closed form of the tiers heard so far,  *)
(* default-tagged while a later tier may still override it.                *)
CurrentIsClosedForm ==
    \A v \in VnetKeys :
        LET L == Heard(v)
            c == current[v]
        IN /\ Speaking(L) = {} => c = Unset
           /\ Speaking(L) # {} =>
                 /\ c # Unset /\ c.from = Deciding(L) /\ Bare(c.dir) = EffectiveDirection(L)
                 /\ IsDefault(c.dir) <=> Pinning(L) = {}

(* Tier s asks for other than the earlier tier that pinned the vnet.       *)
Overridden(L, s) ==
    /\ s \in Speaking(L) /\ Pinning(L) # {} /\ Deciding(L) < s
    /\ FromCaps(CommonCaps(L[s])) # EffectiveDirection(L)

Conflicting(s, v) == \E c \in conflicts : c.scope = s /\ c.vnet = v
Rejected(s, v)    == \E r \in rejected : r.scope = s /\ r.vnet = v

(* The reports are those of the tiers heard so far.                        *)
ReportsAreRight ==
    \A s \in Scopes, v \in VnetKeys :
        /\ Conflicting(s, v) <=> \E a, b \in Heard(v)[s] : Bare(a) # Bare(b)
        /\ Rejected(s, v) <=> Overridden(Heard(v), s)
        /\ \A r \in rejected : r.scope = s /\ r.vnet = v => r.by = Deciding(Heard(v))

(* At the end every tier has been heard.                                   *)
ResultIsStripped ==
    pc = "done" => /\ scope = ScopePod /\ todo = {}
                   /\ effective = [v \in VnetKeys |-> stripped(current[v])]

LoopInv ==
    /\ LoopTypes /\ GroupIsMerged /\ CurrentIsClosedForm /\ ReportsAreRight /\ ResultIsStripped


-----------------------------------------------------------------------------
(* The algebra.                                                            *)

(* Tagging a direction as a default and back changes only the tag.         *)
LEMMA BareType ==
    ASSUME NEW d \in Directions
    PROVE  /\ Bare(d) \in BareDirections /\ Bare(Bare(d)) = Bare(d)
           /\ ~IsDefault(d) => Bare(d) = d
           /\ AsDefault(d) \in DefaultDirections /\ Bare(AsDefault(d)) = Bare(d)
BY DEF Directions, BareDirections, DefaultDirections, Bare, IsDefault, AsDefault

(* A direction is its capabilities.                                        *)
LEMMA CapsOfDirection ==
    ASSUME NEW d \in Directions
    PROVE  Caps(d) \in SUBSET Capabilities /\ FromCaps(Caps(d)) = Bare(d)
<1>1. Bare(d) \in BareDirections
  BY BareType
<1>2. CASE Bare(d) = "both"
  BY <1>2 DEF Caps, FromCaps, Capabilities
<1>3. CASE Bare(d) = "ingress"
  <2>1. Caps(d) = {"receive"}
    BY <1>3 DEF Caps
  <2> QED BY <1>3, <2>1 DEF FromCaps, Capabilities
<1>4. CASE Bare(d) = "egress"
  <2>1. Caps(d) = {"initiate"}
    BY <1>4 DEF Caps
  <2> QED BY <1>4, <2>1 DEF FromCaps, Capabilities
<1>5. CASE Bare(d) = "none"
  <2>1. Caps(d) = {}
    BY <1>5 DEF Caps
  <2> QED BY <1>5, <2>1 DEF FromCaps, Capabilities
<1> QED BY <1>1, <1>2, <1>3, <1>4, <1>5 DEF BareDirections

(* ADR 0031's truth table grants what both grant.                          *)
LEMMA IntersectCaps ==
    ASSUME NEW a \in Directions, NEW b \in Directions
    PROVE  /\ intersect(a, b) \in BareDirections /\ Caps(intersect(a, b)) = Caps(a) \cap Caps(b)
           /\ Bare(a) = Bare(b) => intersect(a, b) = Bare(a)
<1> DEFINE x == Bare(a)
           y == Bare(b)
<1>1. x \in BareDirections /\ y \in BareDirections
  BY BareType
<1>2. /\ Caps(a) = Caps(x) /\ Caps(b) = Caps(y) /\ intersect(a, b) = intersect(x, y)
      /\ Bare(x) = x /\ Bare(y) = y
  BY BareType DEF Caps, intersect
<1> HIDE DEF x, y
<1>3. /\ Caps("both") = Capabilities /\ Caps("none") = {}
      /\ Caps("ingress") = {"receive"} /\ Caps("egress") = {"initiate"}
  BY DEF Caps, Bare
<1>4. CASE x = "none" \/ y = "none"
  <2>1. intersect(x, y) = "none"
    BY <1>2, <1>4 DEF intersect
  <2>2. Caps(x) = {} \/ Caps(y) = {}
    BY <1>3, <1>4
  <2> QED BY <1>2, <1>3, <1>4, <2>1, <2>2 DEF BareDirections, x, y
<1>5. CASE x = y /\ x # "none"
  <2>1. intersect(x, y) = x
    BY <1>2, <1>5 DEF intersect
  <2> QED BY <1>1, <1>2, <1>5, <2>1 DEF x, y
<1>6. CASE x = "both" /\ y \notin {"none", "both"}
  <2>1. intersect(x, y) = y
    BY <1>2, <1>6 DEF intersect
  <2>2. Caps(y) \subseteq Capabilities
    BY <1>1, <1>3 DEF BareDirections, Capabilities
  <2> QED BY <1>1, <1>2, <1>3, <1>6, <2>1, <2>2 DEF x, y
<1>7. CASE y = "both" /\ x \notin {"none", "both"}
  <2>1. intersect(x, y) = x
    BY <1>2, <1>7 DEF intersect
  <2>2. Caps(x) \subseteq Capabilities
    BY <1>1, <1>3 DEF BareDirections, Capabilities
  <2> QED BY <1>1, <1>2, <1>3, <1>7, <2>1, <2>2 DEF x, y
<1>8. CASE {x, y} = {"ingress", "egress"}
  <2>1. x # y /\ x \in {"ingress", "egress"} /\ y \in {"ingress", "egress"}
    BY <1>8
  <2>2. intersect(x, y) = "none"
    BY <1>2, <2>1 DEF intersect
  <2>3. Caps(x) \cap Caps(y) = {}
    BY <1>3, <2>1
  <2> QED BY <1>2, <1>3, <2>1, <2>2, <2>3 DEF BareDirections, x, y
<1>9. x = "none" \/ y = "none" \/ x = y \/ x = "both" \/ y = "both" \/ {x, y} = {"ingress", "egress"}
  BY <1>1 DEF BareDirections
<1> QED BY <1>1, <1>4, <1>5, <1>6, <1>7, <1>8, <1>9

(* One direction more.                                                     *)
LEMMA CommonCapsAdd ==
    ASSUME NEW D, NEW d PROVE CommonCaps(D \cup {d}) = CommonCaps(D) \cap Caps(d)
BY DEF CommonCaps

(* What one direction has in common with itself.                           *)
LEMMA CommonCapsOne ==
    ASSUME NEW d \in Directions PROVE CommonCaps({d}) = Caps(d)
BY CapsOfDirection DEF CommonCaps

-----------------------------------------------------------------------------
(* The closed form, as one more tier is heard.                             *)

(* Among any tiers there is a first one.                                   *)
LEMMA FirstScope ==
    ASSUME NEW P \in SUBSET Scopes, P # {}
    PROVE  \E s \in P : \A t \in P : s <= t
<1>1. CASE 1 \in P
  BY <1>1 DEF Scopes, ScopeClusterBaseline, ScopeNamespaceBaseline, ScopePod
<1>2. CASE 1 \notin P /\ 2 \in P
  BY <1>2 DEF Scopes, ScopeClusterBaseline, ScopeNamespaceBaseline, ScopePod
<1>3. CASE 1 \notin P /\ 2 \notin P
  <2>1. \A t \in P : t = 3
    BY <1>3 DEF Scopes, ScopeClusterBaseline, ScopeNamespaceBaseline, ScopePod
  <2> QED BY <2>1
<1> QED BY <1>1, <1>2, <1>3

(* Among any tiers there is a last one.                                    *)
LEMMA LastScope ==
    ASSUME NEW P \in SUBSET Scopes, P # {}
    PROVE  \E s \in P : \A t \in P : t <= s
<1>1. CASE 3 \in P
  BY <1>1 DEF Scopes, ScopeClusterBaseline, ScopeNamespaceBaseline, ScopePod
<1>2. CASE 3 \notin P /\ 2 \in P
  BY <1>2 DEF Scopes, ScopeClusterBaseline, ScopeNamespaceBaseline, ScopePod
<1>3. CASE 3 \notin P /\ 2 \notin P
  <2>1. \A t \in P : t = 1
    BY <1>3 DEF Scopes, ScopeClusterBaseline, ScopeNamespaceBaseline, ScopePod
  <2> QED BY <2>1
<1> QED BY <1>1, <1>2, <1>3

(* The tier that decides is the first that pins, or the last that speaks.  *)
LEMMA DecidingIs ==
    ASSUME NEW L, NEW s \in Speaking(L),
           \/ s \in Pinning(L) /\ \A t \in Pinning(L) : s <= t
           \/ Pinning(L) = {} /\ \A t \in Speaking(L) : t <= s
    PROVE  Deciding(L) = s
<1>1. Speaking(L) \subseteq Scopes /\ Pinning(L) \subseteq Scopes /\ Scopes \subseteq Int
  BY DEF Speaking, Pinning, Scopes, ScopeClusterBaseline, ScopeNamespaceBaseline, ScopePod
<1>2. CASE s \in Pinning(L) /\ \A t \in Pinning(L) : s <= t
  <2>1. Deciding(L) = CHOOSE r \in Pinning(L) : \A t \in Pinning(L) : r <= t
    BY <1>2 DEF Deciding
  <2>2. Deciding(L) \in Pinning(L) /\ \A t \in Pinning(L) : Deciding(L) <= t
    BY <1>2, <2>1
  <2>3. Deciding(L) <= s /\ s <= Deciding(L)
    BY <1>2, <2>2
  <2>4. Deciding(L) \in Int /\ s \in Int
    BY <1>1, <2>2
  <2> QED BY <2>3, <2>4
<1>3. CASE Pinning(L) = {} /\ \A t \in Speaking(L) : t <= s
  <2>1. Deciding(L) = CHOOSE r \in Speaking(L) : \A t \in Speaking(L) : t <= r
    BY <1>3 DEF Deciding
  <2>2. Deciding(L) \in Speaking(L) /\ \A t \in Speaking(L) : t <= Deciding(L)
    BY <1>3, <2>1
  <2>3. Deciding(L) <= s /\ s <= Deciding(L)
    BY <1>3, <2>2
  <2>4. Deciding(L) \in Int /\ s \in Int
    BY <1>1, <2>2
  <2> QED BY <2>3, <2>4
<1> QED BY <1>2, <1>3

(* Tier s speaks after the others: it decides unless one of them pinned.   *)
LEMMA OneTierMore ==
    ASSUME NEW L, NEW M, NEW s \in Scopes, L[s] = {}, M[s] # {},
           \A t \in Scopes : t # s => M[t] = L[t],
           \A t \in Speaking(L) : t < s
    PROVE  /\ s \in Speaking(M)
           /\ Pinning(L) # {} =>
                 /\ Pinning(M) # {} /\ Speaking(L) # {} /\ Deciding(M) = Deciding(L) /\ Deciding(L) < s
                 /\ EffectiveDirection(M) = EffectiveDirection(L)
           /\ Pinning(L) = {} =>
                 /\ Deciding(M) = s /\ EffectiveDirection(M) = FromCaps(CommonCaps(M[s]))
                 /\ Pinning(M) = {} <=> \A d \in M[s] : IsDefault(d)
<1>0. Scopes \subseteq Int
  BY DEF Scopes, ScopeClusterBaseline, ScopeNamespaceBaseline, ScopePod
<1>1. Speaking(M) = Speaking(L) \cup {s}
  BY DEF Speaking
<1>2. \A t \in Scopes : t # s => (t \in Pinning(M) <=> t \in Pinning(L))
  BY DEF Speaking, Pinning
<1>3. s \in Pinning(M) <=> \E d \in M[s] : ~IsDefault(d)
  BY DEF Speaking, Pinning
<1>4. /\ Pinning(L) \subseteq Speaking(L) /\ Speaking(L) \subseteq Scopes
      /\ Pinning(M) \subseteq Scopes /\ s \notin Speaking(L)
  BY DEF Speaking, Pinning
<1>5. CASE Pinning(L) # {}
  <2>1. PICK p \in Pinning(L) : \A t \in Pinning(L) : p <= t
    BY <1>4, <1>5, FirstScope
  <2>2. p < s /\ p \in Speaking(L)
    BY <1>4
  <2>3. Deciding(L) = p
    BY <2>1, <2>2, DecidingIs
  <2>4. p \in Pinning(M) /\ p \in Speaking(M) /\ \A t \in Pinning(M) : p <= t
    <3>1. p \in Scopes /\ p # s
      BY <1>4, <2>2
    <3>2. p \in Pinning(M) /\ p \in Speaking(M)
      BY <1>1, <1>2, <2>1, <2>2, <3>1
    <3>3. ASSUME NEW t \in Pinning(M), t # s PROVE p <= t
      BY <1>2, <1>4, <2>1, <3>3
    <3>4. p <= s
      BY <1>0, <2>2, <3>1
    <3> QED BY <3>2, <3>3, <3>4
  <2>5. Deciding(M) = p
    BY <2>4, DecidingIs
  <2>6. M[p] = L[p]
    BY <1>0, <1>4, <2>2
  <2> QED BY <1>1, <1>5, <2>2, <2>3, <2>4, <2>5, <2>6 DEF EffectiveDirection
<1>6. CASE Pinning(L) = {}
  <2>1. Pinning(M) \subseteq {s}
    BY <1>2, <1>4, <1>6
  <2>2. s <= s /\ \A t \in Scopes : t < s => t <= s
    BY <1>0
  <2>3. \A t \in Speaking(M) : t <= s
    BY <1>1, <1>4, <2>2
  <2>4. Deciding(M) = s
    BY <1>1, <2>1, <2>2, <2>3, DecidingIs
  <2>5. EffectiveDirection(M) = FromCaps(CommonCaps(M[s]))
    BY <1>1, <2>4 DEF EffectiveDirection
  <2> QED BY <1>1, <1>3, <1>6, <2>1, <2>4, <2>5
<1> QED BY <1>1, <1>5, <1>6

-----------------------------------------------------------------------------
(* The loops.                                                              *)

(* Rules ask for directions.                                               *)
LEMMA AskedType ==
    ASSUME LoopTypes, NEW s \in Scopes, NEW v \in VnetKeys
    PROVE  /\ input[s][v] \in Seq(Directions) /\ Asked(s, v) \subseteq Directions
           /\ \A k \in 1 .. Len(input[s][v]) : input[s][v][k] \in Directions
           /\ Asked(s, v) = {input[s][v][k] : k \in 1 .. Len(input[s][v])}
           /\ v \in Groups(s) => Len(input[s][v]) >= 1
           /\ v \notin Groups(s) => Asked(s, v) = {}
<1>1. input[s][v] \in Seq(Directions)
  BY DEF LoopTypes
<1> DEFINE q == input[s][v]
<1> HIDE DEF q
<1>2. q \in Seq(Directions)
  BY <1>1 DEF q
<1>3. /\ DOMAIN q = 1 .. Len(q) /\ Len(q) \in Nat
      /\ \A k \in 1 .. Len(q) : q[k] \in Directions
      /\ q # <<>> => Len(q) >= 1
      /\ q = <<>> => Len(q) = 0
  BY <1>2
<1>4. Asked(s, v) = {q[k] : k \in 1 .. Len(q)}
  BY <1>3 DEF Asked, q
<1>5. q = <<>> => Asked(s, v) = {}
  BY <1>3, <1>4
<1>6. v \in Groups(s) <=> q # <<>>
  BY DEF Groups, q
<1> QED BY <1>1, <1>3, <1>4, <1>5, <1>6 DEF q

(* What is heard depends only on what the loops have got to.               *)
LEMMA HeardKept ==
    ASSUME input' = input, NEW v \in VnetKeys,
           \A s \in Scopes : (Unheard(s, v)' <=> Unheard(s, v)) \/ Asked(s, v) = {}
    PROVE  Heard(v)' = Heard(v)
<1>1. \A s \in Scopes : Asked(s, v)' = Asked(s, v)
  BY DEF Asked
<1> QED BY <1>1 DEF Heard

(* A step that hears nothing and reports nothing keeps the outer loops'    *)
(* part of the invariant.                                                  *)
LEMMA OuterKept ==
    ASSUME LoopInv, \A v \in VnetKeys : Heard(v)' = Heard(v), UNCHANGED <<current, conflicts, rejected>>
    PROVE  CurrentIsClosedForm' /\ ReportsAreRight'
<1>1. CurrentIsClosedForm'
  BY DEF LoopInv, CurrentIsClosedForm
<1>2. ReportsAreRight'
  BY DEF LoopInv, ReportsAreRight, Conflicting, Rejected
<1> QED BY <1>1, <1>2

(* The loop invariant holds before the first tier, when nothing has been   *)
(* heard.                                                                  *)
LEMMA LoopInit ==
    ASSUME RInit
    PROVE  LoopInv
<1>1. LoopTypes
  <2>1. current \in [VnetKeys -> {Unset} \cup [dir : Directions, from : Scopes]]
    BY DEF RInit
  <2> QED BY <2>1, LayerInputsAssumption DEF RInit, LoopTypes, Scopes, ScopeClusterBaseline
<1>2. ASSUME NEW v \in VnetKeys PROVE Speaking(Heard(v)) = {} /\ \A s \in Scopes : Heard(v)[s] = {}
  <2>1. ASSUME NEW s \in Scopes PROVE Heard(v)[s] = {}
    <3>1. s \in {1, 2, 3} /\ scope = 1 /\ todo = Groups(1)
      BY DEF RInit, Scopes, ScopeClusterBaseline, ScopeNamespaceBaseline, ScopePod
    <3>2. CASE s = 1
      BY <1>1, <3>1, <3>2, AskedType DEF Heard, Unheard
    <3>3. CASE s > 1
      BY <3>1, <3>3 DEF Heard, Unheard
    <3> QED BY <3>1, <3>2, <3>3
  <2> QED BY <2>1 DEF Speaking
<1>3. CurrentIsClosedForm
  BY <1>2 DEF RInit, CurrentIsClosedForm
<1>4. ReportsAreRight
  BY <1>2 DEF RInit, ReportsAreRight, Conflicting, Rejected, Overridden
<1>5. GroupIsMerged /\ ResultIsStripped
  BY DEF RInit, GroupIsMerged, ResultIsStripped
<1> QED BY <1>1, <1>3, <1>4, <1>5 DEF LoopInv

(* The first rule of a group is its own summary.                           *)
LEMMA StartVnetKept ==
    ASSUME LoopInv, NEW v \in VnetKeys, StartVnet(v)
    PROVE  LoopInv'
<1>1. LoopTypes /\ v \in Groups(scope) /\ scope \in Scopes
  BY DEF LoopInv, LoopTypes, StartVnet
<1>2. /\ pc = "vnet" /\ pc' = "merge" /\ vnet' = v /\ todo' = todo \ {v} /\ i' = 1
      /\ eff' = input[scope][v][1] /\ disagree' = FALSE /\ anyDefault' = IsDefault(eff')
      /\ anyBare' = ~IsDefault(eff') /\ v \in todo
      /\ UNCHANGED <<input, scope, current, conflicts, rejected, effective>>
  BY DEF StartVnet, reports
<1>3. eff' \in Directions /\ Len(input[scope][v]) \in Nat /\ Len(input[scope][v]) >= 1
  BY <1>1, <1>2, AskedType
<1>4. IsDefault(eff') \in BOOLEAN
  BY DEF IsDefault
<1>5. LoopTypes'
  <2>1. todo' \subseteq Groups(scope)' /\ v \in Groups(scope)'
    BY <1>1, <1>2 DEF LoopTypes, Groups
  <2>2. i' \in 1 .. Len(input'[scope'][vnet'])
    BY <1>2, <1>3
  <2> QED BY <1>1, <1>2, <1>3, <1>4, <2>1, <2>2 DEF LoopTypes
<1>6. Merged' = {eff'}
  BY <1>2 DEF Merged
<1>7. GroupIsMerged'
  BY <1>2, <1>3, <1>6, CommonCapsOne DEF GroupIsMerged
<1>8. ASSUME NEW u \in VnetKeys PROVE Heard(u)' = Heard(u)
  <2>1. \A s \in Scopes : Unheard(s, u)' <=> Unheard(s, u)
    BY <1>2 DEF Unheard
  <2> QED BY <1>2, <2>1, HeardKept
<1>9. CurrentIsClosedForm' /\ ReportsAreRight'
  BY <1>2, <1>8, OuterKept
<1> QED BY <1>2, <1>5, <1>7, <1>9 DEF LoopInv, ResultIsStripped

(* One more rule.  It is compared with the running intersection; as long   *)
(* as there is no disagreement that is every earlier rule's direction.     *)
LEMMA MergeRuleKept ==
    ASSUME LoopInv, MergeRule
    PROVE  LoopInv'
<1>1. LoopTypes /\ pc = "merge" /\ GroupIsMerged
  BY DEF LoopInv, MergeRule
<1>2. vnet \in Groups(scope) /\ vnet \in VnetKeys /\ scope \in Scopes /\ eff \in Directions
      /\ i \in 1 .. Len(input[scope][vnet]) /\ i < Len(input[scope][vnet])
  BY <1>1 DEF LoopTypes, Groups, MergeRule
<1>3. Len(input[scope][vnet]) \in Nat
  BY <1>1, <1>2, AskedType
<1>4. PICK r : r = input[scope][vnet][i + 1]
  OBVIOUS
<1>5. r \in Directions
  <2>1. i + 1 \in 1 .. Len(input[scope][vnet])
    BY <1>2, <1>3
  <2> QED BY <1>1, <1>2, <1>4, <2>1, AskedType
<1>6. /\ disagree' = (disagree \/ Bare(r) # Bare(eff)) /\ eff' = intersect(eff, r)
      /\ anyDefault' = (anyDefault \/ IsDefault(r)) /\ anyBare' = (anyBare \/ ~IsDefault(r))
      /\ i' = i + 1 /\ pc' = "merge"
      /\ UNCHANGED <<input, scope, todo, vnet, current, conflicts, rejected, effective>>
  BY <1>1, <1>4 DEF MergeRule, reports
<1>7. /\ eff' \in BareDirections /\ Caps(eff') = Caps(eff) \cap Caps(r)
      /\ Bare(r) = Bare(eff) => Bare(eff') = Bare(eff)
  BY <1>2, <1>5, <1>6, IntersectCaps, BareType
<1>8. Merged' = Merged \cup {r}
  <2>1. 1 .. i + 1 = (1 .. i) \cup {i + 1}
    BY <1>2, <1>3
  <2>2. Merged' = {input[scope][vnet][k] : k \in 1 .. i + 1}
    BY <1>6 DEF Merged
  <2> QED BY <1>4, <2>1, <2>2 DEF Merged
<1>9. LoopTypes'
  <2>1. Groups(scope)' = Groups(scope)
    BY <1>6 DEF Groups
  <2>2. i' \in 1 .. Len(input'[scope'][vnet'])
    BY <1>2, <1>3, <1>6
  <2>3. disagree' \in BOOLEAN /\ anyDefault' \in BOOLEAN /\ anyBare' \in BOOLEAN
    BY <1>6
  <2>4. eff' \in Directions
    BY <1>7 DEF Directions
  <2> QED BY <1>1, <1>6, <2>1, <2>2, <2>3, <2>4 DEF LoopTypes
<1>10. GroupIsMerged'
  <2>1. Caps(eff') = CommonCaps(Merged')
    BY <1>1, <1>7, <1>8, CommonCapsAdd DEF GroupIsMerged
  <2>2. ~IsDefault(eff')
    BY <1>7 DEF IsDefault, BareDirections, DefaultDirections
  <2>3. /\ anyDefault' <=> \E d \in Merged' : IsDefault(d)
        /\ anyBare' <=> \E d \in Merged' : ~IsDefault(d)
    BY <1>1, <1>6, <1>8 DEF GroupIsMerged
  <2>4. ~disagree' => \A d \in Merged' : Bare(d) = Bare(eff')
    BY <1>1, <1>6, <1>7, <1>8 DEF GroupIsMerged
  <2>5. disagree' => \E a, b \in Merged' : Bare(a) # Bare(b)
    <3>1. CASE disagree
      BY <1>1, <1>8, <3>1 DEF GroupIsMerged
    <3>2. CASE ~disagree /\ Bare(r) # Bare(eff)
      <4>1. PICK a \in Merged : TRUE
        BY <1>2, <1>3 DEF Merged
      <4>2. Bare(a) = Bare(eff)
        BY <1>1, <3>2 DEF GroupIsMerged
      <4> QED BY <1>8, <3>2, <4>1, <4>2
    <3> QED BY <1>6, <3>1, <3>2
  <2>6. vnet' \notin todo'
    BY <1>1, <1>6 DEF GroupIsMerged
  <2> QED BY <2>1, <2>2, <2>3, <2>4, <2>5, <2>6 DEF GroupIsMerged
<1>11. ASSUME NEW u \in VnetKeys PROVE Heard(u)' = Heard(u)
  <2>1. \A s \in Scopes : Unheard(s, u)' <=> Unheard(s, u)
    BY <1>1, <1>6 DEF Unheard
  <2> QED BY <1>6, <2>1, HeardKept
<1>12. CurrentIsClosedForm' /\ ReportsAreRight'
  BY <1>6, <1>11, OuterKept
<1> QED BY <1>6, <1>9, <1>10, <1>12 DEF LoopInv, ResultIsStripped

(* A tier that does not ask for a vnet is heard when its turn comes.       *)
LEMMA NextLayerKept ==
    ASSUME LoopInv, NextLayer
    PROVE  LoopInv'
<1>1. LoopTypes /\ pc = "vnet" /\ todo = {} /\ scope \in Scopes /\ scope < 3
  BY DEF LoopInv, LoopTypes, NextLayer
<1>2. /\ scope' = scope + 1 /\ todo' = Groups(scope + 1) /\ pc' = "vnet"
      /\ UNCHANGED <<input, eff, disagree, anyDefault, anyBare, i, vnet>>
      /\ UNCHANGED <<current, conflicts, rejected, effective>>
  BY <1>1 DEF NextLayer, group, reports
<1>3. scope' \in Scopes
  BY <1>1, <1>2 DEF Scopes, ScopeClusterBaseline, ScopeNamespaceBaseline, ScopePod
<1>4. LoopTypes'
  <2>1. todo' \subseteq Groups(scope)'
    BY <1>2 DEF Groups
  <2> QED BY <1>1, <1>2, <1>3, <2>1 DEF LoopTypes
<1>5. ASSUME NEW u \in VnetKeys PROVE Heard(u)' = Heard(u)
  <2>1. ASSUME NEW s \in Scopes PROVE (Unheard(s, u)' <=> Unheard(s, u)) \/ Asked(s, u) = {}
    <3>1. Unheard(s, u)' <=> s > scope + 1 \/ (s = scope + 1 /\ u \in Groups(scope + 1))
      BY <1>2 DEF Unheard
    <3>2. Unheard(s, u) <=> s > scope
      BY <1>1 DEF Unheard
    <3>3. s \in Int /\ scope \in Int
      BY <1>1 DEF Scopes, ScopeClusterBaseline, ScopeNamespaceBaseline, ScopePod
    <3>4. s > scope <=> s > scope + 1 \/ s = scope + 1
      BY <3>3
    <3>5. u \notin Groups(s) => Asked(s, u) = {}
      BY <1>1, AskedType
    <3> QED BY <3>1, <3>2, <3>4, <3>5
  <2> QED BY <1>2, <2>1, HeardKept
<1>6. CurrentIsClosedForm' /\ ReportsAreRight'
  BY <1>2, <1>5, OuterKept
<1> QED BY <1>2, <1>4, <1>6 DEF LoopInv, GroupIsMerged, ResultIsStripped

(* Removing the default tags at the end keeps the loop invariant.          *)
LEMMA ResultKept ==
    ASSUME LoopInv, Finish
    PROVE  LoopInv'
<1>1. LoopTypes /\ pc = "vnet" /\ todo = {} /\ scope = 3
  BY DEF LoopInv, Finish
<1>2. /\ effective' = [v \in VnetKeys |-> stripped(current[v])] /\ pc' = "done"
      /\ UNCHANGED <<input, scope, todo, eff, disagree, anyDefault, anyBare, i, vnet>>
      /\ UNCHANGED <<current, conflicts, rejected>>
  BY DEF Finish, group, reports
<1>3. LoopTypes'
  BY <1>1, <1>2 DEF LoopTypes, Groups
<1>4. ASSUME NEW u \in VnetKeys PROVE Heard(u)' = Heard(u)
  <2>1. \A s \in Scopes : Unheard(s, u)' <=> Unheard(s, u)
    BY <1>1, <1>2 DEF Unheard
  <2> QED BY <1>2, <2>1, HeardKept
<1>5. CurrentIsClosedForm' /\ ReportsAreRight'
  BY <1>2, <1>4, OuterKept
<1>6. ResultIsStripped'
  BY <1>1, <1>2 DEF ResultIsStripped, ScopePod, stripped
<1> QED BY <1>2, <1>3, <1>5, <1>6 DEF LoopInv, GroupIsMerged

(* The group's value is what all of its rules grant, default-tagged if all *)
(* of them are.                                                            *)
LEMMA LayerValueIs ==
    ASSUME LoopInv, pc = "merge", i = Len(input[scope][vnet])
    PROVE  LET D == Asked(scope, vnet)
           IN /\ D # {} /\ D \subseteq Directions /\ LayerValue \in Directions
              /\ Bare(LayerValue) = FromCaps(CommonCaps(D))
              /\ IsDefault(LayerValue) <=> \A d \in D : IsDefault(d)
              /\ disagree <=> \E a, b \in D : Bare(a) # Bare(b)
<1>1. LoopTypes /\ GroupIsMerged /\ vnet \in VnetKeys /\ scope \in Scopes /\ vnet \in Groups(scope)
      /\ eff \in Directions
  BY DEF LoopInv, LoopTypes, Groups
<1> DEFINE D == Asked(scope, vnet)
<1>2. Merged = D /\ D \subseteq Directions /\ D # {}
  <2>1. D = {input[scope][vnet][k] : k \in 1 .. Len(input[scope][vnet])} /\ D \subseteq Directions
    BY <1>1, AskedType
  <2>2. Len(input[scope][vnet]) \in Nat /\ Len(input[scope][vnet]) >= 1
    BY <1>1, AskedType
  <2>3. 1 \in 1 .. Len(input[scope][vnet])
    BY <2>2
  <2>4. D # {}
    BY <2>1, <2>3
  <2> QED BY <2>1, <2>4 DEF Merged
<1> HIDE DEF D
<1>3. /\ Caps(eff) = CommonCaps(D) /\ (anyBare => ~IsDefault(eff))
      /\ anyDefault <=> \E d \in D : IsDefault(d)
      /\ anyBare <=> \E d \in D : ~IsDefault(d)
      /\ ~disagree => \A d \in D : Bare(d) = Bare(eff)
      /\ disagree => \E a, b \in D : Bare(a) # Bare(b)
  BY <1>1, <1>2 DEF GroupIsMerged
<1>4. CASE anyBare
  <2>1. LayerValue = eff
    BY <1>4 DEF LayerValue
  <2>2. Bare(eff) = FromCaps(CommonCaps(D))
    BY <1>1, <1>3, CapsOfDirection
  <2> QED BY <1>1, <1>2, <1>3, <1>4, <2>1, <2>2 DEF D
<1>5. CASE ~anyBare
  <2>1. LayerValue = AsDefault(eff) /\ \A d \in D : IsDefault(d)
    BY <1>2, <1>3, <1>5 DEF LayerValue
  <2>2. /\ AsDefault(eff) \in Directions /\ IsDefault(AsDefault(eff))
        /\ Bare(AsDefault(eff)) = Bare(eff)
    BY <1>1, BareType DEF Directions, IsDefault
  <2>3. Bare(eff) = FromCaps(CommonCaps(D))
    BY <1>1, <1>3, CapsOfDirection
  <2> QED BY <1>2, <1>3, <2>1, <2>2, <2>3 DEF D
<1> QED BY <1>4, <1>5

(* One more tier has been heard for the vnet.                              *)
LEMMA CascadeKept ==
    ASSUME LoopInv, Cascade
    PROVE  LoopInv'
<1> DEFINE value    == LayerValue
           existing == current[vnet]
           pinned   == pinnedBy(existing)
<1>1. /\ pc = "merge" /\ i = Len(input[scope][vnet]) /\ LoopTypes
      /\ vnet \in VnetKeys /\ scope \in Scopes /\ vnet \in Groups(scope) /\ vnet \notin todo
  BY DEF LoopInv, LoopTypes, GroupIsMerged, Groups, Cascade
<1>2. /\ conflicts' = IF disagree
                      THEN conflicts \cup {[vnet |-> vnet, scope |-> scope, dir |-> Bare(value)]}
                      ELSE conflicts
      /\ rejected' = IF pinned /\ Bare(value) # existing.dir
                     THEN rejected \cup {[vnet |-> vnet, scope |-> scope, by |-> existing.from]}
                     ELSE rejected
      /\ current' = IF pinned THEN current
                    ELSE [current EXCEPT ![vnet] = [dir |-> value, from |-> scope]]
      /\ pc' = "vnet"
      /\ UNCHANGED <<input, scope, todo, eff, disagree, anyDefault, anyBare, i, vnet, effective>>
  BY DEF Cascade, group
<1>3. PICK D : D = Asked(scope, vnet)
  OBVIOUS
<1>4. /\ D # {} /\ value \in Directions /\ Bare(value) = FromCaps(CommonCaps(D))
      /\ IsDefault(value) <=> \A d \in D : IsDefault(d)
      /\ disagree <=> \E a, b \in D : Bare(a) # Bare(b)
  BY <1>1, <1>3, LayerValueIs
<1>5. PICK s \in Scopes, w \in VnetKeys : s = scope /\ w = vnet
  BY <1>1
<1>6. PICK L, M : L = Heard(w) /\ M = Heard(w)'
  OBVIOUS
<1>7. PICK c : c = existing
  OBVIOUS
<1>8. Scopes \subseteq Int
  BY DEF Scopes, ScopeClusterBaseline, ScopeNamespaceBaseline, ScopePod
<1>9. /\ L[s] = {} /\ M[s] = D /\ \A t \in Scopes : t # s => M[t] = L[t]
      /\ \A t \in Speaking(L) : t < s
  <2>1. Unheard(s, w) /\ ~Unheard(s, w)'
    BY <1>1, <1>2, <1>5, <1>8 DEF Unheard
  <2>2. \A t \in Scopes : t # s => (Unheard(t, w)' <=> Unheard(t, w)) /\ (Unheard(t, w) <=> t > s)
    BY <1>1, <1>2, <1>5, <1>8 DEF Unheard
  <2>3. \A t \in Scopes : Asked(t, w)' = Asked(t, w)
    BY <1>2 DEF Asked
  <2>4. L[s] = {} /\ M[s] = D /\ \A t \in Scopes : t # s => M[t] = L[t]
    BY <1>3, <1>5, <1>6, <2>1, <2>2, <2>3 DEF Heard
  <2>5. \A t \in Speaking(L) : t \in Scopes /\ ~Unheard(t, w)
    BY <1>6 DEF Speaking, Heard
  <2>6. ASSUME NEW t \in Speaking(L) PROVE t < s
    <3>1. t \in Scopes /\ ~Unheard(t, w)
      BY <2>5
    <3>2. t # s
      BY <2>1, <3>1
    <3>3. ~(t > s)
      BY <2>2, <3>1, <3>2
    <3>4. s \in Int /\ t \in Int
      BY <1>8, <3>1
    <3> QED BY <3>2, <3>3, <3>4
  <2> QED BY <2>4, <2>6
<1>10. /\ s \in Speaking(M)
       /\ Pinning(L) # {} =>
             /\ Pinning(M) # {} /\ Speaking(L) # {} /\ Deciding(M) = Deciding(L) /\ Deciding(L) < s
             /\ EffectiveDirection(M) = EffectiveDirection(L)
       /\ Pinning(L) = {} =>
             /\ Deciding(M) = s /\ EffectiveDirection(M) = FromCaps(CommonCaps(M[s]))
             /\ Pinning(M) = {} <=> \A d \in M[s] : IsDefault(d)
  BY <1>4, <1>9, OneTierMore
<1>11. /\ Speaking(L) = {} => c = Unset
       /\ Speaking(L) # {} =>
             /\ c # Unset /\ c.from = Deciding(L) /\ Bare(c.dir) = EffectiveDirection(L)
             /\ IsDefault(c.dir) <=> Pinning(L) = {}
  BY <1>5, <1>6, <1>7 DEF LoopInv, CurrentIsClosedForm
<1>12. pinned <=> Pinning(L) # {}
  <2>1. Speaking(L) = {} => Pinning(L) = {}
    BY DEF Pinning
  <2> QED BY <1>7, <1>11, <2>1 DEF pinnedBy
<1>13. c \in {Unset} \cup [dir : Directions, from : Scopes]
  BY <1>1, <1>7 DEF LoopTypes
<1>14. pinned => c.dir = EffectiveDirection(L)
  <2>1. SUFFICES ASSUME pinned PROVE c.dir = EffectiveDirection(L)
    OBVIOUS
  <2>2. c.dir \in Directions /\ ~IsDefault(c.dir)
    BY <1>7, <1>13, <2>1 DEF pinnedBy
  <2> QED BY <1>10, <1>11, <1>12, <2>1, <2>2, BareType
<1>15. \A u \in VnetKeys : u # w => Heard(u)' = Heard(u)
  <2>1. ASSUME NEW u \in VnetKeys, u # w PROVE Heard(u)' = Heard(u)
    <3>1. \A t \in Scopes : Unheard(t, u)' <=> Unheard(t, u)
      BY <1>1, <1>2, <1>5, <2>1 DEF Unheard
    <3> QED BY <1>2, <3>1, HeardKept
  <2> QED BY <2>1
<1>16. /\ pinned => current' = current
       /\ ~pinned => current' = [current EXCEPT ![w] = [dir |-> value, from |-> s]]
  BY <1>2, <1>5
<1> HIDE DEF value, existing, pinned
<1>17. /\ current' \in [VnetKeys -> {Unset} \cup [dir : Directions, from : Scopes]]
       /\ \A u \in VnetKeys : u # w => current'[u] = current[u]
       /\ pinned => current'[w] = c
       /\ ~pinned => current'[w] = [dir |-> value, from |-> s]
  <2>1. current \in [VnetKeys -> {Unset} \cup [dir : Directions, from : Scopes]] /\ c = current[w]
    BY <1>1, <1>5, <1>7 DEF LoopTypes, existing
  <2>2. [dir |-> value, from |-> s] \in [dir : Directions, from : Scopes]
    BY <1>4
  <2> QED BY <1>16, <2>1, <2>2
<1>18. LoopTypes'
  <2>1. Groups(scope)' = Groups(scope)
    BY <1>2 DEF Groups
  <2> QED BY <1>1, <1>2, <1>17, <2>1 DEF LoopTypes
<1>19. CurrentIsClosedForm'
  <2>1. /\ Speaking(M) # {} /\ current'[w] # Unset /\ current'[w].from = Deciding(M)
        /\ Bare(current'[w].dir) = EffectiveDirection(M)
        /\ IsDefault(current'[w].dir) <=> Pinning(M) = {}
    <3>1. CASE pinned
      BY <1>10, <1>11, <1>12, <1>17, <3>1
    <3>2. CASE ~pinned
      <4>1. current'[w].dir = value /\ current'[w].from = s
        BY <1>17, <3>2
      <4>2. Unset.from # s
        BY <1>5 DEF Unset, Scopes, ScopeClusterBaseline, ScopeNamespaceBaseline, ScopePod
      <4> QED BY <1>4, <1>9, <1>10, <1>12, <3>2, <4>1, <4>2
    <3> QED BY <3>1, <3>2
  <2>2. ASSUME NEW u \in VnetKeys, u # w
        PROVE  /\ Speaking(Heard(u)') = {} => current'[u] = Unset
               /\ Speaking(Heard(u)') # {} =>
                     /\ current'[u] # Unset /\ current'[u].from = Deciding(Heard(u)')
                     /\ Bare(current'[u].dir) = EffectiveDirection(Heard(u)')
                     /\ IsDefault(current'[u].dir) <=> Pinning(Heard(u)') = {}
    BY <1>15, <1>17, <2>2 DEF LoopInv, CurrentIsClosedForm
  <2> QED BY <1>6, <2>1, <2>2 DEF CurrentIsClosedForm
<1>20. ASSUME NEW t \in Scopes, NEW u \in VnetKeys
       PROVE  /\ Conflicting(t, u) <=> \E a, b \in Heard(u)[t] : Bare(a) # Bare(b)
              /\ Rejected(t, u) <=> Overridden(Heard(u), t)
              /\ \A r \in rejected : r.scope = t /\ r.vnet = u => r.by = Deciding(Heard(u))
  BY DEF LoopInv, ReportsAreRight
<1>21. ASSUME NEW t \in Scopes, NEW u \in VnetKeys
       PROVE  Conflicting(t, u)' <=> \E a, b \in Heard(u)'[t] : Bare(a) # Bare(b)
  <2>1. Conflicting(t, u)' <=> Conflicting(t, u) \/ (disagree /\ t = s /\ u = w)
    <3> DEFINE x == [vnet |-> w, scope |-> s, dir |-> Bare(value)]
    <3>1. x.vnet = w /\ x.scope = s
      OBVIOUS
    <3>2. (disagree => conflicts' = conflicts \cup {x}) /\ (~disagree => conflicts' = conflicts)
      BY <1>2, <1>5 DEF value
    <3> HIDE DEF x
    <3> QED BY <3>1, <3>2 DEF Conflicting
  <2>2. CASE u # w
    BY <1>15, <1>20, <2>1, <2>2
  <2>3. CASE u = w /\ t # s
    BY <1>6, <1>9, <1>20, <2>1, <2>3
  <2>4. CASE u = w /\ t = s
    BY <1>4, <1>6, <1>9, <1>20, <2>1, <2>4
  <2> QED BY <2>2, <2>3, <2>4
<1>22. ~Rejected(s, w) /\ \A t \in Scopes : t # s => (Overridden(M, t) <=> Overridden(L, t))
  <2>1. ~Overridden(L, s)
    BY <1>9 DEF Overridden, Speaking
  <2>2. ASSUME NEW t \in Scopes, t # s PROVE Overridden(M, t) <=> Overridden(L, t)
    <3>1. M[t] = L[t] /\ (t \in Speaking(M) <=> t \in Speaking(L))
      BY <1>9, <2>2 DEF Speaking
    <3>2. CASE Pinning(L) # {}
      BY <1>10, <3>1, <3>2 DEF Overridden
    <3>3. CASE Pinning(L) = {}
      <4>1. ~(t \in Speaking(L) /\ s < t)
        BY <1>8, <1>9
      <4> QED BY <1>10, <3>1, <3>3, <4>1 DEF Overridden
    <3> QED BY <3>2, <3>3
  <2> QED BY <1>6, <1>20, <2>1, <2>2
<1>23. (pinned /\ Bare(value) # c.dir) <=> Overridden(M, s)
  <2>1. CASE pinned
    BY <1>4, <1>9, <1>10, <1>12, <1>14, <2>1 DEF Overridden
  <2>2. CASE ~pinned
    <3>1. ~(s < s)
      BY <1>8
    <3> QED BY <1>10, <1>12, <2>2, <3>1 DEF Overridden
  <2> QED BY <2>1, <2>2
<1>24. /\ (pinned /\ Bare(value) # c.dir) =>
             rejected' = rejected \cup {[vnet |-> w, scope |-> s, by |-> c.from]}
       /\ ~(pinned /\ Bare(value) # c.dir) => rejected' = rejected
  BY <1>2, <1>5, <1>7 DEF existing, pinned, value
<1>25. ASSUME NEW t \in Scopes, NEW u \in VnetKeys
       PROVE  /\ Rejected(t, u)' <=> Overridden(Heard(u)', t)
              /\ \A r \in rejected' : r.scope = t /\ r.vnet = u => r.by = Deciding(Heard(u)')
  <2>1. Rejected(t, u)' <=> Rejected(t, u) \/ (Overridden(M, s) /\ t = s /\ u = w)
    <3> DEFINE x == [vnet |-> w, scope |-> s, by |-> c.from]
    <3>1. x.vnet = w /\ x.scope = s
      OBVIOUS
    <3>2. /\ Overridden(M, s) => rejected' = rejected \cup {x}
          /\ ~Overridden(M, s) => rejected' = rejected
      BY <1>23, <1>24
    <3> HIDE DEF x
    <3> QED BY <3>1, <3>2 DEF Rejected
  <2>2. CASE u # w
    BY <1>15, <1>20, <1>24, <2>1, <2>2
  <2>3. CASE u = w
    <3>1. Rejected(t, u)' <=> Overridden(M, t)
      BY <1>6, <1>20, <1>22, <2>1, <2>3
    <3>2. ASSUME NEW r \in rejected', r.scope = t, r.vnet = u PROVE r.by = Deciding(M)
      <4>1. CASE r \in rejected
        <5>1. r.by = Deciding(L) /\ Overridden(L, t)
          BY <1>6, <1>20, <2>3, <3>2, <4>1 DEF Rejected
        <5> QED BY <1>10, <5>1 DEF Overridden
      <4>2. CASE r \notin rejected
        <5>1. pinned /\ r.by = c.from
          BY <1>24, <4>2
        <5> QED BY <1>10, <1>11, <1>12, <5>1
      <4> QED BY <4>1, <4>2
    <3> QED BY <1>6, <2>3, <3>1, <3>2
  <2> QED BY <2>2, <2>3
<1>26. ReportsAreRight'
  BY <1>21, <1>25 DEF ReportsAreRight
<1> QED BY <1>2, <1>18, <1>19, <1>26 DEF LoopInv, GroupIsMerged, ResultIsStripped

(* The loop invariant holds throughout.                                    *)
THEOREM LoopInvariant == RSpec => []LoopInv
<1>1. LoopInv /\ [RNext]_rvars => LoopInv'
  <2>1. SUFFICES ASSUME LoopInv, [RNext]_rvars PROVE LoopInv'
    OBVIOUS
  <2>2. CASE UNCHANGED rvars
    <3>1. UNCHANGED <<input, scope, todo, vnet, i, eff, disagree, anyDefault, anyBare, current,
                      conflicts, rejected, effective, pc>>
      BY <2>2 DEF rvars
    <3>2. \A u \in VnetKeys : Heard(u)' = Heard(u)
      BY <3>1 DEF Heard, Unheard, Asked
    <3>3. CurrentIsClosedForm' /\ ReportsAreRight'
      BY <2>1, <3>1, <3>2, OuterKept
    <3>4. LoopTypes'
      BY <2>1, <3>1 DEF LoopInv, LoopTypes, Groups
    <3>5. GroupIsMerged' /\ ResultIsStripped'
      BY <2>1, <3>1 DEF LoopInv, GroupIsMerged, ResultIsStripped, Merged
    <3> QED BY <3>3, <3>4, <3>5 DEF LoopInv
  <2> QED BY <2>1, <2>2, StartVnetKept, MergeRuleKept, CascadeKept, NextLayerKept, ResultKept DEF RNext
<1> QED BY <1>1, LoopInit, PTL DEF RSpec

(* When Resolve returns, every tier has been heard.                        *)
LEMMA AllHeard ==
    ASSUME LoopInv, pc = "done", NEW v \in VnetKeys
    PROVE  Heard(v) = AskedByTier(v)
<1>1. scope = 3 /\ todo = {}
  BY DEF LoopInv, ResultIsStripped, ScopePod
<1>2. \A s \in Scopes : ~Unheard(s, v)
  BY <1>1 DEF Unheard, Scopes, ScopeClusterBaseline, ScopeNamespaceBaseline, ScopePod
<1> QED BY <1>2 DEF Heard, AskedByTier

(* Resolve computes the closed form: for every vnet what the rules of the  *)
(* deciding tier have in common, for any number of rules and vnets, in     *)
(* whatever order they are met.                                            *)
THEOREM ResolveIsClosedForm == RSpec => []ResultIsClosedForm
<1>1. LoopInv => ResultIsClosedForm
  <2>1. SUFFICES ASSUME LoopInv, pc = "done", NEW v \in VnetKeys
                 PROVE  effective[v] = EffectiveDirection(AskedByTier(v))
    BY DEF ResultIsClosedForm
  <2>2. effective[v] = stripped(current[v])
    BY <2>1 DEF LoopInv, ResultIsStripped
  <2>3. PICK L : L = AskedByTier(v) /\ L = Heard(v)
    BY <2>1, AllHeard
  <2>4. /\ Speaking(L) = {} => current[v] = Unset
        /\ Speaking(L) # {} => current[v] # Unset /\ Bare(current[v].dir) = EffectiveDirection(L)
    BY <2>1, <2>3 DEF LoopInv, CurrentIsClosedForm
  <2>5. CASE Speaking(L) = {}
    BY <2>2, <2>3, <2>4, <2>5 DEF stripped, EffectiveDirection
  <2>6. CASE Speaking(L) # {}
    BY <2>2, <2>3, <2>4, <2>6 DEF stripped
  <2> QED BY <2>5, <2>6
<1> QED BY <1>1, LoopInvariant, PTL

(* Comparing each rule with the running intersection finds every pair of   *)
(* rules that disagree, and none besides.                                  *)
THEOREM ConflictsAreReported == RSpec => []ConflictsAreDisagreements
<1>1. LoopInv => ConflictsAreDisagreements
  <2>1. SUFFICES ASSUME LoopInv, pc = "done", NEW s \in Scopes, NEW v \in VnetKeys
                 PROVE  Conflicting(s, v) <=> \E a, b \in Asked(s, v) : Bare(a) # Bare(b)
    BY DEF ConflictsAreDisagreements, Conflicting
  <2>2. Heard(v)[s] = Asked(s, v)
    BY <2>1, AllHeard DEF AskedByTier
  <2> QED BY <2>1, <2>2 DEF LoopInv, ReportsAreRight
<1> QED BY <1>1, LoopInvariant, PTL

(* The overrides that a pinned vnet withstands are all reported, each with *)
(* the tier that decides.                                                  *)
THEOREM RejectionsAreReported == RSpec => []RejectionsNameTheDecidingTier
<1>1. LoopInv => RejectionsNameTheDecidingTier
  <2>1. SUFFICES ASSUME LoopInv, pc = "done", NEW s \in Scopes, NEW v \in VnetKeys
                 PROVE  /\ Overridden(AskedByTier(v), s) <=> Rejected(s, v)
                        /\ \A r \in rejected : r.scope = s /\ r.vnet = v => r.by = Deciding(AskedByTier(v))
    BY DEF RejectionsNameTheDecidingTier, Overridden, Rejected
  <2>2. Heard(v) = AskedByTier(v)
    BY <2>1, AllHeard
  <2> QED BY <2>1, <2>2 DEF LoopInv, ReportsAreRight
<1> QED BY <1>1, LoopInvariant, PTL

-----------------------------------------------------------------------------
(* The resolution controller and the webhooks.                             *)

(* Resolve's closed form is a bare direction, so it can be stamped.        *)
LEMMA EffectiveIsBare ==
    ASSUME NEW L PROVE EffectiveDirection(L) \in BareDirections
BY DEF EffectiveDirection, FromCaps, BareDirections

(* What DesiredLabels returns can be written to a pod as stamps.           *)
LEMMA DesiredStampsType ==
    ASSUME NEW layers PROVE DesiredStamps(layers) \in Stamps
BY EffectiveIsBare DEF DesiredStamps, Stamps

(* A reference names a key, whatever namespace it is read in.              *)
LEMMA CanonicalKeyType ==
    ASSUME NEW ref \in Refs, NEW n \in Namespaces
    PROVE  canonicalVnetKey(ref, n) \in Keys
<1>1. CASE ref[1] # NoNS
  BY <1>1 DEF canonicalVnetKey, Refs, Keys, Vnets
<1>2. CASE ref[1] = NoNS
  BY <1>2, NamesAssumption DEF canonicalVnetKey, Refs, Keys, Vnets, ClusterKey
<1> QED BY <1>1, <1>2

Rules == Keys \X Directions

(* A baseline yields rules about keys, whatever its user wrote in it.      *)
LEMMA BaselineRulesType ==
    ASSUME NEW R \in SUBSET UserRules, NEW n \in Namespaces
    PROVE  baselineRules(R, n) \subseteq Rules
BY CanonicalKeyType DEF baselineRules, Rules, UserRules, ParseDirection

(* Every tier of buildLayers yields rules about keys.                      *)
LEMMA TierRulesType ==
    ASSUME NEW view \in Views, NEW s \in Scopes, NEW o \in PodObj, NEW n \in Namespaces
    PROVE  tierRules(view, s, o, n) \subseteq Rules
<1>1. clusterBaselineRules(view, n) \subseteq Rules
  BY BaselineRulesType DEF clusterBaselineRules, Views
<1>2. namespaceBaselineRules(view, n) \subseteq Rules
  BY BaselineRulesType DEF namespaceBaselineRules, Views
<1>3. bindingRules(view, o, n) \subseteq Rules
  <2>1. \A c \in Bindings : view.bind[c].ref \in Refs
    BY DEF Views, BindingObj
  <2>2. \A c \in Bindings : ParseBareDirection(bindingDirection(view.bind[c]))
                             => bindingDirection(view.bind[c]) \in Directions
    BY DEF ParseBareDirection, ParseDirection
  <2> QED BY <2>1, <2>2, CanonicalKeyType DEF bindingRules, Rules
<1>4. podLabelRules(o, n) \subseteq Rules
  BY CanonicalKeyType DEF podLabelRules, PodObj, UserRules, CanonicalSuffix, Rules,
     ParseBareDirection, ParseDirection
<1> QED BY <1>1, <1>2, <1>3, <1>4 DEF tierRules

(* So does a layer, after filterPermittedRules.                            *)
LEMMA LayerType ==
    ASSUME NEW view \in Views, NEW s \in Scopes, NEW o \in PodObj, NEW n \in Namespaces
    PROVE  Layer(view, s, o, n) \subseteq Rules
<1>1. \A k \in Keys : stampedVnetKey(k) \in Keys
  BY DEF stampedVnetKey, Keys
<1> QED BY <1>1, TierRulesType DEF Layer, filterPermittedRules, Rules

-----------------------------------------------------------------------------
(* Type correctness.                                                       *)

(* The fields of a pod have their types.                                   *)
LEMMA PodFieldType ==
    ASSUME NEW o \in PodObj, NEW l \in PodLabels, NEW J \in SUBSET UserRules
    PROVE  [o EXCEPT !.labels = l, !.joins = J] \in PodObj
BY DEF PodObj

(* The flags of a pod are Booleans.                                        *)
LEMMA PodFlagType ==
    ASSUME NEW o \in PodObj, NEW x \in BOOLEAN
    PROVE  /\ [o EXCEPT !.terminating = x] \in PodObj
           /\ [o EXCEPT !.present = x] \in PodObj
           /\ [o EXCEPT !.resolved = x] \in PodObj
BY DEF PodObj

(* Patching a pod with another yields a pod.                               *)
LEMMA MergePatchType ==
    ASSUME NEW old \in PodObj, NEW base \in PodObj, NEW new \in PodObj
    PROVE  MergePatch(old, base, new) \in PodObj
BY DEF MergePatch, PodObj, Stamps

(* What the initial lists of a starting operator note is well typed.       *)
LEMMA StartNotesType ==
    ASSUME NEW view \in Views PROVE StartNotes(view) \in Notes
<1>1. \A v \in Vnets : /\ [view.vnet[v] EXCEPT !.present = FALSE] \in VnetObj
                       /\ view.vnet[v] \in VnetObj
  BY DEF Views, VnetObj
<1> QED BY <1>1, NamesAssumption DEF StartNotes, Notes, VnetNote, Views

(* Every step keeps the types.                                             *)
LEMMA TypeStep == ASSUME TypeOK, [Next]_vars PROVE TypeOK'
<1> USE ValuesAssumption, NamesAssumption
<1>1. CASE UserEdit
  <2>1. SUFFICES ASSUME NEW new \in Views, Edit(new) PROVE TypeOK'
    <3>1. ASSUME NEW n \in Namespaces, EditNamespace(n) PROVE \E new \in Views : Edit(new)
      <4>1. PICK o \in NsValues[n] : Edit([api EXCEPT !.ns[n] = o])
        BY <3>1 DEF EditNamespace
      <4>2. [api EXCEPT !.ns[n] = o] \in Views
        BY DEF TypeOK, Views
      <4> QED BY <4>1, <4>2
    <3>2. ASSUME NEW n \in Namespaces, EditBaseline(n) PROVE \E new \in Views : Edit(new)
      <4>1. PICK r \in BaselineValues[n] : Edit([api EXCEPT !.nb[n] = r])
        BY <3>2 DEF EditBaseline
      <4>2. [api EXCEPT !.nb[n] = r] \in Views
        BY DEF TypeOK, Views
      <4> QED BY <4>1, <4>2
    <3>3. ASSUME NEW v \in Vnets, EditVnet(v) PROVE \E new \in Views : Edit(new)
      <4>1. PICK o \in VnetValues[v] : Edit([api EXCEPT !.vnet[v] = o])
        BY <3>3 DEF EditVnet
      <4>2. [api EXCEPT !.vnet[v] = o] \in Views
        BY DEF TypeOK, Views
      <4> QED BY <4>1, <4>2
    <3>4. ASSUME EditClusterBaseline PROVE \E new \in Views : Edit(new)
      <4>1. PICK r \in ClusterBaselineValues : Edit([api EXCEPT !.cb = r])
        BY <3>4 DEF EditClusterBaseline
      <4>2. [api EXCEPT !.cb = r] \in Views
        BY DEF TypeOK, Views
      <4> QED BY <4>1, <4>2
    <3>5. ASSUME NEW b \in Bindings, EditBinding(b) PROVE \E new \in Views : Edit(new)
      <4>1. PICK o \in BindingValues : Edit([api EXCEPT !.bind[b] = o])
        BY <3>5 DEF EditBinding
      <4>2. [api EXCEPT !.bind[b] = o] \in Views
        BY DEF TypeOK, Views
      <4> QED BY <4>1, <4>2
    <3>6. ASSUME NEW p \in Pods, NEW o \in PodObj
          PROVE  [api EXCEPT !.pod[p] = o] \in Views
      BY DEF TypeOK, Views
    <3>7. ASSUME NEW p \in Pods, CreatePod(p) PROVE \E new \in Views : Edit(new)
      <4>1. NoStamps \in Stamps
        BY DEF NoStamps, Stamps, BareDirections
      <4> QED BY <3>6, <3>7, <4>1 DEF CreatePod, PodObj
    <3>8. ASSUME NEW p \in Pods, RelabelPod(p) PROVE \E new \in Views : Edit(new)
      <4>1. PICK o \in PodValues :
              Edit([api EXCEPT !.pod[p] = [@ EXCEPT !.labels = o.labels, !.joins = o.joins]])
        BY <3>8 DEF RelabelPod
      <4>2. api.pod[p] \in PodObj /\ o.labels \in PodLabels /\ o.joins \in SUBSET UserRules
        BY DEF TypeOK, Views
      <4> QED BY <3>6, <4>1, <4>2, PodFieldType
    <3>9. ASSUME NEW p \in Pods, DeletePod(p) PROVE \E new \in Views : Edit(new)
      <4>1. api.pod[p] \in PodObj
        BY DEF TypeOK, Views
      <4>2. /\ [api.pod[p] EXCEPT !.terminating = TRUE] \in PodObj
            /\ [api.pod[p] EXCEPT !.present = FALSE] \in PodObj
        BY <4>1, PodFlagType
      <4>3. /\ [api EXCEPT !.pod[p] = [@ EXCEPT !.terminating = TRUE]] \in Views
            /\ [api EXCEPT !.pod[p] = [@ EXCEPT !.present = FALSE]] \in Views
        BY <3>6, <4>2
      <4> QED BY <3>9, <4>3 DEF DeletePod
    <3> QED BY <1>1, <3>1, <3>2, <3>3, <3>4, <3>5, <3>7, <3>8, <3>9 DEF UserEdit
  <2> QED BY <2>1 DEF Edit, TypeOK
<1>2. CASE Deliver
  <2>1. ASSUME NEW p \in Pods, DeliverPod(p) PROVE TypeOK'
    <3>1. cache' \in Views
      BY <2>1 DEF DeliverPod, TypeOK, Views
    <3>2. notes' \in Notes
      BY <2>1 DEF DeliverPod, TypeOK, Notes
    <3> QED BY <2>1, <3>1, <3>2 DEF DeliverPod, TypeOK
  <2>2. ASSUME NEW n \in Namespaces, DeliverNamespace(n) PROVE TypeOK'
    <3>1. cache' \in Views
      BY <2>2 DEF DeliverNamespace, TypeOK, Views
    <3>2. notes' \in Notes
      BY <2>2 DEF DeliverNamespace, TypeOK, Notes
    <3> QED BY <2>2, <3>1, <3>2 DEF DeliverNamespace, TypeOK
  <2>3. ASSUME NEW n \in Namespaces, DeliverBaseline(n) PROVE TypeOK'
    <3>1. cache' \in Views
      BY <2>3 DEF DeliverBaseline, TypeOK, Views
    <3>2. notes' \in Notes
      BY <2>3 DEF DeliverBaseline, TypeOK, Notes
    <3> QED BY <2>3, <3>1, <3>2 DEF DeliverBaseline, TypeOK
  <2>4. ASSUME NEW v \in Vnets, DeliverVnet(v) PROVE TypeOK'
    <3>1. cache' \in Views
      BY <2>4 DEF DeliverVnet, TypeOK, Views
    <3>2. cache.vnet[v] \in VnetObj /\ api.vnet[v] \in VnetObj
      BY DEF TypeOK, Views
    <3>3. notes' \in Notes
      BY <2>4, <3>2 DEF DeliverVnet, TypeOK, Notes, VnetNote
    <3> QED BY <2>4, <3>1, <3>3 DEF DeliverVnet, TypeOK
  <2>5. ASSUME DeliverClusterBaseline PROVE TypeOK'
    <3>1. cache' \in Views
      BY <2>5 DEF DeliverClusterBaseline, TypeOK, Views
    <3>2. notes' \in Notes
      BY <2>5 DEF DeliverClusterBaseline, TypeOK, Notes
    <3> QED BY <2>5, <3>1, <3>2 DEF DeliverClusterBaseline, TypeOK
  <2>6. ASSUME NEW b \in Bindings, DeliverBinding(b) PROVE TypeOK'
    <3>1. cache' \in Views
      BY <2>6 DEF DeliverBinding, TypeOK, Views
    <3>2. notes' \in Notes
      BY <2>6 DEF DeliverBinding, TypeOK, Notes
    <3> QED BY <2>6, <3>1, <3>2 DEF DeliverBinding, TypeOK
  <2> QED BY <1>2, <2>1, <2>2, <2>3, <2>4, <2>5, <2>6 DEF Deliver
<1>3. CASE Handle
  <2>1. \A S : podsIn(S) \subseteq Pods
    BY DEF podsIn
  <2>2. notes' \in Notes
    <3>1. ASSUME NEW p \in Pods, HandlePod(p) PROVE notes' \in Notes
      BY <3>1 DEF HandlePod, TypeOK, Notes
    <3>2. ASSUME NEW n \in Namespaces, HandleNamespace(n) PROVE notes' \in Notes
      BY <3>2 DEF HandleNamespace, TypeOK, Notes
    <3>3. ASSUME NEW n \in Namespaces, HandleBaseline(n) PROVE notes' \in Notes
      BY <3>3 DEF HandleBaseline, TypeOK, Notes
    <3>4. ASSUME NEW n \in Namespaces, HandleBinding(n) PROVE notes' \in Notes
      BY <3>4 DEF HandleBinding, TypeOK, Notes
    <3>5. ASSUME NEW e \in notes.vnet, HandleVnet(e) PROVE notes' \in Notes
      BY <3>5 DEF HandleVnet, TypeOK, Notes
    <3>6. ASSUME HandleClusterBaseline PROVE notes' \in Notes
      BY <3>6 DEF HandleClusterBaseline, TypeOK, Notes
    <3> QED BY <1>3, <3>1, <3>2, <3>3, <3>4, <3>5, <3>6 DEF Handle
  <2>3. queue' \subseteq Pods
    BY <1>3, <2>1 DEF Handle, HandlePod, HandleNamespace, HandleBaseline, HandleBinding,
       HandleVnet, HandleClusterBaseline, TypeOK, namespaceToPods, podsInObjectNamespace,
       vnetToAffectedPods, clusterBaselineToPods
  <2>4. UNCHANGED <<api, cache, job, edits, faults>>
    BY <1>3 DEF Handle, HandlePod, HandleNamespace, HandleBaseline, HandleBinding,
       HandleVnet, HandleClusterBaseline
  <2> QED BY <2>2, <2>3, <2>4 DEF TypeOK
<1>4. CASE Reconcile
  <2>1. ASSUME NEW p \in Pods, Begin(p) PROVE TypeOK'
    BY <2>1 DEF Begin, TypeOK, Views, Jobs, Stages, NoLayers
  <2>2. ASSUME ReadNamespace PROVE TypeOK'
    BY <2>2 DEF ReadNamespace, TypeOK, Jobs, Stages, Idle
  <2>3. ASSUME NEW at \in Stages, NEW s \in Scopes, NEW next \in Stages,
               ReadTier(at, s, next)
        PROVE  TypeOK'
    <3>1. /\ job \in [pc : Stages, pod : Pods, base : PodObj,
                      layers : [Scopes -> SUBSET (Keys \X Directions)]]
      BY <2>3 DEF ReadTier, TypeOK, Jobs, Idle, Stages
    <3>2. Layer(cache, s, job.base, PodNS[job.pod]) \subseteq Keys \X Directions
      BY <3>1, LayerType DEF TypeOK, Rules
    <3> QED BY <2>3, <3>1, <3>2 DEF ReadTier, TypeOK, Jobs
  <2>4. ASSUME NEW new \in PodObj, Patch(new), job # Idle
        PROVE  api' \in Views /\ queue' \subseteq Pods
    <3>1. job.pod \in Pods /\ job.base \in PodObj /\ api.pod[job.pod] \in PodObj
      BY <2>4 DEF TypeOK, Jobs, Views
    <3>2. MergePatch(api.pod[job.pod], job.base, new) \in PodObj
      BY <3>1, MergePatchType
    <3> QED BY <2>4, <3>1, <3>2 DEF Patch, TypeOK, Views
  <2>5. ASSUME NEW stamps \in Stamps, NEW x \in BOOLEAN, job # Idle
        PROVE  [SyncStamps(job.base, stamps) EXCEPT !.resolved = x] \in PodObj
    BY <2>5 DEF SyncStamps, TypeOK, Jobs, PodObj
  <2>6. ASSUME applyResolution PROVE TypeOK'
    <3>1. job # Idle
      BY <2>6 DEF applyResolution, Idle
    <3>2. api' \in Views /\ queue' \subseteq Pods
      BY <2>4, <2>5, <2>6, <3>1, DesiredStampsType DEF applyResolution, MarkResolved, TypeOK
    <3> QED BY <2>6, <3>2 DEF applyResolution, TypeOK, Jobs
  <2>7. ASSUME stripStampedLabels PROVE TypeOK'
    <3>1. job # Idle
      BY <2>7 DEF stripStampedLabels, Idle
    <3>2. NoStamps \in Stamps
      BY DEF NoStamps, Stamps, BareDirections
    <3>3. api' \in Views /\ queue' \subseteq Pods
      BY <2>4, <2>5, <2>7, <3>1, <3>2 DEF stripStampedLabels, TypeOK
    <3> QED BY <2>7, <3>3 DEF stripStampedLabels, TypeOK, Jobs
  <2>8. ASSUME ReadTiers PROVE TypeOK'
    BY <2>3, <2>8 DEF ReadTiers, Stages, Scopes
  <2> QED BY <1>4, <2>1, <2>2, <2>6, <2>7, <2>8 DEF Reconcile
<1>5. CASE ReconcileError
  BY <1>5 DEF ReconcileError, TypeOK, Jobs
<1>6. CASE Restart
  BY <1>6, StartNotesType DEF Restart, TypeOK, Jobs
<1>7. CASE UNCHANGED vars
  BY <1>7 DEF vars, TypeOK
<1> QED BY <1>1, <1>2, <1>3, <1>4, <1>5, <1>6, <1>7 DEF Next, Work

(* The state of a starting operator has its types.                         *)
LEMMA InitType == ASSUME Init PROVE TypeOK
BY ValuesAssumption, StartNotesType DEF Init, TypeOK, Jobs, Views

(* Every variable of the resolution controller keeps its type.             *)
THEOREM TypeCorrect == Spec => []TypeOK
BY InitType, TypeStep, PTL DEF Spec

-----------------------------------------------------------------------------
(* What resolution reads.                                                  *)

(* A layer depends on the baselines and bindings that apply in namespace n *)
(* and on which vnets n may join, and on nothing else.                     *)
LEMMA LayerReads ==
    ASSUME NEW V, NEW W, NEW n \in Namespaces,
           W.cb = V.cb, W.nb[n] = V.nb[n],
           \A b \in Bindings : BindingNS[b] = n => W.bind[b] = V.bind[b],
           \A k : Permits(W, k, n) <=> Permits(V, k, n),
           NEW s, NEW o
    PROVE  Layer(W, s, o, n) = Layer(V, s, o, n)
<1>1. clusterBaselineRules(W, n) = clusterBaselineRules(V, n)
  BY DEF clusterBaselineRules
<1>2. namespaceBaselineRules(W, n) = namespaceBaselineRules(V, n)
  BY DEF namespaceBaselineRules
<1>3. bindingRules(W, o, n) = bindingRules(V, o, n)
  BY DEF bindingRules
<1>4. tierRules(W, s, o, n) = tierRules(V, s, o, n)
  BY <1>1, <1>2, <1>3 DEF tierRules
<1> QED BY <1>4 DEF Layer, filterPermittedRules

(* Of the pod it depends on the user's labels only.                        *)
LEMMA LayerReadsLabels ==
    ASSUME NEW V, NEW n, NEW s, NEW o, NEW qod,
           o.labels = qod.labels, o.joins = qod.joins
    PROVE  Layer(V, s, o, n) = Layer(V, s, qod, n)
<1>1. bindingRules(V, o, n) = bindingRules(V, qod, n)
  BY DEF bindingRules
<1>2. podLabelRules(o, n) = podLabelRules(qod, n)
  BY DEF podLabelRules
<1>3. tierRules(V, s, o, n) = tierRules(V, s, qod, n)
  BY <1>1, <1>2 DEF tierRules
<1> QED BY <1>3 DEF Layer

(* Permission depends on the vnets and on the namespace itself.            *)
LEMMA PermitsReads ==
    ASSUME NEW V, NEW W, NEW n, W.vnet = V.vnet, W.ns[n] = V.ns[n], NEW k
    PROVE  Permits(W, k, n) <=> Permits(V, k, n)
BY DEF Permits, PermitsForVnet, matchesAllowedNamespaces

-----------------------------------------------------------------------------
(* The trigger argument: a cache change that matters to a pod is noted.    *)

(* A pod with an unhandled note keeps one.                                 *)
LEMMA NotedPersists ==
    ASSUME TypeOK, Deliver, NEW p \in Pods, Noted(p)
    PROVE  Noted(p)'
<1> USE DEF TypeOK
<1>1. ASSUME NEW q \in Pods, DeliverPod(q) PROVE Noted(p)'
  <2>1. CASE p = q /\ podPredicate(cache.pod[p], api.pod[p])
    BY <1>1, <2>1 DEF DeliverPod, Noted, Notes
  <2>2. CASE ~(p = q /\ podPredicate(cache.pod[p], api.pod[p]))
    <3>1. cache'.pod[p].present = cache.pod[p].present /\ cache'.ns = cache.ns
      BY <1>1, <2>2 DEF DeliverPod, podPredicate, Views
    <3>2. /\ notes.pod \subseteq notes'.pod /\ notes'.cb = notes.cb /\ notes'.ns = notes.ns
          /\ notes'.nb = notes.nb /\ notes'.bind = notes.bind /\ notes'.vnet = notes.vnet
      BY <1>1 DEF DeliverPod, Notes
    <3> QED BY <3>1, <3>2 DEF Noted, NamespacesAdmittedBy, PermitsForVnet, matchesAllowedNamespaces
  <2> QED BY <2>1, <2>2
<1>2. ASSUME NEW n \in Namespaces, DeliverNamespace(n) PROVE Noted(p)'
  <2>1. /\ cache'.pod = cache.pod
        /\ PodNS[p] # n => cache'.ns[PodNS[p]] = cache.ns[PodNS[p]]
    BY <1>2, NamesAssumption DEF DeliverNamespace, Views
  <2>2. /\ notes'.pod = notes.pod /\ notes'.cb = notes.cb /\ notes.ns \subseteq notes'.ns
        /\ notes'.nb = notes.nb /\ notes'.bind = notes.bind /\ notes'.vnet = notes.vnet
        /\ n \in notes'.ns
    BY <1>2 DEF DeliverNamespace, Notes, namespacePredicate
  <2> QED BY <2>1, <2>2 DEF Noted, NamespacesAdmittedBy, PermitsForVnet, matchesAllowedNamespaces
<1>3. ASSUME /\ cache'.pod = cache.pod /\ cache'.ns = cache.ns
             /\ notes'.pod = notes.pod /\ (notes.cb => notes'.cb)
             /\ notes'.ns = notes.ns /\ notes.nb \subseteq notes'.nb
             /\ notes.bind \subseteq notes'.bind /\ notes.vnet \subseteq notes'.vnet
      PROVE Noted(p)'
  <2>1. \A v, spec : NamespacesAdmittedBy(cache', v, spec) = NamespacesAdmittedBy(cache, v, spec)
    BY <1>3 DEF NamespacesAdmittedBy, PermitsForVnet, matchesAllowedNamespaces
  <2> QED BY <1>3, <2>1 DEF Noted
<1>4. ASSUME NEW n \in Namespaces, DeliverBaseline(n) PROVE Noted(p)'
  BY <1>3, <1>4 DEF DeliverBaseline, Views, Notes
<1>5. ASSUME NEW v \in Vnets, DeliverVnet(v) PROVE Noted(p)'
  BY <1>3, <1>5 DEF DeliverVnet, Views, Notes
<1>6. ASSUME DeliverClusterBaseline PROVE Noted(p)'
  BY <1>3, <1>6 DEF DeliverClusterBaseline, Views, Notes
<1>7. ASSUME NEW b \in Bindings, DeliverBinding(b) PROVE Noted(p)'
  BY <1>3, <1>7 DEF DeliverBinding, Views, Notes
<1> QED BY <1>1, <1>2, <1>4, <1>5, <1>6, <1>7 DEF Deliver

(* The pod without its deletion timestamp: all that resolution reads of it. *)
Live(o) == [o EXCEPT !.terminating = FALSE]

(* A pod that is not pending after a delivery saw nothing it reads change. *)
LEMMA UnnotedUnchanged ==
    ASSUME TypeOK, TerminationIsFinal, Deliver, NEW p \in Pods, ~Noted(p)'
    PROVE  /\ Live(cache'.pod[p]) = Live(cache.pod[p])
           /\ cache.pod[p].present /\ cache.pod[p].terminating => cache'.pod[p].terminating
           /\ Awaited(p) => Awaited(p)'
           /\ cache.pod[p].present =>
                 /\ cache'.ns[PodNS[p]] = cache.ns[PodNS[p]]
                 /\ cache.ns[PodNS[p]].present =>
                       \A s, o : Layer(cache', s, o, PodNS[p]) = Layer(cache, s, o, PodNS[p])
<1> DEFINE n == PodNS[p]
<1> USE DEF TypeOK
<1>0. n \in Namespaces
  BY NamesAssumption
<1> DEFINE Same == /\ cache'.pod[p] = cache.pod[p]
                   /\ cache.pod[p].present => cache'.ns[n] = cache.ns[n]
                   /\ Awaited(p) => Awaited(p)'
           SameLayers == cache.pod[p].present /\ cache.ns[n].present =>
                         \A s, o : Layer(cache', s, o, n) = Layer(cache, s, o, n)
<1>1. ASSUME NEW q \in Pods, DeliverPod(q)
      PROVE  /\ Live(cache'.pod[p]) = Live(cache.pod[p])
             /\ cache.pod[p].present /\ cache.pod[p].terminating => cache'.pod[p].terminating
             /\ Awaited(p) => Awaited(p)'
             /\ cache'.ns[n] = cache.ns[n]
             /\ SameLayers
  <2>1. /\ cache'.ns = cache.ns /\ cache'.vnet = cache.vnet /\ cache'.cb = cache.cb
        /\ cache'.nb = cache.nb /\ cache'.bind = cache.bind
    BY <1>1 DEF DeliverPod, Views
  <2>2. SameLayers
    BY <1>0, <2>1, LayerReads, PermitsReads
  <2>3. CASE q # p
    <3>1. cache'.pod[p] = cache.pod[p] /\ api' = api
      BY <1>1, <2>3 DEF DeliverPod, Views
    <3> QED BY <2>1, <2>2, <3>1 DEF Awaited
  <2>4. CASE q = p
    <3>1. ~podPredicate(cache.pod[p], api.pod[p])
      BY <1>1, <2>4 DEF DeliverPod, Noted, Notes
    <3>2. cache'.pod[p] = api.pod[p] /\ api' = api
      BY <1>1, <2>4 DEF DeliverPod, Views
    <3>3. cache.pod[p] \in PodObj /\ api.pod[p] \in PodObj
      BY DEF Views
    <3>4. Live(cache'.pod[p]) = Live(cache.pod[p])
      BY <3>1, <3>2, <3>3 DEF podPredicate, Live, PodObj
    <3>5. cache.pod[p].present /\ cache.pod[p].terminating => cache'.pod[p].terminating
      BY <3>1, <3>2 DEF TerminationIsFinal, podPredicate
    <3>6. ~Awaited(p)
      BY <3>1 DEF Awaited, podPredicate
    <3> QED BY <2>1, <2>2, <3>4, <3>5, <3>6
  <2> QED BY <2>3, <2>4
<1>2. ASSUME NEW x \in Namespaces, DeliverNamespace(x) PROVE Same /\ SameLayers
  <2>1. /\ cache'.pod = cache.pod /\ cache'.vnet = cache.vnet /\ cache'.cb = cache.cb
        /\ cache'.nb = cache.nb /\ cache'.bind = cache.bind /\ api' = api
        /\ \A y \in Namespaces : y # x => cache'.ns[y] = cache.ns[y]
    BY <1>2 DEF DeliverNamespace, Views
  <2>2. x \in notes'.ns
    BY <1>2 DEF DeliverNamespace, Notes, namespacePredicate
  <2>3. cache.pod[p].present => n # x
    BY <2>1, <2>2 DEF Noted
  <2>4. Same
    BY <1>0, <2>1, <2>3 DEF Awaited
  <2> QED BY <1>0, <2>1, <2>3, <2>4, LayerReads, PermitsReads
<1>3. ASSUME NEW x \in Namespaces, DeliverBaseline(x) PROVE Same /\ SameLayers
  <2>1. /\ cache'.pod = cache.pod /\ cache'.vnet = cache.vnet /\ cache'.cb = cache.cb
        /\ cache'.ns = cache.ns /\ cache'.bind = cache.bind /\ api' = api
        /\ \A y \in Namespaces : y # x => cache'.nb[y] = cache.nb[y]
    BY <1>3 DEF DeliverBaseline, Views
  <2>2. x \in notes'.nb
    BY <1>3 DEF DeliverBaseline, Notes
  <2>3. cache.pod[p].present => n # x
    BY <2>1, <2>2 DEF Noted
  <2>4. Same
    BY <2>1 DEF Awaited
  <2> QED BY <1>0, <2>1, <2>3, <2>4, LayerReads, PermitsReads
<1>4. ASSUME NEW v \in Vnets, DeliverVnet(v) PROVE Same /\ SameLayers
  <2>1. /\ cache'.pod = cache.pod /\ cache'.nb = cache.nb /\ cache'.cb = cache.cb
        /\ cache'.ns = cache.ns /\ cache'.bind = cache.bind /\ api' = api
        /\ \A k \in Vnets : k # v => cache'.vnet[k] = cache.vnet[k]
        /\ cache'.vnet[v] = api.vnet[v]
    BY <1>4 DEF DeliverVnet, Views
  <2>2. [vnet |-> v, old |-> cache.vnet[v], new |-> api.vnet[v]] \in notes'.vnet
    BY <1>4 DEF DeliverVnet, Notes
  <2>3. Same
    BY <2>1 DEF Awaited
  <2>4. ASSUME cache.pod[p].present, cache.ns[n].present, NEW k
        PROVE  Permits(cache', k, n) <=> Permits(cache, k, n)
    <3>1. CASE k # v
      BY <2>1, <3>1 DEF Permits, PermitsForVnet, matchesAllowedNamespaces
    <3>2. CASE k = v
      <4>1. /\ n \notin NamespacesAdmittedBy(cache', v, cache.vnet[v])
            /\ n \notin NamespacesAdmittedBy(cache', v, api.vnet[v])
        BY <2>1, <2>2, <2>4 DEF Noted
      <4>2. /\ ~(cache.vnet[v].present /\ PermitsForVnet(cache', v, cache.vnet[v], n))
            /\ ~(api.vnet[v].present /\ PermitsForVnet(cache', v, api.vnet[v], n))
        BY <1>0, <2>1, <2>4, <4>1 DEF NamespacesAdmittedBy
      <4>3. PermitsForVnet(cache', v, cache.vnet[v], n) <=> PermitsForVnet(cache, v, cache.vnet[v], n)
        BY <2>1 DEF PermitsForVnet, matchesAllowedNamespaces
      <4> QED BY <2>1, <3>2, <4>2, <4>3 DEF Permits
    <3> QED BY <3>1, <3>2
  <2> QED BY <1>0, <2>1, <2>3, <2>4, LayerReads
<1>5. ASSUME DeliverClusterBaseline PROVE Same /\ SameLayers
  <2>1. cache'.pod = cache.pod /\ cache'.ns = cache.ns /\ api' = api /\ notes'.cb
    BY <1>5 DEF DeliverClusterBaseline, Views, Notes
  <2> QED BY <2>1 DEF Noted, Awaited
<1>6. ASSUME NEW b \in Bindings, DeliverBinding(b) PROVE Same /\ SameLayers
  <2>1. /\ cache'.pod = cache.pod /\ cache'.vnet = cache.vnet /\ cache'.cb = cache.cb
        /\ cache'.ns = cache.ns /\ cache'.nb = cache.nb /\ api' = api
        /\ \A c \in Bindings : c # b => cache'.bind[c] = cache.bind[c]
    BY <1>6 DEF DeliverBinding, Views
  <2>2. BindingNS[b] \in notes'.bind
    BY <1>6 DEF DeliverBinding, Notes
  <2>3. cache.pod[p].present => n # BindingNS[b]
    BY <2>1, <2>2 DEF Noted
  <2>4. Same
    BY <2>1 DEF Awaited
  <2> QED BY <1>0, <2>1, <2>3, <2>4, LayerReads, PermitsReads
<1> QED BY <1>1, <1>2, <1>3, <1>4, <1>5, <1>6 DEF Deliver

(* Handling an event turns its notes into queue entries.                   *)
LEMMA HandledIsQueued ==
    ASSUME TypeOK, Handle, NEW p \in Pods, Pending(p)
    PROVE  Pending(p)'
<1> USE DEF TypeOK, Notes
<1>0. cache' = cache /\ queue \subseteq queue'
  BY DEF Handle, HandlePod, HandleNamespace, HandleBaseline, HandleBinding, HandleVnet,
     HandleClusterBaseline
<1>1. ASSUME NEW q \in Pods, HandlePod(q) PROVE Pending(p)'
  BY <1>0, <1>1 DEF HandlePod, Pending, Noted
<1>2. ASSUME NEW n \in Namespaces, HandleNamespace(n) PROVE Pending(p)'
  BY <1>0, <1>2 DEF HandleNamespace, Pending, Noted, namespaceToPods, podsIn
<1>3. ASSUME NEW n \in Namespaces, HandleBaseline(n) PROVE Pending(p)'
  BY <1>0, <1>3 DEF HandleBaseline, Pending, Noted, podsInObjectNamespace, podsIn
<1>4. ASSUME NEW n \in Namespaces, HandleBinding(n) PROVE Pending(p)'
  BY <1>0, <1>4 DEF HandleBinding, Pending, Noted, podsInObjectNamespace, podsIn
<1>5. ASSUME NEW e \in notes.vnet, HandleVnet(e) PROVE Pending(p)'
  BY <1>0, <1>5 DEF HandleVnet, Pending, Noted, vnetToAffectedPods, podsIn
<1>6. ASSUME HandleClusterBaseline PROVE Pending(p)'
  BY <1>0, <1>6, NamesAssumption DEF HandleClusterBaseline, Pending, Noted, clusterBaselineToPods, podsIn
<1> QED BY <1>1, <1>2, <1>3, <1>4, <1>5, <1>6 DEF Handle

-----------------------------------------------------------------------------
(* The inductive invariant.                                                *)

(* The part of it that does not depend on who else writes stamps.          *)
Core == TypeOK /\ TerminationIsFinal /\ JobIsCurrent

IInv == Core /\ NoMissedTrigger

(* NoMissedTrigger speaks of each pod by itself.                           *)
Visited(p) == Pending(p) \/ Busy(p) \/ Awaited(p) \/ Settled(cache, p)

(* The step loses sight of no pod.                                         *)
VisitsKept == \A p \in Pods : Visited(p) => Visited(p)'

(* Whether a pod is settled depends on what the lemmas above preserve.     *)
LEMMA SettledReads ==
    ASSUME NEW V \in Views, NEW W \in Views, NEW p \in Pods,
           Live(W.pod[p]) = Live(V.pod[p]),
           V.pod[p].present /\ V.pod[p].terminating => W.pod[p].terminating,
           V.pod[p].present =>
             /\ W.ns[PodNS[p]] = V.ns[PodNS[p]]
             /\ V.ns[PodNS[p]].present =>
                   \A s, o : Layer(W, s, o, PodNS[p]) = Layer(V, s, o, PodNS[p]),
           Settled(V, p)
    PROVE  Settled(W, p)
<1> DEFINE n == PodNS[p]
<1>1. V.pod[p] \in PodObj /\ W.pod[p] \in PodObj /\ n \in Namespaces
  BY NamesAssumption DEF Views
<1>2. /\ W.pod[p].present = V.pod[p].present /\ W.pod[p].labels = V.pod[p].labels
      /\ W.pod[p].joins = V.pod[p].joins /\ W.pod[p].stamps = V.pod[p].stamps
      /\ W.pod[p].resolved = V.pod[p].resolved
  BY <1>1 DEF Live, PodObj
<1>3. SUFFICES ASSUME W.pod[p].present, ~W.pod[p].terminating, W.ns[n].present
               PROVE  IF IsManaged(W, n)
                      THEN W.pod[p].resolved /\ W.pod[p].stamps = DesiredLabels(W, W.pod[p], n)
                      ELSE ~W.pod[p].resolved /\ W.pod[p].stamps = NoStamps
  BY DEF Settled
<1>4. IsManaged(W, n) = IsManaged(V, n)
  BY <1>2, <1>3 DEF IsManaged
<1>5. \A s : Layer(W, s, W.pod[p], n) = Layer(V, s, V.pod[p], n)
  BY <1>2, <1>3, LayerReadsLabels
<1>6. DesiredLabels(W, W.pod[p], n) = DesiredLabels(V, V.pod[p], n)
  BY <1>5 DEF DesiredLabels
<1> QED BY <1>2, <1>3, <1>4, <1>6 DEF Settled

(* The invariant holds when the operator starts: all is noted.             *)
LEMMA InitIInv == ASSUME Init, TypeOK PROVE IInv
<1>1. \A p \in Pods : cache.pod[p].present => Noted(p)
  BY DEF Init, StartNotes, Noted
<1>2. NoMissedTrigger
  BY <1>1 DEF NoMissedTrigger, Pending, Settled
<1>3. TerminationIsFinal /\ JobIsCurrent
  BY DEF Init, TerminationIsFinal, JobIsCurrent
<1> QED BY <1>2, <1>3 DEF IInv, Core

(* A user's edit keeps it: the caches, and what is read, stay.             *)
LEMMA UserEditKept == ASSUME Core, TypeOK', UserEdit PROVE Core' /\ VisitsKept
<1> USE DEF Core
<1>1. UNCHANGED <<cache, notes, queue, job>>
  BY DEF UserEdit, EditNamespace, EditBaseline, EditVnet, EditClusterBaseline, EditBinding,
     CreatePod, RelabelPod, DeletePod, Edit
<1>2. ASSUME NEW p \in Pods
      PROVE  /\ cache.pod[p].present =>
                  /\ api'.pod[p].stamps = api.pod[p].stamps
                  /\ api'.pod[p].resolved = api.pod[p].resolved
                  /\ api.pod[p].terminating => api'.pod[p].terminating
                  /\ api'.pod[p].present => api.pod[p].present
  <2>1. CASE api'.pod = api.pod
    BY <2>1
  <2>2. CASE \E q \in Pods : CreatePod(q) \/ RelabelPod(q) \/ DeletePod(q)
    <3>1. PICK q \in Pods : CreatePod(q) \/ RelabelPod(q) \/ DeletePod(q)
      BY <2>2
    <3>2. api.pod[q] \in PodObj /\ api.pod \in [Pods -> PodObj] /\ api \in Views
      BY DEF TypeOK, Views
    <3>3. CASE CreatePod(q)
      <4>1. ~cache.pod[q].present
        BY <3>3 DEF CreatePod
      <4>2. p # q => api'.pod[p] = api.pod[p]
        BY <3>2, <3>3 DEF CreatePod, Edit, Views
      <4> QED BY <4>1, <4>2
    <3>4. CASE RelabelPod(q)
      BY <3>2, <3>4 DEF RelabelPod, Edit, Views, PodObj
    <3>5. CASE DeletePod(q)
      BY <3>2, <3>5 DEF DeletePod, Edit, Views, PodObj
    <3> QED BY <3>1, <3>3, <3>4, <3>5
  <2>3. ASSUME NEW n \in Namespaces, EditNamespace(n) \/ EditBaseline(n)
        PROVE  api'.pod = api.pod
    BY <2>3 DEF EditNamespace, EditBaseline, Edit, TypeOK, Views
  <2>4. ASSUME NEW v \in Vnets, EditVnet(v) PROVE api'.pod = api.pod
    BY <2>4 DEF EditVnet, Edit, TypeOK, Views
  <2>5. ASSUME EditClusterBaseline PROVE api'.pod = api.pod
    BY <2>5 DEF EditClusterBaseline, Edit, TypeOK, Views
  <2>6. ASSUME NEW b \in Bindings, EditBinding(b) PROVE api'.pod = api.pod
    BY <2>6 DEF EditBinding, Edit, TypeOK, Views
  <2> QED BY <2>1, <2>2, <2>3, <2>4, <2>5, <2>6 DEF UserEdit
<1>3. TerminationIsFinal'
  BY <1>1, <1>2 DEF TerminationIsFinal
<1>4. \A p \in Pods : Pending(p)' <=> Pending(p)
  BY <1>1 DEF Pending, Noted
<1>5. JobIsCurrent'
  BY <1>1, <1>4 DEF JobIsCurrent, TypeOK, Jobs
<1>6. ASSUME NEW p \in Pods, Visited(p) PROVE Visited(p)'
  <2>1. CASE cache.pod[p].present
    BY <1>1, <1>2, <1>4, <1>6, <2>1 DEF Visited, Busy, Awaited, Settled
  <2>2. CASE ~cache.pod[p].present
    BY <1>1, <2>2 DEF Visited, Settled
  <2> QED BY <2>1, <2>2
<1> QED BY <1>3, <1>5, <1>6 DEF VisitsKept

(* An informer keeps it: what a reconcile reads, some watch notes.         *)
LEMMA DeliverKept == ASSUME Core, TypeOK', Deliver PROVE Core' /\ VisitsKept
<1> USE DEF Core
<1>1. UNCHANGED <<api, queue, job>>
  BY DEF Deliver, DeliverPod, DeliverNamespace, DeliverBaseline, DeliverVnet,
     DeliverClusterBaseline, DeliverBinding
<1>2. TerminationIsFinal'
  <2>1. \A p \in Pods : cache'.pod[p] = cache.pod[p] \/ cache'.pod[p] = api.pod[p]
    BY DEF Deliver, DeliverPod, DeliverNamespace, DeliverBaseline, DeliverVnet,
       DeliverClusterBaseline, DeliverBinding, TypeOK, Views
  <2> QED BY <1>1, <2>1 DEF TerminationIsFinal
<1>3. \A p \in Pods : Pending(p) => Pending(p)'
  BY <1>1, NotedPersists DEF Pending
<1>4. JobIsCurrent'
  <2> SUFFICES ASSUME job # Idle, ~Pending(job.pod)' PROVE JobIsCurrent'
    BY <1>1, <1>3 DEF JobIsCurrent, TypeOK, Jobs
  <2> DEFINE p == job.pod
             n == PodNS[p]
  <2>1. p \in Pods /\ job' = job
    BY <1>1 DEF TypeOK, Jobs
  <2>2. ~Pending(p) /\ ~Noted(p)'
    BY <1>3, <2>1 DEF Pending
  <2>3. /\ job.base.present /\ ~job.base.terminating
        /\ Live(cache.pod[p]) = job.base
        /\ job.pc # "namespace" => cache.ns[n].present
        /\ job.pc # "namespace" => (IsManaged(cache, n) <=> job.pc # "strip")
        /\ \A s \in ReadBy(job.pc) : job.layers[s] = Layer(cache, s, job.base, n)
    BY <2>2 DEF JobIsCurrent, Live
  <2>4. cache.pod[p].present
    <3>1. cache.pod[p] \in PodObj
      BY <2>1 DEF TypeOK, Views
    <3> QED BY <2>3, <3>1 DEF Live, PodObj
  <2>5. /\ Live(cache'.pod[p]) = Live(cache.pod[p])
        /\ cache'.ns[n] = cache.ns[n]
        /\ cache.ns[n].present => \A s, o : Layer(cache', s, o, n) = Layer(cache, s, o, n)
    BY <2>1, <2>2, <2>4, UnnotedUnchanged
  <2>6. job.pc # "namespace" => cache'.ns[n].present /\ (IsManaged(cache', n) <=> job.pc # "strip")
    BY <2>3, <2>5 DEF IsManaged
  <2>7. \A s \in ReadBy(job.pc) : job.layers[s] = Layer(cache', s, job.base, n)
    <3>1. CASE job.pc = "namespace"
      BY <3>1 DEF ReadBy
    <3> QED BY <2>3, <2>5, <3>1
  <2> QED BY <2>1, <2>3, <2>5, <2>6, <2>7 DEF JobIsCurrent, Live
<1>5. ASSUME NEW p \in Pods, Visited(p) PROVE Visited(p)'
  <2> SUFFICES ASSUME ~Pending(p)', ~Busy(p)' PROVE (Awaited(p) \/ Settled(cache, p))'
    BY DEF Visited
  <2>1. ~Pending(p) /\ ~Busy(p) /\ ~Noted(p)'
    BY <1>1, <1>3 DEF Pending, Busy
  <2>2. Awaited(p) \/ Settled(cache, p)
    BY <1>5, <2>1 DEF Visited
  <2>3. ASSUME Settled(cache, p) PROVE Settled(cache', p)
    <3>1. cache \in Views /\ cache' \in Views
      BY DEF TypeOK
    <3> HIDE DEF Core
    <3> QED BY <2>1, <2>3, <3>1, UnnotedUnchanged, SettledReads DEF Core
  <2> QED BY <2>1, <2>2, <2>3, UnnotedUnchanged
<1> QED BY <1>2, <1>4, <1>5 DEF VisitsKept

(* A handler keeps it: the mapping reaches every pod the event is for.     *)
LEMMA HandleKept == ASSUME Core, TypeOK', Handle PROVE Core' /\ VisitsKept
<1> USE DEF Core
<1>1. UNCHANGED <<api, cache, job>>
  BY DEF Handle, HandlePod, HandleNamespace, HandleBaseline, HandleBinding, HandleVnet,
     HandleClusterBaseline
<1>2. \A p \in Pods : Pending(p) => Pending(p)'
  BY HandledIsQueued
<1>3. TerminationIsFinal'
  BY <1>1 DEF TerminationIsFinal
<1>4. JobIsCurrent'
  BY <1>1, <1>2 DEF JobIsCurrent, TypeOK, Jobs
<1>5. VisitsKept
  BY <1>1, <1>2 DEF VisitsKept, Visited, Busy, Awaited, Settled
<1> QED BY <1>3, <1>4, <1>5

(* Taking a pod from the queue keeps it: the worker reads it at once.      *)
LEMMA BeginKept == ASSUME Core, TypeOK', NEW p \in Pods, Begin(p) PROVE Core' /\ VisitsKept
<1> USE DEF Core
<1>1. /\ UNCHANGED <<api, cache, notes>>
      /\ job = Idle
      /\ queue' = queue \ {p}
  BY DEF Begin
<1>2. \A q \in Pods : q # p /\ Pending(q) => Pending(q)'
  BY <1>1 DEF Pending, Noted
<1>3. TerminationIsFinal'
  BY <1>1 DEF TerminationIsFinal
<1>4. JobIsCurrent'
  <2>1. CASE job' = Idle
    BY <2>1 DEF JobIsCurrent
  <2>2. CASE job' # Idle
    <3>1. /\ cache.pod[p].present /\ ~cache.pod[p].terminating
          /\ job' = [pc |-> "namespace", pod |-> p, base |-> cache.pod[p], layers |-> NoLayers]
      BY <1>1, <2>2 DEF Begin
    <3>2. [cache.pod[p] EXCEPT !.terminating = FALSE] = cache.pod[p]
      <4>1. cache.pod[p] \in PodObj
        BY DEF TypeOK, Views
      <4> QED BY <3>1, <4>1 DEF PodObj
    <3> QED BY <1>1, <3>1, <3>2 DEF JobIsCurrent, ReadBy
  <2> QED BY <2>1, <2>2
<1>5. ASSUME NEW q \in Pods, Visited(q) PROVE Visited(q)'
  <2>1. CASE q # p
    <3>1. ~Busy(q)
      BY <1>1 DEF Busy
    <3> QED BY <1>1, <1>2, <1>5, <2>1, <3>1 DEF Visited, Awaited, Settled
  <2>2. CASE q = p /\ cache.pod[p].present /\ ~cache.pod[p].terminating
    BY <2>2 DEF Begin, Visited, Busy, Idle
  <2>3. CASE q = p /\ ~(cache.pod[p].present /\ ~cache.pod[p].terminating)
    BY <1>1, <2>3 DEF Visited, Settled
  <2> QED BY <2>1, <2>2, <2>3
<1> QED BY <1>3, <1>4, <1>5 DEF VisitsKept

(* A worker step concerns the worker's pod only.                           *)
LEMMA WorkerConcernsItsPod ==
    ASSUME Core, job # Idle, UNCHANGED <<cache, notes>>, queue \subseteq queue',
           NEW q \in Pods, q # job.pod, api'.pod[q] = api.pod[q], Visited(q)
    PROVE  Visited(q)'
<1>1. ~Busy(q)
  BY DEF Busy
<1>2. Pending(q) => Pending(q)'
  BY DEF Pending, Noted
<1> QED BY <1>1, <1>2 DEF Visited, Awaited, Settled

(* Reading the namespace or a tier keeps it: the cache is read now.        *)
LEMMA ReadKept == ASSUME Core, TypeOK', ReadNamespace \/ ReadTiers PROVE Core' /\ VisitsKept
<1> USE DEF Core
<1>1. UNCHANGED <<api, cache, notes, queue>> /\ job # Idle
  BY DEF ReadNamespace, ReadTiers, ReadTier, Idle
<1>0. PICK p \in Pods : p = job.pod
  BY <1>1 DEF TypeOK, Jobs
<1> DEFINE n == PodNS[p]
<1>2. /\ job \in [pc : Stages, pod : Pods, base : PodObj,
                  layers : [Scopes -> SUBSET (Keys \X Directions)]]
      /\ n \in Namespaces
  BY <1>0, <1>1, NamesAssumption DEF TypeOK, Jobs
<1>3. TerminationIsFinal'
  BY <1>1 DEF TerminationIsFinal
<1>4. \A q \in Pods : Pending(q)' <=> Pending(q)
  BY <1>1 DEF Pending, Noted
<1>5. CASE ReadNamespace /\ ~cache.ns[n].present
  <2>1. job' = Idle
    BY <1>0, <1>5 DEF ReadNamespace
  <2>2. JobIsCurrent'
    BY <2>1 DEF JobIsCurrent
  <2>3. Settled(cache, p)'
    BY <1>1, <1>5 DEF Settled
  <2> QED BY <1>0, <1>1, <1>3, <2>2, <2>3, WorkerConcernsItsPod DEF VisitsKept, Visited
<1>6. ASSUME job' # Idle, job'.pod = p PROVE VisitsKept
  <2>1. Visited(p)'
    BY <1>6 DEF Visited, Busy
  <2> QED BY <1>0, <1>1, <2>1, WorkerConcernsItsPod DEF VisitsKept
<1>7. CASE ReadNamespace /\ cache.ns[n].present
  <2>1. job' = [job EXCEPT !.pc = IF IsManaged(cache, n) THEN "cluster" ELSE "strip"]
    BY <1>0, <1>7 DEF ReadNamespace
  <2>2. /\ job' # Idle /\ job'.pod = p /\ job'.base = job.base
        /\ job'.pc # "namespace" /\ (IsManaged(cache, n) <=> job'.pc # "strip")
        /\ ReadBy(job'.pc) = {}
    BY <1>0, <1>2, <2>1 DEF Idle, ReadBy
  <2>3. JobIsCurrent'
    BY <1>0, <1>1, <1>2, <1>4, <1>7, <2>2 DEF JobIsCurrent
  <2> QED BY <1>3, <1>6, <2>2, <2>3
<1>8. ASSUME NEW s \in Scopes, NEW next \in Stages \ {"namespace", "strip"},
             ReadTier(job.pc, s, next), job.pc \notin {"namespace", "strip"},
             ReadBy(next) = ReadBy(job.pc) \cup {s}, ReadBy(next) \subseteq Scopes
      PROVE  Core' /\ VisitsKept
  <2>1. /\ job' # Idle /\ job'.pod = p /\ job'.base = job.base /\ job'.pc = next
        /\ job'.layers = [job.layers EXCEPT ![s] = Layer(cache, s, job.base, n)]
    BY <1>0, <1>2, <1>8 DEF ReadTier, Idle
  <2>2. ~Pending(p) => \A r \in ReadBy(next) : job'.layers[r] = Layer(cache, r, job.base, n)
    BY <1>0, <1>1, <1>2, <1>8, <2>1 DEF JobIsCurrent
  <2>3. JobIsCurrent'
    BY <1>0, <1>1, <1>2, <1>4, <1>8, <2>1, <2>2 DEF JobIsCurrent
  <2> QED BY <1>3, <1>6, <2>1, <2>3
<1>9. CASE ReadTiers
  <2>0. /\ ReadBy("cluster") = {} /\ ReadBy("baseline") = {1}
        /\ ReadBy("pod") = {1, 2} /\ ReadBy("apply") = {1, 2, 3} /\ Scopes = {1, 2, 3}
    BY DEF ReadBy, Scopes, ScopeClusterBaseline, ScopeNamespaceBaseline, ScopePod
  <2>1. CASE ReadTier("cluster", ScopeClusterBaseline, "baseline")
    <3>1. job.pc = "cluster"
      BY <2>1 DEF ReadTier
    <3> QED BY <1>8, <2>0, <2>1, <3>1 DEF Stages, ScopeClusterBaseline
  <2>2. CASE ReadTier("baseline", ScopeNamespaceBaseline, "pod")
    <3>1. job.pc = "baseline"
      BY <2>2 DEF ReadTier
    <3> QED BY <1>8, <2>0, <2>2, <3>1 DEF Stages, ScopeNamespaceBaseline
  <2>3. CASE ReadTier("pod", ScopePod, "apply")
    <3>1. job.pc = "pod"
      BY <2>3 DEF ReadTier
    <3> QED BY <1>8, <2>0, <2>3, <3>1 DEF Stages, ScopePod
  <2> QED BY <1>9, <2>1, <2>2, <2>3 DEF ReadTiers
<1> QED BY <1>5, <1>7, <1>9

(* A patch computed from the cached pod shows up as a difference to it.    *)
LEMMA PatchIsAwaited ==
    ASSUME NEW old \in PodObj, NEW base \in PodObj, NEW new \in PodObj, NEW cached \in PodObj,
           Live(cached) = base,
           new.stamps # base.stamps \/ new.resolved # base.resolved
    PROVE  \/ cached.stamps # MergePatch(old, base, new).stamps
           \/ cached.resolved # MergePatch(old, base, new).resolved
<1>1. cached.stamps = base.stamps /\ cached.resolved = base.resolved
  BY DEF Live, PodObj
<1>2. CASE new.resolved # base.resolved
  BY <1>1, <1>2 DEF MergePatch, PodObj
<1>3. CASE new.stamps # base.stamps
  <2>1. PICK k \in Keys : new.stamps[k] # base.stamps[k]
    BY <1>3 DEF PodObj, Stamps
  <2>2. MergePatch(old, base, new).stamps[k] = new.stamps[k]
    BY <2>1 DEF MergePatch, PodObj
  <2> QED BY <1>1, <2>1, <2>2
<1> QED BY <1>2, <1>3

(* The end of a reconcile: new is the pod it wants, made from base.        *)
LEMMA FinishKept ==
    ASSUME Core, TypeOK', job # Idle, job' = Idle, UNCHANGED <<cache, notes>>,
           NEW new \in PodObj,
           \/ Patch(new) /\ (new.stamps # job.base.stamps \/ new.resolved # job.base.resolved)
           \/ /\ UNCHANGED <<api, queue>>
              /\ ~Pending(job.pod) => Settled(cache, job.pod)
    PROVE  Core' /\ VisitsKept
<1> USE DEF Core
<1>0. PICK p \in Pods : p = job.pod
  BY DEF TypeOK, Jobs
<1>1. /\ job.base \in PodObj /\ cache.pod[p] \in PodObj /\ api.pod[p] \in PodObj
      /\ api \in Views
  BY <1>0 DEF TypeOK, Jobs, Views
<1>2. MergePatch(api.pod[p], job.base, new) \in PodObj
  BY <1>1, MergePatchType
<1>3. /\ queue \subseteq queue'
      /\ \A q \in Pods : q # p => api'.pod[q] = api.pod[q]
      /\ api'.pod[p].present = api.pod[p].present
      /\ api'.pod[p].terminating = api.pod[p].terminating
  <2>1. CASE UNCHANGED <<api, queue>>
    BY <2>1
  <2>2. CASE Patch(new) /\ api.pod[p].present
    <3>1. queue' = queue /\ api' = [api EXCEPT !.pod[p] = MergePatch(@, job.base, new)]
      BY <1>0, <2>2 DEF Patch
    <3>2. /\ \A q \in Pods : q # p => api'.pod[q] = api.pod[q]
          /\ api'.pod[p] = MergePatch(api.pod[p], job.base, new)
      BY <1>1, <3>1 DEF Views
    <3> QED BY <1>1, <3>1, <3>2 DEF MergePatch, PodObj
  <2>3. CASE Patch(new) /\ ~api.pod[p].present
    BY <1>0, <2>3 DEF Patch
  <2> QED BY <2>1, <2>2, <2>3
<1>4. TerminationIsFinal'
  BY <1>3 DEF TerminationIsFinal
<1>5. JobIsCurrent'
  BY DEF JobIsCurrent
<1>6. (Pending(p) \/ Awaited(p) \/ Settled(cache, p))'
  <2>1. CASE Pending(p)
    BY <1>3, <2>1 DEF Pending, Noted
  <2>2. CASE ~Pending(p) /\ UNCHANGED <<api, queue>> /\ Settled(cache, p)
    BY <2>2 DEF Settled
  <2>3. CASE ~Pending(p) /\ Patch(new) /\ ~api.pod[p].present
    BY <1>0, <2>3 DEF Patch, Pending
  <2>4. CASE /\ ~Pending(p) /\ Patch(new) /\ api.pod[p].present
             /\ new.stamps # job.base.stamps \/ new.resolved # job.base.resolved
    <3>1. Live(cache.pod[p]) = job.base
      BY <1>0, <2>4 DEF JobIsCurrent, Live
    <3>2. api'.pod[p] = MergePatch(api.pod[p], job.base, new)
      BY <1>0, <1>1, <2>4 DEF Patch, Views
    <3> QED BY <1>1, <2>4, <3>1, <3>2, PatchIsAwaited DEF Awaited
  <2> QED BY <1>0, <2>1, <2>2, <2>3, <2>4
<1>7. VisitsKept
  <2>1. Visited(p)'
    BY <1>6 DEF Visited
  <2> QED BY <1>0, <1>3, <2>1, WorkerConcernsItsPod DEF VisitsKept
<1> QED BY <1>4, <1>5, <1>7

(* Stamping keeps it: the pod is settled or its own event is to come.      *)
LEMMA applyResolutionKept == ASSUME Core, TypeOK', applyResolution PROVE Core' /\ VisitsKept
<1> DEFINE desired == DesiredStamps(job.layers)
           patched == SyncStamps(job.base, desired)
           new     == [patched EXCEPT !.resolved = TRUE]
<1>1. job # Idle /\ job.pc = "apply" /\ job' = Idle /\ UNCHANGED <<cache, notes>>
  BY DEF applyResolution, Idle
<1>2. job.pod \in Pods /\ job.base \in PodObj /\ job.layers \in [Scopes -> SUBSET (Keys \X Directions)]
  BY <1>1 DEF Core, TypeOK, Jobs
<1>3. desired \in Stamps
  BY DesiredStampsType
<1>4. /\ new \in PodObj /\ new.stamps = desired /\ new.resolved = TRUE
      /\ patched = job.base <=> desired = job.base.stamps
  BY <1>2, <1>3 DEF SyncStamps, PodObj
<1>5. CASE ~(patched = job.base /\ job.base.resolved)
  <2>1. Patch(new) /\ (new.stamps # job.base.stamps \/ new.resolved # job.base.resolved)
    BY <1>2, <1>4, <1>5 DEF applyResolution, MarkResolved, PodObj
  <2> HIDE DEF new
  <2> QED BY <1>1, <1>4, <2>1, FinishKept
<1>6. CASE patched = job.base /\ job.base.resolved
  <2>1. ASSUME ~Pending(job.pod) PROVE Settled(cache, job.pod)
    <3> DEFINE p == job.pod
               n == PodNS[p]
    <3>1. /\ Live(cache.pod[p]) = job.base /\ IsManaged(cache, n)
          /\ \A s \in Scopes : job.layers[s] = Layer(cache, s, job.base, n)
      BY <1>1, <2>1 DEF Core, JobIsCurrent, Live, ReadBy
    <3>2. /\ cache.pod[p].stamps = job.base.stamps /\ cache.pod[p].resolved = job.base.resolved
          /\ cache.pod[p].labels = job.base.labels /\ cache.pod[p].joins = job.base.joins
      <4>1. cache.pod[p] \in PodObj
        BY <1>2 DEF Core, TypeOK, Views
      <4> QED BY <3>1, <4>1 DEF Live, PodObj
    <3>3. job.layers = [s \in Scopes |-> Layer(cache, s, cache.pod[p], n)]
      BY <1>2, <3>1, <3>2, LayerReadsLabels
    <3>4. desired = DesiredLabels(cache, cache.pod[p], n)
      BY <3>3 DEF DesiredLabels
    <3> QED BY <1>4, <1>6, <3>1, <3>2, <3>4 DEF Settled
  <2>2. UNCHANGED <<api, queue>>
    BY <1>6 DEF applyResolution
  <2> QED BY <1>1, <1>4, <2>1, <2>2, FinishKept
<1> QED BY <1>5, <1>6

(* Stripping an unmanaged pod keeps it, for the same reason.               *)
LEMMA stripStampedLabelsKept == ASSUME Core, TypeOK', stripStampedLabels PROVE Core' /\ VisitsKept
<1> DEFINE new == [SyncStamps(job.base, NoStamps) EXCEPT !.resolved = FALSE]
<1>1. job # Idle /\ job.pc = "strip" /\ job' = Idle /\ UNCHANGED <<cache, notes>>
  BY DEF stripStampedLabels, Idle
<1>2. job.pod \in Pods /\ job.base \in PodObj
  BY <1>1 DEF Core, TypeOK, Jobs
<1>3. NoStamps \in Stamps
  BY DEF NoStamps, Stamps, BareDirections
<1>4. /\ new \in PodObj /\ new.stamps = NoStamps /\ new.resolved = FALSE
      /\ new = job.base <=> (job.base.stamps = NoStamps /\ job.base.resolved = FALSE)
  BY <1>2, <1>3 DEF SyncStamps, PodObj
<1>5. CASE new # job.base
  <2>1. Patch(new) /\ (new.stamps # job.base.stamps \/ new.resolved # job.base.resolved)
    BY <1>2, <1>4, <1>5 DEF stripStampedLabels, PodObj
  <2> HIDE DEF new
  <2> QED BY <1>1, <1>4, <2>1, FinishKept
<1>6. CASE new = job.base
  <2>1. ASSUME ~Pending(job.pod) PROVE Settled(cache, job.pod)
    <3> DEFINE p == job.pod
               n == PodNS[p]
    <3>1. Live(cache.pod[p]) = job.base /\ ~IsManaged(cache, n)
      BY <1>1, <2>1 DEF Core, JobIsCurrent, Live
    <3>2. cache.pod[p].stamps = job.base.stamps /\ cache.pod[p].resolved = job.base.resolved
      <4>1. cache.pod[p] \in PodObj
        BY <1>2 DEF Core, TypeOK, Views
      <4> QED BY <3>1, <4>1 DEF Live, PodObj
    <3> QED BY <1>4, <1>6, <3>1, <3>2 DEF Settled
  <2>2. UNCHANGED <<api, queue>>
    BY <1>6 DEF stripStampedLabels
  <2> QED BY <1>1, <1>4, <2>1, <2>2, FinishKept
<1> QED BY <1>5, <1>6

(* A failed reconcile requeues its pod, a restart notes everything.        *)
LEMMA FaultKept == ASSUME Core, TypeOK', ReconcileError \/ Restart PROVE Core' /\ VisitsKept
<1> USE DEF Core
<1>1. CASE ReconcileError
  <2>0. PICK p \in Pods : p = job.pod
    BY <1>1 DEF ReconcileError, TypeOK, Jobs
  <2>1. /\ job # Idle /\ job' = Idle /\ UNCHANGED <<api, cache, notes>>
        /\ queue \subseteq queue' /\ p \in queue'
    BY <1>1, <2>0 DEF ReconcileError
  <2>2. JobIsCurrent' /\ TerminationIsFinal'
    BY <2>1 DEF JobIsCurrent, TerminationIsFinal
  <2>3. Pending(p)'
    BY <2>1 DEF Pending
  <2>4. Visited(p)'
    BY <2>3 DEF Visited
  <2>5. VisitsKept
    BY <2>0, <2>1, <2>4, WorkerConcernsItsPod DEF VisitsKept
  <2> QED BY <2>2, <2>5
<1>2. CASE Restart
  <2>1. cache' = api /\ api' = api /\ job' = Idle /\ notes' = StartNotes(api)
    BY <1>2 DEF Restart
  <2>2. JobIsCurrent' /\ TerminationIsFinal'
    BY <2>1 DEF JobIsCurrent, TerminationIsFinal
  <2>3. \A p \in Pods : cache'.pod[p].present => p \in notes'.pod
    BY <2>1 DEF StartNotes
  <2>4. \A p \in Pods : Visited(p)'
    BY <2>3 DEF Visited, Pending, Noted, Settled
  <2> QED BY <2>2, <2>4 DEF VisitsKept
<1> QED BY <1>1, <1>2

(* Together: no step of the worker loses sight of a pod.                   *)
LEMMA ReconcileKept == ASSUME Core, TypeOK', Reconcile PROVE Core' /\ VisitsKept
BY BeginKept, ReadKept, applyResolutionKept, stripStampedLabelsKept DEF Reconcile

(* Nor does a step that leaves pods, caches and controller alone.          *)
LEMMA IdleKept ==
    ASSUME Core, TypeOK', UNCHANGED <<api, cache, notes, queue, job>>
    PROVE  Core' /\ VisitsKept
<1>1. \A p \in Pods : (Pending(p)' <=> Pending(p)) /\ (Visited(p)' <=> Visited(p))
  BY DEF Visited, Pending, Noted, Busy, Awaited, Settled
<1> QED BY <1>1 DEF Core, TerminationIsFinal, JobIsCurrent, TypeOK, Jobs, VisitsKept

(* No trigger is missed: whatever the order of edits, cache updates,       *)
(* event handling, reads, failures and restarts, a pod the controller will *)
(* not look at again carries the stamps of its inputs.                     *)
THEOREM InductiveInvariant == Spec => []IInv
<1>1. Init /\ TypeOK => IInv
  BY InitIInv
<1>2. IInv /\ TypeOK' /\ [Next]_vars => IInv'
  <2> SUFFICES ASSUME Core, TypeOK', [Next]_vars PROVE Core' /\ VisitsKept
    BY DEF IInv, VisitsKept, Visited, NoMissedTrigger
  <2>1. CASE UserEdit
    BY <2>1, UserEditKept
  <2>2. CASE Deliver
    BY <2>2, DeliverKept
  <2>3. CASE Handle
    BY <2>3, HandleKept
  <2>4. CASE Reconcile
    BY <2>4, ReconcileKept
  <2>5. CASE ReconcileError \/ Restart
    BY <2>5, FaultKept
  <2>6. CASE UNCHANGED vars
    BY <2>6, IdleKept DEF vars
  <2> QED BY <2>1, <2>2, <2>3, <2>4, <2>5, <2>6 DEF Next, Work
<1> QED BY <1>1, <1>2, TypeCorrect, PTL DEF Spec

(* ADR 0044 for the resolution controller: no trigger is missed.           *)
THEOREM NoTriggerIsMissed == Spec => []NoMissedTrigger
<1>1. IInv => NoMissedTrigger
  BY DEF IInv
<1> QED BY <1>1, InductiveInvariant, PTL

(* What the worker holds is current or its pod is due again.               *)
THEOREM ReadsAreCurrent == Spec => []JobIsCurrent
<1>1. IInv => JobIsCurrent
  BY DEF IInv, Core
<1> QED BY <1>1, InductiveInvariant, PTL

(* A stamp Resolve yields comes from a rule that passed the filter.        *)
LEMMA StampIsGranted ==
    ASSUME NEW view, NEW o, NEW n, NEW k \in Keys,
           DesiredLabels(view, o, n)[k] # "none"
    PROVE  Permits(view, k, n)
<1> DEFINE layers == [s \in Scopes |-> Layer(view, s, o, n)]
           L      == AskedFor(layers, k)
<1>1. EffectiveDirection(L) # "none"
  BY DEF DesiredLabels, DesiredStamps
<1>2. PICK s \in Scopes : L[s] # {}
  BY <1>1 DEF EffectiveDirection, Speaking
<1>3. PICK r \in Layer(view, s, o, n) : r[1] = k
  BY <1>2 DEF AskedFor
<1>4. PICK q : r = <<stampedVnetKey(q[1]), q[2]>> /\ Permits(view, q[1], n)
  BY <1>3 DEF Layer, filterPermittedRules
<1> QED BY <1>3, <1>4 DEF stampedVnetKey, Permits

(* With nothing in flight, stamps name only vnets that admit the pod's     *)
(* namespace, and only managed namespaces hold any.                        *)
THEOREM StampsAreGranted == Spec => []QuietStampsAreGranted
<1>1. IInv => QuietStampsAreGranted
  <2> SUFFICES ASSUME IInv, Quiet, NEW p \in Pods, NEW k \in Keys,
                      api.pod[p].present, ~api.pod[p].terminating,
                      api.ns[PodNS[p]].present, api.pod[p].stamps[k] # "none"
               PROVE  IsManaged(api, PodNS[p]) /\ Permits(api, k, PodNS[p])
    BY DEF QuietStampsAreGranted
  <2>1. Settled(api, p)
    BY DEF IInv, NoMissedTrigger, Quiet, Pending, Busy, Awaited
  <2>2. IsManaged(api, PodNS[p])
    BY <2>1 DEF Settled, NoStamps
  <2>3. DesiredLabels(api, api.pod[p], PodNS[p])[k] # "none"
    BY <2>1, <2>2 DEF Settled
  <2> QED BY <2>2, <2>3, StampIsGranted
<1> QED BY <1>1, InductiveInvariant, PTL

-----------------------------------------------------------------------------
(* The webhooks beside the controller: types.                              *)

(* What goes on beside the request is a step of Resolution's.              *)
LEMMA OthersAreSteps ==
    /\ OtherEdit => UserEdit
    /\ DeliverInput => Deliver
BY DEF OtherEdit, UserEdit, DeliverInput, Deliver

(* A request that is somewhere is in flight.                               *)
LEMMA AtStage ==
    ASSUME ATypeOK, req.stage # "none"
    PROVE  req \in InFlight /\ req # NoReq
BY DEF ATypeOK, Reqs, NoReq

(* The stamps a request sets itself have their type.                       *)
LEMMA ForgedType ==
    ASSUME NEW stamps \in Stamps, NEW F \in SUBSET (Keys \X BareDirections)
    PROVE  withForged(stamps, F) \in Stamps
<1>1. ASSUME NEW k \in Keys, \E f \in F : f[1] = k
      PROVE  (CHOOSE f \in F : f[1] = k)[2] \in BareDirections
  BY <1>1
<1> QED BY <1>1 DEF withForged, Stamps

(* So do the stamps the mutator sets.                                      *)
LEMMA MutatedType ==
    ASSUME NEW o \in PodObj, NEW desired \in Stamps
    PROVE  MarkResolved(SyncUntouched(o, desired)) \in PodObj
BY DEF MarkResolved, SyncUntouched, PodObj, Stamps

(* No tier has been read.                                                  *)
LEMMA NoLayersType == NoLayers \in [Scopes -> SUBSET (Keys \X Directions)]
BY DEF NoLayers

(* A request on its way to the validator.                                  *)
LEMMA ValidatorType ==
    ASSUME NEW r \in InFlight, NEW o \in PodObj
    PROVE  [r EXCEPT !.stage = "validator", !.scope = 1, !.layers = NoLayers, !.obj = o] \in InFlight
<1>1. ASSUME NEW st \in {"mutator", "mutating", "validator", "validating", "store", "denied"},
             NEW m \in 1 .. 4, NEW L \in [Scopes -> SUBSET (Keys \X Directions)]
      PROVE  [r EXCEPT !.stage = st, !.scope = m, !.layers = L, !.obj = o] \in InFlight
  BY DEF InFlight
<1>2. 1 \in 1 .. 4
  OBVIOUS
<1> QED BY <1>1, <1>2, NoLayersType

(* A webhook's failure leaves a request in flight.                         *)
LEMMA AfterFailureType == ASSUME ATypeOK PROVE afterFailure(req) \in Reqs
<1>1. CASE req.stage \in {"mutator", "mutating"}
  <2>1. req \in InFlight
    BY <1>1, AtStage
  <2>2. afterFailure(req) = [req EXCEPT !.stage = "validator", !.scope = 1, !.layers = NoLayers]
    BY <1>1 DEF afterFailure
  <2>3. afterFailure(req) = [req EXCEPT !.stage = "validator", !.scope = 1, !.layers = NoLayers,
                                        !.obj = req.obj]
    BY <2>1, <2>2 DEF InFlight
  <2> QED BY <2>1, <2>3, ValidatorType DEF InFlight, Reqs
<1>2. CASE req.stage \in {"validator", "validating"}
  <2>1. req \in InFlight
    BY <1>2, AtStage
  <2>2. afterFailure(req) = [req EXCEPT !.stage = "denied", !.failed = TRUE]
    BY <1>2 DEF afterFailure
  <2> QED BY <2>1, <2>2 DEF InFlight, Reqs
<1>3. CASE req.stage \notin {"mutator", "mutating", "validator", "validating"}
  BY <1>3 DEF afterFailure, ATypeOK
<1> QED BY <1>1, <1>2, <1>3

(* The steps of the handlers and of the API server keep the types.         *)
LEMMA RequestType ==
    ASSUME ATypeOK,
           \/ namespaceManaged \/ Mutate \/ Validate \/ Judge \/ Refused
           \/ \E s \in Scopes : ReadTierFor(s)
    PROVE  ATypeOK'
<1>1. UNCHANGED <<vars, unseen>>
  BY DEF namespaceManaged, Mutate, Validate, Judge, Refused, ReadTierFor
<1>2. req.stage # "none"
  BY DEF namespaceManaged, Mutate, Validate, Judge, Refused, ReadTierFor
<1>3. req \in InFlight
  BY <1>2, AtStage
<1>4. req' \in Reqs
  <2>1. CASE namespaceManaged
    BY <1>3, <2>1 DEF namespaceManaged, InFlight, Reqs
  <2>2. CASE Mutate
    <3>1. MarkResolved(SyncUntouched(req.obj, DesiredStamps(req.layers))) \in PodObj
      BY <1>3, MutatedType, DesiredStampsType DEF InFlight
    <3> QED BY <1>3, <2>2, <3>1, ValidatorType DEF Mutate, Reqs
  <2>3. CASE Validate
    BY <1>3, <2>3 DEF Validate, verdict, InFlight, Reqs
  <2>4. CASE Judge
    BY <1>3, <2>4 DEF Judge, verdict, InFlight, Reqs
  <2>5. CASE Refused
    BY <2>5 DEF Refused, Reqs
  <2>6. ASSUME NEW s \in Scopes, ReadTierFor(s) PROVE req' \in Reqs
    <3>1. Layer(cache, s, req.obj, PodNS[req.pod]) \subseteq Keys \X Directions
      BY <1>3, LayerType, NamesAssumption DEF InFlight, ATypeOK, TypeOK, Rules
    <3>2. s + 1 \in 1 .. 4
      BY DEF Scopes, ScopeClusterBaseline, ScopeNamespaceBaseline, ScopePod
    <3> QED BY <1>3, <2>6, <3>1, <3>2 DEF ReadTierFor, InFlight, Reqs
  <2> QED BY <2>1, <2>2, <2>3, <2>4, <2>5, <2>6
<1>5. TypeOK'
  BY <1>1 DEF ATypeOK, TypeOK, vars
<1> QED BY <1>1, <1>4, <1>5 DEF ATypeOK

(* So does a user who submits a pod.                                       *)
LEMMA SubmitType == ASSUME ATypeOK, NEW p \in Pods, Submit(p) PROVE ATypeOK'
<1> DEFINE old == api.pod[p]
           Requested(r) == [present |-> TRUE, terminating |-> old.present /\ old.terminating,
                        labels |-> r.labels, joins |-> r.joins,
                        stamps |-> withForged(IF old.present THEN old.stamps ELSE NoStamps, r.forged),
                        resolved |-> old.present /\ old.resolved]
<1>1. PICK r \in Requests :
         req' = [stage |-> "mutator", pod |-> p, old |-> old, asked |-> Requested(r),
                 obj |-> Requested(r), scope |-> 1, layers |-> NoLayers,
                 latest |-> TRUE, moved |-> FALSE, failed |-> FALSE]
  BY DEF Submit
<1>2. old \in PodObj
  BY DEF ATypeOK, TypeOK, Views
<1>3. NoStamps \in Stamps
  BY DEF NoStamps, Stamps, BareDirections
<1>4. /\ r.labels \in PodLabels /\ r.joins \in SUBSET UserRules
      /\ r.forged \in SUBSET (Keys \X BareDirections)
  BY RequestsAssumption
<1>5. withForged(IF old.present THEN old.stamps ELSE NoStamps, r.forged) \in Stamps
  BY <1>2, <1>3, <1>4, ForgedType DEF PodObj
<1>6. old.present \in BOOLEAN /\ old.terminating \in BOOLEAN /\ old.resolved \in BOOLEAN
  BY <1>2 DEF PodObj
<1>7. Requested(r) \in PodObj
  <2> HIDE DEF old
  <2> QED BY <1>4, <1>5, <1>6 DEF PodObj
<1>8. req' \in InFlight
  <2> HIDE DEF Asked, old
  <2> QED BY <1>1, <1>2, <1>7 DEF InFlight, NoLayers
<1>9. TypeOK'
  BY ValuesAssumption DEF Submit, ATypeOK, TypeOK
<1> QED BY <1>8, <1>9 DEF Submit, ATypeOK, Reqs

(* What happens beside the request.                                        *)
Beside == OtherEdit \/ DeliverInput \/ Handle \/ Reconcile \/ ReconcileError

(* It is a step of Resolution's, after which the request goes on.          *)
LEMMA BesideType == ASSUME ATypeOK, Beside, Meanwhile PROVE ATypeOK'
<1>1. TypeOK'
  BY OthersAreSteps, TypeStep DEF Beside, Next, Work, ATypeOK
<1>2. unseen' \subseteq Pods
  BY DEF Meanwhile, Written, ATypeOK
<1>3. req' \in Reqs
  <2>1. CASE req = NoReq
    BY <2>1 DEF Meanwhile, Reqs
  <2>2. CASE req # NoReq
    <3>1. req \in InFlight
      BY <2>2 DEF ATypeOK, Reqs
    <3>2. ASSUME NEW a \in BOOLEAN, NEW b \in BOOLEAN
          PROVE  [req EXCEPT !.latest = a, !.moved = b] \in InFlight
      BY <3>1 DEF InFlight
    <3> DEFINE a == req.latest /\ api'.pod[req.pod] = api.pod[req.pod]
               b == req.moved \/ Inputs(cache') # Inputs(cache)
    <3>3. a \in BOOLEAN /\ b \in BOOLEAN
      OBVIOUS
    <3>4. req' = [req EXCEPT !.latest = a, !.moved = b]
      BY <2>2 DEF Meanwhile
    <3> HIDE DEF a, b
    <3> QED BY <3>2, <3>3, <3>4 DEF Reqs
  <2> QED BY <2>1, <2>2
<1> QED BY <1>1, <1>2, <1>3 DEF ATypeOK

(* A stored request has its type.                                          *)
LEMMA StoreType == ASSUME ATypeOK, Store PROVE ATypeOK'
<1>1. req \in InFlight
  BY AtStage DEF Store
<1>2. req.pod \in Pods /\ req.obj \in PodObj /\ api \in Views
  BY <1>1 DEF InFlight, ATypeOK, TypeOK
<1>3. [api EXCEPT !.pod[req.pod] = req.obj] \in Views
  BY <1>2 DEF Views
<1>4. TypeOK'
  BY <1>2, <1>3 DEF Store, ATypeOK, TypeOK
<1> QED BY <1>4 DEF Store, ATypeOK, Reqs, Written

(* So has what the pods' informer shows.                                   *)
LEMMA SeePodType == ASSUME ATypeOK, NEW p \in Pods, SeePod(p) PROVE ATypeOK'
<1>1. cache' \in Views
  BY DEF SeePod, ATypeOK, TypeOK, Views
<1>2. notes' \in Notes
  BY DEF SeePod, ATypeOK, TypeOK, Notes
<1> QED BY <1>1, <1>2 DEF SeePod, ATypeOK, TypeOK

(* Every step keeps the types.                                             *)
LEMMA ATypeStep == ASSUME ATypeOK, [ANext]_allVars PROVE ATypeOK'
<1>1. CASE Beside /\ Meanwhile
  BY <1>1, BesideType
<1>2. CASE Restart /\ req' = afterFailure(req) /\ unseen' = {}
  BY <1>2, AfterFailureType, TypeStep DEF Next, ATypeOK
<1>3. CASE WebhookFails
  <2>1. TypeOK'
    BY <1>3, ValuesAssumption DEF WebhookFails, ATypeOK, TypeOK
  <2> QED BY <1>3, <2>1, AfterFailureType DEF WebhookFails, ATypeOK
<1>4. CASE UNCHANGED allVars
  BY <1>4 DEF allVars, vars, ATypeOK, TypeOK
<1> QED
  BY <1>1, <1>2, <1>3, <1>4, SeePodType, SubmitType, StoreType, RequestType DEF ANext, Beside

(* Every variable keeps its type with the webhooks in the picture.         *)
THEOREM AdmissionTypeCorrect == ASpec => []ATypeOK
<1>1. AInit => ATypeOK
  BY InitType DEF AInit, ATypeOK, Reqs
<1> QED BY <1>1, ATypeStep, PTL DEF ASpec

-----------------------------------------------------------------------------
(* Two writers, no missed trigger.                                         *)

(* What the watch has yet to show, unseen knows of.                        *)
UnseenIsBehind ==
    \A p \in Pods \ unseen : ~podPredicate(cache.pod[p], api.pod[p])

(* A request that will be stored replaces the pod it was made from.        *)
LatestIsStored ==
    req # NoReq =>
        /\ req.latest => /\ api.pod[req.pod] = req.old
                         /\ req.old.present \/ ~cache.pod[req.pod].present
        /\ req.obj.present
        /\ req.obj.terminating <=> req.old.present /\ req.old.terminating

WatchInv == Core /\ ATypeOK /\ UnseenIsBehind /\ LatestIsStored /\ PodsAreRevisited

(* Seen pods that were not lost sight of are still watched.                *)
LEMMA RevisitsKept ==
    ASSUME PodsAreRevisited, VisitsKept, unseen \subseteq unseen', UnseenIsBehind'
    PROVE  PodsAreRevisited'
<1> SUFFICES ASSUME NEW p \in Pods, p \notin unseen'
             PROVE  (Pending(p) \/ Busy(p) \/ Settled(cache, p))'
  BY DEF PodsAreRevisited
<1>1. Visited(p)
  BY DEF PodsAreRevisited, Visited
<1>2. Visited(p)'
  BY <1>1 DEF VisitsKept
<1>3. ~podPredicate(cache.pod[p], api.pod[p])'
  BY DEF UnseenIsBehind
<1>4. ~Awaited(p)'
  BY <1>3 DEF podPredicate, Awaited
<1> QED BY <1>2, <1>4 DEF Visited

(* Beside the request no cached pod changes: SeePod is their informer.     *)
LEMMA CachedPodsStay == ASSUME TypeOK, Beside PROVE cache'.pod = cache.pod
<1>1. CASE DeliverInput
  BY <1>1 DEF DeliverInput, DeliverNamespace, DeliverBaseline, DeliverVnet,
     DeliverClusterBaseline, DeliverBinding, TypeOK, Views
<1>2. CASE OtherEdit
  BY <1>2 DEF OtherEdit, EditNamespace, EditBaseline, EditVnet, EditClusterBaseline,
     EditBinding, DeletePod, Edit
<1>3. CASE Handle
  BY <1>3 DEF Handle, HandlePod, HandleNamespace, HandleBaseline, HandleBinding, HandleVnet,
     HandleClusterBaseline
<1>4. CASE Reconcile
  BY <1>4 DEF Reconcile, Begin, ReadNamespace, ReadTiers, ReadTier, applyResolution,
     stripStampedLabels
<1>5. CASE ReconcileError
  BY <1>5 DEF ReconcileError
<1> QED BY <1>1, <1>2, <1>3, <1>4, <1>5 DEF Beside

(* Every write of a pod that its watch lets through becomes unseen.        *)
LEMMA WrittenIsUnseen ==
    ASSUME UnseenIsBehind, cache'.pod = cache.pod, unseen' = Written
    PROVE  UnseenIsBehind' /\ unseen \subseteq unseen'
BY DEF UnseenIsBehind, Written, podPredicate

(* What happens beside the request loses sight of no pod.                  *)
LEMMA BesideWatched == ASSUME WatchInv, ATypeOK', Beside, Meanwhile PROVE WatchInv'
<1> USE DEF WatchInv
<1>1. Core' /\ VisitsKept
  BY OthersAreSteps, UserEditKept, DeliverKept, HandleKept, ReconcileKept, FaultKept
     DEF Beside, ATypeOK
<1>2. cache'.pod = cache.pod
  BY CachedPodsStay DEF ATypeOK
<1>3. UnseenIsBehind' /\ unseen \subseteq unseen'
  BY <1>2, WrittenIsUnseen DEF Meanwhile
<1>4. LatestIsStored'
  <2>1. CASE req = NoReq
    BY <2>1 DEF Meanwhile, LatestIsStored
  <2>2. CASE req # NoReq
    <3>1. req \in InFlight
      BY <2>2 DEF ATypeOK, Reqs
    <3>2. /\ req'.pod = req.pod /\ req'.old = req.old /\ req'.obj = req.obj
          /\ req'.latest => req.latest /\ api'.pod[req.pod] = api.pod[req.pod]
      BY <2>2, <3>1 DEF Meanwhile, InFlight
    <3> QED BY <1>2, <2>2, <3>2 DEF LatestIsStored
  <2> QED BY <2>1, <2>2
<1> QED BY <1>1, <1>3, <1>4, RevisitsKept

(* Nor does a restart: everything is listed again.                         *)
LEMMA RestartWatched ==
    ASSUME WatchInv, ATypeOK', Restart, req' = afterFailure(req), unseen' = {}
    PROVE  WatchInv'
<1> USE DEF WatchInv
<1>1. Core' /\ VisitsKept
  BY FaultKept DEF ATypeOK
<1>2. cache' = api /\ api' = api
  BY DEF Restart
<1>3. UnseenIsBehind'
  BY <1>2 DEF UnseenIsBehind, podPredicate
<1>4. PodsAreRevisited'
  <2>1. \A p \in Pods : cache'.pod[p].present => p \in notes'.pod
    BY DEF Restart, StartNotes
  <2> QED BY <2>1 DEF PodsAreRevisited, Pending, Noted, Settled
<1>5. LatestIsStored'
  <2>1. CASE req = NoReq
    BY <2>1 DEF afterFailure, NoReq, LatestIsStored
  <2>2. CASE req # NoReq
    <3>1. req \in InFlight
      BY <2>2 DEF ATypeOK, Reqs
    <3>2. req'.pod = req.pod /\ req'.old = req.old /\ req'.obj = req.obj /\ req'.latest = req.latest
      BY <3>1 DEF afterFailure, InFlight
    <3> QED BY <1>2, <2>2, <3>2 DEF LatestIsStored
  <2> QED BY <2>1, <2>2
<1> QED BY <1>1, <1>3, <1>4, <1>5

(* A pod the informer shows is due, or nothing that is read of it changed. *)
LEMMA SeePodWatched ==
    ASSUME WatchInv, ATypeOK', NEW p \in Pods, SeePod(p)
    PROVE  WatchInv'
<1> USE DEF WatchInv
<1>1. /\ UNCHANGED <<api, queue, job, req>>
      /\ unseen' = unseen \ {p}
      /\ cache'.pod[p] = api.pod[p]
      /\ \A q \in Pods : q # p => cache'.pod[q] = cache.pod[q]
      /\ cache'.ns = cache.ns /\ cache'.vnet = cache.vnet /\ cache'.cb = cache.cb
      /\ cache'.nb = cache.nb /\ cache'.bind = cache.bind
  BY DEF SeePod, ATypeOK, TypeOK, Views
<1>2. UnseenIsBehind'
  BY <1>1 DEF UnseenIsBehind, podPredicate
<1>3. LatestIsStored'
  <2>1. CASE req = NoReq
    BY <1>1, <2>1 DEF LatestIsStored
  <2>2. CASE req # NoReq
    <3>1. req.pod \in Pods
      BY <2>2 DEF ATypeOK, Reqs, InFlight
    <3> QED BY <1>1, <2>2, <3>1 DEF LatestIsStored
  <2> QED BY <2>1, <2>2
<1>4. CASE p \notin unseen
  <2>1. ~podPredicate(cache.pod[p], api.pod[p])
    BY <1>4 DEF UnseenIsBehind
  <2>2. DeliverPod(p)
    BY <1>4, <2>1 DEF SeePod, DeliverPod
  <2>3. Core' /\ VisitsKept
    BY <2>2, DeliverKept DEF Deliver, ATypeOK
  <2>4. unseen \subseteq unseen'
    BY <1>1, <1>4
  <2> QED BY <1>2, <1>3, <2>3, <2>4, RevisitsKept
<1>5. CASE p \in unseen
  <2>1. /\ notes'.pod = notes.pod \cup {p} /\ notes'.ns = notes.ns /\ notes'.cb = notes.cb
        /\ notes'.nb = notes.nb /\ notes'.bind = notes.bind /\ notes'.vnet = notes.vnet
    BY <1>5 DEF SeePod, ATypeOK, TypeOK, Notes
  <2>2. Pending(p)'
    BY <2>1 DEF Pending, Noted
  <2>3. ASSUME NEW q \in Pods, q # p PROVE Pending(q)' <=> Pending(q)
    <3>1. \A v, spec : NamespacesAdmittedBy(cache', v, spec) = NamespacesAdmittedBy(cache, v, spec)
      BY <1>1 DEF NamespacesAdmittedBy, PermitsForVnet, matchesAllowedNamespaces
    <3>2. cache'.pod[q] = cache.pod[q] /\ queue' = queue
      BY <1>1, <2>3
    <3> QED BY <2>1, <2>3, <3>1, <3>2 DEF Pending, Noted
  <2>4. ASSUME NEW n \in Namespaces
        PROVE  \A s, o : Layer(cache', s, o, n) = Layer(cache, s, o, n)
    BY <1>1, LayerReads, PermitsReads
  <2>5. TerminationIsFinal'
    BY <1>1 DEF Core, TerminationIsFinal
  <2>6. JobIsCurrent'
    <3> SUFFICES ASSUME job # Idle PROVE JobIsCurrent'
      BY <1>1 DEF JobIsCurrent
    <3>1. PICK q \in Pods : q = job.pod
      BY DEF ATypeOK, TypeOK, Jobs
    <3>2. job' = job /\ PodNS[q] \in Namespaces
      BY <1>1, NamesAssumption
    <3>3. CASE q = p
      BY <2>2, <3>1, <3>2, <3>3 DEF JobIsCurrent, Core
    <3>4. CASE q # p
      <4>1. Pending(q)' <=> Pending(q)
        BY <2>3, <3>4
      <4>2. IsManaged(cache', PodNS[q]) <=> IsManaged(cache, PodNS[q])
        BY <1>1 DEF IsManaged
      <4>3. \A s : Layer(cache', s, job.base, PodNS[q]) = Layer(cache, s, job.base, PodNS[q])
        BY <2>4, <3>2
      <4>4. cache'.pod[q] = cache.pod[q] /\ cache'.ns = cache.ns
        BY <1>1, <3>4
      <4>5. JobIsCurrent
        BY DEF Core
      <4> QED BY <3>1, <3>2, <4>1, <4>2, <4>3, <4>4, <4>5 DEF JobIsCurrent
    <3> QED BY <3>3, <3>4
  <2>7. Core'
    BY <2>5, <2>6 DEF Core, ATypeOK
  <2>8. ASSUME NEW q \in Pods, q # p, Settled(cache, q) PROVE Settled(cache', q)
    <3>1. cache \in Views /\ cache' \in Views /\ PodNS[q] \in Namespaces
      BY NamesAssumption DEF ATypeOK, TypeOK
    <3>2. cache'.pod[q] = cache.pod[q]
      BY <1>1, <2>8
    <3> QED BY <1>1, <2>4, <2>8, <3>1, <3>2, SettledReads
  <2>9. PodsAreRevisited'
    <3> SUFFICES ASSUME NEW q \in Pods, q \notin unseen', q # p
                 PROVE  (Pending(q) \/ Busy(q) \/ Settled(cache, q))'
      BY <2>2 DEF PodsAreRevisited
    <3>1. Pending(q) \/ Busy(q) \/ Settled(cache, q)
      BY <1>1 DEF PodsAreRevisited
    <3>2. Busy(q) => Busy(q)'
      BY <1>1 DEF Busy
    <3> QED BY <2>3, <2>8, <3>1, <3>2
  <2> QED BY <1>2, <1>3, <2>7, <2>9
<1> QED BY <1>4, <1>5

(* A stored request is a write like another: its event is to come.         *)
LEMMA StoreWatched == ASSUME WatchInv, ATypeOK', Store PROVE WatchInv'
<1> USE DEF WatchInv
<1>1. UNCHANGED <<cache, notes, queue, job>> /\ req' = NoReq /\ unseen' = Written
  BY DEF Store
<1>2. req \in InFlight /\ req # NoReq
  BY AtStage DEF Store
<1>3. UnseenIsBehind' /\ unseen \subseteq unseen'
  BY <1>1, WrittenIsUnseen
<1>4. LatestIsStored'
  BY <1>1 DEF LatestIsStored
<1>5. ASSUME NEW p \in Pods
      PROVE  \/ api'.pod[p] = api.pod[p]
             \/ /\ api'.pod[p].terminating <=> api.pod[p].present /\ api.pod[p].terminating
                /\ api.pod[p].present \/ ~cache.pod[p].present
  <2>1. req.pod \in Pods /\ api \in Views
    BY <1>2 DEF InFlight, ATypeOK, TypeOK
  <2>2. CASE api' = api
    BY <2>2
  <2>3. CASE req.latest /\ api' = [api EXCEPT !.pod[req.pod] = req.obj]
    <3>1. p # req.pod => api'.pod[p] = api.pod[p]
      BY <2>1, <2>3 DEF Views
    <3>2. api'.pod[req.pod] = req.obj
      BY <2>1, <2>3 DEF Views
    <3> QED BY <1>2, <2>3, <3>1, <3>2 DEF LatestIsStored
  <2> QED BY <2>2, <2>3 DEF Store
<1>6. TerminationIsFinal'
  BY <1>1, <1>5 DEF Core, TerminationIsFinal
<1>7. \A p \in Pods : Pending(p)' <=> Pending(p)
  BY <1>1 DEF Pending, Noted
<1>8. JobIsCurrent'
  BY <1>1, <1>7 DEF Core, JobIsCurrent, TypeOK, Jobs
<1>9. PodsAreRevisited'
  BY <1>1, <1>3, <1>7 DEF PodsAreRevisited, Busy, Settled
<1> QED BY <1>3, <1>4, <1>6, <1>8, <1>9 DEF Core, ATypeOK

(* The handlers leave the controller alone.                                *)
LEMMA RequestWatched ==
    ASSUME WatchInv, ATypeOK', UNCHANGED <<api, cache, notes, queue, job, unseen>>,
           LatestIsStored'
    PROVE  WatchInv'
<1>1. Core' /\ VisitsKept
  BY IdleKept DEF WatchInv, ATypeOK
<1>2. UnseenIsBehind'
  BY DEF WatchInv, UnseenIsBehind
<1> QED BY <1>1, <1>2, RevisitsKept DEF WatchInv

(* Of what the handlers do to a request, no part is the pod it is for.     *)
LEMMA HandlersKeepOld ==
    ASSUME ATypeOK, LatestIsStored, UNCHANGED <<api, cache>>,
           \/ namespaceManaged \/ Mutate \/ Validate \/ Judge \/ Refused \/ WebhookFails
           \/ \E s \in Scopes : ReadTierFor(s)
    PROVE  LatestIsStored'
<1>1. req.stage # "none"
  BY DEF namespaceManaged, Mutate, Validate, Judge, Refused, WebhookFails, ReadTierFor
<1>2. req \in InFlight /\ req # NoReq
  BY <1>1, AtStage
<1>3. CASE Refused
  BY <1>3 DEF Refused, LatestIsStored
<1>4. SUFFICES ASSUME /\ req'.pod = req.pod /\ req'.old = req.old /\ req'.latest = req.latest
                      /\ req'.obj.present = req.obj.present
                      /\ req'.obj.terminating = req.obj.terminating
               PROVE  LatestIsStored'
  <2>1. CASE namespaceManaged
    BY <1>2, <1>4, <2>1 DEF namespaceManaged, InFlight
  <2>2. CASE Mutate
    <3> DEFINE o == MarkResolved(SyncUntouched(req.obj, DesiredStamps(req.layers)))
    <3>1. req.obj \in PodObj
      BY <1>2 DEF InFlight
    <3>2. o.present = req.obj.present /\ o.terminating = req.obj.terminating
      BY <3>1 DEF MarkResolved, SyncUntouched, PodObj
    <3>3. req' = [req EXCEPT !.stage = "validator", !.scope = 1, !.layers = NoLayers, !.obj = o]
      BY <2>2 DEF Mutate
    <3> HIDE DEF o
    <3>4. req'.pod = req.pod /\ req'.old = req.old /\ req'.latest = req.latest /\ req'.obj = o
      BY <1>2, <3>3 DEF InFlight
    <3> QED BY <1>4, <3>2, <3>4
  <2>3. CASE Validate
    BY <1>2, <1>4, <2>3 DEF Validate, verdict, InFlight
  <2>4. CASE Judge
    BY <1>2, <1>4, <2>4 DEF Judge, verdict, InFlight
  <2>5. CASE WebhookFails
    BY <1>2, <1>4, <2>5 DEF WebhookFails, afterFailure, InFlight
  <2>6. ASSUME NEW s \in Scopes, ReadTierFor(s) PROVE LatestIsStored'
    BY <1>2, <1>4, <2>6 DEF ReadTierFor, InFlight
  <2> QED BY <1>3, <2>1, <2>2, <2>3, <2>4, <2>5, <2>6
<1> QED BY <1>2, <1>4 DEF LatestIsStored

(* A submitted pod is made from the stored one.                            *)
LEMMA SubmitWatched == ASSUME WatchInv, ATypeOK', NEW p \in Pods, Submit(p) PROVE WatchInv'
<1>1. UNCHANGED <<api, cache, notes, queue, job, unseen>>
  BY DEF Submit
<1> DEFINE t == api.pod[p].present /\ api.pod[p].terminating
<1> DEFINE S(r) == withForged(IF api.pod[p].present THEN api.pod[p].stamps ELSE NoStamps, r.forged)
           x == api.pod[p].present /\ api.pod[p].resolved
           Requested(r) == [present |-> TRUE, terminating |-> t, labels |-> r.labels, joins |-> r.joins,
                        stamps |-> S(r), resolved |-> x]
<1>2. PICK r \in Requests :
         req' = [stage |-> "mutator", pod |-> p, old |-> api.pod[p], asked |-> Requested(r),
                 obj |-> Requested(r), scope |-> 1, layers |-> NoLayers,
                 latest |-> TRUE, moved |-> FALSE, failed |-> FALSE]
  BY DEF Submit
<1>3. t \in BOOLEAN
  OBVIOUS
<1>4. req'.pod = p /\ req'.old = api.pod[p] /\ req'.obj.present /\ req'.obj.terminating = t
  <2> HIDE DEF t, x, S
  <2> QED BY <1>2
<1>5. api.pod[p].present \/ ~cache.pod[p].present
  BY DEF Submit
<1>6. LatestIsStored'
  BY <1>1, <1>4, <1>5 DEF LatestIsStored
<1> QED BY <1>1, <1>6, RequestWatched

(* No step loses sight of a pod.                                           *)
LEMMA WatchStep == ASSUME WatchInv, ATypeOK', [ANext]_allVars PROVE WatchInv'
<1>1. CASE Beside /\ Meanwhile
  BY <1>1, BesideWatched
<1>2. CASE Restart /\ req' = afterFailure(req) /\ unseen' = {}
  BY <1>2, RestartWatched
<1>3. CASE \/ namespaceManaged \/ Mutate \/ Validate \/ Judge \/ Refused \/ WebhookFails
           \/ \E s \in Scopes : ReadTierFor(s)
  <2>1. UNCHANGED <<api, cache, notes, queue, job, unseen>>
    BY <1>3 DEF namespaceManaged, Mutate, Validate, Judge, Refused, WebhookFails, ReadTierFor, vars
  <2>2. LatestIsStored'
    BY <1>3, <2>1, HandlersKeepOld DEF WatchInv
  <2> QED BY <2>1, <2>2, RequestWatched
<1>4. CASE UNCHANGED allVars
  <2>1. UNCHANGED <<api, cache, notes, queue, job, unseen, req>>
    BY <1>4 DEF allVars, vars
  <2>2. LatestIsStored'
    BY <2>1 DEF WatchInv, LatestIsStored
  <2> QED BY <2>1, <2>2, RequestWatched
<1> QED BY <1>1, <1>2, <1>3, <1>4, SeePodWatched, SubmitWatched, StoreWatched DEF ANext, Beside

(* ADR 0044 with two writers: whatever the webhooks store from older       *)
(* caches, a pod the controller will not look at again carries the stamps  *)
(* of its inputs.                                                          *)
THEOREM StoredPodsAreRevisited == ASpec => []PodsAreRevisited
<1>1. AInit /\ ATypeOK => WatchInv
  <2> SUFFICES ASSUME AInit, ATypeOK PROVE WatchInv
    OBVIOUS
  <2>1. IInv
    BY InitIInv DEF AInit, ATypeOK
  <2>2. UnseenIsBehind /\ LatestIsStored
    BY DEF AInit, Init, UnseenIsBehind, LatestIsStored, podPredicate
  <2>3. \A p \in Pods : ~Awaited(p)
    BY DEF AInit, Init, Awaited
  <2>4. PodsAreRevisited
    BY <2>1, <2>3 DEF IInv, NoMissedTrigger, PodsAreRevisited
  <2> QED BY <2>1, <2>2, <2>4 DEF WatchInv, IInv
<1>2. WatchInv => PodsAreRevisited
  BY DEF WatchInv
<1> QED BY <1>1, <1>2, WatchStep, AdmissionTypeCorrect, PTL DEF ASpec

-----------------------------------------------------------------------------
(* The handlers agree.                                                     *)

Honest == req.asked.stamps = oldStamps /\ ~req.moved /\ ~req.failed

(* What the handlers know of an honest request that found the caches as    *)
(* they are.                                                               *)
HandlersAgree ==
    req # NoReq =>
        LET n == PodNS[req.pod]
        IN /\ req.stage \in {"mutator", "mutating"} => req.obj = req.asked
           /\ req.stage \in {"mutator", "validator"} => req.scope = 1
           /\ Honest =>
                /\ req.stage # "denied"
                /\ req.stage \in {"mutating", "validating"} =>
                      /\ IsManaged(cache, n)
                      /\ \A s \in Scopes : s < req.scope =>
                            req.layers[s] = Layer(cache, s, req.obj, n)
                /\ req.stage \in {"validator", "validating"} =>
                      \/ req.obj.stamps = oldStamps
                      \/ /\ IsManaged(cache, n)
                         /\ req.obj.stamps = DesiredLabels(cache, req.obj, n)

(* The handlers resolve from what Inputs names.                            *)
LEMMA InputsDecide ==
    ASSUME NEW V, NEW W, Inputs(W) = Inputs(V), NEW n \in Namespaces
    PROVE  /\ IsManaged(W, n) <=> IsManaged(V, n)
           /\ \A s, o : Layer(W, s, o, n) = Layer(V, s, o, n)
           /\ \A o : DesiredLabels(W, o, n) = DesiredLabels(V, o, n)
<1>1. W.ns = V.ns /\ W.vnet = V.vnet /\ W.cb = V.cb /\ W.nb = V.nb /\ W.bind = V.bind
  BY DEF Inputs
<1>2. \A s, o : Layer(W, s, o, n) = Layer(V, s, o, n)
  BY <1>1, LayerReads, PermitsReads
<1> QED BY <1>1, <1>2 DEF IsManaged, DesiredLabels

(* With all tiers read, the layers are what DesiredLabels reads.           *)
LEMMA ReadLayers ==
    ASSUME ATypeOK, req \in InFlight, req.scope = 4,
           \A s \in Scopes : s < req.scope =>
               req.layers[s] = Layer(cache, s, req.obj, PodNS[req.pod])
    PROVE  DesiredStamps(req.layers) = DesiredLabels(cache, req.obj, PodNS[req.pod])
<1>1. \A s \in Scopes : s < req.scope
  BY DEF Scopes, ScopeClusterBaseline, ScopeNamespaceBaseline, ScopePod
<1>2. req.layers = [s \in Scopes |-> Layer(cache, s, req.obj, PodNS[req.pod])]
  BY <1>1 DEF InFlight
<1> QED BY <1>2 DEF DesiredLabels

(* A request that waits: it is honest only if its inputs stay.             *)
LEMMA WaitingAgrees ==
    ASSUME ATypeOK, ATypeOK', HandlersAgree,
           \/ req' = req /\ Inputs(cache') = Inputs(cache)
           \/ Meanwhile
    PROVE  HandlersAgree'
<1>1. CASE req = NoReq
  BY <1>1 DEF Meanwhile, HandlersAgree
<1>2. CASE req # NoReq
  <2>1. req \in InFlight
    BY <1>2 DEF ATypeOK, Reqs
  <2>2. /\ req'.stage = req.stage /\ req'.pod = req.pod /\ req'.old = req.old
        /\ req'.asked = req.asked /\ req'.obj = req.obj /\ req'.scope = req.scope
        /\ req'.layers = req.layers /\ req'.failed = req.failed
        /\ ~req'.moved => ~req.moved /\ Inputs(cache') = Inputs(cache)
    BY <1>2, <2>1 DEF Meanwhile, InFlight
  <2>3. oldStamps' = oldStamps
    BY <2>2 DEF oldStamps
  <2>4. Honest' => Honest /\ Inputs(cache') = Inputs(cache)
    BY <2>2, <2>3 DEF Honest
  <2> DEFINE n == PodNS[req.pod]
  <2>5. n \in Namespaces
    BY <2>1, NamesAssumption DEF InFlight
  <2>6. Honest' =>
          /\ IsManaged(cache', n) <=> IsManaged(cache, n)
          /\ \A s, o : Layer(cache', s, o, n) = Layer(cache, s, o, n)
          /\ \A o : DesiredLabels(cache', o, n) = DesiredLabels(cache, o, n)
    BY <2>4, <2>5, InputsDecide
  <2> QED BY <1>2, <2>2, <2>3, <2>4, <2>6 DEF HandlersAgree
<1> QED BY <1>1, <1>2

(* A webhook's failure: the mutator's leaves the request as submitted.     *)
LEMMA FailureAgrees ==
    ASSUME ATypeOK, HandlersAgree, req' = afterFailure(req)
    PROVE  HandlersAgree'
<1>1. CASE req = NoReq
  BY <1>1 DEF afterFailure, NoReq, HandlersAgree
<1>2. CASE req # NoReq
  <2>1. req \in InFlight
    BY <1>2 DEF ATypeOK, Reqs
  <2>2. CASE req.stage \in {"mutator", "mutating"}
    <3>1. /\ req'.stage = "validator" /\ req'.scope = 1 /\ req'.old = req.old
          /\ req'.asked = req.asked /\ req'.obj = req.obj
      BY <2>1, <2>2 DEF afterFailure, InFlight
    <3>2. req.obj = req.asked
      BY <1>2, <2>2 DEF HandlersAgree
    <3>3. oldStamps' = oldStamps
      BY <3>1 DEF oldStamps
    <3> QED BY <3>1, <3>2, <3>3 DEF HandlersAgree, Honest
  <2>3. CASE req.stage \in {"validator", "validating"}
    <3>1. req'.stage = "denied" /\ req'.failed
      BY <2>1, <2>3 DEF afterFailure, InFlight
    <3> QED BY <3>1 DEF HandlersAgree, Honest
  <2>4. CASE req.stage \in {"store", "denied"}
    <3>1. req' = req
      BY <2>4 DEF afterFailure
    <3> QED BY <1>2, <2>4, <3>1 DEF HandlersAgree, Honest, oldStamps
  <2> QED BY <2>1, <2>2, <2>3, <2>4 DEF InFlight
<1> QED BY <1>1, <1>2

(* The mutator stamps an honest request with what it read.                 *)
LEMMA MutateAgrees == ASSUME ATypeOK, HandlersAgree, Mutate PROVE HandlersAgree'
<1> DEFINE n == PodNS[req.pod]
           d == DesiredStamps(req.layers)
           o == MarkResolved(SyncUntouched(req.obj, d))
<1>1. req \in InFlight /\ req # NoReq /\ cache' = cache
  BY AtStage DEF Mutate, vars
<1>2. req' = [req EXCEPT !.stage = "validator", !.scope = 1, !.layers = NoLayers, !.obj = o]
  BY DEF Mutate
<1>3. o \in PodObj
  BY <1>1, MutatedType, DesiredStampsType DEF InFlight
<1>4. /\ req'.stage = "validator" /\ req'.scope = 1 /\ req'.old = req.old /\ req'.pod = req.pod
      /\ req'.asked = req.asked /\ req'.obj = o /\ req'.moved = req.moved
      /\ req'.failed = req.failed
  <2> HIDE DEF o
  <2> QED BY <1>1, <1>2 DEF InFlight
<1>5. oldStamps' = oldStamps
  BY <1>4 DEF oldStamps
<1>6. Honest' => Honest
  BY <1>4, <1>5 DEF Honest
<1>7. ASSUME Honest PROVE IsManaged(cache, n) /\ o.stamps = DesiredLabels(cache, o, n)
  <2>1. /\ IsManaged(cache, n) /\ req.obj = req.asked
        /\ \A s \in Scopes : s < req.scope => req.layers[s] = Layer(cache, s, req.obj, n)
    BY <1>1, <1>7 DEF HandlersAgree, Mutate
  <2>2. d = DesiredLabels(cache, req.obj, n)
    BY <1>1, <2>1, ReadLayers DEF Mutate
  <2>3. d \in Stamps /\ req.obj \in PodObj
    BY <1>1, DesiredStampsType DEF InFlight
  <2>4. \A k \in Keys : untouched(req.obj.stamps, k)
    BY <1>7, <2>1 DEF Honest, untouched
  <2>5. o.stamps = d /\ o.labels = req.obj.labels /\ o.joins = req.obj.joins
    <3> HIDE DEF d
    <3> QED BY <2>3, <2>4 DEF MarkResolved, SyncUntouched, PodObj, Stamps
  <2>6. \A s : Layer(cache, s, o, n) = Layer(cache, s, req.obj, n)
    BY <2>5, LayerReadsLabels
  <2>7. DesiredLabels(cache, o, n) = DesiredLabels(cache, req.obj, n)
    BY <2>6 DEF DesiredLabels
  <2> QED BY <2>1, <2>2, <2>5, <2>7
<1> QED
  <2> HIDE DEF o, d
  <2> QED BY <1>1, <1>4, <1>6, <1>7 DEF HandlersAgree

(* The validator finds what the mutator found.                             *)
LEMMA ValidatorAgrees == ASSUME ATypeOK, HandlersAgree, Validate \/ Judge PROVE HandlersAgree'
<1> DEFINE n == PodNS[req.pod]
<1>1. req \in InFlight /\ req # NoReq /\ cache' = cache
  BY AtStage DEF Validate, Judge, vars
<1>2. /\ req'.old = req.old /\ req'.pod = req.pod /\ req'.asked = req.asked
      /\ req'.obj = req.obj /\ req'.scope = req.scope /\ req'.layers = req.layers
      /\ req'.moved = req.moved /\ req'.failed = req.failed
      /\ req'.stage \in {"validating", "store", "denied"}
  BY <1>1 DEF Validate, Judge, verdict, InFlight
<1>3. oldStamps' = oldStamps /\ (Honest' => Honest)
  BY <1>2 DEF oldStamps, Honest
<1>4. req.obj.stamps = oldStamps => touched = {}
  BY DEF touched, untouched
<1>5. CASE Validate
  <2>1. ASSUME req'.stage = "denied" PROVE ~Honest
    <3>1. ~IsManaged(cache, n) /\ touched # {}
      BY <1>1, <1>5, <2>1 DEF Validate, InFlight
    <3> QED BY <1>1, <1>4, <1>5, <3>1 DEF Validate, HandlersAgree
  <2>2. ASSUME req'.stage = "validating" PROVE IsManaged(cache, n)
    BY <1>1, <1>5, <2>2 DEF Validate, verdict, InFlight
  <2>3. req.scope = 1 /\ req.stage = "validator"
    BY <1>1, <1>5 DEF Validate, HandlersAgree
  <2>4. \A s \in Scopes : ~(s < 1)
    BY DEF Scopes, ScopeClusterBaseline, ScopeNamespaceBaseline, ScopePod
  <2> QED BY <1>1, <1>2, <1>3, <2>1, <2>2, <2>3, <2>4 DEF HandlersAgree
<1>6. CASE Judge
  <2>1. req'.stage = IF bad(DesiredStamps(req.layers)) = {} THEN "store" ELSE "denied"
    BY <1>1, <1>6 DEF Judge, verdict, InFlight
  <2>2. ASSUME Honest PROVE bad(DesiredStamps(req.layers)) = {}
    <3>1. DesiredStamps(req.layers) = DesiredLabels(cache, req.obj, n)
      BY <1>1, <1>6, <2>2, ReadLayers DEF Judge, HandlersAgree
    <3>2. req.obj.stamps = oldStamps \/ req.obj.stamps = DesiredStamps(req.layers)
      BY <1>1, <1>6, <2>2, <3>1 DEF Judge, HandlersAgree
    <3> QED BY <1>4, <3>2 DEF bad
  <2> QED BY <1>2, <1>3, <2>1, <2>2 DEF HandlersAgree
<1> QED BY <1>5, <1>6

(* Reading the namespace or a tier: the caches are read now.               *)
LEMMA ReadingAgrees ==
    ASSUME ATypeOK, HandlersAgree, namespaceManaged \/ \E s \in Scopes : ReadTierFor(s)
    PROVE  HandlersAgree'
<1> DEFINE n == PodNS[req.pod]
<1>1. req \in InFlight /\ req # NoReq /\ cache' = cache
  BY AtStage DEF namespaceManaged, ReadTierFor, vars
<1>2. /\ req'.old = req.old /\ req'.pod = req.pod /\ req'.asked = req.asked
      /\ req'.obj = req.obj /\ req'.moved = req.moved /\ req'.failed = req.failed
  BY <1>1 DEF namespaceManaged, ReadTierFor, InFlight
<1>3. oldStamps' = oldStamps /\ (Honest' => Honest)
  BY <1>2 DEF oldStamps, Honest
<1>4. CASE namespaceManaged
  <2>1. /\ req'.stage = IF IsManaged(cache, n) THEN "mutating" ELSE "validator"
        /\ req'.scope = req.scope
    BY <1>1, <1>4 DEF namespaceManaged, InFlight
  <2>2. req.scope = 1 /\ req.obj = req.asked
    BY <1>1, <1>4 DEF namespaceManaged, HandlersAgree
  <2>3. \A s \in Scopes : ~(s < 1)
    BY DEF Scopes, ScopeClusterBaseline, ScopeNamespaceBaseline, ScopePod
  <2> QED BY <1>1, <1>2, <1>3, <2>1, <2>2, <2>3 DEF HandlersAgree, Honest
<1>5. ASSUME NEW s \in Scopes, ReadTierFor(s) PROVE HandlersAgree'
  <2>1. req.scope = s /\ req.stage \in {"mutating", "validating"}
    BY <1>5 DEF ReadTierFor
  <2>2. /\ req'.stage = req.stage /\ req'.scope = s + 1
        /\ req'.layers = [req.layers EXCEPT ![s] = Layer(cache, s, req.obj, n)]
    BY <1>1, <1>5 DEF ReadTierFor, InFlight
  <2>3. req.layers \in [Scopes -> SUBSET (Keys \X Directions)]
    BY <1>1 DEF InFlight
  <2>4. \A t \in Scopes : t < s + 1 => t = s \/ t < s
    BY DEF Scopes, ScopeClusterBaseline, ScopeNamespaceBaseline, ScopePod
  <2>5. ASSUME \A t \in Scopes : t < req.scope => req.layers[t] = Layer(cache, t, req.obj, n)
        PROVE  \A t \in Scopes : t < s + 1 => req'.layers[t] = Layer(cache, t, req.obj, n)
    BY <2>1, <2>2, <2>3, <2>4, <2>5
  <2> QED BY <1>1, <1>2, <1>3, <2>1, <2>2, <2>5 DEF HandlersAgree
<1> QED BY <1>4, <1>5

(* Every step keeps the handlers in agreement.                             *)
LEMMA AgreeStep == ASSUME ATypeOK, ATypeOK', HandlersAgree, [ANext]_allVars PROVE HandlersAgree'
<1>1. CASE Meanwhile
  BY <1>1, WaitingAgrees
<1>2. CASE req' = afterFailure(req)
  BY <1>2, FailureAgrees
<1>3. ASSUME NEW p \in Pods, SeePod(p) PROVE HandlersAgree'
  <2>1. req' = req /\ Inputs(cache') = Inputs(cache)
    BY <1>3 DEF SeePod, Inputs, ATypeOK, TypeOK, Views
  <2> QED BY <2>1, WaitingAgrees
<1>4. ASSUME NEW p \in Pods, Submit(p) PROVE HandlersAgree'
  <2>1. req'.stage = "mutator" /\ req'.obj = req'.asked /\ req'.scope = 1
    BY <1>4 DEF Submit
  <2> QED BY <2>1 DEF HandlersAgree
<1>5. CASE req' = NoReq
  BY <1>5 DEF HandlersAgree
<1>6. CASE UNCHANGED allVars
  BY <1>6, WaitingAgrees DEF allVars, vars
<1> QED
  BY <1>1, <1>2, <1>3, <1>4, <1>5, <1>6, MutateAgrees, ValidatorAgrees, ReadingAgrees
     DEF ANext, Store, Refused, WebhookFails

(* A request that leaves the stamps alone is denied only if the validator  *)
(* failed or the caches moved while it was handled.                        *)
THEOREM HonestRequestsArePassed == ASpec => []HonestRequestsPass
<1>1. AInit => HandlersAgree
  BY DEF AInit, HandlersAgree
<1>2. ATypeOK /\ HandlersAgree => HonestRequestsPass
  BY DEF HandlersAgree, Honest, HonestRequestsPass, NoReq
<1> QED BY <1>1, <1>2, AgreeStep, AdmissionTypeCorrect, PTL DEF ASpec

-----------------------------------------------------------------------------
(* No stamp is forged.                                                     *)

(* The vnets and namespaces are the users' or were there at the start.     *)
OfUsers(view) ==
    /\ \A v \in Vnets : view.vnet[v] \in VnetValues[v] \cup {c.vnet[v] : c \in InitApis}
    /\ \A n \in Namespaces : view.ns[n] \in NsValues[n] \cup {c.ns[n] : c \in InitApis}

StampsGrantable(stamps, n) == \A k \in Keys : stamps[k] # "none" => Grantable(k, n)

RulesGrantable(layers, n) == \A s \in Scopes : \A r \in layers[s] : Grantable(r[1], n)

(* A request from which no other stamp will come.                          *)
RequestGrantable(r) ==
    LET n == PodNS[r.pod]
    IN /\ RulesGrantable(r.layers, n)
       /\ r.old.present => StampsGrantable(r.old.stamps, n)
       /\ r.stage = "store" => StampsGrantable(r.obj.stamps, n)

(* All that stamps are made of was granted.                                *)
SourcesAreGrantable ==
    /\ OfUsers(api) /\ OfUsers(cache)
    /\ job # Idle => RulesGrantable(job.layers, PodNS[job.pod])
    /\ req # NoReq => RequestGrantable(req)

(* A vnet that permits n under such a view could be made to.               *)
LEMMA PermitsGrantable ==
    ASSUME NEW view, OfUsers(view), NEW n \in Namespaces, NEW k, Permits(view, k, n)
    PROVE  Grantable(k, n)
BY DEF OfUsers, Permits, PermitsForVnet, matchesAllowedNamespaces, Grantable

(* So could the vnets of all rules that pass filterPermittedRules.         *)
LEMMA LayerGrantable ==
    ASSUME NEW view, OfUsers(view), NEW n \in Namespaces, NEW s, NEW o,
           NEW r \in Layer(view, s, o, n)
    PROVE  Grantable(r[1], n)
<1>1. PICK q : r = <<stampedVnetKey(q[1]), q[2]>> /\ Permits(view, q[1], n)
  BY DEF Layer, filterPermittedRules
<1>2. Permits(view, r[1], n)
  BY <1>1 DEF stampedVnetKey, Permits
<1> QED BY <1>2, PermitsGrantable

(* And of the stamps that come of them.                                    *)
LEMMA DesiredGrantable ==
    ASSUME NEW layers, NEW n, RulesGrantable(layers, n)
    PROVE  StampsGrantable(DesiredStamps(layers), n)
<1> SUFFICES ASSUME NEW k \in Keys, DesiredStamps(layers)[k] # "none" PROVE Grantable(k, n)
  BY DEF StampsGrantable
<1> DEFINE L == AskedFor(layers, k)
<1>1. EffectiveDirection(L) # "none"
  BY DEF DesiredStamps
<1>2. PICK s \in Scopes : L[s] # {}
  BY <1>1 DEF EffectiveDirection, Speaking
<1>3. PICK r \in layers[s] : r[1] = k
  BY <1>2 DEF AskedFor
<1> QED BY <1>3 DEF RulesGrantable

(* The API server's vnets and namespaces, and the caches', stay such.      *)
LEMMA UsersStep ==
    ASSUME ATypeOK, OfUsers(api), OfUsers(cache), [ANext]_allVars
    PROVE  OfUsers(api)' /\ OfUsers(cache)'
<1> USE DEF ATypeOK, TypeOK
<1>1. CASE OtherEdit
  <2>1. cache' = cache
    BY <1>1 DEF OtherEdit, EditNamespace, EditBaseline, EditVnet, EditClusterBaseline,
       EditBinding, DeletePod, Edit
  <2>2. ASSUME NEW n \in Namespaces, EditNamespace(n) PROVE OfUsers(api')
    <3>1. PICK o \in NsValues[n] : api' = [api EXCEPT !.ns[n] = o]
      BY <2>2 DEF EditNamespace, Edit
    <3>2. /\ api'.vnet = api.vnet /\ api'.ns[n] = o
          /\ \A m \in Namespaces : m # n => api'.ns[m] = api.ns[m]
      BY <3>1 DEF Views
    <3> QED BY <3>2 DEF OfUsers
  <2>3. ASSUME NEW v \in Vnets, EditVnet(v) PROVE OfUsers(api')
    <3>1. PICK o \in VnetValues[v] : api' = [api EXCEPT !.vnet[v] = o]
      BY <2>3 DEF EditVnet, Edit
    <3>2. /\ api'.ns = api.ns /\ api'.vnet[v] = o
          /\ \A w \in Vnets : w # v => api'.vnet[w] = api.vnet[w]
      BY <3>1 DEF Views
    <3> QED BY <3>2 DEF OfUsers
  <2>4. ASSUME \/ \E n \in Namespaces : EditBaseline(n)
               \/ EditClusterBaseline
               \/ \E b \in Bindings : EditBinding(b)
               \/ \E p \in Pods : DeletePod(p)
        PROVE  OfUsers(api')
    <3>1. api'.ns = api.ns /\ api'.vnet = api.vnet
      BY <2>4 DEF EditBaseline, EditClusterBaseline, EditBinding, DeletePod, Edit, Views
    <3> QED BY <3>1 DEF OfUsers
  <2>5. OfUsers(api')
    BY <1>1, <2>2, <2>3, <2>4 DEF OtherEdit
  <2> QED BY <2>1, <2>5 DEF OfUsers
<1>2. ASSUME api' = api, cache' = cache PROVE OfUsers(api)' /\ OfUsers(cache)'
  BY <1>2 DEF OfUsers
<1>3. ASSUME api'.ns = api.ns, api'.vnet = api.vnet, cache' = cache
      PROVE  OfUsers(api)' /\ OfUsers(cache)'
  BY <1>3 DEF OfUsers
<1>4. ASSUME api' = api,
             \A n \in Namespaces : cache'.ns[n] \in {cache.ns[n], api.ns[n]},
             \A v \in Vnets : cache'.vnet[v] \in {cache.vnet[v], api.vnet[v]}
      PROVE  OfUsers(api)' /\ OfUsers(cache)'
  BY <1>4 DEF OfUsers
<1>5. CASE DeliverInput \/ \E p \in Pods : SeePod(p)
  <2>1. \A n \in Namespaces : cache'.ns[n] \in {cache.ns[n], api.ns[n]}
    BY <1>5 DEF DeliverInput, DeliverNamespace, DeliverBaseline, DeliverVnet,
       DeliverClusterBaseline, DeliverBinding, SeePod, Views
  <2>2. \A v \in Vnets : cache'.vnet[v] \in {cache.vnet[v], api.vnet[v]}
    BY <1>5 DEF DeliverInput, DeliverNamespace, DeliverBaseline, DeliverVnet,
       DeliverClusterBaseline, DeliverBinding, SeePod, Views
  <2>3. api' = api
    BY <1>5 DEF DeliverInput, DeliverNamespace, DeliverBaseline, DeliverVnet,
       DeliverClusterBaseline, DeliverBinding, SeePod
  <2> QED BY <1>4, <2>1, <2>2, <2>3
<1>6. CASE Handle \/ ReconcileError
  BY <1>2, <1>6 DEF Handle, HandlePod, HandleNamespace, HandleBaseline, HandleBinding, HandleVnet,
     HandleClusterBaseline, ReconcileError
<1>7. CASE Reconcile
  <2>1. cache' = cache
    BY <1>7 DEF Reconcile, Begin, ReadNamespace, ReadTiers, ReadTier, applyResolution,
       stripStampedLabels
  <2>2. api'.ns = api.ns /\ api'.vnet = api.vnet
    BY <1>7 DEF Reconcile, Begin, ReadNamespace, ReadTiers, ReadTier, applyResolution,
       stripStampedLabels, Patch, Views
  <2> QED BY <1>3, <2>1, <2>2
<1>8. CASE Restart
  BY <1>4, <1>8 DEF Restart
<1>9. CASE Store
  <2>1. api'.ns = api.ns /\ api'.vnet = api.vnet
    BY <1>9 DEF Store, Views
  <2> QED BY <1>3, <1>9, <2>1 DEF Store
<1>10. CASE \/ \E p \in Pods : Submit(p)
            \/ namespaceManaged \/ Mutate \/ Validate \/ Judge \/ Refused \/ WebhookFails
            \/ \E s \in Scopes : ReadTierFor(s)
            \/ UNCHANGED allVars
  BY <1>2, <1>10 DEF Submit, namespaceManaged, Mutate, Validate, Judge, Refused, WebhookFails,
     ReadTierFor, allVars, vars
<1> QED BY <1>1, <1>5, <1>6, <1>7, <1>8, <1>9, <1>10 DEF ANext

(* The worker reads and writes only what is grantable.                     *)
LEMMA WorkerGrantable ==
    ASSUME ATypeOK, OfUsers(cache), job # Idle => RulesGrantable(job.layers, PodNS[job.pod]),
           NoForgedStamps, Reconcile
    PROVE  /\ (job # Idle => RulesGrantable(job.layers, PodNS[job.pod]))'
           /\ NoForgedStamps'
<1> USE DEF ATypeOK, TypeOK
<1>1. \A n : RulesGrantable(NoLayers, n)
  BY DEF RulesGrantable, NoLayers
<1>2. ASSUME NEW p \in Pods, Begin(p)
      PROVE  api' = api /\ (job' # Idle => RulesGrantable(job'.layers, PodNS[job'.pod]))
  BY <1>1, <1>2 DEF Begin
<1>3. ASSUME ReadNamespace
      PROVE  api' = api /\ (job' # Idle => RulesGrantable(job'.layers, PodNS[job'.pod]))
  <2>1. job # Idle
    BY <1>3 DEF ReadNamespace, Idle
  <2>2. job' = Idle \/ (job'.layers = job.layers /\ job'.pod = job.pod)
    BY <1>3, <2>1 DEF ReadNamespace, Jobs
  <2> QED BY <1>3, <2>1, <2>2 DEF ReadNamespace
<1>4. ASSUME NEW at, NEW s \in Scopes, NEW next, ReadTier(at, s, next), at \in Stages
      PROVE  api' = api /\ (job' # Idle => RulesGrantable(job'.layers, PodNS[job'.pod]))
  <2>1. job # Idle
    BY <1>4 DEF ReadTier, Idle, Stages
  <2>2. /\ job \in [pc : Stages, pod : Pods, base : PodObj,
                     layers : [Scopes -> SUBSET (Keys \X Directions)]]
        /\ PodNS[job.pod] \in Namespaces
    BY <2>1, NamesAssumption DEF Jobs
  <2>3. /\ job'.pod = job.pod
        /\ job'.layers = [job.layers EXCEPT ![s] = Layer(cache, s, job.base, PodNS[job.pod])]
    BY <1>4, <2>2 DEF ReadTier
  <2>4. \A r \in Layer(cache, s, job.base, PodNS[job.pod]) : Grantable(r[1], PodNS[job.pod])
    BY <2>2, LayerGrantable
  <2>5. RulesGrantable(job'.layers, PodNS[job.pod])
    BY <2>1, <2>2, <2>3, <2>4 DEF RulesGrantable
  <2> QED BY <1>4, <2>3, <2>5 DEF ReadTier
<1>5. ASSUME NEW new \in PodObj, Patch(new), job # Idle, StampsGrantable(new.stamps, PodNS[job.pod])
      PROVE  NoForgedStamps'
  <2>1. job.pod \in Pods /\ api.pod[job.pod] \in PodObj /\ api \in Views
    BY <1>5 DEF Jobs, Views
  <2>2. CASE ~api.pod[job.pod].present
    BY <1>5, <2>2 DEF Patch, NoForgedStamps
  <2>3. CASE api.pod[job.pod].present
    <3>1. /\ api'.pod[job.pod] = MergePatch(api.pod[job.pod], job.base, new)
          /\ \A q \in Pods : q # job.pod => api'.pod[q] = api.pod[q]
      BY <1>5, <2>1, <2>3 DEF Patch, Views
    <3>2. \A k \in Keys : api'.pod[job.pod].stamps[k] \in {new.stamps[k], api.pod[job.pod].stamps[k]}
      BY <2>1, <3>1 DEF MergePatch, PodObj
    <3> QED BY <1>5, <2>1, <2>3, <3>1, <3>2 DEF NoForgedStamps, StampsGrantable
  <2> QED BY <2>2, <2>3
<1>6. ASSUME applyResolution PROVE NoForgedStamps' /\ job' = Idle
  <2> DEFINE d == DesiredStamps(job.layers)
             new == MarkResolved(SyncStamps(job.base, d))
  <2>1. job # Idle /\ job.base \in PodObj /\ job' = Idle
    BY <1>6 DEF applyResolution, Idle, Jobs
  <2>2. d \in Stamps
    BY DesiredStampsType
  <2>3. new \in PodObj /\ new.stamps = d
    <3> HIDE DEF d
    <3> QED BY <2>1, <2>2 DEF MarkResolved, SyncStamps, PodObj
  <2>4. StampsGrantable(new.stamps, PodNS[job.pod])
    BY <2>1, <2>3, DesiredGrantable
  <2>5. api' = api \/ Patch(new)
    BY <1>6 DEF applyResolution
  <2> HIDE DEF new
  <2> QED BY <1>5, <2>1, <2>3, <2>4, <2>5 DEF NoForgedStamps
<1>7. ASSUME stripStampedLabels PROVE NoForgedStamps' /\ job' = Idle
  <2> DEFINE new == [SyncStamps(job.base, NoStamps) EXCEPT !.resolved = FALSE]
  <2>1. job # Idle /\ job.base \in PodObj /\ job' = Idle
    BY <1>7 DEF stripStampedLabels, Idle, Jobs
  <2>2. NoStamps \in Stamps
    BY DEF NoStamps, Stamps, BareDirections
  <2>3. new \in PodObj /\ new.stamps = NoStamps
    BY <2>1, <2>2 DEF SyncStamps, PodObj
  <2>4. StampsGrantable(new.stamps, PodNS[job.pod])
    BY <2>3 DEF StampsGrantable, NoStamps
  <2>5. api' = api \/ Patch(new)
    BY <1>7 DEF stripStampedLabels
  <2> HIDE DEF new
  <2> QED BY <1>5, <2>1, <2>3, <2>4, <2>5 DEF NoForgedStamps
<1>8. ASSUME ReadTiers
      PROVE  api' = api /\ (job' # Idle => RulesGrantable(job'.layers, PodNS[job'.pod]))
  BY <1>4, <1>8 DEF ReadTiers, Stages, Scopes
<1> QED BY <1>2, <1>3, <1>6, <1>7, <1>8 DEF Reconcile, NoForgedStamps

(* No handler lets a stamp through that is not grantable.                  *)
LEMMA RequestStep ==
    ASSUME ATypeOK, OfUsers(cache), NoForgedStamps,
           req # NoReq => RequestGrantable(req), [ANext]_allVars
    PROVE  req' # NoReq => RequestGrantable(req')
<1>0. \A n : RulesGrantable(NoLayers, n)
  BY DEF RulesGrantable, NoLayers
<1>1. ASSUME NEW p \in Pods, Submit(p) PROVE RequestGrantable(req')
  <2>1. /\ req'.stage = "mutator" /\ req'.pod = p /\ req'.old = api.pod[p]
        /\ req'.layers = NoLayers
    BY <1>1 DEF Submit
  <2> QED BY <1>0, <2>1 DEF RequestGrantable, NoForgedStamps, StampsGrantable
<1>2. CASE req = NoReq
  BY <1>1, <1>2 DEF ANext, Meanwhile, afterFailure, SeePod, namespaceManaged, Mutate, Validate,
     Judge, Store, Refused, WebhookFails, ReadTierFor, allVars, NoReq
<1>3. CASE req # NoReq
  <2> DEFINE n == PodNS[req.pod]
  <2>1. req \in InFlight
    BY <1>3 DEF ATypeOK, Reqs
  <2>2. n \in Namespaces
    BY <2>1, NamesAssumption DEF InFlight
  <2>3. /\ RulesGrantable(req.layers, n)
        /\ req.old.present => StampsGrantable(req.old.stamps, n)
        /\ req.stage = "store" => StampsGrantable(req.obj.stamps, n)
    BY <1>3 DEF RequestGrantable
  <2>4. ASSUME Meanwhile PROVE RequestGrantable(req')
    <3>1. /\ req'.stage = req.stage /\ req'.pod = req.pod /\ req'.old = req.old
          /\ req'.obj = req.obj /\ req'.layers = req.layers
      BY <1>3, <2>1, <2>4 DEF Meanwhile, InFlight
    <3> QED BY <2>3, <3>1 DEF RequestGrantable
  <2>5. ASSUME req' = afterFailure(req) PROVE RequestGrantable(req')
    <3>1. /\ req'.pod = req.pod /\ req'.old = req.old /\ req'.obj = req.obj
          /\ req'.layers \in {req.layers, NoLayers}
          /\ req'.stage = "store" => req.stage = "store"
      BY <2>1, <2>5 DEF afterFailure, InFlight
    <3> QED BY <1>0, <2>3, <3>1 DEF RequestGrantable
  <2>6. ASSUME namespaceManaged PROVE RequestGrantable(req')
    <3>1. /\ req'.stage # "store" /\ req'.pod = req.pod /\ req'.old = req.old
          /\ req'.layers = req.layers
      BY <2>1, <2>6 DEF namespaceManaged, InFlight
    <3> QED BY <2>3, <3>1 DEF RequestGrantable
  <2>7. ASSUME Mutate PROVE RequestGrantable(req')
    <3>1. /\ req'.stage = "validator" /\ req'.pod = req.pod /\ req'.old = req.old
          /\ req'.layers = NoLayers
      BY <2>1, <2>7 DEF Mutate, InFlight
    <3> QED BY <1>0, <2>3, <3>1 DEF RequestGrantable
  <2>8. ASSUME NEW s \in Scopes, ReadTierFor(s) PROVE RequestGrantable(req')
    <3>1. /\ req'.stage = req.stage /\ req'.pod = req.pod /\ req'.old = req.old
          /\ req'.obj = req.obj
          /\ req'.layers = [req.layers EXCEPT ![s] = Layer(cache, s, req.obj, n)]
      BY <2>1, <2>8 DEF ReadTierFor, InFlight
    <3>2. req.layers \in [Scopes -> SUBSET (Keys \X Directions)]
      BY <2>1 DEF InFlight
    <3>3. \A r \in Layer(cache, s, req.obj, n) : Grantable(r[1], n)
      BY <2>2, LayerGrantable
    <3>4. RulesGrantable(req'.layers, n)
      BY <2>3, <3>1, <3>2, <3>3 DEF RulesGrantable
    <3> QED BY <2>3, <3>1, <3>4 DEF RequestGrantable
  <2>9. ASSUME NEW d, StampsGrantable(d, n), bad(d) = {} PROVE StampsGrantable(req.obj.stamps, n)
    <3>1. StampsGrantable(oldStamps, n)
      BY <2>3 DEF oldStamps, StampsGrantable, NoStamps
    <3>2. \A k \in Keys : req.obj.stamps[k] = oldStamps[k] \/ req.obj.stamps[k] = d[k]
      BY <2>9 DEF bad, touched, untouched
    <3> QED BY <2>9, <3>1, <3>2 DEF StampsGrantable
  <2>10. ASSUME Validate \/ Judge PROVE RequestGrantable(req')
    <3>1. /\ req'.pod = req.pod /\ req'.old = req.old /\ req'.obj = req.obj
          /\ req'.layers = req.layers
      BY <2>1, <2>10 DEF Validate, Judge, verdict, InFlight
    <3>2. StampsGrantable(NoStamps, n) /\ StampsGrantable(DesiredStamps(req.layers), n)
      BY <2>3, DesiredGrantable DEF StampsGrantable, NoStamps
    <3>3. ASSUME req'.stage = "store" PROVE \E d : StampsGrantable(d, n) /\ bad(d) = {}
      <4>1. CASE touched = {}
        BY <3>2, <4>1 DEF bad
      <4>2. CASE touched # {} /\ Validate
        BY <2>1, <3>2, <3>3, <4>2 DEF Validate, verdict, InFlight
      <4>3. CASE Judge
        BY <2>1, <3>2, <3>3, <4>3 DEF Judge, verdict, InFlight
      <4> QED BY <2>10, <4>1, <4>2, <4>3
    <3> QED BY <2>3, <2>9, <3>1, <3>3 DEF RequestGrantable
  <2>11. ASSUME req' = req PROVE RequestGrantable(req')
    BY <1>3, <2>11
  <2> QED BY <1>1, <2>4, <2>5, <2>6, <2>7, <2>8, <2>10, <2>11
          DEF ANext, SeePod, Store, Refused, WebhookFails, allVars
<1> QED BY <1>2, <1>3

(* The pods' stamps, and the rules the worker holds, stay grantable.       *)
LEMMA StampStep ==
    ASSUME ATypeOK, SourcesAreGrantable, NoForgedStamps, [ANext]_allVars
    PROVE  /\ (job # Idle => RulesGrantable(job.layers, PodNS[job.pod]))'
           /\ NoForgedStamps'
<1> USE DEF SourcesAreGrantable
<1>1. CASE Reconcile
  BY <1>1, WorkerGrantable
<1>2. ASSUME job' \in {job, Idle}, api'.pod = api.pod
      PROVE  /\ (job # Idle => RulesGrantable(job.layers, PodNS[job.pod]))'
             /\ NoForgedStamps'
  BY <1>2 DEF NoForgedStamps
<1>3. CASE Store
  <2>1. job' = job
    BY <1>3 DEF Store
  <2>2. req \in InFlight /\ req # NoReq /\ req.stage = "store"
    BY <1>3, AtStage DEF Store
  <2>3. StampsGrantable(req.obj.stamps, PodNS[req.pod]) /\ req.pod \in Pods
    BY <2>2 DEF InFlight, RequestGrantable
  <2>4. \A p \in Pods : api'.pod[p] = api.pod[p] \/ (p = req.pod /\ api'.pod[p] = req.obj)
    BY <1>3, <2>3 DEF Store, ATypeOK, TypeOK, Views
  <2> QED BY <2>1, <2>3, <2>4 DEF NoForgedStamps, StampsGrantable
<1>4. CASE OtherEdit
  <2>1. job' = job
    BY <1>4 DEF OtherEdit, EditNamespace, EditBaseline, EditVnet, EditClusterBaseline,
       EditBinding, DeletePod, Edit
  <2>2. ASSUME NEW p \in Pods, DeletePod(p) PROVE NoForgedStamps'
    <3>1. api.pod[p] \in PodObj /\ api \in Views
      BY DEF ATypeOK, TypeOK, Views
    <3>2. /\ \A q \in Pods : q # p => api'.pod[q] = api.pod[q]
          /\ api'.pod[p].stamps = api.pod[p].stamps
      BY <2>2, <3>1 DEF DeletePod, Edit, Views, PodObj
    <3> QED BY <2>2, <3>2 DEF NoForgedStamps, DeletePod
  <2>3. ASSUME \/ \E n \in Namespaces : EditNamespace(n) \/ EditBaseline(n)
               \/ \E v \in Vnets : EditVnet(v)
               \/ EditClusterBaseline
               \/ \E b \in Bindings : EditBinding(b)
        PROVE  api'.pod = api.pod
    BY <2>3 DEF EditNamespace, EditBaseline, EditVnet, EditClusterBaseline, EditBinding, Edit,
       ATypeOK, TypeOK, Views
  <2> QED BY <1>2, <1>4, <2>1, <2>2, <2>3 DEF OtherEdit
<1>5. CASE Handle \/ DeliverInput \/ ReconcileError \/ Restart \/ \E p \in Pods : SeePod(p)
  BY <1>2, <1>5 DEF Handle, HandlePod, HandleNamespace, HandleBaseline, HandleBinding, HandleVnet,
     HandleClusterBaseline, DeliverInput, DeliverNamespace, DeliverBaseline, DeliverVnet,
     DeliverClusterBaseline, DeliverBinding, ReconcileError, Restart, SeePod
<1>6. CASE \/ \E p \in Pods : Submit(p)
           \/ namespaceManaged \/ Mutate \/ Validate \/ Judge \/ Refused \/ WebhookFails
           \/ \E s \in Scopes : ReadTierFor(s)
           \/ UNCHANGED allVars
  BY <1>2, <1>6 DEF Submit, namespaceManaged, Mutate, Validate, Judge, Refused, WebhookFails,
     ReadTierFor, allVars, vars
<1> QED BY <1>1, <1>3, <1>4, <1>5, <1>6 DEF ANext

(* A starting operator finds only grantable stamps.                        *)
LEMMA InitGrantable == ASSUME AInit PROVE SourcesAreGrantable /\ NoForgedStamps
<1>1. api \in InitApis /\ cache = api /\ job = Idle /\ req = NoReq
  BY DEF AInit, Init
<1>2. OfUsers(api)
  BY <1>1 DEF OfUsers
<1> QED BY <1>1, <1>2, StampsAssumption DEF SourcesAreGrantable, NoForgedStamps

(* validator.go: forgery stays impossible: at no moment does a pod carry a *)
(* stamp for a vnet that never admitted its namespace, whatever users      *)
(* submit and whichever webhook or reconcile fails.                        *)
THEOREM StampsAreNotForged == ASpec => []NoForgedStamps
<1> DEFINE GInv == SourcesAreGrantable /\ NoForgedStamps
<1>1. AInit => GInv
  BY InitGrantable
<1>2. ATypeOK /\ GInv /\ [ANext]_allVars => GInv'
  BY UsersStep, RequestStep, StampStep DEF SourcesAreGrantable
<1>3. GInv => NoForgedStamps
  OBVIOUS
<1> HIDE DEF GInv
<1> QED BY <1>1, <1>2, <1>3, AdmissionTypeCorrect, PTL DEF ASpec

-----------------------------------------------------------------------------
(* The network wait.                                                       *)

(* What the loop of Wait keeps between its rounds: the addresses are those *)
(* of the last lookup that found any, an acceptance comes from a node that *)
(* is programmed for good, and the loop goes on exactly while one of the   *)
(* addresses, or every address, is missing.                                *)
RoundsAreKept ==
    /\ wait.current = listed
    /\ wait.accepted \subseteq programmed
    /\ wait.pc = "released" => AllAccepted(wait)
    /\ wait.pc \in {"sleep", "expired"} => ~AllAccepted(wait)

(* The inductive invariant.                                                *)
WInv == WTypeOK /\ RoundsAreKept /\ SkippedWaitsAreReported

(* A step of the wait that leaves the clock alone.                         *)
LEMMA GoesType ==
    ASSUME WTypeOK, NEW w \in WaitState, Goes(w), listed' \in SUBSET Beacons
    PROVE  WTypeOK'
BY DEF WTypeOK, Goes, podVars, nodeVars, WaitPod, Up

(* Starting a round's dials.                                               *)
LEMMA DiallingType ==
    ASSUME WTypeOK, NEW addrs \in SUBSET Beacons
    PROVE  Dialling(addrs) \in WaitState
BY DEF Dialling, notIn, WTypeOK, WaitState

(* The initial values have their types.                                    *)
LEMMA WInitType == ASSUME WInit PROVE WTypeOK
<1>1. pod \in WaitPod
  BY DEF WInit, WaitPod
<1>2. wait \in WaitState /\ elapsed \in 0 .. MaxWait /\ changes \in 0 .. MaxChanges
  BY TicksAssumption DEF WInit, WaitState
<1>3. beacon \in [Beacons -> {"new", "up", "gone"}]
  BY DEF WInit
<1> QED BY <1>1, <1>2, <1>3 DEF WInit, WTypeOK

(* Every step keeps the types.                                             *)
LEMMA WTypeStep == ASSUME WTypeOK, [WNext]_wvars PROVE WTypeOK'
<1> USE TicksAssumption
<1>1. CASE Nodes
  BY <1>1 DEF Nodes, Join, Leave, Program, WTypeOK, podVars, waitVars, Up
<1>2. CASE Admit
  <2>1. networkWait(pod) \in WaitPod
    BY DEF networkWait, WTypeOK, WaitPod
  <2>2. pod' \in WaitPod
    BY <1>2, <2>1 DEF Admit, WTypeOK
  <2> QED BY <1>2, <2>2 DEF Admit, WTypeOK, nodeVars, waitVars
<1>3. CASE Annotate \/ ManageNamespace
  <2>1. pod' \in WaitPod
    BY <1>3 DEF Annotate, ManageNamespace, WTypeOK, WaitPod
  <2>2. managed' \in BOOLEAN
    BY <1>3 DEF Annotate, ManageNamespace, WTypeOK
  <2>3. changes' \in 0 .. MaxChanges
    BY <1>3 DEF Annotate, ManageNamespace, Change, WTypeOK
  <2> QED BY <1>3, <2>1, <2>2, <2>3
          DEF Annotate, ManageNamespace, Change, WTypeOK, nodeVars, waitVars
<1>4. CASE ReportSkipped
  BY <1>4 DEF ReportSkipped, NetworkWaitWarning, networkWaitMissing, asked, WTypeOK, WaitPod,
     nodeVars, waitVars
<1>5. CASE ResolveFails
  BY <1>5, GoesType, DiallingType DEF ResolveFails, WTypeOK, WaitState
<1>6. CASE Resolve
  BY <1>6, GoesType, DiallingType DEF Resolve, WTypeOK, Up
<1>7. ASSUME NEW b \in Beacons, Accept(b) \/ DialFails(b) PROVE WTypeOK'
  BY <1>7, GoesType DEF Accept, DialFails, WTypeOK, WaitState
<1>8. CASE Check
  BY <1>8, GoesType DEF Check, WTypeOK, WaitState
<1>9. CASE Expire \/ Again
  BY <1>9, GoesType DEF Expire, Again, WTypeOK, WaitState
<1>10. CASE Tick
  BY <1>10 DEF Tick, Passes, Expired, WTypeOK, podVars, nodeVars
<1>11. CASE StartApp
  BY <1>11 DEF StartApp, WTypeOK, nodeVars, waitVars
<1>12. CASE UNCHANGED wvars
  BY <1>12 DEF wvars, WTypeOK, podVars, nodeVars, waitVars
<1> QED BY <1>1, <1>2, <1>3, <1>4, <1>5, <1>6, <1>7, <1>8, <1>9, <1>10, <1>11, <1>12
        DEF WNext, Wait, Dials

(* Every variable keeps its type; in particular the wait's time never      *)
(* exceeds the maximum that the pod gave.                                  *)
THEOREM WaitTypeCorrect == WSpec => []WTypeOK
<1>1. WInit => WTypeOK
  BY WInitType
<1>2. WTypeOK /\ [WNext]_wvars => WTypeOK'
  BY WTypeStep
<1> QED BY <1>1, <1>2, PTL DEF WSpec

-----------------------------------------------------------------------------
(* The inductive invariant.                                                *)

(* The rounds only read what the wait itself and the programmed nodes say. *)
LEMMA RoundsRead ==
    ASSUME RoundsAreKept, UNCHANGED waitVars, programmed \subseteq programmed'
    PROVE  RoundsAreKept'
BY DEF RoundsAreKept, waitVars, AllAccepted, notIn

(* Every step keeps the rounds.                                            *)
LEMMA RoundsStep == ASSUME WTypeOK, RoundsAreKept, [WNext]_wvars PROVE RoundsAreKept'
<1>1. CASE Nodes
  BY <1>1, RoundsRead DEF Nodes, Join, Leave, Program
<1>2. CASE Admit \/ Annotate \/ ManageNamespace \/ ReportSkipped \/ StartApp
  <2>1. UNCHANGED <<programmed, waitVars>>
    BY <1>2 DEF Admit, Annotate, ManageNamespace, Change, ReportSkipped, StartApp, nodeVars
  <2> QED BY <2>1, RoundsRead
<1>3. CASE ResolveFails
  BY <1>3 DEF ResolveFails, Goes, Dialling, RoundsAreKept, nodeVars, WTypeOK, WaitState
<1>4. CASE Resolve
  BY <1>4 DEF Resolve, Goes, Dialling, RoundsAreKept, nodeVars, WTypeOK, WaitState
<1>5. ASSUME NEW b \in Beacons, Accept(b) \/ DialFails(b) PROVE RoundsAreKept'
  <2>1. CASE Accept(b)
    BY <2>1 DEF Accept, Goes, RoundsAreKept, nodeVars, WTypeOK, WaitState
  <2>2. CASE DialFails(b)
    BY <2>2 DEF DialFails, Goes, RoundsAreKept, nodeVars, WTypeOK, WaitState
  <2> QED BY <1>5, <2>1, <2>2
<1>6. CASE Check
  BY <1>6 DEF Check, Goes, RoundsAreKept, AllAccepted, notIn, nodeVars, WTypeOK, WaitState
<1>7. CASE Expire \/ Again
  BY <1>7 DEF Expire, Again, Goes, RoundsAreKept, AllAccepted, notIn, nodeVars, WTypeOK, WaitState
<1>8. CASE Tick
  BY <1>8 DEF Tick, Passes, nodeVars, RoundsAreKept, AllAccepted, notIn
<1>9. CASE UNCHANGED wvars
  BY <1>9, RoundsRead DEF wvars, nodeVars
<1> QED BY <1>1, <1>2, <1>3, <1>4, <1>5, <1>6, <1>7, <1>8, <1>9 DEF WNext, Wait, Dials

(* Every step keeps the reports: what makes a wait miss makes the pod due, *)
(* and a reconcile finds one of the reasons it was skipped for.            *)
LEMMA ReportsStep ==
    ASSUME WTypeOK, SkippedWaitsAreReported, [WNext]_wvars
    PROVE  SkippedWaitsAreReported'
<1> USE DEF SkippedWaitsAreReported
<1>1. CASE Admit
  BY <1>1 DEF Admit
<1>2. CASE Annotate \/ ManageNamespace
  BY <1>2 DEF Annotate, ManageNamespace, Change
<1>3. CASE ReportSkipped
  BY <1>3 DEF ReportSkipped, NetworkWaitWarning, networkWaitMissing
<1>4. CASE StartApp
  BY <1>4 DEF StartApp
<1>5. CASE UNCHANGED podVars
  BY <1>5 DEF podVars
<1>6. CASE Nodes \/ Wait
  BY <1>5, <1>6 DEF Nodes, Join, Leave, Program, Wait, ResolveFails, Resolve, Dials, Accept,
     DialFails, Check, Expire, Again, Tick, Passes, Goes
<1> QED BY <1>1, <1>2, <1>3, <1>4, <1>5, <1>6 DEF WNext, wvars

(* The rounds are kept and skipped waits reported in every reachable state.*)
THEOREM WaitInvariant == WSpec => []WInv
<1>1. WInit => WInv
  <2> SUFFICES ASSUME WInit PROVE RoundsAreKept /\ SkippedWaitsAreReported /\ WTypeOK
    BY DEF WInv
  <2>1. RoundsAreKept
    BY DEF WInit, RoundsAreKept, AllAccepted
  <2>2. SkippedWaitsAreReported
    BY DEF WInit, SkippedWaitsAreReported
  <2>3. WInit => WTypeOK
    BY WInitType
  <2> QED BY <2>1, <2>2, <2>3
<1>2. WInv /\ [WNext]_wvars => WInv'
  BY WTypeStep, RoundsStep, ReportsStep DEF WInv
<1> QED BY <1>1, <1>2, PTL DEF WSpec

(* networkwait.go: "once every beacon accepts, every node has" programmed  *)
(* the pod, for any number of nodes that come and go.                      *)
THEOREM ReleasedPodsAreProgrammed == WSpec => []ReleasedMeansProgrammed
<1>1. WInv => ReleasedMeansProgrammed
  BY DEF WInv, RoundsAreKept, ReleasedMeansProgrammed, AllAccepted, notIn
<1> QED BY <1>1, WaitInvariant, PTL

(* cmd/networkwait.go: a wait that ran out and names no beacon never found *)
(* any.                                                                    *)
THEOREM NeverResolvedIsSaidTruly == WSpec => []NeverResolvedIsTrue
<1>1. WInv => NeverResolvedIsTrue
  BY DEF WInv, RoundsAreKept, NeverResolvedIsTrue, AllAccepted
<1> QED BY <1>1, WaitInvariant, PTL

(* "The opt-in never fails silently".                                      *)
THEOREM NoWaitIsSkippedSilently == WSpec => []SkippedWaitsAreReported
<1>1. WInv => SkippedWaitsAreReported
  BY DEF WInv
<1> QED BY <1>1, WaitInvariant, PTL

=============================================================================
