------------------------------- MODULE Resolve -------------------------------
(***************************************************************************)
(* Resolve (resolution.go) as the loop the code runs: tier by tier, vnet   *)
(* by vnet, rule by rule, with the running value of the cascade kept       *)
(* default-tagged until the end.  The input, chosen in RInit, is the rules *)
(* of each tier already grouped by vnet, in any order: sorting by source   *)
(* only fixes the order of the reports.                                    *)
(***************************************************************************)
EXTENDS Direction, Sequences

CONSTANTS
    VnetKeys,     \* the vnet keys the rules name
    LayerInputs   \* the inputs: for each tier and vnet the directions asked for

ASSUME LayerInputsAssumption == LayerInputs \subseteq [Scopes -> [VnetKeys -> Seq(Directions)]]

VARIABLES
    input,      \* byVnet of every layer
    scope,      \* the layer of the outer loop
    todo,       \* vnets of this layer still to process
    vnet,       \* the vnet being merged
    i,          \* rules of its group already merged
    eff,        \* their running intersection
    disagree,
    anyDefault,
    anyBare,
    current,    \* per vnet: the running value and the tier it came from
    conflicts,  \* same-tier disagreements reported
    rejected,   \* overrides of a pinned value reported
    effective,  \* the result
    pc          \* "vnet", "merge" or "done"

rvars == <<input, scope, todo, vnet, i, eff, disagree, anyDefault, anyBare,
           current, conflicts, rejected, effective, pc>>

group    == <<eff, disagree, anyDefault, anyBare, i, vnet>>
reports  == <<conflicts, rejected>>

(* A map entry that is not there.                                          *)
Unset == [dir |-> "unset", from |-> 0]

Groups(s) == {v \in VnetKeys : input[s][v] # <<>>}

RInit ==
    /\ input \in LayerInputs
    /\ scope = 1
    /\ todo = Groups(1)
    /\ \E v \in VnetKeys : vnet = v
    /\ i = 0
    /\ eff = "none"
    /\ disagree = FALSE /\ anyDefault = FALSE /\ anyBare = FALSE
    /\ current = [v \in VnetKeys |-> Unset]
    /\ conflicts = {}
    /\ rejected = {}
    /\ effective = [v \in VnetKeys |-> "none"]
    /\ pc = "vnet"

(* The head of the inner loop: eff starts as rules[0].Direction.           *)
StartVnet(v) ==
    /\ pc = "vnet" /\ v \in todo
    /\ vnet' = v
    /\ todo' = todo \ {v}
    /\ i' = 1
    /\ eff' = input[scope][v][1]
    /\ disagree' = FALSE
    /\ anyDefault' = IsDefault(eff')
    /\ anyBare' = ~IsDefault(eff')
    /\ pc' = "merge"
    /\ UNCHANGED <<input, scope, current, reports, effective>>

(* Mutant: a default tag counts as a disagreement.                         *)
MergeRuleComparesTags ==
    /\ pc = "merge" /\ i < Len(input[scope][vnet])
    /\ LET r == input[scope][vnet][i + 1]
       IN /\ disagree' = (disagree \/ r # eff)
          /\ eff' = intersect(eff, r)
          /\ anyDefault' = (anyDefault \/ IsDefault(r))
          /\ anyBare' = (anyBare \/ ~IsDefault(r))
    /\ i' = i + 1
    /\ UNCHANGED <<input, scope, todo, vnet, current, reports, effective, pc>>

(* One more rule of the group.                                             *)
MergeRule ==
    /\ pc = "merge" /\ i < Len(input[scope][vnet])
    /\ LET r == input[scope][vnet][i + 1]
       IN /\ disagree' = (disagree \/ Bare(r) # Bare(eff))
          /\ eff' = intersect(eff, r)
          /\ anyDefault' = (anyDefault \/ IsDefault(r))
          /\ anyBare' = (anyBare \/ ~IsDefault(r))
    /\ i' = i + 1
    /\ UNCHANGED <<input, scope, todo, vnet, current, reports, effective, pc>>

(* The layer's value for the vnet, default-tagged again if every rule was. *)
LayerValue == IF anyDefault /\ ~anyBare THEN AsDefault(eff) ELSE eff

(* Mutant: any value of an earlier tier is treated as pinned.              *)
pinnedByAnything(existing) == existing # Unset

(* An earlier tier decided with a bare direction.                          *)
pinnedBy(existing) == existing # Unset /\ ~IsDefault(existing.dir)

(* The group is merged: report a conflict, then cascade the layer's value  *)
(* unless an earlier tier pinned the vnet.                                 *)
Cascade ==
    /\ pc = "merge" /\ i = Len(input[scope][vnet])
    /\ LET value    == LayerValue
           existing == current[vnet]
           pinned   == pinnedBy(existing)
       IN /\ conflicts' = IF disagree
                          THEN conflicts \cup {[vnet |-> vnet, scope |-> scope,
                                                dir |-> Bare(value)]}
                          ELSE conflicts
          /\ rejected' = IF pinned /\ Bare(value) # existing.dir
                         THEN rejected \cup {[vnet |-> vnet, scope |-> scope,
                                              by |-> existing.from]}
                         ELSE rejected
          /\ current' = IF pinned
                        THEN current
                        ELSE [current EXCEPT ![vnet] = [dir |-> value, from |-> scope]]
    /\ pc' = "vnet"
    /\ UNCHANGED <<input, scope, todo, group, effective>>

NextLayer ==
    /\ pc = "vnet" /\ todo = {} /\ scope < 3
    /\ scope' = scope + 1
    /\ todo' = Groups(scope + 1)
    /\ UNCHANGED <<input, group, current, reports, effective, pc>>

stripped(c) == IF c = Unset THEN "none" ELSE Bare(c.dir)

(* Strip default-* and drop none entries ("none" stands for no entry).     *)
Finish ==
    /\ pc = "vnet" /\ todo = {} /\ scope = 3
    /\ effective' = [v \in VnetKeys |-> stripped(current[v])]
    /\ pc' = "done"
    /\ UNCHANGED <<input, scope, todo, group, current, reports>>

RNext == (\E v \in VnetKeys : StartVnet(v)) \/ MergeRule \/ Cascade \/ NextLayer \/ Finish

RSpec == RInit /\ [][RNext]_rvars

-----------------------------------------------------------------------------
(* Properties.                                                             *)

(* The directions tier s asks for vnet v, as a set.                        *)
Asked(s, v) == {input[s][v][k] : k \in DOMAIN input[s][v]}

AskedByTier(v) == [s \in Scopes |-> Asked(s, v)]

(* Resolve returns, for every vnet, the closed form: what the deciding     *)
(* tier's rules have in common, whatever the order of rules and vnets.     *)
ResultIsClosedForm ==
    pc = "done" => \A v \in VnetKeys : effective[v] = EffectiveDirection(AskedByTier(v))

(* A conflict is reported for a tier and a vnet exactly when two of its    *)
(* rules ask for different bare directions, although the loop compares     *)
(* each rule with the running intersection and not with the others.        *)
ConflictsAreDisagreements ==
    pc = "done" =>
        \A s \in Scopes, v \in VnetKeys :
            (\E c \in conflicts : c.scope = s /\ c.vnet = v)
                <=> (\E a, b \in Asked(s, v) : Bare(a) # Bare(b))

(* A tier's rejection is reported exactly when an earlier tier pinned the  *)
(* vnet with a bare direction to another value than this tier asks for,    *)
(* and the report names the tier that decides.                             *)
RejectionsNameTheDecidingTier ==
    pc = "done" =>
        \A s \in Scopes, v \in VnetKeys :
            LET L == AskedByTier(v)
                overridden == /\ s \in Speaking(L)
                              /\ Pinning(L) # {}
                              /\ Deciding(L) < s
                              /\ FromCaps(CommonCaps(L[s])) # EffectiveDirection(L)
            IN /\ overridden <=> (\E r \in rejected : r.scope = s /\ r.vnet = v)
               /\ \A r \in rejected : r.scope = s /\ r.vnet = v => r.by = Deciding(L)

=============================================================================
