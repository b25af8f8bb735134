------------------------------ MODULE Direction ------------------------------
(***************************************************************************)
(* The direction algebra of kube-vnet (policy_generator.go, resolution.go) *)
(* and the closed form of what Resolve computes for one VirtualNetwork.    *)
(*                                                                         *)
(* A bare direction is a set of capabilities: a receiver accepts ingress,  *)
(* an initiator may open connections.  A default-* direction carries the   *)
(* same capabilities and additionally lets a later tier override it.       *)
(***************************************************************************)
EXTENDS Integers

BareDirections == {"both", "ingress", "egress", "none"}

DefaultDirections ==
    {"default-both", "default-ingress", "default-egress", "default-none"}

Directions == BareDirections \cup DefaultDirections

(* A value that is no direction: what ParseDirection rejects.              *)
InvalidDirection == "sideways"

IsDefault(d) == d \in DefaultDirections

Bare(d) ==
    CASE d = "default-both"    -> "both"
      [] d = "default-ingress" -> "ingress"
      [] d = "default-egress"  -> "egress"
      [] d = "default-none"    -> "none"
      [] OTHER                 -> d

(* "default-" + d.Bare()                                                   *)
AsDefault(d) ==
    CASE Bare(d) = "both"    -> "default-both"
      [] Bare(d) = "ingress" -> "default-ingress"
      [] Bare(d) = "egress"  -> "default-egress"
      [] OTHER               -> "default-none"

(* ParseDirection and ParseBareDirection: which strings each tier accepts. *)
ParseDirection(value)     == value \in Directions
ParseBareDirection(value) == ParseDirection(value) /\ ~IsDefault(value)

(* Mutant: disjoint directions widen instead of narrowing.                 *)
intersectWidens(a, b) ==
    LET x == Bare(a)
        y == Bare(b)
    IN CASE x = "none" \/ y = "none" -> "none"
         [] x = y                    -> x
         [] OTHER                    -> "both"

(* The truth table of ADR 0031, in the order of the code's tests.          *)
intersect(a, b) ==
    LET x == Bare(a)
        y == Bare(b)
    IN CASE x = "none" \/ y = "none" -> "none"
         [] x = y                    -> x
         [] x = "both"               -> y
         [] y = "both"               -> x
         [] OTHER                    -> "none"

-----------------------------------------------------------------------------
(* Capabilities.                                                           *)

Capabilities == {"receive", "initiate"}

Caps(d) ==
    CASE Bare(d) = "both"    -> Capabilities
      [] Bare(d) = "ingress" -> {"receive"}
      [] Bare(d) = "egress"  -> {"initiate"}
      [] OTHER               -> {}

FromCaps(c) ==
    CASE c = Capabilities    -> "both"
      [] c = {"receive"}     -> "ingress"
      [] c = {"initiate"}    -> "egress"
      [] OTHER               -> "none"

(* What every direction of D grants.                                       *)
CommonCaps(D) == {c \in Capabilities : \A d \in D : c \in Caps(d)}

-----------------------------------------------------------------------------
(***************************************************************************)
(* The closed form of Resolve for one vnet.  L[s] is the set of directions *)
(* that tier s asks for.  The first tier that speaks with a bare direction *)
(* decides; if none does, the last tier that speaks decides; its value is  *)
(* what all of its rules grant.                                            *)
(***************************************************************************)
ScopeClusterBaseline   == 1
ScopeNamespaceBaseline == 2
ScopePod               == 3

Scopes == {ScopeClusterBaseline, ScopeNamespaceBaseline, ScopePod}

Speaking(L) == {s \in Scopes : L[s] # {}}

Pinning(L) == {s \in Speaking(L) : \E d \in L[s] : ~IsDefault(d)}

Deciding(L) ==
    IF Pinning(L) # {}
    THEN CHOOSE s \in Pinning(L) : \A t \in Pinning(L) : s <= t
    ELSE CHOOSE s \in Speaking(L) : \A t \in Speaking(L) : t <= s

EffectiveDirection(L) ==
    IF Speaking(L) = {} THEN "none" ELSE FromCaps(CommonCaps(L[Deciding(L)]))

=============================================================================
