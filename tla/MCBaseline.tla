------------------------------ MODULE MCBaseline ------------------------------
(***************************************************************************)
(* Instances of Baseline: a team's namespace, and one that the operator is *)
(* told to leave alone.  At the start the first is new, disabled or left   *)
(* by an older operator; the other was excluded while it had a baseline.   *)
(***************************************************************************)
EXTENDS Baseline

CONSTANTS team, sys

MCNames == {"base", "legacy"}

Active(disabled) == [phase |-> "active", disabled |-> disabled]
Gone == [phase |-> "absent", disabled |-> FALSE]

Drifted == [Desired EXCEPT !.owned = FALSE]
Opened  == [Desired EXCEPT !.extra = TRUE]

Objects(base, legacy) == [x \in Names |-> IF x = "base" THEN base ELSE legacy]

(* The states of the team's namespace.                                     *)
Teams ==
    {<<Gone, Objects(None, None)>>,
     <<Active(TRUE), Objects(Desired, None)>>,
     <<Active(FALSE), Objects(None, Drifted)>>,
     <<Active(FALSE), Objects(Drifted, None)>>}

MCInitApis ==
    {[ns  |-> [n \in Namespaces |-> IF n = team THEN t[1] ELSE Active(FALSE)],
      obj |-> [n \in Namespaces |-> IF n = team THEN t[2]
                                    ELSE Objects(Desired, None)]] : t \in Teams}

(* A policy is deleted, its spec edited, or an ingress rule added to it,    *)
(* which the operator's apply sets no field over and so leaves there.      *)
BaselineEdits == {None, Drifted, Opened}

(* Only the rule is added.                                                 *)
AddRule == {Opened}
=============================================================================
