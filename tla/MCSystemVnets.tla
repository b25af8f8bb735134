---------------------------- MODULE MCSystemVnets ----------------------------
(***************************************************************************)
(* Instances of SystemVnets: the operator's namespace, and a team's that   *)
(* is new, disabled with its vnet left behind, or disabled with a vnet of  *)
(* that name which is not the operator's.                                  *)
(***************************************************************************)
EXTENDS SystemVnets

CONSTANTS team, op

MCNames == {"namespace", "cluster"}

Active(disabled) == [phase |-> "active", disabled |-> disabled]
Gone == [phase |-> "absent", disabled |-> FALSE]

Foreign == [None EXCEPT !.present = TRUE, !.extra = TRUE]
Drifted == [Desired EXCEPT !.owned = FALSE]

Only(x, o) == [y \in Names |-> IF y = x THEN o ELSE None]

Teams ==
    {<<Gone, Only("namespace", None)>>,
     <<Active(TRUE), Only("namespace", Desired)>>,
     <<Active(TRUE), Only("namespace", Foreign)>>}

MCInitApis ==
    {[ns  |-> [n \in Namespaces |-> IF n = team THEN t[1] ELSE Active(FALSE)],
      obj |-> [n \in Namespaces |-> IF n = team THEN t[2] ELSE Only("cluster", Drifted)]] :
        t \in Teams}

(* The vnet is deleted, its spec edited, or a user's created in its place.  *)
Edits == {None, Drifted, Foreign}
=============================================================================
