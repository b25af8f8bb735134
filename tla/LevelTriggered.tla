--------------------------- MODULE LevelTriggered ---------------------------
(***************************************************************************)
(* What every controller of the operator promises (ADR 0044): it works on  *)
(* keys, and a key it has stopped looking at is right until something      *)
(* about it changes, which makes the controller look again.  How a key is  *)
(* looked at (queue, caches, reconcile, timers) and what is right about it *)
(* is the controllers' business.                                           *)
(***************************************************************************)
CONSTANT Keys

VARIABLES
    right,     \* the keys whose objects are as their inputs call for
    attended   \* the keys that will be, or are being, reconciled

vars == <<right, attended>>

Init ==
    /\ right \subseteq Keys /\ attended \subseteq Keys
    /\ Keys \ right \subseteq attended

(* A change is noticed in the same step, whatever it does to the key.      *)
Disturbed(k) == k \notin attended /\ k \in attended'

(* While it is attended to a key may be right or wrong.                    *)
Attended(k) == k \in attended /\ k \in attended'

(* Only a key that is right is let go.                                     *)
Released(k) == k \in attended /\ k \notin attended' /\ k \in right'

Resting(k) == k \notin attended /\ k \notin attended' /\ (k \in right <=> k \in right')

(* A restart, or the end of a shared input, moves many keys at once.       *)
Next ==
    \A k \in Keys : Disturbed(k) \/ Attended(k) \/ Released(k) \/ Resting(k)

(* The controller does not disturb itself for ever, by its own writes or   *)
(* by retries that cannot succeed: it lets go of every key, if only until  *)
(* its next timer.                                                         *)
ComesToRest == \A k \in Keys : []<>(k \notin attended)

Safety == Init /\ [][Next]_vars

Spec == Safety /\ ComesToRest

=============================================================================
