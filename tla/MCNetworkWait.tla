---------------------------- MODULE MCNetworkWait ----------------------------
(***************************************************************************)
(* An instance of NetworkWait: addresses for a node that goes and comes    *)
(* back, and for one that stays; time for several rounds.                  *)
(***************************************************************************)
EXTENDS NetworkWait
=============================================================================
