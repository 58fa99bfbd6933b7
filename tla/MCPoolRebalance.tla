--------------------------- MODULE MCPoolRebalance ---------------------------
(* The TLC run of PoolRebalance: no symmetry, as it checks liveness. *)
EXTENDS PoolRebalance
==============================================================================
