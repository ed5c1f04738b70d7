----------------------------- MODULE MCTransfers -----------------------------
(***************************************************************************)
(* A small instance of Transfers for TLC: two orders, so that the scheduler *)
(* has a list to work through.  No readings are submitted: they move no    *)
(* order, and MCMaintenance has them.                                      *)
(***************************************************************************)
EXTENDS Transfers, TLC

MCLimits == {1}
MCTemps == {}

Symmetry == Permutations(Cabins) \cup Permutations(Orders) \cup Permutations(Engineers)

==============================================================================
