---------------------------- MODULE MCMaintenance ----------------------------
(***************************************************************************)
(* A small instance of Maintenance for TLC.  Ids are model values that the *)
(* code only compares, so cabins, orders and engineers are symmetric.      *)
(***************************************************************************)
EXTENDS Maintenance, TLC

\* Zero is a limit RegisterCabin refuses.
MCLimits == {0, 1}

\* At the limit, which is no breach: insulation makes the difference.
MCTemps == {1}

Symmetry == Permutations(Cabins) \cup Permutations(Orders) \cup Permutations(Engineers)

==============================================================================
