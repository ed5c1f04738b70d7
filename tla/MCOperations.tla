----------------------------- MODULE MCOperations ----------------------------
(***************************************************************************)
(* A small instance of Operations for TLC.  Ids and names are only         *)
(* compared, so both are symmetric.                                        *)
(***************************************************************************)
EXTENDS Operations, TLC

Symmetry == Permutations(Ops) \cup Permutations(People)

==============================================================================
