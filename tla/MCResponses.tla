----------------------------- MODULE MCResponses -----------------------------
(***************************************************************************)
(* A small instance of Responses for TLC: handlers that contend for the    *)
(* same orders.  No symmetry, for the sake of the liveness property.       *)
(***************************************************************************)
EXTENDS Responses

==============================================================================
