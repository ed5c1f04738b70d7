----------------------------- MODULE MCInventory -----------------------------
(***************************************************************************)
(* A small instance of Inventory for TLC.  Ints reach from -32 to 31: every *)
(* sum but one fits, and that one is part of the sample: a line of 31.     *)
(***************************************************************************)
EXTENDS Inventory

MCStocks == {-1, 0, 2}
MCLines == {-1, 0, 2, 31}
MCQuantities == {0, 1, 2}

==============================================================================
