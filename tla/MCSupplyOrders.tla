--------------------------- MODULE MCSupplyOrders ---------------------------
(***************************************************************************)
(* Symmetry for TLC's small instances of SupplyOrders.                     *)
(***************************************************************************)
EXTENDS SupplyOrders, TLC

Symmetry == Permutations(Req) \cup Permutations(Order) \cup Permutations(Product)
=============================================================================
