----------------------------- MODULE MCReviews -----------------------------
(***************************************************************************)
(* A small instance of Reviews for TLC.                                    *)
(***************************************************************************)
EXTENDS Reviews, TLC

Symmetry == Permutations(Req) \cup Permutations(Customer)
=============================================================================
