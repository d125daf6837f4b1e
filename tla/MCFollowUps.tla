---------------------------- MODULE MCFollowUps ----------------------------
(***************************************************************************)
(* Symmetry for TLC's small instances of FollowUps.                        *)
(***************************************************************************)
EXTENDS FollowUps, TLC

Symmetry == Permutations(Req) \cup Permutations(Customer)
=============================================================================
