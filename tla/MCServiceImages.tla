-------------------------- MODULE MCServiceImages --------------------------
(***************************************************************************)
(* Symmetry for TLC's small instances of ServiceImages.                    *)
(***************************************************************************)
EXTENDS ServiceImages, TLC

Symmetry == Permutations(Req) \cup Permutations(Image)
=============================================================================
