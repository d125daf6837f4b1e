----------------------------- MODULE MCVendors -----------------------------
(***************************************************************************)
(* A small instance of Vendors for TLC.                                     *)
(***************************************************************************)
EXTENDS Vendors, TLC

\* Two ways to type one handle, another handle, white space.
RawHandles == {"ann", " Ann", "bea", "  "}
Normals == ("ann" :> "ann") @@ (" Ann" :> "ann") @@ ("bea" :> "bea") @@ ("  " :> "")
Symmetry == Permutations(Req) \cup Permutations(Admin) \cup Permutations(Vendor)
=============================================================================
