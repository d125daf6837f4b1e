------------------------------- MODULE MCAuth -------------------------------
(***************************************************************************)
(* Small instances of Auth for TLC.  Users are not symmetric:              *)
(* the model picks the identity of a new row with CHOOSE.                  *)
(***************************************************************************)
EXTENDS Auth, TLC

CONSTANTS e1, u1

\* Nobody, or one user who has signed in by code.
NoneOrOne == {[u \in User |-> None],
              [u \in User |-> IF u = u1 THEN [email |-> e1, uid |-> None] ELSE None]}

Symmetry == Permutations(Req) \cup Permutations(Uid)
=============================================================================
