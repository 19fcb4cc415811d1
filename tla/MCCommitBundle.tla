--------------------------- MODULE MCCommitBundle ---------------------------
(* Instances of CommitBundle for TLC. *)
EXTENDS CommitBundle, TLC

CONSTANTS p, q, t, w, e1, e2, f1

\* A call each.
Apart == t :> p @@ w :> q

\* The two events written here are alike.
Alike == Permutations({e1, e2})
=============================================================================
