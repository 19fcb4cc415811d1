---------------------------- MODULE MCLexicalIndex ----------------------------
(* Instances of LexicalIndex for TLC. *)
EXTENDS LexicalIndex, TLC

CONSTANTS p1, p2, alpha, beta, v1, v2

\* A process of either release during an update, or two of the same.
MCTwoReleases == (p1 :> v1) @@ (p2 :> v2)
MCOneRelease == (p1 :> v1) @@ (p2 :> v1)
Symmetry == Permutations({alpha, beta})
=============================================================================
