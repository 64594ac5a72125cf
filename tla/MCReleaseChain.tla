--------------------------- MODULE MCReleaseChain ---------------------------
(* Two operators, interchangeable; one edit of the source; two mishaps. *)
EXTENDS ReleaseChain, TLC

Symmetry == Permutations(Operators)
=============================================================================
