--------------------------- MODULE MCFrozenRelink ---------------------------
(***************************************************************************)
(* TLC instances of FrozenRelink: model values for the runs, and symmetry  *)
(* between them.                                                           *)
(***************************************************************************)
EXTENDS FrozenRelink, TLC

Symmetry == Permutations(Runs)
=============================================================================
