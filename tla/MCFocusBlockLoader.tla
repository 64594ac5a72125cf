------------------------- MODULE MCFocusBlockLoader -------------------------
(***************************************************************************)
(* TLC instance of FocusBlockLoader: one request is redirected twice, the  *)
(* other once.                                                             *)
(***************************************************************************)
EXTENDS FocusBlockLoader

CONSTANTS r1, r2

Redirects == [r \in Calls |-> IF r = r1 THEN 2 ELSE 1]
=============================================================================
