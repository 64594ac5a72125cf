------------------------- MODULE MCFocusBlockService -------------------------
(***************************************************************************)
(* TLC instance of FocusBlockService.                                      *)
(***************************************************************************)
EXTENDS FocusBlockService
=============================================================================
