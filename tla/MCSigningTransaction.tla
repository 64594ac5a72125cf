------------------------ MODULE MCSigningTransaction ------------------------
(***************************************************************************)
(* TLC instances of SigningTransaction: the histories are model values.    *)
(***************************************************************************)
EXTENDS SigningTransaction
=============================================================================
