---------------------------- MODULE MCResumeRun ----------------------------
(***************************************************************************)
(* ResumeRun with one runner started from a shell beside the launcher's.   *)
(***************************************************************************)
EXTENDS ResumeRun
=============================================================================
