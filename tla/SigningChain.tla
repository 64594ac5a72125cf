---------------------------- MODULE SigningChain ----------------------------
(***************************************************************************)
(* What the two signing stages of build_pipeline.py promise together:      *)
(* SwiftShader signing is committed before ad-hoc signing, and a commit is *)
(* withdrawn only while nothing rests on it.                               *)
(***************************************************************************)
VARIABLE committed   \* the stages whose receipt is published

(* The stage on top of the given ones. *)
NextStage(S) == IF S = {} THEN "swiftshader" ELSE "adhoc"

ChainInit == committed = {}

Publish ==
    /\ "adhoc" \notin committed
    /\ committed' = committed \cup {NextStage(committed)}

Withdraw ==
    /\ committed # {}
    /\ committed' = IF "adhoc" \in committed THEN committed \ {"adhoc"} ELSE {}

ChainSpec == ChainInit /\ [][Publish \/ Withdraw]_committed
=============================================================================
