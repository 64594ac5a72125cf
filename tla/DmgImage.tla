------------------------------ MODULE DmgImage ------------------------------
(***************************************************************************)
(* execute_package of platform/macos/autoupdate_release.py with what it    *)
(* calls: package_local_dmg.py, which runs as a helper of its own session  *)
(* and builds and inspects an image in the DMG's private root; the         *)
(* acceptance of the image by runtime_smoke.py, which mounts it again; and *)
(* durable_publish_candidate, which links it under its final name.         *)
(*                                                                         *)
(* RaiseUnproven and RaiseForgetful are not used below: each is the        *)
(* definition after it with a slip.                                        *)
(***************************************************************************)
EXTENDS ReleaseOutputs

(* The DMG's private root survives once something in it may still be used.  *)
Retained(p) == IF retain[p] THEN {Dmg} ELSE {}

-----------------------------------------------------------------------------
(* What is raised while the helper runs, and where the helper's private     *)
(* root and image are then.                                                 *)

(* The helper itself fails: it deletes its root, and before that detaches   *)
(* the image, by force if need be; a root whose image stays attached, or    *)
(* that cannot be deleted, is kept.                                         *)
HelperFails(p, kept) ==
    /\ inspection' = IF kept = {} THEN "none"
                     ELSE IF pc[p] = "attached" THEN "mounted" ELSE "kept"
    /\ UNCHANGED runtime

(* A time out or an interrupt of the stage kills the helper's session,      *)
(* which leaves everything as it is.                                        *)
HelperKilled == UNCHANGED images

(* Either way the stage keeps its own private root, as it cannot tell, and  *)
(* fails: it makes a ReleaseError of an interrupt, too.                     *)
RaiseHelper(p, kind, kept) ==
    /\ pc[p] \in {"work", "staged", "attached"}
    /\ End(p, "failed", {Dmg})
    /\ UNCHANGED output
    /\ HelperKilled \/ (kind = "error" /\ HelperFails(p, kept))

RaiseUnproven(p, kind, kept) ==
    /\ pc[p] = "running"
    /\ UNCHANGED <<output, inspection>>
    /\ End(p, Result(kind), {})
    /\ runtime' = IF kept = {} THEN "none" ELSE "mounted"

(* The finished image is mounted and run: it is detached, by force if need  *)
(* be, whatever was raised.  Where it is not known to be (DmgDetachError),  *)
(* the stage keeps its private root.                                        *)
DetachUnproven(p, kind, kept) ==
    /\ kind = "interrupt" \/ kept # {}
    /\ End(p, "failed", {Dmg})
    /\ runtime' \in {"none", "kept", "mounted"}

(* The mount's own root is deleted only when empty, its link only when it   *)
(* is still the one that was made.                                          *)
RuntimeRootKept(p, kept) ==
    /\ kept # {}
    /\ End(p, "failed", {})
    /\ runtime' = "kept"

RaiseRunning(p, kind, kept) ==
    /\ pc[p] = "running"
    /\ UNCHANGED <<output, inspection>>
    /\ \/ End(p, Result(kind), kept) /\ runtime' = "none"
       \/ DetachUnproven(p, kind, kept)
       \/ RuntimeRootKept(p, kept)

(* _rollback_exact_output: a link that is known to be one's own goes.       *)
Withdraw(p, kind, kept) ==
    /\ output' = [output EXCEPT ![Dmg] = Absent]
    /\ mine' = [mine EXCEPT ![p] = {}]
    /\ pc' = [pc EXCEPT ![p] = Result(kind)]
    /\ DropParts(p, kept)
    /\ UNCHANGED <<at, planned, read, retain, images>>

(* From the link to the commit.  The rollback may fail as well, and an      *)
(* interrupt may come before the link is known to be made.                  *)
RaiseLinked(p, kind, kept) ==
    /\ pc[p] = "linked"
    /\ \/ Withdraw(p, kind, kept)
       \/ /\ kept # {} /\ End(p, "uncertain", {})
          /\ UNCHANGED <<output, images>>
       \/ /\ kind = "interrupt" /\ End(p, "interrupted", kept)
          /\ UNCHANGED <<output, images>>

(* execute_package up to the DMG's commit. *)
RaiseDmg(p, kind, kept) ==
    \/ /\ pc[p] \in {"check", "create", "work", "packed", "rebind", "written"}
       /\ End(p, Result(kind), kept) /\ UNCHANGED <<output, images>>
    \/ CreatesAndLeaves(p, Result(kind)) /\ UNCHANGED <<output, images>>
    \/ RaiseHelper(p, kind, kept)
    \/ RaiseRunning(p, kind, kept)
    \/ RaiseLinked(p, kind, kept)

(* And after it: CommittedPublishError lets the stage go on with the root   *)
(* retained; any other Exception becomes a CommittedOutputError, but an     *)
(* interrupt is no Exception.  Inside _atomic_json it is, after the rename. *)
RaiseCommitted(p, kind, kept) ==
    /\ UNCHANGED <<output, images>>
    /\ \/ /\ pc[p] = "committed"
          /\ at' = [at EXCEPT ![p] = Sidecar] /\ pc' = [pc EXCEPT ![p] = "check"]
          /\ retain' = [retain EXCEPT ![p] = TRUE]
          /\ UNCHANGED <<planned, read, mine, part>>
       \/ /\ pc[p] = "committed" /\ kind = "interrupt"
          /\ End(p, "interrupted", kept)
       \/ /\ at[p] = Sidecar
          /\ \E result \in IF pc[p] = "renamed" THEN PublishedResults(kind)
                           ELSE {IF kind = "error" THEN "uncertain" ELSE "interrupted"} :
               End(p, result, kept \cup Retained(p)) \/ CreatesAndLeaves(p, result)

RaiseForgetful(p, kind, kept) ==
    /\ UNCHANGED <<output, images>>
    /\ End(p, Result(kind), kept)

(* Something is raised in p's stage; kept are the parts whose deletion      *)
(* fails.                                                                   *)
Raise(p, kind, kept) ==
    IF pc[p] = "committed" \/ at[p] = Sidecar THEN RaiseCommitted(p, kind, kept)
    ELSE IF at[p] = Dmg THEN RaiseDmg(p, kind, kept)
    ELSE RaiseChain(p, kind, kept) \/ RaiseSealed(p)

-----------------------------------------------------------------------------
(* The helper copies the signed app into its root and compares the copy.    *)
StageApp(p) ==
    /\ pc[p] = "work" /\ at[p] = Dmg
    /\ IF AppOf(Signed) # -1
       THEN /\ read' = [read EXCEPT ![p] = AppOf(Signed)]
            /\ pc' = [pc EXCEPT ![p] = "staged"]
            /\ inspection' = "kept"
            /\ UNCHANGED <<at, planned, retain, mine, output, part, runtime>>
       ELSE Raise(p, "error", {})
    /\ UNCHANGED <<tree, mishaps>>

(* It makes an image of the copy and attaches it, read-only, through a      *)
(* private link.                                                            *)
AttachImage(p) ==
    /\ pc[p] = "staged"
    /\ Goto(p, "attached")
    /\ inspection' = "mounted"
    /\ UNCHANGED <<tree, output, part, runtime, mishaps>>

(* It compares the mounted app with the signed one as it was, detaches the  *)
(* image, publishes it in the stage's private root and deletes its own.     *)
InspectImage(p) ==
    /\ pc[p] = "attached"
    /\ Goto(p, "packed")
    /\ inspection' = "none"
    /\ UNCHANGED <<tree, output, part, runtime, mishaps>>

(* The stage mounts the finished image for the runtime acceptance. *)
AttachFinal(p) ==
    /\ pc[p] = "packed"
    /\ Goto(p, "running")
    /\ runtime' = "mounted"
    /\ UNCHANGED <<tree, output, part, inspection, mishaps>>

(* Both architectures run from it, it is detached, and the signed app is    *)
(* compared with the accepted one.                                          *)
DetachFinal(p) ==
    /\ pc[p] = "running"
    /\ runtime' = "none"
    /\ Goto(p, "rebind")
    /\ UNCHANGED <<tree, output, part, inspection, mishaps>>

(* Immediately before the DMG's commit the acceptance is validated again,   *)
(* and the signed app compared with the plan's.                             *)
Rebind(p) ==
    /\ pc[p] = "rebind"
    /\ IF AcceptHolds /\ build = planned[p] /\ AppOf(Signed) = planned[p]
       THEN Goto(p, "written") /\ UNCHANGED <<output, part, images>>
       ELSE Raise(p, "error", {})
    /\ UNCHANGED <<tree, mishaps>>

(* The parent's fsync commits the DMG.  *)
CommitDmg(p) ==
    /\ pc[p] = "linked"
    /\ Goto(p, "committed")
    /\ UNCHANGED <<tree, output, part, images, mishaps>>

(* The candidate's private name goes, and the receipt's turn comes. *)
DropCandidate(p) ==
    /\ pc[p] = "committed"
    /\ at' = [at EXCEPT ![p] = Sidecar] /\ pc' = [pc EXCEPT ![p] = "check"]
    /\ UNCHANGED <<planned, read, retain, mine, tree, output, part, images, mishaps>>

DmgStep(p) ==
    \/ StageApp(p) \/ AttachImage(p) \/ InspectImage(p) \/ AttachFinal(p)
    \/ DetachFinal(p) \/ Rebind(p) \/ CommitDmg(p) \/ DropCandidate(p)
=============================================================================
