---------------------------- MODULE ReleaseChain ----------------------------
(***************************************************************************)
(* The auto-update release stages of platform/macos/autoupdate_release.py: *)
(* prepare-auto, seal, stage, merge, sign, accept and package.  Each makes *)
(* one output, package two (the DMG and its receipt beside it); each plan  *)
(* validates the whole chain before it; nothing takes a lock, so several   *)
(* operators, or one with two terminals, may run stages at once.  A plan   *)
(* is computed at one instant.                                             *)
(*                                                                         *)
(* PublishOver is not used below: it is Publish with a slip.               *)
(***************************************************************************)
EXTENDS DmgImage

Init ==
    /\ source = 0 /\ build = 0
    /\ output = [o \in Outputs |-> Absent]
    /\ part = [o \in Outputs |-> "none"]
    /\ at = [p \in Operators |-> Addendum]
    /\ pc = [p \in Operators |-> "idle"]
    /\ planned = [p \in Operators |-> 0]
    /\ read = [p \in Operators |-> 0]
    /\ retain = [p \in Operators |-> FALSE]
    /\ mine = [p \in Operators |-> {}]
    /\ inspection = "none" /\ runtime = "none"
    /\ mishaps = 0

-----------------------------------------------------------------------------
(* The plans: the chain before a stage validates, and neither its outputs   *)
(* nor their parts exist.                                                   *)

PrepareAutoPlan == Free({Addendum})

SealPlan == PreparationHolds /\ NoWork /\ Free({Seal})

StagePlan == SealHolds /\ Free({Staging})

MergePlan == StageHolds /\ Free({Unsigned})

SignPlan == MergeHolds /\ Free({Signed})

AcceptPlan == SignHolds /\ Free({Acceptance})

PackagePlan == AcceptHolds /\ Free({Dmg, Sidecar})

Plan == <<PrepareAutoPlan, SealPlan, StagePlan, MergePlan, SignPlan, AcceptPlan, PackagePlan>>

(* An operator runs a stage with --execute. *)
Start(p, s) ==
    /\ pc[p] = "idle"
    /\ Plan[s]
    /\ at' = [at EXCEPT ![p] = s]
    /\ pc' = [pc EXCEPT ![p] = IF s = Acceptance THEN "work" ELSE "check"]
    /\ planned' = [planned EXCEPT ![p] = IF s = Addendum THEN source ELSE build]
    /\ read' = [read EXCEPT ![p] = IF s = Addendum THEN source ELSE build]
    /\ UNCHANGED <<tree, output, part, retain, mine, images, mishaps>>

(* The _ensure_absent pair of _atomic_json and _new_directory_transaction.  *)
CheckAbsent(p) ==
    /\ pc[p] = "check"
    /\ IF Free({at[p]})
       THEN Goto(p, "create") /\ UNCHANGED <<output, part, images>>
       ELSE Raise(p, "error", {})
    /\ UNCHANGED <<tree, mishaps>>

(* O_EXCL, or mkdir: one process gets the part. *)
Create(p) ==
    /\ pc[p] = "create"
    /\ IF part[at[p]] = "none"
       THEN /\ part' = [part EXCEPT ![at[p]] = p]
            /\ Goto(p, IF at[p] \in Directories THEN "work" ELSE "written")
            /\ UNCHANGED <<output, images>>
       ELSE Raise(p, "error", {})
    /\ UNCHANGED <<tree, mishaps>>

-----------------------------------------------------------------------------
(* The work of the stages whose output is not a plain receipt.              *)

(* p's stage has read the app of build b and goes on, if the app is there   *)
(* and, where the stage compares it, the plan's.                            *)
Reads(p, b, compared, next) ==
    /\ IF b # -1 /\ (compared => b = planned[p])
       THEN /\ read' = [read EXCEPT ![p] = b]
            /\ pc' = [pc EXCEPT ![p] = next]
            /\ UNCHANGED <<at, planned, retain, mine, output, part, images>>
       ELSE Raise(p, "error", {})
    /\ UNCHANGED <<tree, mishaps>>

(* ditto copies both apps, their arguments and the packaging, which are     *)
(* compared with the plan's.                                                *)
StageApps(p) ==
    /\ pc[p] = "work" /\ at[p] = Staging
    /\ Reads(p, build, TRUE, "written")

(* The universalizer reads the staged apps; what it makes is validated, not *)
(* compared with the plan.                                                  *)
Universalize(p) ==
    /\ pc[p] = "work" /\ at[p] = Unsigned
    /\ Reads(p, AppOf(Staging), FALSE, "written")

(* Wrapper and signing modules are copied into the part and made read-only. *)
CreateSnapshot(p) ==
    /\ pc[p] = "work" /\ at[p] = Signed
    /\ Goto(p, "sealed")
    /\ UNCHANGED <<tree, output, part, images, mishaps>>

(* The wrapper signs a copy of the unsigned app; the snapshot goes. *)
SignApp(p) ==
    /\ pc[p] = "sealed"
    /\ Reads(p, AppOf(Unsigned), FALSE, "written")

(* Both architectures run, and the app is compared before and after. *)
RunApp(p) ==
    /\ pc[p] = "work" /\ at[p] = Acceptance
    /\ Reads(p, AppOf(Signed), TRUE, "check")

-----------------------------------------------------------------------------
Place(p) ==
    /\ output' = [output EXCEPT ![at[p]] = [made |-> read[p], binds |-> planned[p]]]
    /\ mine' = [mine EXCEPT ![p] = @ \cup {at[p]}]
    /\ pc' = [pc EXCEPT ![p] = IF at[p] = Dmg THEN "linked" ELSE "renamed"]
    /\ part' = IF at[p] = Dmg THEN part ELSE [part EXCEPT ![at[p]] = "none"]
    /\ UNCHANGED <<at, planned, read, retain, images>>

PublishOver(p) ==
    /\ pc[p] = "written"
    /\ Place(p)
    /\ UNCHANGED <<tree, mishaps>>

(* _rename_no_replace; for the DMG a hard link, whose other name stays in   *)
(* the private root.                                                        *)
Publish(p) ==
    /\ pc[p] = "written"
    /\ IF Published(at[p]) THEN Raise(p, "error", {}) ELSE Place(p)
    /\ UNCHANGED <<tree, mishaps>>

Finish(p) ==
    /\ pc[p] = "renamed"
    /\ End(p, "published", Retained(p))
    /\ UNCHANGED <<tree, output, images, mishaps>>

(* main() prints the result, and the process is gone. *)
Exit(p) ==
    /\ pc[p] \in Results
    /\ Forget(p)
    /\ UNCHANGED <<tree, output, part, images, mishaps>>

Running(p) == pc[p] \notin Results \cup {"idle"}

Step(p) ==
    \/ CheckAbsent(p) \/ Create(p)
    \/ StageApps(p) \/ Universalize(p) \/ CreateSnapshot(p) \/ SignApp(p) \/ RunApp(p)
    \/ DmgStep(p)
    \/ Publish(p) \/ Finish(p) \/ Exit(p)

-----------------------------------------------------------------------------
(* Something is raised; the cleanup that follows may fail too.              *)
Fault(p) ==
    /\ Running(p)
    /\ \E kind \in {"error", "interrupt"} :
         \/ Raise(p, kind, {}) /\ Mishaps(1)
         \/ Raise(p, kind, Outputs) /\ Mishaps(2)
    /\ UNCHANGED tree

(* The helper dies with its stage. *)
Crash(p) ==
    /\ Running(p) /\ Mishaps(1)
    /\ Forget(p) /\ DropParts(p, Outputs)
    /\ UNCHANGED <<tree, output, images>>

(* An operator changes the source: Ninja has work to do. *)
Edit ==
    /\ source < MaxEdits
    /\ source' = source + 1
    /\ UNCHANGED <<build, output, part, process, images, mishaps>>

(* And runs Ninja. *)
Rebuild ==
    /\ ~NoWork
    /\ build' = source
    /\ UNCHANGED <<source, output, part, process, images, mishaps>>

(* Nothing in the code removes an output, a dead process's part or an image *)
(* that is still attached: an operator does, when the output belongs to an  *)
(* older build, and not under a running stage's feet.                       *)
Idle(o) == \A p \in Operators : pc[p] # "idle" => at[p] \notin Extent(o)

Detach(o) == IF o = Dmg THEN inspection' = "none" /\ runtime' = "none"
             ELSE UNCHANGED images

ClearStale(o) ==
    /\ Stale(o) /\ Idle(o)
    /\ output' = [x \in Outputs |-> IF x \in Extent(o) THEN Absent ELSE output[x]]
    /\ part' = [x \in Outputs |-> IF x \in Extent(o) THEN "none" ELSE part[x]]
    /\ Detach(IF o = Sidecar THEN Dmg ELSE o)
    /\ UNCHANGED <<tree, process, mishaps>>

ClearPart(o) ==
    /\ part[o] = "left" /\ Idle(o)
    /\ part' = [part EXCEPT ![o] = "none"]
    /\ Detach(o)
    /\ UNCHANGED <<tree, output, process, mishaps>>

Next ==
    \/ \E p \in Operators : Step(p) \/ Fault(p) \/ Crash(p) \/ \E s \in Stages : Start(p, s)
    \/ Edit \/ Rebuild
    \/ \E o \in Outputs : ClearStale(o) \/ ClearPart(o)

Spec == Init /\ [][Next]_vars
-----------------------------------------------------------------------------
(* Types of all variables.                                                  *)
ReleaseTypeOK ==
    /\ source \in Versions /\ build \in Versions
    /\ output \in [Outputs -> [made : Versions, binds : Versions] \cup {Absent}]
    /\ part \in [Outputs -> Operators \cup {"none", "left"}]
    /\ at \in [Operators -> Outputs]
    /\ pc \in [Operators -> {"idle", "check", "create", "work", "sealed", "staged", "attached",
                             "packed", "running", "rebind", "written", "renamed", "linked",
                             "committed"} \cup Results]
    /\ planned \in [Operators -> Versions]
    /\ read \in [Operators -> Versions]
    /\ retain \in [Operators -> BOOLEAN]
    /\ mine \in [Operators -> SUBSET Outputs]
    /\ inspection \in {"none", "kept", "mounted"}
    /\ runtime \in {"none", "kept", "mounted"}
    /\ mishaps \in 0 .. MaxMishaps

(* A chain of receipts that validates tells the truth: every link of it was *)
(* made from the present build, though only the first compares itself with  *)
(* the build and any stage may have run beside a rebuild or a stage of the  *)
(* older chain.  A DMG's receipt is about the DMG beside it.                *)
ReceiptsAreTrue ==
    /\ \A n \in Seal .. Acceptance : Holds[n] => \A o \in Seal .. n : output[o].made = build
    /\ Published(Sidecar) => /\ Published(Dmg)
                             /\ output[Dmg].made = output[Sidecar].binds

(* "Outputs and receipts use no-overwrite atomic placement": a stage places *)
(* its output only where there is none, and what is published goes only     *)
(* when an operator clears an older build's, or when the process that       *)
(* linked a DMG withdraws it before its commit.                             *)
NothingReplaced ==
    [][/\ \A p \in Operators : \A o \in mine'[p] \ mine[p] : ~Published(o)
       /\ \A o \in Outputs : Published(o) /\ output'[o] # output[o] =>
            /\ output'[o] = Absent
            /\ \/ \E x \in Outputs : o \in Extent(x) /\ Stale(x)
               \/ o = Dmg /\ \E p \in Operators : o \in mine[p] /\ pc[p] = "linked"]_vars

(* What a stage reports is true of what it leaves.  "published": all its    *)
(* outputs are there.  "failed": it has published nothing.  "uncertain": an *)
(* output of its own is there.                                              *)
OutcomesAreTrue ==
    \A p \in Operators :
        /\ \A o \in mine[p] : Published(o)
        /\ pc[p] = "published" => mine[p] = OutputsOf(IF at[p] = Sidecar THEN Dmg ELSE at[p])
        /\ pc[p] = "failed" => mine[p] = {}
        /\ pc[p] = "uncertain" => mine[p] # {}

(* An image is never left attached over a private root that is gone: while  *)
(* one is attached, its stage runs or has kept its root, whichever process  *)
(* failed, was killed or died.                                              *)
MountsAreKept == "mounted" \in {inspection, runtime} => part[Dmg] # "none"
=============================================================================
