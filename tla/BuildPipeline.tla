--------------------------- MODULE BuildPipeline ---------------------------
(***************************************************************************)
(* The stages of build_pipeline.py up to the DMG: the prepared checkout    *)
(* (Preparation), the source patches (CompatPatches), the home alias       *)
(* (HomeAlias), the two slice builds or the finalisation of resumed ones,  *)
(* the staging of the arm64 app and the reclamation of its output, the     *)
(* recovery from a build whose Mach-O files are misaligned, the fresh x64  *)
(* graph of an aliased checkout, the signing stages (SigningTransaction;   *)
(* one step here) and the merge.                                           *)
(***************************************************************************)
EXTENDS Preparation, CompatPatches, HomeAlias

VARIABLES
  out,        \* per slice: output absent, without args.gn, littered, a tree,
              \* or the x64 tree of the llvm-strip graph ("legacy")
  app,        \* per slice: the app in the output
  resumed,    \* the slices with the record of a completed raw-Ninja run
  part,       \* the app in the staging part, "empty", or "none"
  staged,     \* the staged arm64 app
  archive,    \* the recovery root: absent, partial or published
  archived,   \* the legacy artifacts in it
  container,  \* where the directory for the legacy x64 tree is
  held,       \* the legacy x64 tree is in it
  spoiled,    \* something has written into the legacy x64 tree
  failed,     \* what a fresh x64 rollback has moved aside
  roots,      \* the universal roots that exist
  merged,     \* the app in them
  dmg         \* the published image

outputs == <<out, app, resumed>>
staging == <<part, staged>>
recovery == <<archive, archived>>
fresh == <<container, held, spoiled, failed>>
universal == <<roots, merged, dmg>>

\* "legacy" apps carry the LINKEDIT defect, "torn" ones are incomplete.
Apps == {"none", "torn", "legacy", "sound"}

----------------------------------------------------------------------------
(* What the plans validate again and again.                                *)

\* args.gn of arm64 is there, or its hash is in the reclaim receipt.
ArmArgs(reclaimed) ==
  /\ prepared /\ Bootstrapped /\ TreeHolds
  /\ out["arm"] = "tree" \/ (reclaimed /\ paper["reclaim"] # "none")

AllCompats(reclaimed) == ArmArgs(reclaimed) /\ CompatHolds("linkedit")

\* The audit of every Mach-O file for the LINKEDIT defect.
Misaligned(a) == a = "legacy"

\* app_report(): the bundle, its architectures and the LINKEDIT alignment; an
\* app of which something is missing may pass.
AppReport(a) == a # "none" /\ ~ Misaligned(a)

ReclaimHolds ==
  /\ paper["reclaim"] # "none"
  /\ paper["stage"] # "none"
  /\ out["arm"] = "none"
  /\ AppReport(staged)

\* With the alias (schema two) the receipt binds the tree of the app.
SliceHolds(s) ==
  /\ paper[s] = "new"
  /\ AllCompats(s = "x64")
  /\ out[s] = "tree"
  /\ alias => app[s] = "sound"

\* The fresh graph a run was bound to: its receipt, and the legacy tree.
FreshBound == paper["fresh"] = "new" /\ held /\ container = "legacy" /\ ~ spoiled

\* GN wrote a whole graph, with no llvm-strip in it.
GraphHolds == out["x64"] = "tree"

\* The contract before any run: Ninja has left nothing yet.
FreshHolds == FreshBound /\ GraphHolds /\ app["x64"] = "none"

----------------------------------------------------------------------------
(* build-arm64 and build-x64.  Nothing undoes a failed build, and an app   *)
(* or a receipt in the output refuses the next one.                        *)

BuildPlan(s) ==
  /\ ~ alias
  /\ s = "x64" => ReclaimHolds
  /\ AllCompats(s = "x64")
  /\ out[s] = "tree"
  /\ app[s] = "none"
  /\ paper[s] = "none"

StartBuild(s) ==
  /\ BuildPlan(s)
  /\ Begin(s, "graph")
  /\ UNCHANGED <<outputs, papers, children, mishaps>>

\* GN generates the graph; the strip tools in it are checked.
BuildGraph(s) ==
  /\ At(s, "graph")
  /\ Goto("ninja")
  /\ UNCHANGED <<outputs, children, mishaps, papers>>

\* Ninja writes the app, and its exit status is what tells that it is whole.
Ninja(s) ==
  /\ At(s, "ninja")
  /\ IF app[s] = "none"
       THEN app' = [app EXCEPT ![s] = "torn"] /\ UNCHANGED driver
       ELSE app' = [app EXCEPT ![s] = "sound"] /\ Goto(s)
  /\ UNCHANGED <<out, resumed, papers, children, mishaps>>

\* A slip: the exit status of Ninja is ignored.
BuildFailsUnchecked(s) ==
  /\ task = s
  /\ pc = "ninja"
  /\ app[s] # "none"
  /\ Spend("error")
  /\ Goto(s)
  /\ UNCHANGED <<outputs, papers, children>>

BuildFails(s) ==
  /\ task = s
  /\ pc \in {"graph", "ninja"}
  /\ \/ Spend("error") /\ Goto("done") /\ UNCHANGED children
     \/ PopenGap("done")
  /\ UNCHANGED <<outputs, papers>>

PublishSlice(s) ==
  /\ At(s, s)
  /\ Publish(s, "done", "done")
  /\ UNCHANGED <<outputs, children>>

\* The Ninja of a dead driver goes on in the same output.
StrayNinja(s) ==
  /\ s \in strays
  /\ out[s] = "tree"
  /\ \E a \in {"torn", "sound"} : app' = [app EXCEPT ![s] = a]
  /\ UNCHANGED <<driver, out, resumed, papers, children, mishaps>>

----------------------------------------------------------------------------
(* With the alias no stage may run GN: a runner (ResumeRun) finishes the   *)
(* build and leaves its record, and finalize-resumed-* certifies it.       *)

ResumeBuild(s) ==
  /\ RootHolds
  /\ Idle
  /\ s \notin resumed
  /\ s = "x64" => FreshBound
  /\ out[s] = "tree"
  /\ \/ app' = [app EXCEPT ![s] = "torn"] /\ UNCHANGED resumed
     \/ app' = [app EXCEPT ![s] = "sound"] /\ resumed' = resumed \cup {s}
  /\ UNCHANGED <<driver, out, papers, children, mishaps>>

\* resume_execution_record_contract(): of x64 also the fresh graph.
ResumeRecord(s) == s \in resumed /\ (s = "x64" => FreshBound)

ResumedPlan(s) ==
  /\ RootHolds
  /\ s = "x64" => ReclaimHolds
  /\ AllCompats(s = "x64")
  /\ out[s] = "tree"
  /\ paper[s] = "none"
  /\ AppReport(app[s])
  /\ ResumeRecord(s)

StartFinalize(s) ==
  /\ ResumedPlan(s)
  /\ Begin(s, "probe")
  /\ UNCHANGED <<outputs, papers, children, mishaps>>

\* `ninja -n` has no work to do, and the plan is the same after it.
NoWork(s) ==
  /\ At(s, "probe")
  /\ \/ app[s] = "sound" /\ ResumedPlan(s) /\ Goto(s) /\ UNCHANGED mishaps
     \/ Spend("error") /\ Goto("done")
  /\ UNCHANGED <<outputs, papers, children>>

ExecuteResumedSlice(s) == StartFinalize(s) \/ NoWork(s) \/ PublishSlice(s)

----------------------------------------------------------------------------
(* stage-arm64: copy the app to a part, swap the part in, certify it, and  *)
(* then remove the whole arm64 output.  Only the copy has a handler, and   *)
(* that one is for Exception, not for an interrupt.                        *)

StagePlan ==
  /\ ArmArgs(FALSE)
  /\ SliceHolds("arm")
  /\ AppReport(app["arm"])
  /\ staged = "none"
  /\ part = "none"
  /\ paper["stage"] = "none"
  /\ paper["reclaim"] = "none"

StartStage ==
  /\ StagePlan
  /\ Begin("stage", "copy")
  /\ part' = "empty"
  /\ UNCHANGED <<outputs, staged, papers, children, mishaps>>

Ditto ==
  /\ At("stage", "copy")
  /\ IF part = "empty"
       THEN part' = "torn" /\ UNCHANGED driver
       ELSE part' = app["arm"] /\ Goto("swap")
  /\ UNCHANGED <<outputs, staged, papers, children, mishaps>>

SwapIn ==
  /\ At("stage", "swap")
  /\ part = app["arm"]
  /\ AppReport(part)
  /\ staged' = part
  /\ part' = "none"
  /\ Goto("stage")
  /\ UNCHANGED <<outputs, papers, children, mishaps>>

StageFails ==
  /\ task = "stage"
  /\ pc \in {"copy", "swap"}
  /\ \/ Spend("error") /\ part' = "none"
     \/ Spend("gap") /\ UNCHANGED part
  /\ Goto("done")
  /\ UNCHANGED <<outputs, staged, papers, children>>

\* The two digests agree, before the receipt and again before the removal.
PublishStage ==
  /\ At("stage", "stage")
  /\ \/ staged = app["arm"] /\ Publish("stage", "reclaimOut", "done")
     \/ Spend("error") /\ Goto("done") /\ UNCHANGED papers
  /\ UNCHANGED <<outputs, staging, children>>

ReclaimOut ==
  /\ At("stage", "reclaimOut")
  /\ staged = app["arm"]
  /\ out' = [out EXCEPT !["arm"] = "none"]
  /\ app' = [app EXCEPT !["arm"] = "none"]
  /\ paper' = [paper EXCEPT !["arm"] = "none"]
  /\ Goto("reclaim")
  /\ UNCHANGED <<resumed, staging, temps, children, mishaps>>

\* The removal stops in the middle: args.gn, app and receipt may be gone.
ReclaimBreaks ==
  /\ At("stage", "reclaimOut")
  /\ out' \in {out, [out EXCEPT !["arm"] = "empty"]}
  /\ app' \in {[app EXCEPT !["arm"] = a] : a \in {"none", "torn"}}
  /\ paper' \in {paper, [paper EXCEPT !["arm"] = "none"]}
  /\ \/ Spend("error") /\ Goto("done")
     \/ Spend("kill") /\ Ended
  /\ UNCHANGED <<resumed, staging, temps, children>>

PublishReclaim ==
  /\ At("stage", "reclaim")
  /\ Publish("reclaim", "done", "done")
  /\ UNCHANGED <<outputs, staging, children>>

----------------------------------------------------------------------------
(* prepare-xcode27-linkedit-recovery: move the six artifacts of the        *)
(* misaligned build into an archive, prepare the arm64 output anew, and    *)
(* publish the archive by a rename.  The handler undoes all of it.         *)

Artifacts == {"stagedApp", "stage", "reclaim", "x64App", "x64", "signing"}
Order == <<"stagedApp", "stage", "reclaim", "x64App", "x64", "signing">>
Position(a) == CHOOSE i \in DOMAIN Order : Order[i] = a

Home(a) == CASE a = "stagedApp" -> Misaligned(staged)
             [] a = "x64App" -> Misaligned(app["x64"])
             [] OTHER -> paper[a] = "old"

RecoveryPlan ==
  /\ AllCompats(TRUE)
  /\ archive = "none"
  /\ out["arm"] = "none"
  /\ roots = {}
  /\ \A a \in Artifacts : Home(a)

StartRecovery ==
  /\ RecoveryPlan
  /\ Begin("recovery", "move")
  /\ archive' = "part"
  /\ UNCHANGED <<outputs, staging, archived, papers, children, mishaps>>

Put(a, value, receipt) ==
  /\ staged' = IF a = "stagedApp" THEN value ELSE staged
  /\ app' = IF a = "x64App" THEN [app EXCEPT !["x64"] = value] ELSE app
  /\ paper' = IF a \in Papers THEN [paper EXCEPT ![a] = receipt] ELSE paper

MoveArtifact ==
  /\ At("recovery", "move")
  /\ archived # Artifacts
  /\ LET a == CHOOSE a \in Artifacts \ archived :
                \A b \in Artifacts \ archived : Position(a) <= Position(b)
     IN  Put(a, "none", "none") /\ archived' = archived \cup {a}
  /\ UNCHANGED <<driver, out, resumed, part, archive, temps, children, mishaps>>

\* The emptied staging directory goes, the arm64 output and its args.gn come.
RestoreArmOut ==
  /\ At("recovery", "move")
  /\ archived = Artifacts
  /\ IF out["arm"] = "none"
       THEN out' = [out EXCEPT !["arm"] = "empty"] /\ UNCHANGED driver
       ELSE out' = [out EXCEPT !["arm"] = "tree"] /\ Goto("archive")
  /\ UNCHANGED <<app, resumed, staging, recovery, papers, children, mishaps>>

PublishArchive ==
  /\ At("recovery", "archive")
  /\ archive' = "final"
  /\ Goto("published")
  /\ UNCHANGED <<outputs, staging, archived, papers, children, mishaps>>

\* An exception before, between or after these steps; or an interrupt in
\* atomic_publish_text(), which leaves its temporary in the output.
RecoveryFails ==
  /\ task = "recovery"
  /\ \/ /\ pc \in {"move", "archive", "published"}
        /\ Spend("error")
        /\ UNCHANGED out
     \/ /\ pc = "move"
        /\ out["arm"] = "empty"
        /\ Spend("gap")
        /\ out' = [out EXCEPT !["arm"] = "littered"]
  /\ Goto("undo")
  /\ UNCHANGED <<app, resumed, staging, recovery, papers, children>>

Normalize ==
  /\ At("recovery", "undo")
  /\ archive = "final"
  /\ archive' = "part"
  /\ UNCHANGED <<driver, outputs, staging, archived, papers, children, mishaps>>

\* args.gn is unlinked and the output removed, which has to be empty.
UndoArmOut ==
  /\ At("recovery", "undo")
  /\ archive # "final"
  /\ CASE out["arm"] = "none" -> Goto("back") /\ UNCHANGED out
       [] out["arm"] = "littered" -> Goto("done") /\ UNCHANGED out
       [] out["arm"] = "empty" -> out' = [out EXCEPT !["arm"] = "none"] /\ UNCHANGED driver
       [] out["arm"] = "tree" -> out' = [out EXCEPT !["arm"] = "empty"] /\ UNCHANGED driver
  /\ UNCHANGED <<app, resumed, staging, recovery, papers, children, mishaps>>

MoveBack ==
  /\ At("recovery", "back")
  /\ archived # {}
  /\ LET a == CHOOSE a \in archived : \A b \in archived : Position(b) <= Position(a)
     IN  Put(a, "legacy", "old") /\ archived' = archived \ {a}
  /\ UNCHANGED <<driver, out, resumed, part, archive, temps, children, mishaps>>

\* A slip: the part is removed with what is still in it.
ReconcileUnchecked ==
  /\ At("recovery", "back")
  /\ archive' = "none"
  /\ Goto("done")
  /\ UNCHANGED <<outputs, staging, archived, papers, children, mishaps>>

\* Everything is where it was: the part is removed.
Reconcile ==
  /\ At("recovery", "back")
  /\ \A a \in Artifacts : Home(a)
  /\ archive' = "none"
  /\ Goto("done")
  /\ UNCHANGED <<outputs, staging, archived, papers, children, mishaps>>

\* "recovery and rollback failed; recovery state retained"
UndoFails ==
  /\ task = "recovery"
  /\ pc \in {"undo", "back"}
  /\ Spend("error")
  /\ Goto("done")
  /\ UNCHANGED <<outputs, staging, recovery, papers, children>>

----------------------------------------------------------------------------
(* prepare-fresh-x64: move the x64 tree of the llvm-strip graph into a     *)
(* container, generate a new graph in its place, rename the container and  *)
(* publish a receipt.  The handler makes four attempts, each of its own,   *)
(* and deletes nothing.                                                    *)

FreshPlan ==
  /\ RootHolds
  /\ ReclaimHolds
  /\ AllCompats(TRUE)
  /\ paper["fresh"] = "none"
  /\ container = "none"
  /\ failed = {}
  /\ paper["signing"] = "none"
  /\ roots = {}
  /\ out["x64"] = "legacy"

StartFresh ==
  /\ FreshPlan
  /\ Begin("fresh", "container")
  /\ UNCHANGED <<outputs, fresh, papers, children, mishaps>>

MakeContainer ==
  /\ At("fresh", "container")
  /\ container' = "transaction"
  /\ known' = known \cup {"container"}
  /\ pc' = "move"
  /\ UNCHANGED <<task, outputs, held, spoiled, failed, papers, children, mishaps>>

MoveLegacy ==
  /\ At("fresh", "move")
  /\ out' = [out EXCEPT !["x64"] = "none"]
  /\ held' = TRUE
  /\ Goto("out")
  /\ UNCHANGED <<app, resumed, container, spoiled, failed, papers, children, mishaps>>

\* A slip: the identity of the new output is not recorded.
MakeOutUnrecorded ==
  /\ At("fresh", "out")
  /\ out' = [out EXCEPT !["x64"] = "empty"]
  /\ Goto("graph")
  /\ UNCHANGED <<app, resumed, fresh, papers, children, mishaps>>

MakeOut ==
  /\ At("fresh", "out")
  /\ out' = [out EXCEPT !["x64"] = "empty"]
  /\ known' = known \cup {"out"}
  /\ pc' = "graph"
  /\ UNCHANGED <<task, app, resumed, fresh, papers, children, mishaps>>

\* args.gn, then GN alone; the graph is checked and no Ninja has run.
FreshGraph ==
  /\ At("fresh", "graph")
  /\ out' = [out EXCEPT !["x64"] = "tree"]
  /\ Goto("seal")
  /\ UNCHANGED <<app, resumed, fresh, papers, children, mishaps>>

SealContainer ==
  /\ At("fresh", "seal")
  /\ GraphHolds
  /\ container' = "legacy"
  /\ Goto("fresh")
  /\ UNCHANGED <<outputs, held, spoiled, failed, papers, children, mishaps>>

PublishFresh ==
  /\ At("fresh", "fresh")
  /\ Publish("fresh", "confirm", "undoReceipt")
  /\ UNCHANGED <<outputs, fresh, children>>

ConfirmFresh ==
  /\ At("fresh", "confirm")
  /\ FreshHolds
  /\ Goto("done")
  /\ UNCHANGED <<outputs, fresh, papers, children, mishaps>>

\* A gap: a directory was made, but its identity is not known to the
\* handler; or GN was started, but its process is not.
FreshFails ==
  /\ task = "fresh"
  /\ \/ /\ pc \in {"container", "move", "out", "graph", "seal", "confirm"}
        /\ Spend("error")
        /\ UNCHANGED <<out, container, children>>
     \/ /\ pc = "container"
        /\ Spend("gap")
        /\ container' = "transaction"
        /\ UNCHANGED <<out, children>>
     \/ /\ pc = "out"
        /\ Spend("gap")
        /\ out' = [out EXCEPT !["x64"] = "empty"]
        /\ UNCHANGED <<container, children>>
     \/ /\ pc = "graph"
        /\ Spend("gap")
        /\ Abandon
        /\ UNCHANGED <<out, container>>
  /\ Goto("undoReceipt")
  /\ UNCHANGED <<app, resumed, held, spoiled, failed, papers>>

Undoing == [undoReceipt |-> "undoOut", undoOut |-> "undoLegacy",
            undoLegacy |-> "undoContainer", undoContainer |-> "done"]

\* The receipt with exactly the bytes of this process is moved aside.
UndoReceipt ==
  /\ At("fresh", "undoReceipt")
  /\ IF paper["fresh"] = "none" THEN UNCHANGED <<paper, failed>>
     ELSE /\ paper' = [paper EXCEPT !["fresh"] = "none"]
          /\ failed' = failed \cup {"receipt"}
  /\ Goto("undoOut")
  /\ UNCHANGED <<outputs, container, held, spoiled, temps, children, mishaps>>

UndoOut ==
  /\ At("fresh", "undoOut")
  /\ IF "out" \notin known THEN UNCHANGED <<out, failed>>
     ELSE /\ out' = [out EXCEPT !["x64"] = "none"]
          /\ failed' = failed \cup {"out"}
  /\ Goto("undoLegacy")
  /\ UNCHANGED <<app, resumed, container, held, spoiled, papers, children, mishaps>>

\* "original x86_64 path is occupied during rollback": it stays where it is.
UndoLegacy ==
  /\ At("fresh", "undoLegacy")
  /\ IF held /\ out["x64"] = "none"
       THEN out' = [out EXCEPT !["x64"] = "legacy"] /\ held' = FALSE
       ELSE UNCHANGED <<out, held>>
  /\ Goto("undoContainer")
  /\ UNCHANGED <<app, resumed, container, spoiled, failed, papers, children, mishaps>>

UndoContainer ==
  /\ At("fresh", "undoContainer")
  /\ container' = IF "container" \in known THEN "failed" ELSE container
  /\ Goto("done")
  /\ UNCHANGED <<outputs, held, spoiled, failed, papers, children, mishaps>>

\* One attempt fails; the handler goes on with the next.
AttemptFails ==
  /\ task = "fresh"
  /\ pc \in DOMAIN Undoing
  /\ Spend("error")
  /\ Goto(Undoing[pc])
  /\ UNCHANGED <<outputs, fresh, papers, children>>

\* A GN whose driver has gone writes to the path it was given.
StrayGraph ==
  /\ "fresh" \in strays
  /\ out' = [out EXCEPT !["x64"] = IF @ \in {"none", "empty"} THEN "empty" ELSE @]
  /\ spoiled' = (spoiled \/ out["x64"] = "legacy")
  /\ UNCHANGED <<driver, app, resumed, container, held, failed, papers, children, mishaps>>

----------------------------------------------------------------------------
(* The two signing stages of SigningTransaction: on an x64 slice that      *)
(* holds they end with their receipts.                                     *)

Sign ==
  /\ Idle
  /\ SliceHolds("x64")
  /\ paper["signing"] = "none"
  /\ paper' = [paper EXCEPT !["signing"] = "new"]
  /\ UNCHANGED <<driver, outputs, temps, children, mishaps>>

----------------------------------------------------------------------------
(* merge-sign-package: join the two apps in a new unsigned root, sign into *)
(* a second root, package a private candidate, accept it mounted, publish. *)
(* The roots of a failed merge stay, and refuse the next one.              *)

MergePlan ==
  /\ ReclaimHolds
  /\ AllCompats(TRUE)
  /\ AppReport(app["x64"])
  /\ paper["signing"] = "new"
  /\ SliceHolds("x64")
  /\ roots = {}
  /\ dmg = "none"

\* The probe of NoWork(), which an aliased checkout repeats at the boundary.
LiveNoWork == alias => app["x64"] = "sound"

StartMerge ==
  /\ MergePlan
  /\ LiveNoWork
  /\ Begin("merge", "universalize")
  /\ roots' = {"unsigned"}
  /\ UNCHANGED <<outputs, staging, merged, dmg, papers, children, mishaps>>

\* On a private copy of the x64 app; what one input lacks the result lacks.
Universalize ==
  /\ At("merge", "universalize")
  /\ merged' = CASE "torn" \in {staged, app["x64"]} -> "torn"
                 [] "legacy" \in {staged, app["x64"]} -> "legacy"
                 [] OTHER -> "sound"
  /\ Goto("sign")
  /\ UNCHANGED <<outputs, staging, roots, dmg, papers, children, mishaps>>

SignMerged ==
  /\ At("merge", "sign")
  /\ AppReport(merged)
  /\ roots' = roots \cup {"signed"}
  /\ Goto("publish")
  /\ UNCHANGED <<merged, dmg, papers, children, mishaps>>

\* The link and the fsync of its directory are the commit.
PublishMerged ==
  /\ At("merge", "publish")
  /\ dmg' = merged
  /\ Goto("committed")
  /\ UNCHANGED <<roots, merged, papers, children, mishaps>>

\* Before the commit the image is withdrawn, after it it stays.
MergeFails ==
  /\ task = "merge"
  /\ pc \in {"universalize", "sign", "publish", "committed"}
  /\ Spend("error")
  /\ Goto("done")
  /\ UNCHANGED <<universal, papers, children>>

----------------------------------------------------------------------------
(* The operator clears what the plans refuse and nothing certifies.        *)

Clear ==
  /\ Idle
  /\ \/ \E s \in Slices :
          /\ app[s] \in {"torn", "sound"}
          /\ paper[s] = "none"
          /\ s \notin resumed
          /\ app' = [app EXCEPT ![s] = "none"]
          /\ UNCHANGED <<temps, litter, part, roots, merged>>
     \/ /\ part # "none"
        /\ part' = "none"
        /\ UNCHANGED <<app, temps, litter, roots, merged>>
     \/ /\ roots # {} /\ dmg = "none"
        /\ roots' = {}
        /\ merged' = "none"
        /\ UNCHANGED <<app, temps, litter, part>>
     \/ /\ temps # {} \/ litter
        /\ temps' = {}
        /\ litter' = FALSE
        /\ UNCHANGED <<app, part, roots, merged>>
  /\ UNCHANGED <<driver, paper, children, mishaps, out, resumed, config, vite, marks>>

----------------------------------------------------------------------------
(* An empty disk; a checkout that holds the misaligned build and all        *)
(* patches but the one that would have avoided it; or an aliased one with  *)
(* the llvm-strip graph.                                                   *)

Papered(S) == [p \in Papers |-> IF p \in S THEN "old" ELSE "none"]

Nothing ==
  /\ EmptyDisk
  /\ ~ alias
  /\ patched = {}
  /\ paper = Papered({})
  /\ out = [s \in Slices |-> "none"]
  /\ app = [s \in Slices |-> "none"]
  /\ staged = "none"

Recorded ==
  /\ PreparedDisk
  /\ ~ alias
  /\ patched = UNION {FilesOf(c) : c \in Compats \ {"linkedit"}}
  /\ paper = Papered((Compats \ {"linkedit"}) \cup {"bootstrap", "stage", "reclaim", "x64", "signing"})
  /\ out = [arm |-> "none", x64 |-> "tree"]
  /\ app = [arm |-> "none", x64 |-> "legacy"]
  /\ staged = "legacy"

Aliased ==
  /\ PreparedDisk
  /\ alias
  /\ patched = AllFiles
  /\ paper = Papered(Compats \cup {"bootstrap"})
  /\ out = [arm |-> "tree", x64 |-> "legacy"]
  /\ app = [s \in Slices |-> "none"]
  /\ staged = "none"

Init ==
  /\ alias \in BOOLEAN
  /\ Unadopted
  /\ Nothing \/ Recorded \/ Aliased
  /\ task = "none" /\ pc = "idle" /\ known = {}
  /\ temps = {} /\ strays = {} /\ strayed = FALSE
  /\ mishaps = [k \in Kinds |-> 0]
  /\ resumed = {}
  /\ part = "none"
  /\ archive = "none" /\ archived = {}
  /\ container = "none" /\ held = FALSE /\ spoiled = FALSE /\ failed = {}
  /\ roots = {} /\ merged = "none" /\ dmg = "none"

----------------------------------------------------------------------------
\* write_args_gn() makes the outputs.
Source ==
  /\ \/ Acquire /\ UNCHANGED out
     \/ Prepare /\ out' = [s \in Slices |-> IF phase'["args"] = "yes" THEN "tree" ELSE "none"]
  /\ UNCHANGED <<alias, adoption, patched, app, resumed, staging, recovery, fresh, universal>>

Compat ==
  /\ \/ \E c \in Compats : StartCompat(c, ArmArgs(c = "linkedit"))
     \/ ExecuteGnCompat \/ ExecuteXcode27Compat \/ ExecuteXcode27Seatbelt
     \/ ExecuteScreenAIDisabled \/ ExecuteXcode27LinkeditStrip
  /\ UNCHANGED <<source, alias, adoption, outputs, staging, recovery, fresh, universal>>

Build ==
  /\ \E s \in Slices :
       \/ StartBuild(s) \/ BuildGraph(s) \/ Ninja(s) \/ BuildFails(s)
       \/ ExecuteResumedSlice(s) \/ ResumeBuild(s) \/ StrayNinja(s)
  /\ UNCHANGED <<source, alias, adoption, patched, staging, recovery, fresh, universal>>

Stage ==
  /\ \/ StartStage \/ Ditto \/ SwapIn \/ StageFails \/ PublishStage
     \/ ReclaimOut \/ ReclaimBreaks \/ PublishReclaim
  /\ UNCHANGED <<source, alias, adoption, patched, recovery, fresh, universal>>

Recover ==
  /\ \/ StartRecovery \/ MoveArtifact \/ RestoreArmOut \/ PublishArchive
     \/ RecoveryFails \/ Normalize \/ UndoArmOut \/ MoveBack \/ Reconcile
     \/ UndoFails
  /\ UNCHANGED <<source, alias, adoption, patched, fresh, universal>>

Refresh ==
  /\ \/ StartFresh \/ MakeContainer \/ MoveLegacy \/ MakeOut \/ FreshGraph
     \/ SealContainer \/ PublishFresh \/ ConfirmFresh \/ FreshFails
     \/ UndoReceipt \/ UndoOut \/ UndoLegacy \/ UndoContainer \/ AttemptFails
     \/ StrayGraph
  /\ UNCHANGED <<source, alias, adoption, patched, staging, recovery, universal>>

Merge ==
  /\ \/ Sign /\ UNCHANGED universal
     \/ StartMerge \/ Universalize \/ SignMerged \/ PublishMerged \/ MergeFails
  /\ UNCHANGED <<source, alias, adoption, patched, outputs, staging, recovery, fresh>>

\* The end of a stage or of its process, of a child that outlived it; and
\* the operator.
Other ==
  /\ \/ Finish /\ UNCHANGED <<papers, children, mishaps, outputs, adoption, part, roots, merged>>
     \/ Dies /\ UNCHANGED <<outputs, adoption, part, roots, merged>>
     \/ \E t \in Tasks : StrayEnds(t) /\ UNCHANGED <<outputs, adoption, part, roots, merged>>
     \/ Clear
  /\ UNCHANGED <<source, alias, patched, staged, recovery, fresh, dmg>>

vars == <<driver, papers, children, mishaps, source, patched, alias, adoption,
          outputs, staging, recovery, fresh, universal>>

Adopting ==
  /\ out["arm"] = "tree"
  /\ Adoption
  /\ UNCHANGED <<source, patched, outputs, staging, recovery, fresh, universal>>

Next == Source \/ Adopting \/ Compat \/ Build \/ Stage \/ Recover \/ Refresh \/ Merge \/ Other

Spec == Init /\ [][Next]_vars

----------------------------------------------------------------------------
BuildTypeOK ==
  /\ DriverTypeOK
  /\ SourceTypeOK
  /\ AdoptionTypeOK
  /\ patched \subseteq AllFiles
  /\ out \in [Slices -> {"none", "empty", "littered", "tree", "legacy"}]
  /\ app \in [Slices -> Apps]
  /\ resumed \subseteq Slices
  /\ part \in Apps \cup {"empty"}
  /\ staged \in Apps
  /\ archive \in {"none", "part", "final"}
  /\ archived \subseteq Artifacts
  /\ container \in {"none", "transaction", "legacy", "failed"}
  /\ held \in BOOLEAN
  /\ spoiled \in BOOLEAN
  /\ failed \subseteq {"receipt", "out"}
  /\ roots \subseteq {"unsigned", "signed"}
  /\ merged \in Apps
  /\ dmg \in Apps

\* Once the arm64 slice is certified a whole copy of its app exists, in the
\* output or staged, through the copy, the swap, the removal of the output
\* and every failure of them, as long as no child outlives its driver; and
\* the reclaim receipt is there only when the output is gone.
ArmKept ==
  /\ ~ strayed /\ "new" \in {paper["arm"], paper["stage"]} =>
       "sound" \in {app["arm"], staged}
  /\ paper["reclaim"] = "new" => out["arm"] = "none" /\ paper["stage"] = "new"

\* What the recovery and the fresh x64 graph move is evidence: at every
\* instant each piece is in exactly one of its two places, no other stage
\* takes its place or writes into it, and the archive that holds it is there.
LegacyKept ==
  /\ (\E a \in Artifacts : Home(a) \/ a \in archived) =>
       \A a \in Artifacts : Home(a) # (a \in archived)
  /\ archived # {} => archive # "none"
  /\ alias => (out["x64"] = "legacy") # held
  /\ held => container # "none"
  /\ ~ strayed => ~ spoiled

\* No stage and no handler loses the app of the slice or the evidence.
NothingIsLost == ArmKept /\ LegacyKept

\* One exception, wherever a handler covers it, leaves the recovery and the
\* fresh x64 preparation done, or undone with nothing in the way of the tree.
MovesAllOrNothing ==
  Undisturbed /\ Idle =>
    /\ IF archive = "final" THEN archived = Artifacts
       ELSE archive = "none" /\ archived = {} /\ (staged = "legacy" => out["arm"] = "none")
    /\ alias => IF paper["fresh"] = "new" THEN FreshBound /\ GraphHolds
                ELSE out["x64"] = "legacy" /\ container \in {"none", "failed"}

\* A published image is whole, of two slices of this build, each certified,
\* with every patch, signed, and on an aliased checkout from the fresh graph.
PublishedIsSound ==
  dmg # "none" =>
    /\ dmg # "legacy"
    /\ ~ strayed => dmg = "sound"
    /\ \A p \in {"x64", "stage", "reclaim", "signing"} : paper[p] = "new"
    /\ CompatHolds("linkedit")
    /\ alias => FreshBound /\ RootHolds
============================================================================
