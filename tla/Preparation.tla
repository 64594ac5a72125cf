---------------------------- MODULE Preparation ----------------------------
(***************************************************************************)
(* From an empty disk to the prepared checkout: acquire_chromium.py, the   *)
(* bootstrap-tools stage, and the subcommands of prepare_source.py.  Only  *)
(* resume-finalize undoes what it did when it fails; whatever another      *)
(* failure leaves must be the start of a plan by itself, or a new checkout *)
(* is needed.                                                              *)
(***************************************************************************)
EXTENDS BuildDriver

\* The phases that change the checkout, but for the patches and the strings.
Phases == {"deps", "prune", "transform", "overlay", "version", "resources",
           "icon", "args"}

Patches == 3        \* stands for the 326 of FULL_PATCH_PLAN_COUNT
Audited == {1}      \* stands for 98, 138 and 324

VARIABLES
  checkout,  \* the checkout: absent, partial or whole
  cache,     \* the downloaded archives: absent, partial or all verified
  acquired,  \* the acquisition marker exists
  tools,     \* what the hooks fetch: nothing, a part, or all
  phase,     \* per phase: not begun, begun or complete
  applied,   \* the patches applied
  half,      \* the next patch is applied in part
  strings,   \* the onboarding strings: absent, baseline or torn
  prepared,  \* the preparation receipt exists
  snapshot,  \* the private copies of the finalizer
  finalized  \* history: a finalizer has begun

downloads == <<checkout, cache, acquired, tools>>
tree == <<phase, applied, half, strings>>
source == <<downloads, tree, prepared, snapshot, finalized>>

Untouched == [p \in Phases |-> "no"]

----------------------------------------------------------------------------
(* acquire_chromium.py: clone, sync, download, verify, mark.  The targets  *)
(* must be new, and nothing removes them after a failure.                  *)

AcquirePlan == checkout = "none" /\ cache = "none"

StartAcquire ==
  /\ AcquirePlan
  /\ Begin("acquire", "sync")
  /\ checkout' = "some"
  /\ cache' = "some"
  /\ UNCHANGED <<acquired, tools, papers, children, mishaps>>

SyncCheckout ==
  /\ At("acquire", "sync")
  /\ checkout' = "whole"
  /\ Goto("download")
  /\ UNCHANGED <<cache, acquired, tools, papers, children, mishaps>>

\* Each archive gets its name when its hash is right, the marker follows.
FinalizeDownloads ==
  /\ At("acquire", "download")
  /\ cache' = "whole"
  /\ Goto("verify")
  /\ UNCHANGED <<checkout, acquired, tools, papers, children, mishaps>>

VerifyCheckout ==
  /\ At("acquire", "verify")
  /\ checkout = "whole"
  /\ Goto("mark")
  /\ UNCHANGED <<downloads, papers, children, mishaps>>

WriteMarker ==
  /\ At("acquire", "mark")
  /\ acquired' = TRUE
  /\ Goto("done")
  /\ UNCHANGED <<checkout, cache, tools, papers, children, mishaps>>

\* A child left behind by an interrupt works in a checkout without a marker.
AcquireFails ==
  /\ task = "acquire"
  /\ pc \in {"sync", "download", "verify", "mark"}
  /\ Spend("error")
  /\ Goto("done")
  /\ UNCHANGED <<downloads, papers, children>>

\* The operator removes both targets.
DiscardCheckout ==
  /\ Idle
  /\ ~ acquired
  /\ checkout # "none"
  /\ checkout' = "none"
  /\ cache' = "none"
  /\ UNCHANGED <<driver, acquired, tools, papers, children, mishaps>>

----------------------------------------------------------------------------
(* bootstrap-tools: the hooks run in a checkout without tracked changes.   *)

PristineSource == phase = Untouched /\ applied = 0 /\ ~ half

BootstrapPlan ==
  /\ acquired
  /\ paper["bootstrap"] = "none"
  /\ ~ prepared

StartBootstrap ==
  /\ BootstrapPlan
  /\ PristineSource
  /\ Begin("bootstrap", "hooks")
  /\ UNCHANGED <<downloads, papers, children, mishaps>>

RunHooks ==
  /\ At("bootstrap", "hooks")
  /\ IF tools = "none"
       THEN tools' = "some" /\ UNCHANGED driver
       ELSE tools' = "whole" /\ PristineSource /\ Goto("bootstrap")
  /\ UNCHANGED <<checkout, cache, acquired, papers, children, mishaps>>

HooksFail ==
  /\ At("bootstrap", "hooks")
  /\ \/ Spend("error") /\ Goto("done") /\ UNCHANGED children
     \/ PopenGap("done")
  /\ UNCHANGED <<downloads, papers>>

PublishBootstrap ==
  /\ At("bootstrap", "bootstrap")
  /\ Publish("bootstrap", "done", "done")
  /\ UNCHANGED <<downloads, children>>

\* The hooks of a dead driver go on.
StrayHooks ==
  /\ "bootstrap" \in strays
  /\ tools' \in {"some", "whole"}
  /\ UNCHANGED <<driver, checkout, cache, acquired, papers, children, mishaps>>

----------------------------------------------------------------------------
(* The three plans.  prepare looks for traces of its phases, the two       *)
(* others compare whole inventories with pinned ones.                      *)

MarkerHolds == acquired

Bootstrapped == MarkerHolds /\ paper["bootstrap"] # "none"

CacheHolds == cache = "whole"

PreparePlan ==
  /\ Bootstrapped
  /\ CacheHolds
  /\ \A p \in {"deps", "prune", "version", "args"} : phase[p] = "no"
  /\ ~ prepared

\* The inventory of tracked changes and that of ignored files.
TreeIs(done, n, text) ==
  /\ phase = [p \in Phases |-> IF p \in done THEN "yes" ELSE "no"]
  /\ applied = n
  /\ ~ half
  /\ strings = text

AfterPatches(n) == TreeIs({"deps", "prune"}, n, "absent")

ResumePatchPlan ==
  /\ Bootstrapped
  /\ CacheHolds
  /\ ~ prepared
  /\ \E n \in Audited : AfterPatches(n)

\* After the version and before the resources.
AfterVersion ==
  TreeIs(Phases \ {"resources", "icon", "args"}, Patches, "baseline")

FinalizerPlan ==
  /\ Bootstrapped
  /\ CacheHolds
  /\ AfterVersion
  /\ ~ prepared

StartPrepare ==
  /\ PreparePlan
  /\ Begin("prepare", "extract")
  /\ UNCHANGED <<snapshot, finalized, papers, children, mishaps>>

StartResumePatch ==
  /\ ResumePatchPlan
  /\ Begin("resumePatch", "patches")
  /\ UNCHANGED <<snapshot, finalized, papers, children, mishaps>>

StartFinalizer ==
  /\ FinalizerPlan
  /\ Begin("finalizer", "snapshot")
  /\ snapshot' = "none"
  /\ finalized' = TRUE
  /\ UNCHANGED <<papers, children, mishaps>>

----------------------------------------------------------------------------
(* The phases, in their order.                                             *)

Preparing == task \in {"prepare", "resumePatch", "finalizer"}

\* A phase that changes many files, one after the other.
Work(p, next) ==
  /\ Preparing
  /\ pc = p
  /\ phase' = [phase EXCEPT ![p] = IF @ = "no" THEN "some" ELSE "yes"]
  /\ IF phase[p] = "no" THEN UNCHANGED driver ELSE Goto(next)

WorkOn(p, next) == Work(p, next) /\ UNCHANGED <<applied, half, strings>>

\* All archives, to a private directory, before the first file is placed.
ExtractArchives ==
  /\ At("prepare", "extract")
  /\ CacheHolds
  /\ Goto("deps")
  /\ UNCHANGED tree

MergeDependencies == WorkOn("deps", "prune")

\* Every listed file is there, or absent as listed, before the first goes.
Prune == WorkOn("prune", "patches")

\* patch -C, and then the same command without it.
ApplyPatch ==
  /\ Preparing
  /\ pc = "patches"
  /\ \/ half /\ half' = FALSE /\ applied' = applied + 1 /\ UNCHANGED driver
     \/ ~ half /\ applied < Patches /\ half' = TRUE /\ UNCHANGED <<applied, driver>>
     \/ ~ half /\ applied = Patches /\ Goto("transform") /\ UNCHANGED <<applied, half>>
  /\ UNCHANGED <<phase, strings>>

\* Domains, names, translations.
Transform == WorkOn("transform", "overlay")

\* The overlay brings the strings, too.
ApplyOverlay ==
  /\ Work("overlay", "version")
  /\ strings' = IF phase["overlay"] = "some" THEN "baseline" ELSE strings
  /\ UNCHANGED <<applied, half>>

AppendVersion ==
  /\ Preparing
  /\ pc = "version"
  /\ phase' = [phase EXCEPT !["version"] = "yes"]
  /\ Goto("resources")
  /\ UNCHANGED <<applied, half, strings>>

CopyResources == WorkOn("resources", "icon")

InstallIcon ==
  /\ Preparing
  /\ pc = "icon"
  /\ phase' = [phase EXCEPT !["icon"] = "yes"]
  /\ Goto("args")
  /\ UNCHANGED <<applied, half, strings>>

\* arm64, then x64; each is opened exclusively.
WriteArgs == WorkOn("args", "strings")

\* The generator writes over the baseline, and must arrive at it again.
GenerateStrings ==
  /\ Preparing
  /\ pc = "strings"
  /\ \/ strings = "baseline" /\ strings' = "torn" /\ UNCHANGED driver
     \/ strings = "torn" /\ strings' = "baseline" /\ Goto("publish")
  /\ UNCHANGED <<phase, applied, half>>

Phase ==
  /\ \/ ExtractArchives \/ MergeDependencies \/ Prune \/ ApplyPatch
     \/ Transform \/ ApplyOverlay \/ AppendVersion \/ CopyResources \/ InstallIcon \/ WriteArgs
     \/ GenerateStrings
  /\ UNCHANGED <<prepared, snapshot, papers, children, mishaps>>

\* atomic_publish_text(): its temporary has a name of its own every time.
PublishPreparation ==
  /\ Preparing
  /\ pc = "publish"
  /\ strings = "baseline"
  /\ ~ prepared
  /\ prepared' = TRUE
  /\ Goto(IF task = "finalizer" THEN "drop" ELSE "done")
  /\ UNCHANGED <<tree, snapshot, papers, children, mishaps>>

\* prepare and resume-patch-failure have no handler; the receipt may have
\* been linked when its publication fails.
PrepareFails ==
  /\ task \in {"prepare", "resumePatch"}
  /\ pc \in Phases \cup {"extract", "patches", "strings", "publish"}
  /\ Spend("error")
  /\ prepared' \in {prepared, prepared \/ pc = "publish"}
  /\ Goto("done")
  /\ UNCHANGED <<tree, snapshot, papers, children>>

\* patch(1) may end its patch after the death of its driver; at once here.
PatchOutlives ==
  /\ Preparing
  /\ half
  /\ Spend("kill")
  /\ half' = FALSE
  /\ applied' = applied + 1
  /\ Ended
  /\ UNCHANGED <<phase, strings, prepared, snapshot, papers, children>>

----------------------------------------------------------------------------
(* resume-finalize: copies of all it will change, in a temporary directory *)
(* that no later run looks for; on any exception the receipt goes first,   *)
(* then args.gn, then the files come back, and the exact tree is proved.   *)

TakeSnapshot ==
  /\ At("finalizer", "snapshot")
  /\ IF snapshot = "none"
       THEN snapshot' = "some" /\ UNCHANGED driver
       ELSE snapshot' = "full" /\ Goto("resources")
  /\ UNCHANGED <<tree, prepared, papers, children, mishaps>>

\* A gap: between the two try statements.
SnapshotFails ==
  /\ At("finalizer", "snapshot")
  /\ \/ Spend("error") /\ snapshot' = "none"
     \/ Spend("gap") /\ snapshot' = "full"
  /\ Goto("done")
  /\ UNCHANGED <<tree, prepared, papers, children>>

FinalizerFails ==
  /\ task = "finalizer"
  /\ pc \in {"resources", "icon", "args", "strings", "publish"}
  /\ Spend("error")
  /\ prepared' \in {prepared, pc = "publish"}
  /\ Goto("undoReceipt")
  /\ UNCHANGED <<tree, snapshot, papers, children>>

\* A slip: the receipt is left for the end.
UndoReceiptLast ==
  /\ At("finalizer", "undoReceipt")
  /\ Goto("undoArgs")
  /\ UNCHANGED <<tree, prepared, snapshot, papers, children, mishaps>>

UndoPrepared ==
  /\ At("finalizer", "undoReceipt")
  /\ prepared' = FALSE
  /\ Goto("undoArgs")
  /\ UNCHANGED <<tree, snapshot, papers, children, mishaps>>

Less(state) == IF state = "yes" THEN "some" ELSE "no"

UndoArgs ==
  /\ At("finalizer", "undoArgs")
  /\ phase' = [phase EXCEPT !["args"] = Less(@)]
  /\ IF phase["args"] = "yes" THEN UNCHANGED driver ELSE Goto("undoFiles")
  /\ UNCHANGED <<applied, half, strings, prepared, snapshot, papers, children, mishaps>>

\* The resources, then the icon, then the strings.
UndoFiles ==
  /\ At("finalizer", "undoFiles")
  /\ CASE phase["resources"] # "no" ->
            /\ phase' = [phase EXCEPT !["resources"] = Less(@)]
            /\ UNCHANGED <<driver, strings>>
       [] phase["resources"] = "no" /\ phase["icon"] # "no" ->
            /\ phase' = [phase EXCEPT !["icon"] = "no"]
            /\ UNCHANGED <<driver, strings>>
       [] phase["resources"] = "no" /\ phase["icon"] = "no" ->
            /\ strings' = "baseline"
            /\ Goto("drop")
            /\ UNCHANGED phase
  /\ UNCHANGED <<applied, half, prepared, snapshot, papers, children, mishaps>>

\* A slip: the copies are removed whatever the tree is.
UndoDropsSnapshot ==
  /\ task = "finalizer"
  /\ pc \in {"undoReceipt", "undoArgs", "undoFiles"}
  /\ Spend("error")
  /\ snapshot' = "none"
  /\ Goto("done")
  /\ UNCHANGED <<tree, prepared, papers, children>>

\* "rollback snapshot retained at ..."
UndoFinalizerFails ==
  /\ task = "finalizer"
  /\ pc \in {"undoReceipt", "undoArgs", "undoFiles"}
  /\ Spend("error")
  /\ Goto("done")
  /\ UNCHANGED <<tree, prepared, snapshot, papers, children>>

\* After the receipt, or after a rollback that is proved to be exact.
DropSnapshot ==
  /\ At("finalizer", "drop")
  /\ prepared \/ AfterVersion
  /\ \/ snapshot' = "none" /\ UNCHANGED mishaps
     \/ snapshot' = "some" /\ Spend("error")
  /\ Goto("done")
  /\ UNCHANGED <<tree, prepared, papers, children>>

----------------------------------------------------------------------------
Acquire ==
  /\ \/ StartAcquire \/ SyncCheckout \/ FinalizeDownloads \/ VerifyCheckout
     \/ WriteMarker \/ AcquireFails \/ DiscardCheckout
     \/ StartBootstrap \/ RunHooks \/ HooksFail \/ PublishBootstrap \/ StrayHooks
  /\ UNCHANGED <<tree, prepared, snapshot, finalized>>

Prepare ==
  /\ \/ /\ StartPrepare \/ StartResumePatch \/ StartFinalizer
        /\ UNCHANGED <<tree, prepared>>
     \/ /\ \/ Phase \/ PublishPreparation \/ PrepareFails \/ PatchOutlives
           \/ TakeSnapshot \/ SnapshotFails \/ FinalizerFails
           \/ UndoPrepared \/ UndoArgs \/ UndoFiles \/ UndoFinalizerFails
           \/ DropSnapshot
        /\ UNCHANGED finalized
  /\ UNCHANGED downloads

\* Nothing but the disk; and a checkout that is prepared.
EmptyDisk ==
  /\ checkout = "none" /\ cache = "none" /\ acquired = FALSE /\ tools = "none"
  /\ phase = Untouched /\ applied = 0 /\ half = FALSE /\ strings = "absent"
  /\ prepared = FALSE /\ snapshot = "none" /\ finalized = FALSE

PreparedDisk ==
  /\ checkout = "whole" /\ cache = "whole" /\ acquired = TRUE /\ tools = "whole"
  /\ phase = [p \in Phases |-> "yes"]
  /\ applied = Patches /\ half = FALSE /\ strings = "baseline"
  /\ prepared = TRUE /\ snapshot = "none" /\ finalized = FALSE

SourceTypeOK ==
  /\ {checkout, cache, tools} \subseteq {"none", "some", "whole"}
  /\ {acquired, half, prepared, finalized} \subseteq BOOLEAN
  /\ phase \in [Phases -> {"no", "some", "yes"}]
  /\ applied \in 0..Patches
  /\ strings \in {"absent", "baseline", "torn"}
  /\ snapshot \in {"none", "some", "full"}

----------------------------------------------------------------------------
\* The three receipts of the preparation stand for all that was done before
\* them, at every instant, also while a failed finalizer takes its own back;
\* only hooks that have outlived their driver can still change anything.
PreparedIsWhole ==
  /\ acquired => checkout = "whole" /\ cache = "whole"
  /\ paper["bootstrap"] # "none" => acquired /\ (~ strayed => tools = "whole")
  /\ prepared =>
       /\ Bootstrapped
       /\ phase = [p \in Phases |-> "yes"]
       /\ applied = Patches /\ ~ half /\ strings = "baseline"

\* Once a finalizer has begun, the tree it began with is there, or copies of
\* all it changes, or the receipt; and one exception leaves the receipt or
\* exactly the tree that the finalizer accepts again.
FinalizerLosesNothing ==
  finalized =>
    /\ prepared \/ AfterVersion \/ snapshot = "full"
    /\ Undisturbed /\ Idle => prepared \/ FinalizerPlan
============================================================================
