------------------------- MODULE SigningTransaction -------------------------
(***************************************************************************)
(* The two signing corrections of platform/macos/build_pipeline.py,        *)
(* apply-swiftshader-disabled-signing-compat and, on top of it,            *)
(* apply-adhoc-runtime-signing-compat: each changes Chromium's signing     *)
(* scripts, lets Ninja copy them into the generated signing package, and   *)
(* publishes a receipt.  On a build below the home alias a durable         *)
(* transaction (a private root with backups and a journal) lets a later    *)
(* process undo what a crash left behind; an in-memory copy serves a       *)
(* failure the process itself survives.                                    *)
(*                                                                         *)
(* Data.  The targets are five files: signing/parts.py and the other       *)
(* changed scripts ("modification"), the generated copy of each, and the   *)
(* Ninja history (.ninja_log and .ninja_deps).  A script is the image a    *)
(* stage leaves ("chromium", "swiftshader", "adhoc"), which is what the    *)
(* hashes of the code tell apart; a history is one of Histories, a new one *)
(* for each refresh.  A receipt holds the state its stage found and the    *)
(* history before and after.                                               *)
(*                                                                         *)
(* PlanHoldsUnchained, InspectJournalFirst, InspectStrict,                 *)
(* RestoreDoneEarly, BeginBackupButHistory and ExecutePointsAfterPatch are *)
(* not used below: each is the definition after it with a slip, and        *)
(* PROJECT.json names the property it breaks.                              *)
(***************************************************************************)
EXTENDS Naturals

CONSTANTS
    Histories,       \* contents the Ninja history can have
    BuildHistory,    \* the history the x86_64 build ended with
    MaxCrashes,      \* bound: how often the process or the machine dies
    MaxFaults,       \* bound: how many calls fail or signals arrive
    OutOfOrder       \* whether a stage is started before the other is recovered

ASSUME SigningAssumption ==
    /\ BuildHistory \in Histories
    /\ MaxCrashes \in Nat /\ MaxFaults \in Nat
    /\ OutOfOrder \in BOOLEAN

Stages == {"swiftshader", "adhoc"}
Scripts == {"parts", "modification"}
Copies == {"partsCopy", "modificationCopy"}
Files == Scripts \cup Copies \cup {"history"}
Images == {"chromium", "swiftshader", "adhoc", "absent"}
Contents == Images \cup Histories

Sources(s) == IF s = "swiftshader" THEN {"parts"} ELSE Scripts
Packages(s) == IF s = "swiftshader" THEN {"partsCopy"} ELSE Copies
Targets(s) == Sources(s) \cup Packages(s) \cup {"history"}

CopyOf == [f \in Scripts |-> IF f = "parts" THEN "partsCopy" ELSE "modificationCopy"]
ScriptOf == [f \in Copies |-> IF f = "partsCopy" THEN "parts" ELSE "modification"]

BuildTree == [f \in Files |-> IF f = "history" THEN BuildHistory ELSE "chromium"]

NoReceipt == [found |-> "none", before |-> BuildHistory, after |-> BuildHistory]
FileStates == {"pre", "post", "post-adhoc", "mixed"}
Receipts == [found : FileStates, before : Histories, after : Histories] \cup {NoReceipt}

VARIABLES
    alias,       \* whether the home alias is active (a resumed build)
    tree,        \* file -> its contents
    receipt,     \* stage -> its published receipt
    root,        \* stage -> what its transaction root holds, {} if no root
    backup,      \* stage -> the files copied under root/backups
    marker,      \* stages with a cleanup authorization
    tombstone,   \* stages with a root renamed for removal
    leftover,    \* temporaries with a fixed name: "history", or a stage's receipt
    stage, pc,   \* what the running process executes, and where it is
    cont,        \* what follows the cleanup it is in
    todo,        \* the files its current loop has still to do
    found,       \* source and package state of its plan
    memory,      \* its private copies of the targets
    owned,       \* whether it knows the receipt as its own
    accepted,    \* history: stages whose present receipt a contract accepted
    settled,     \* history: the files as of the last receipt
    crashes, faults

disk == <<tree, receipt, root, backup, marker, tombstone, leftover>>
process == <<stage, pc, cont, todo, found, memory, owned>>
ghosts == <<accepted, settled>>
bounds == <<crashes, faults>>
vars == <<alias, disk, process, ghosts, bounds>>

Published(s) == receipt[s] # NoReceipt

-----------------------------------------------------------------------------
(* What the contracts check.                                                *)

(* The images the two stages call "pre" and "post".                         *)
PreImage(s, f) == IF s = "adhoc" /\ f \in {"parts", "partsCopy"} THEN "swiftshader"
                  ELSE "chromium"
PostImage(s) == s

StateOf(s, files) ==
    IF \A f \in files : tree[f] = PreImage(s, f) THEN "pre"
    ELSE IF \A f \in files : tree[f] = PostImage(s) THEN "post"
    ELSE IF s = "swiftshader" /\ \A f \in files : tree[f] = "adhoc" THEN "post-adhoc"
    ELSE "mixed"

(* A generated package may not be ahead of its source. *)
StatesAgree(source, package) ==
    \/ source = "pre" /\ package = "pre"
    \/ source = "post" /\ package \in {"pre", "post"}
    \/ source = "post-adhoc" /\ package = "post-adhoc"

(* swiftshader_disabled_signing_receipt_contract: the history must be the   *)
(* one the last receipt of the chain authorises, and start at the build's.  *)
SwiftShaderValid(allowAdhoc) ==
    LET r == receipt["swiftshader"]
        images == {"swiftshader"} \cup
                  (IF allowAdhoc \/ r.found = "post-adhoc" THEN {"adhoc"} ELSE {})
    IN  /\ Published("swiftshader")
        /\ tree["parts"] \in images /\ tree["partsCopy"] \in images
        /\ alias =>
             /\ r.before = BuildHistory
             /\ Published("adhoc") => receipt["adhoc"].before = r.after
             /\ tree["history"] = IF Published("adhoc") THEN receipt["adhoc"].after ELSE r.after

AdhocValid ==
    /\ Published("adhoc")
    /\ SwiftShaderValid(TRUE)
    /\ StateOf("adhoc", Scripts) = "post" /\ StateOf("adhoc", Copies) = "post"

Valid(s) == IF s = "swiftshader" THEN SwiftShaderValid(FALSE) ELSE AdhocValid

PlanHoldsUnchained(s) ==
    /\ ~Published(s)
    /\ StatesAgree(StateOf(s, Sources(s)), StateOf(s, Packages(s)))
    /\ alias => tree["history"] = receipt["swiftshader"].after

(* The checks of swiftshader_disabled_signing_plan and                      *)
(* adhoc_runtime_signing_plan once no transaction is left to recover.       *)
PlanHolds(s) ==
    /\ ~Published(s)
    /\ StatesAgree(StateOf(s, Sources(s)), StateOf(s, Packages(s)))
    /\ IF s = "swiftshader"
       THEN alias => tree["history"] = BuildHistory
       ELSE /\ SwiftShaderValid(TRUE)
            /\ alias => tree["history"] = receipt["swiftshader"].after

(* A history no file, copy or receipt holds yet. *)
IsNew(h) ==
    /\ h \notin {tree["history"], memory["history"], settled["history"]}
    /\ \A s \in Stages : h \notin {backup[s]["history"], receipt[s].before, receipt[s].after}

-----------------------------------------------------------------------------
Init ==
    /\ alias \in BOOLEAN
    /\ tree = BuildTree
    /\ receipt = [s \in Stages |-> NoReceipt]
    /\ root = [s \in Stages |-> {}]
    /\ backup = [s \in Stages |-> BuildTree]
    /\ marker = {} /\ tombstone = {} /\ leftover = {}
    /\ stage = "swiftshader" /\ pc = "idle" /\ cont = "end" /\ todo = {}
    /\ found = [source |-> "pre", package |-> "pre"]
    /\ memory = BuildTree
    /\ owned = FALSE
    /\ accepted = {} /\ settled = BuildTree
    /\ crashes = 0 /\ faults = 0

Goto(l) == pc' = l /\ UNCHANGED <<stage, cont, todo, found, memory, owned>>

(* The process ends, and with it what it knew. *)
Leave ==
    /\ pc' = "idle" /\ cont' = "end" /\ todo' = {}
    /\ found' = [source |-> "pre", package |-> "pre"]
    /\ memory' = BuildTree /\ owned' = FALSE
    /\ UNCHANGED stage

(* Follow what was to come after a cleanup. *)
Continue == IF cont = "end" THEN Leave ELSE Goto(cont)

(* A loop over files: l runs until todo is empty. *)
Loop(l, files) == pc' = l /\ todo' = files /\ UNCHANGED <<stage, cont, found, memory, owned>>

(* _discard_durable_signing_transaction, then l. *)
Discard(l) == pc' = "authorize" /\ cont' = l /\ UNCHANGED <<stage, todo, found, memory, owned>>

(* The loop of _restore_durable_signing_transaction; its discard leads to l. *)
Restore(l) ==
    /\ pc' = "restore" /\ todo' = Targets(stage) /\ cont' = l
    /\ UNCHANGED <<stage, found, memory, owned>>

SpendFault == faults < MaxFaults /\ faults' = faults + 1

(* A contract passes when what it checks holds; a failing call inside it    *)
(* makes it fail all the same.                                              *)
Passes(holds) == holds /\ UNCHANGED faults
Fails(holds) == (~holds /\ UNCHANGED faults) \/ (holds /\ SpendFault)

-----------------------------------------------------------------------------
(* An operator runs a stage with --execute.  The plan starts with           *)
(* _load_durable_signing_transaction, and that with the tombstone.          *)
Start(s) ==
    /\ pc = "idle"
    /\ OutOfOrder \/ \A other \in Stages \ {s} : root[other] = {} /\ other \notin tombstone
    /\ stage' = s
    /\ IF alias THEN pc' = "sweep" /\ cont' = "inspect" ELSE pc' = "plan" /\ cont' = "end"
    /\ UNCHANGED <<todo, found, memory, owned, alias, disk, ghosts, bounds>>

(* _cleanup_signing_transaction_tombstone, one durable step at a time: a    *)
(* marker makes the root a tombstone, the tombstone goes, the marker goes.  *)
SweepDone ==
    /\ pc = "sweep" /\ stage \notin marker
    /\ Continue
    /\ UNCHANGED <<alias, disk, ghosts, bounds>>

SweepRename ==
    /\ pc = "sweep" /\ stage \in marker /\ root[stage] # {}
    /\ root' = [root EXCEPT ![stage] = {}]
    /\ backup' = [backup EXCEPT ![stage] = BuildTree]
    /\ tombstone' = tombstone \cup {stage}
    /\ UNCHANGED <<tree, receipt, marker, leftover, alias, process, ghosts, bounds>>

SweepRemove ==
    /\ pc = "sweep" /\ stage \in marker /\ root[stage] = {} /\ stage \in tombstone
    /\ tombstone' = tombstone \ {stage}
    /\ UNCHANGED <<tree, receipt, root, backup, marker, leftover, alias, process, ghosts, bounds>>

SweepUnlink ==
    /\ pc = "sweep" /\ stage \in marker /\ root[stage] = {} /\ stage \notin tombstone
    /\ marker' = marker \ {stage}
    /\ UNCHANGED <<tree, receipt, root, backup, tombstone, leftover, alias, process, ghosts, bounds>>

(* _publish_signing_cleanup_authorization, called by the discard once it    *)
(* has seen a root.                                                         *)
Authorize ==
    /\ pc = "authorize"
    /\ root[stage] # {}
    /\ marker' = marker \cup {stage}
    /\ Goto("sweep")
    /\ UNCHANGED <<tree, receipt, root, backup, tombstone, leftover, alias, ghosts, bounds>>

InspectJournalFirst ==
    /\ pc = "inspect"
    /\ IF root[stage] = {} THEN Goto("plan")
       ELSE IF "sealed" \in root[stage] THEN Restore("plan")
       ELSE Discard("plan")
    /\ UNCHANGED <<alias, disk, ghosts, bounds>>

InspectStrict ==
    /\ pc = "inspect"
    /\ IF root[stage] = {} THEN Goto("plan")
       ELSE IF Published(stage) THEN Goto("accept")
       ELSE IF "sealed" \in root[stage] THEN Restore("plan")
       ELSE Leave
    /\ UNCHANGED <<alias, disk, ghosts, bounds>>

(* The rest of _load_durable_signing_transaction.  Without a sealed journal *)
(* begin() never returned: the root goes, unless a receipt says otherwise.  *)
Inspect ==
    /\ pc = "inspect"
    /\ IF root[stage] = {} THEN Goto("plan")
       ELSE IF Published(stage) THEN Goto("accept")
       ELSE IF "sealed" \in root[stage] THEN Restore("plan")
       ELSE Discard("plan")
    /\ UNCHANGED <<alias, disk, ghosts, bounds>>

(* A published receipt that its contract accepts ends the transaction.      *)
AcceptReceipt ==
    /\ pc = "accept"
    /\ Passes(Valid(stage))
    /\ accepted' = accepted \cup {stage}
    /\ Discard("end")
    /\ UNCHANGED <<alias, disk, settled, crashes>>

(* _remove_invalid_transaction_receipt: what the contract refuses goes, and *)
(* the journal is played back; without a usable journal execute() stops.    *)
RejectReceipt ==
    /\ pc = "accept" /\ "sealed" \in root[stage]
    /\ Fails(Valid(stage))
    /\ receipt' = [receipt EXCEPT ![stage] = NoReceipt]
    /\ accepted' = accepted \ {stage}
    /\ settled' = [f \in Files |-> IF f \in Targets(stage) THEN backup[stage][f] ELSE tree[f]]
    /\ Restore("plan")
    /\ UNCHANGED <<alias, tree, root, backup, marker, tombstone, leftover, crashes>>

(* _restore_regular_transaction_item: a private copy, renamed over.         *)
RestoreItem ==
    /\ pc = "restore" /\ todo # {}
    /\ \E f \in todo :
         /\ tree' = [tree EXCEPT ![f] = backup[stage][f]]
         /\ todo' = todo \ {f}
    /\ UNCHANGED <<receipt, root, backup, marker, tombstone, leftover,
                   stage, pc, cont, found, memory, owned, alias, ghosts, bounds>>

RestoreDoneEarly ==
    /\ pc = "restore"
    /\ Goto("authorize")
    /\ UNCHANGED <<alias, disk, ghosts, bounds>>

RestoreDone ==
    /\ pc = "restore" /\ todo = {}
    /\ Goto("authorize")
    /\ UNCHANGED <<alias, disk, ghosts, bounds>>

-----------------------------------------------------------------------------
(* The plan, the no-work probe and the copies for an in-memory rollback.    *)
Plan ==
    /\ pc = "plan" /\ PlanHolds(stage)
    /\ found' = [source |-> StateOf(stage, Sources(stage)),
                 package |-> StateOf(stage, Packages(stage))]
    /\ memory' = tree
    /\ accepted' = IF stage = "adhoc" THEN accepted \cup {"swiftshader"} ELSE accepted
    /\ IF alias THEN pc' = "mkdir" /\ todo' = {}
       ELSE pc' = "patch" /\ todo' = Sources(stage)
    /\ UNCHANGED <<stage, cont, owned, alias, disk, settled, bounds>>

PlanRefused ==
    /\ pc = "plan" /\ ~PlanHolds(stage)
    /\ Leave
    /\ UNCHANGED <<alias, disk, ghosts, bounds>>

(* _begin_durable_signing_transaction: root, backups, journal, and the      *)
(* journal made read-only, which says that begin() is about to return.      *)
BeginRoot ==
    /\ pc = "mkdir" /\ root[stage] = {}
    /\ root' = [root EXCEPT ![stage] = {"root"}]
    /\ Goto("backup")
    /\ UNCHANGED <<tree, receipt, backup, marker, tombstone, leftover, alias, ghosts, bounds>>

BeginBackupButHistory ==
    /\ pc = "backup"
    /\ root' = [root EXCEPT ![stage] = @ \cup {"backups"}]
    /\ backup' = [backup EXCEPT ![stage] = [tree EXCEPT !["history"] = BuildHistory]]
    /\ Goto("journal")
    /\ UNCHANGED <<tree, receipt, marker, tombstone, leftover, alias, ghosts, bounds>>

BeginBackup ==
    /\ pc = "backup"
    /\ root' = [root EXCEPT ![stage] = @ \cup {"backups"}]
    /\ backup' = [backup EXCEPT ![stage] = tree]
    /\ Goto("journal")
    /\ UNCHANGED <<tree, receipt, marker, tombstone, leftover, alias, ghosts, bounds>>

BeginJournal ==
    /\ pc = "journal"
    /\ root' = [root EXCEPT ![stage] = @ \cup {"journal"}]
    /\ Goto("seal")
    /\ UNCHANGED <<tree, receipt, backup, marker, tombstone, leftover, alias, ghosts, bounds>>

BeginSeal ==
    /\ pc = "seal"
    /\ root' = [root EXCEPT ![stage] = @ \cup {"sealed"}]
    /\ Loop("patch", Sources(stage))
    /\ UNCHANGED <<tree, receipt, backup, marker, tombstone, leftover, alias, ghosts, bounds>>

(* prepare_source.apply_patch_plan, a file at a time, if the plan found the *)
(* sources unpatched.                                                       *)
PatchSource ==
    /\ pc = "patch" /\ found.source = "pre" /\ todo # {}
    /\ \E f \in todo :
         /\ tree' = [tree EXCEPT ![f] = PostImage(stage)]
         /\ todo' = todo \ {f}
    /\ UNCHANGED <<receipt, root, backup, marker, tombstone, leftover,
                   stage, pc, cont, found, memory, owned, alias, ghosts, bounds>>

(* Then the generated package: ad-hoc signing deletes its outputs first, so *)
(* that Ninja must make them; SwiftShader needs Ninja only if they are old. *)
Patched ==
    /\ pc = "patch" /\ (found.source # "pre" \/ todo = {})
    /\ IF stage = "adhoc" THEN Loop("unlink", Packages(stage))
       ELSE IF found.package = "pre" THEN Loop("ninja", Packages(stage))
       ELSE Loop("check", {})
    /\ UNCHANGED <<alias, disk, ghosts, bounds>>

UnlinkPackage ==
    /\ pc = "unlink" /\ todo # {}
    /\ \E f \in todo :
         /\ tree' = [tree EXCEPT ![f] = "absent"]
         /\ todo' = todo \ {f}
    /\ UNCHANGED <<receipt, root, backup, marker, tombstone, leftover,
                   stage, pc, cont, found, memory, owned, alias, ghosts, bounds>>

Unlinked ==
    /\ pc = "unlink" /\ todo = {}
    /\ Loop("ninja", Packages(stage))
    /\ UNCHANGED <<alias, disk, ghosts, bounds>>

(* run_monitored(copy_signing): each edge copies a script and is recorded.  *)
NinjaCopies ==
    /\ pc = "ninja" /\ todo # {}
    /\ \E f \in todo :
         /\ tree' = [tree EXCEPT ![f] = tree[ScriptOf[f]]]
         /\ todo' = todo \ {f}
    /\ UNCHANGED <<receipt, root, backup, marker, tombstone, leftover,
                   stage, pc, cont, found, memory, owned, alias, ghosts, bounds>>

NinjaRecords ==
    /\ pc = "ninja" /\ todo = {}
    /\ \E h \in Histories : IsNew(h)
    /\ tree' = [tree EXCEPT !["history"] = CHOOSE h \in Histories : IsNew(h)]
    /\ Goto("check")
    /\ UNCHANGED <<receipt, root, backup, marker, tombstone, leftover, alias, ghosts, bounds>>

(* The post-state checks of execute_*, _fsync_durable_signing_targets, and  *)
(* the first thing atomic_json asks for.                                    *)
MayPublish ==
    /\ LET final == IF found.source = "post-adhoc" THEN "post-adhoc" ELSE "post"
       IN  StateOf(stage, Sources(stage)) = final /\ StateOf(stage, Packages(stage)) = final
    /\ stage \notin leftover

(* atomic_json: a temporary with a fixed name, linked to the receipt, and   *)
(* unlinked.                                                                *)
WriteReceiptTemp ==
    /\ pc = "check" /\ MayPublish
    /\ leftover' = leftover \cup {stage}
    /\ Goto("link")
    /\ UNCHANGED <<tree, receipt, root, backup, marker, tombstone, alias, ghosts, bounds>>

LinkReceipt ==
    /\ pc = "link" /\ ~Published(stage)
    /\ receipt' = [receipt EXCEPT ![stage] =
                     [found |-> found.source, before |-> memory["history"],
                      after |-> tree["history"]]]
    /\ settled' = tree
    /\ Goto("linked")
    /\ UNCHANGED <<tree, root, backup, marker, tombstone, leftover, alias, accepted, bounds>>

(* atomic_json removes the temporary, or puts up with it, and returns the   *)
(* identity of what it published.                                           *)
ReceiptReturned ==
    /\ pc = "linked"
    /\ owned' = TRUE /\ pc' = "validate"
    /\ \/ leftover' = leftover \ {stage} /\ UNCHANGED faults
       \/ UNCHANGED leftover /\ SpendFault
    /\ UNCHANGED <<tree, receipt, root, backup, marker, tombstone,
                   stage, cont, todo, found, memory, alias, ghosts, crashes>>

Commit ==
    /\ pc = "validate"
    /\ Passes(Valid(stage))
    /\ accepted' = accepted \cup {stage}
    /\ IF alias THEN Discard("end") ELSE Leave
    /\ UNCHANGED <<alias, disk, settled, crashes>>

-----------------------------------------------------------------------------
(* The handler of execute_*: a valid receipt forbids the rollback, one this *)
(* process does not know as its own too; else the receipt goes.             *)
Retract ==
    /\ pc = "retract"
    /\ \/ /\ ~Published(stage)
          /\ UNCHANGED <<receipt, accepted, settled, faults>>
       \/ /\ Published(stage) /\ owned
          /\ Fails(Valid(stage))
          /\ receipt' = [receipt EXCEPT ![stage] = NoReceipt]
          /\ accepted' = accepted \ {stage}
          /\ settled' = memory
    /\ Loop("undo", (Sources(stage) \cup Packages(stage)))
    /\ UNCHANGED <<alias, tree, root, backup, marker, tombstone, leftover, crashes>>

RefuseRollback ==
    /\ pc = "retract" /\ Published(stage)
    /\ (Passes(Valid(stage)) \/ (~owned /\ Fails(Valid(stage))))
    /\ Leave
    /\ UNCHANGED <<alias, disk, ghosts, crashes>>

(* SwiftShader copies its source back first, ad-hoc signing its packages.   *)
UndoFirst == IF stage = "swiftshader" THEN Sources(stage) ELSE Packages(stage)

UndoItem ==
    /\ pc = "undo" /\ todo # {}
    /\ \E f \in todo :
         /\ todo \cap UndoFirst # {} => f \in UndoFirst
         /\ tree' = [tree EXCEPT ![f] = memory[f]]
         /\ todo' = todo \ {f}
    /\ UNCHANGED <<receipt, root, backup, marker, tombstone, leftover,
                   stage, pc, cont, found, memory, owned, alias, ghosts, bounds>>

(* _restore_alias_ninja_history: its temporary may not exist yet.  Without  *)
(* the alias there is neither a history copy nor a durable transaction.     *)
UndoHistoryTemp ==
    /\ pc = "undo" /\ todo = {}
    /\ IF alias
       THEN /\ "history" \notin leftover
            /\ leftover' = leftover \cup {"history"}
            /\ Goto("undoHistory")
       ELSE Leave /\ UNCHANGED leftover
    /\ UNCHANGED <<tree, receipt, root, backup, marker, tombstone, alias, ghosts, bounds>>

UndoHistory ==
    /\ pc = "undoHistory"
    /\ tree' = [tree EXCEPT !["history"] = memory["history"]]
    /\ leftover' = leftover \ {"history"}
    /\ Restore("end")
    /\ UNCHANGED <<receipt, root, backup, marker, tombstone, alias, ghosts, bounds>>

-----------------------------------------------------------------------------
ExecutePointsAfterPatch == {"unlink", "ninja", "check", "link", "linked", "validate"}
ExecutePoints == {"patch", "unlink", "ninja", "check", "link", "linked", "validate"}
BeginPoints == {"backup", "journal", "seal"}

(* Where an exception leads: the handler of execute_* covers what follows   *)
(* begin(); begin() has its own, which discards a root without a journal    *)
(* but does not cover the two mkdir() calls.                                *)
Raise ==
    IF pc \in ExecutePoints THEN Goto("retract")
    ELSE IF pc \in BeginPoints /\ "journal" \notin root[stage]
         THEN Discard("end") \/ (pc = "backup" /\ Leave)
    ELSE Leave

Fault ==
    /\ pc # "idle" /\ SpendFault
    /\ Raise
    /\ UNCHANGED <<alias, disk, ghosts, crashes>>

(* Errors that need no failing call: a check after the refresh, and a       *)
(* temporary of an earlier failure where atomic_json or the history         *)
(* rollback wants its own.                                                  *)
CheckFails ==
    /\ \/ pc = "check" /\ ~MayPublish
       \/ pc = "undo" /\ todo = {} /\ alias /\ "history" \in leftover
    /\ Raise
    /\ UNCHANGED <<alias, disk, ghosts, bounds>>

(* The contract at the end of execute_* refuses what it just published. *)
CommitRefused ==
    /\ pc = "validate" /\ Fails(Valid(stage))
    /\ Raise
    /\ UNCHANGED <<alias, disk, ghosts, crashes>>

Crash ==
    /\ pc # "idle" /\ crashes < MaxCrashes
    /\ crashes' = crashes + 1
    /\ Leave
    /\ UNCHANGED <<alias, disk, ghosts, faults>>

Step ==
    \/ SweepDone \/ SweepRename \/ SweepRemove \/ SweepUnlink \/ Authorize
    \/ Inspect \/ AcceptReceipt \/ RejectReceipt \/ RestoreItem \/ RestoreDone
    \/ Plan \/ PlanRefused \/ BeginRoot \/ BeginBackup \/ BeginJournal \/ BeginSeal
    \/ PatchSource \/ Patched \/ UnlinkPackage \/ Unlinked \/ NinjaCopies \/ NinjaRecords
    \/ WriteReceiptTemp \/ LinkReceipt \/ ReceiptReturned \/ Commit
    \/ Retract \/ RefuseRollback \/ UndoItem \/ UndoHistoryTemp \/ UndoHistory
    \/ CheckFails \/ CommitRefused

Next == Step \/ (\E s \in Stages : Start(s)) \/ Fault \/ Crash

Spec == Init /\ [][Next]_vars

(* A running process runs on; an operator asks for each stage again.        *)
FairSpec == Spec /\ WF_vars(Step) /\ \A s \in Stages : SF_vars(Start(s))
-----------------------------------------------------------------------------
(* Types of all variables.                                                  *)
SigningTypeOK ==
    /\ alias \in BOOLEAN
    /\ tree \in [Files -> Contents]
    /\ receipt \in [Stages -> Receipts]
    /\ root \in [Stages -> SUBSET {"root", "backups", "journal", "sealed"}]
    /\ backup \in [Stages -> [Files -> Contents]]
    /\ marker \subseteq Stages /\ tombstone \subseteq Stages
    /\ leftover \subseteq {"history"} \cup Stages
    /\ stage \in Stages
    /\ pc \in {"idle", "sweep", "authorize", "inspect", "accept", "restore", "plan", "mkdir",
              "backup", "journal", "seal", "patch", "unlink", "ninja", "check", "link",
              "linked", "validate", "retract", "undo", "undoHistory"}
    /\ cont \in {"inspect", "plan", "end"}
    /\ todo \subseteq Files
    /\ found \in [source : FileStates, package : FileStates]
    /\ memory \in [Files -> Contents]
    /\ owned \in BOOLEAN
    /\ accepted \subseteq Stages /\ settled \in [Files -> Contents]
    /\ crashes \in 0 .. MaxCrashes /\ faults \in 0 .. MaxFaults

(* On an aliased build, whatever differs from the last receipted state can  *)
(* be put back: a transaction root with a sealed journal holds the file, at *)
(* every instant, so also after a crash.                                    *)
PreimageJournaled ==
    alias => \A f \in Files : tree[f] # settled[f] =>
        \E s \in Stages : /\ "sealed" \in root[s] /\ ~Published(s)
                          /\ f \in Targets(s) /\ backup[s][f] = settled[f]

(* A cleanup authorization exists only when there is nothing left to undo:  *)
(* the root it condemns is no longer needed by anyone.                      *)
CleanupIsSafe ==
    \A s \in marker : (root[s] # {} \/ s \in tombstone) =>
        \A f \in Targets(s) : tree[f] = settled[f]

(* When no transaction is open, each receipt still holds for the files on   *)
(* disk: no recovery of one stage spoils what another has certified.        *)
ReceiptsCertify ==
    (alias /\ pc = "idle" /\ \A s \in Stages : root[s] = {}) =>
        /\ Published("swiftshader") => SwiftShaderValid(TRUE)
        /\ Published("adhoc") => AdhocValid

(* Without the alias the in-memory copies alone must do: one failure, no    *)
(* crash, and every script is what it was at the last receipt.              *)
SingleFailureUndone ==
    (~alias /\ pc = "idle" /\ crashes = 0 /\ faults <= 1) =>
        \A f \in Scripts \cup Copies : tree[f] = settled[f]

(* The stages are committed and withdrawn like a stack.                     *)
Chain == INSTANCE SigningChain WITH committed <- {s \in Stages : Published(s)}
StageOrder == Chain!ChainSpec

(* A stage that is asked for again and again commits in the end; the one    *)
(* thing that can stop it is a receipt's temporary left by a failure        *)
(* between its creation and its link, which every later atomic_json refuses.*)
CommitsUnlessBlocked ==
    alias => <>(Published("adhoc") \/ \E s \in Stages : s \in leftover)

(* _remove_invalid_transaction_receipt "removes only an unaccepted local    *)
(* receipt": what a contract has accepted is never withdrawn.               *)
AcceptedStays == [][accepted \subseteq accepted']_vars
=============================================================================
