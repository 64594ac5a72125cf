---------------------------- MODULE FrozenRelink ----------------------------
(***************************************************************************)
(* The transactional executor of the frozen four-edge relink               *)
(* (platform/macos/x64_frozen_relink_executor.py): execute() and           *)
(* recover_transaction(), run by processes that a fault, a signal or a     *)
(* power loss may stop between any two durable steps, next to the Ninja    *)
(* process they spawn, which may outlive them.                             *)
(*                                                                         *)
(* One link edge stands for the outputs of that edge: FROZEN_OUTPUTS are   *)
(* moved and restored one at a time in a fixed order, here 1..N.  A file   *)
(* is named by who made it (its device and inode in the code): Base is the *)
(* file present before any run, a run is the file its own Ninja linked.    *)
(* The Ninja history is the set of edges .ninja_log records.               *)
(*                                                                         *)
(* The definitions RollbackPointsPastCommit, StartRollbackShort,           *)
(* ProcessGateOpen, ParentInventoryBlindToResponseFiles,                   *)
(* ParentInventoryOfPresentFiles, CopyHistoryThenMove, MoveOutputButLast,  *)
(* UnlinkAnyOutput, RevalidateNothing and JournalPublished are not used    *)
(* below: each is the definition after it with a slip, and the property it *)
(* breaks is named in PROJECT.json.                                        *)
(***************************************************************************)
EXTENDS Integers, FiniteSets

CONSTANTS
    Runs,            \* run ids; each has its own evidence and transaction root
    N,               \* number of frozen outputs
    Base,            \* the outputs of the earlier build
    None,            \* no file, no process
    MaxWaiting,      \* bound: processes between those first checks and the lock
    MaxCrashes,      \* bound: how often a process or the machine dies
    MaxFaults,       \* bound: how many system calls fail or signals arrive
    OperatorCleans,  \* whether somebody deletes leftover response files
    SignalsInPopen   \* whether a signal may land inside subprocess.Popen()

ASSUME RelinkAssumption ==
    /\ N \in Nat \ {0}
    /\ Base \notin Runs
    /\ None \notin Runs \cup {Base}
    /\ \A S \in SUBSET (1 .. N) : S # None
    /\ MaxWaiting \in Nat /\ MaxCrashes \in Nat /\ MaxFaults \in Nat
    /\ OperatorCleans \in BOOLEAN /\ SignalsInPopen \in BOOLEAN

Outputs == 1 .. N
Files == Runs \cup {Base}
Logs == SUBSET Outputs
Evidence == {"dryRunLog", "preflight", "prepared", "journal", "moved", "executionLog",
             "execution", "cleanup", "failure", "recovery"}

VARIABLES
    live,        \* output -> the file at its path in the output directory
    rspfiles,    \* edges whose response file lies in an output parent
    log,         \* edges recorded in the live .ninja_log, None when absent
    root,        \* run -> files directly in its transaction root, {} if no root
    backup,      \* run -> output -> the file moved under root/outputs
    history,     \* run -> the copy of .ninja_log under root/history
    evidence,    \* run -> evidence files published outside the source tree
    preimage,    \* run -> snapshots recorded by its preflight evidence
    checked,     \* <<mode, run>> of processes past the checks made before the lock
    holder,      \* run of the process that holds the output-directory lock
    mode, pc,    \* what the lock holder runs, and where it is
    cursor,      \* the output a move or rollback loop is at
    snapshot,    \* the snapshots the lock holder keeps in memory
    ninja,       \* run whose Ninja process group is alive
    ninjaExit,   \* how that group ended
    crashes, faults

out == <<live, rspfiles, log>>
tree == <<root, backup, history>>
records == <<evidence, preimage>>
process == <<holder, mode, pc, cursor, snapshot>>
build == <<ninja, ninjaExit>>
bounds == <<crashes, faults>>
vars == <<out, tree, records, checked, process, build, bounds>>

OtherRoots(r) == {s \in Runs \ {r} : root[s] # {}}

NoSnapshot == [outputs |-> [o \in Outputs |-> None], log |-> None, roots |-> {}]

Snapshots == [outputs : [Outputs -> Files \cup {None}], log : {None} \cup Logs,
              roots : SUBSET Runs]

Has(r, kind) == kind \in evidence[r]
Committed(r) == Has(r, "execution")

-----------------------------------------------------------------------------
Init ==
    /\ live = [o \in Outputs |-> Base]
    /\ rspfiles = {}
    /\ log = {}
    /\ root = [r \in Runs |-> {}]
    /\ backup = [r \in Runs |-> [o \in Outputs |-> None]]
    /\ history = [r \in Runs |-> None]
    /\ evidence = [r \in Runs |-> {}]
    /\ preimage = [r \in Runs |-> NoSnapshot]
    /\ checked = {}
    /\ holder = None /\ mode = "execute" /\ pc = "idle" /\ cursor = 0
    /\ snapshot = NoSnapshot
    /\ ninja = None /\ ninjaExit = "none"
    /\ crashes = 0 /\ faults = 0

(* Where execute() owns a transaction that is not committed. *)
RollbackPointsPastCommit ==
    {"move", "movedInternal", "movedExternal", "spawn", "wait", "post", "execution", "cleanup"}

RollbackPoints ==
    {"move", "movedInternal", "movedExternal", "spawn", "wait", "post", "execution"}

(* The handler of execute() rolls back only once _begin_transaction has      *)
(* returned and while the execution record is not published.                *)
(* _begin_transaction's own handler removes a root that holds no journal; a *)
(* signal may also land where neither handler acts.  recover_transaction()  *)
(* has no handler: the process ends.                                        *)
ErrorTargets(r) ==
    IF mode = "recover" \/ pc = "failure" THEN {"release"}
    ELSE IF pc \in {"copyHistory", "journalInternal", "journalExternal"}
            /\ "journal" \notin root[r] THEN {"removeTree", "failure"}
    ELSE IF pc = "move" /\ cursor = 1 THEN {"rollback", "failure"}
    ELSE IF pc \in RollbackPoints THEN {"rollback"}
    ELSE {"failure"}

(* The lock holder works on run r and stands at label l. *)
At(r, l) == holder = r /\ pc = l

Goto(p) == pc' = p /\ UNCHANGED <<holder, mode, cursor, snapshot>>

(* A rollback starts at the last output of the journal. *)
StartRollbackShort ==
    pc' = "rollback" /\ cursor' = N - 1 /\ UNCHANGED <<holder, mode, snapshot>>

StartRollback == pc' = "rollback" /\ cursor' = N /\ UNCHANGED <<holder, mode, snapshot>>

(* Evidence is linked into place, never over an existing file. *)
Publish(r, kind) ==
    /\ ~Has(r, kind)
    /\ evidence' = [evidence EXCEPT ![r] = @ \cup {kind}]

-----------------------------------------------------------------------------
(* Before the lock: the checks on evidence and root are made here, and not   *)
(* again once the lock is held.                                              *)

CheckExecute(r) ==
    /\ evidence[r] = {} /\ root[r] = {}
    /\ Cardinality(checked) < MaxWaiting
    /\ checked' = checked \cup {<<"execute", r>>}
    /\ UNCHANGED <<out, tree, records, process, build, bounds>>

CheckRecover(r) ==
    /\ evidence[r] # {} /\ ~Has(r, "recovery")
    /\ Cardinality(checked) < MaxWaiting
    /\ checked' = checked \cup {<<"recover", r>>}
    /\ UNCHANGED <<out, tree, records, process, build, bounds>>

AcquireLock(m, r) ==
    /\ <<m, r>> \in checked /\ holder = None
    /\ checked' = checked \ {<<m, r>>}
    /\ holder' = r /\ mode' = m /\ pc' = "gate"
    /\ UNCHANGED <<out, tree, records, cursor, snapshot, build, bounds>>

LockBusy(m, r) ==
    /\ <<m, r>> \in checked /\ holder # None
    /\ checked' = checked \ {<<m, r>>}
    /\ UNCHANGED <<out, tree, records, process, build, bounds>>

Idle ==
    /\ holder' = None /\ mode' = "execute" /\ pc' = "idle"
    /\ cursor' = 0 /\ snapshot' = NoSnapshot

Release(r) ==
    /\ At(r, "release")
    /\ Idle
    /\ UNCHANGED <<out, tree, records, checked, build, bounds>>

-----------------------------------------------------------------------------
(* execute(): everything before the first mutation. *)

(* No process of the build is alive (_assert_no_conflicting_processes). *)
ProcessGateOpen == TRUE

ProcessGate == ninja = None

(* The entries of every output parent, the transaction root of r aside. *)
ParentInventoryBlindToResponseFiles(r, roots) ==
    log # None /\ (\A o \in Outputs : live[o] # None) /\ OtherRoots(r) = roots

ParentInventoryOfPresentFiles(r, roots) ==
    rspfiles = {} /\ log # None /\ OtherRoots(r) = roots

ParentInventory(r, roots) ==
    /\ rspfiles = {} /\ log # None
    /\ \A o \in Outputs : live[o] # None
    /\ OtherRoots(r) = roots

(* Process gate, disk gate, snapshots of outputs, history and parents. *)
Gate(r) ==
    /\ At(r, "gate") /\ mode = "execute"
    /\ IF ProcessGate /\ ParentInventory(r, OtherRoots(r))
       THEN /\ snapshot' = [outputs |-> live, log |-> log, roots |-> OtherRoots(r)]
            /\ pc' = "dryRun"
            /\ UNCHANGED <<holder, mode, cursor>>
       ELSE Goto("failure")
    /\ UNCHANGED <<out, tree, records, checked, build, bounds>>

(* The dry run opens its log exclusively and must name every edge. *)
DryRun(r) ==
    /\ At(r, "dryRun")
    /\ IF Has(r, "dryRunLog")
       THEN Goto("failure") /\ UNCHANGED evidence
       ELSE /\ Publish(r, "dryRunLog")
            /\ Goto(IF log = {} THEN "preflight" ELSE "failure")
    /\ UNCHANGED <<out, tree, preimage, checked, build, bounds>>

PublishPreflight(r) ==
    /\ At(r, "preflight")
    /\ Publish(r, "preflight")
    /\ preimage' = [preimage EXCEPT ![r] = snapshot]
    /\ Goto("prepared")
    /\ UNCHANGED <<out, tree, checked, build, bounds>>

PublishPrepared(r) ==
    /\ At(r, "prepared")
    /\ Publish(r, "prepared")
    /\ Goto("makeRoot")
    /\ UNCHANGED <<out, tree, preimage, checked, build, bounds>>

(* _begin_transaction *)

MakeRoot(r) ==
    /\ At(r, "makeRoot")
    /\ IF root[r] = {}
       THEN root' = [root EXCEPT ![r] = {"root"}] /\ Goto("copyHistory")
       ELSE Goto("failure") /\ UNCHANGED root
    /\ UNCHANGED <<out, backup, history, records, checked, build, bounds>>

CopyHistoryThenMove(r) ==
    /\ At(r, "copyHistory")
    /\ history' = [history EXCEPT ![r] = log]
    /\ pc' = "move" /\ cursor' = 1
    /\ UNCHANGED <<holder, mode, snapshot>>
    /\ UNCHANGED <<out, root, backup, records, checked, build, bounds>>

CopyHistory(r) ==
    /\ At(r, "copyHistory")
    /\ history' = [history EXCEPT ![r] = log]
    /\ Goto("journalInternal")
    /\ UNCHANGED <<out, root, backup, records, checked, build, bounds>>

PublishInternalJournal(r) ==
    /\ At(r, "journalInternal")
    /\ root' = [root EXCEPT ![r] = @ \cup {"journal"}]
    /\ Goto("journalExternal")
    /\ UNCHANGED <<out, backup, history, records, checked, build, bounds>>

PublishExternalJournal(r) ==
    /\ At(r, "journalExternal")
    /\ Publish(r, "journal")
    /\ pc' = "move" /\ cursor' = 1
    /\ UNCHANGED <<holder, mode, snapshot>>
    /\ UNCHANGED <<out, tree, preimage, checked, build, bounds>>

-----------------------------------------------------------------------------
(* execute(): the outputs move out, Ninja links, the record commits. *)

MoveOutputButLast(r) ==
    /\ At(r, "move")
    /\ backup' = [backup EXCEPT ![r][cursor] = live[cursor]]
    /\ live' = [live EXCEPT ![cursor] = None]
    /\ cursor' = cursor + 1
    /\ pc' = (IF cursor + 1 >= N THEN "movedInternal" ELSE "move")
    /\ UNCHANGED <<holder, mode, snapshot>>
    /\ UNCHANGED <<rspfiles, log, root, history, records, checked, build, bounds>>

MoveOutput(r) ==
    /\ At(r, "move")
    /\ IF live[cursor] = snapshot.outputs[cursor]
       THEN /\ backup' = [backup EXCEPT ![r][cursor] = live[cursor]]
            /\ live' = [live EXCEPT ![cursor] = None]
            /\ cursor' = cursor + 1
            /\ pc' = (IF cursor = N THEN "movedInternal" ELSE "move")
            /\ UNCHANGED <<holder, mode, snapshot>>
       ELSE StartRollback /\ UNCHANGED <<backup, live>>
    /\ UNCHANGED <<rspfiles, log, root, history, records, checked, build, bounds>>

PublishInternalMoved(r) ==
    /\ At(r, "movedInternal")
    /\ root' = [root EXCEPT ![r] = @ \cup {"moved"}]
    /\ Goto("movedExternal")
    /\ UNCHANGED <<out, backup, history, records, checked, build, bounds>>

PublishExternalMoved(r) ==
    /\ At(r, "movedExternal")
    /\ Publish(r, "moved")
    /\ Goto("spawn")
    /\ UNCHANGED <<out, tree, preimage, checked, build, bounds>>

(* History and response files are checked again, then Ninja is spawned in a *)
(* session of its own.                                                      *)
MaySpawn(r) == log = snapshot.log /\ rspfiles = {} /\ ~Has(r, "executionLog")

SpawnNinja(r) ==
    /\ At(r, "spawn")
    /\ IF MaySpawn(r)
       THEN /\ Publish(r, "executionLog")
            /\ ninja' = r /\ ninjaExit' = "none"
            /\ Goto("wait")
       ELSE StartRollback /\ UNCHANGED <<evidence, build>>
    /\ UNCHANGED <<out, tree, preimage, checked, bounds>>

(* The handler of a signal raises out of Popen() after the fork: _run_bounded *)
(* has no process yet, terminates nothing, and the rollback starts.          *)
SignalInPopen(r) ==
    /\ SignalsInPopen /\ faults < MaxFaults
    /\ At(r, "spawn") /\ MaySpawn(r)
    /\ Publish(r, "executionLog")
    /\ ninja' = r /\ ninjaExit' = "none"
    /\ faults' = faults + 1
    /\ StartRollback
    /\ UNCHANGED <<out, tree, preimage, checked, crashes>>

(* Ninja, a process of its own: it writes an edge's response file, runs the  *)
(* link, which writes the output, and on success deletes the response file   *)
(* and records the edge, in a new log if there is none.  A failed or killed  *)
(* edge leaves its response file.                                            *)

Linked == IF log = None THEN {} ELSE log

NinjaStartEdge(o) ==
    /\ ninja # None /\ o \notin rspfiles \cup Linked
    /\ rspfiles' = rspfiles \cup {o}
    /\ UNCHANGED <<live, log, tree, records, checked, process, build, bounds>>

NinjaLink(o) ==
    /\ ninja # None /\ o \in rspfiles /\ live[o] # ninja
    /\ live' = [live EXCEPT ![o] = ninja]
    /\ UNCHANGED <<rspfiles, log, tree, records, checked, process, build, bounds>>

NinjaFinishEdge(o) ==
    /\ ninja # None /\ o \in rspfiles /\ live[o] = ninja
    /\ rspfiles' = rspfiles \ {o}
    /\ log' = Linked \cup {o}
    /\ UNCHANGED <<live, tree, records, checked, process, build, bounds>>

NinjaExits(status) ==
    /\ ninja # None
    /\ status = "ok" => log = Outputs
    /\ ninja' = None
    /\ ninjaExit' = (IF At(ninja, "wait") THEN status ELSE "none")
    /\ UNCHANGED <<out, tree, records, checked, process, bounds>>

(* _run_bounded: the poll loop, and the two ways it is cut short. *)

NinjaReaped(r) ==
    /\ At(r, "wait") /\ ninja = None
    /\ ninjaExit' = "none"
    /\ IF ninjaExit = "ok" THEN Goto("post") ELSE StartRollback
    /\ UNCHANGED <<out, tree, records, checked, ninja, bounds>>

TerminateNinja(r) ==
    /\ At(r, "wait") /\ ninja = r /\ faults < MaxFaults
    /\ faults' = faults + 1
    /\ ninja' = None /\ ninjaExit' = "none"
    /\ StartRollback
    /\ UNCHANGED <<out, tree, records, checked, crashes>>

(* The group cannot be proven absent: FrozenRelinkUnsafeProcessGroup. *)
UnsafeGroup(r) ==
    /\ At(r, "wait") /\ ninja = r /\ faults < MaxFaults
    /\ faults' = faults + 1
    /\ Goto("failure")
    /\ UNCHANGED <<out, tree, records, checked, build, crashes>>

(* _post_execution_contract *)
PostContract(r) ==
    /\ At(r, "post")
    /\ IF /\ \A o \in Outputs : live[o] # snapshot.outputs[o]
          /\ log = Outputs /\ history[r] = {}
          /\ ParentInventory(r, snapshot.roots)
       THEN Goto("execution")
       ELSE StartRollback
    /\ UNCHANGED <<out, tree, records, checked, build, bounds>>

(* The commit point.  An error after the link is found again by the handler. *)
PublishExecution(r) ==
    /\ At(r, "execution")
    /\ Publish(r, "execution")
    /\ Goto("cleanup")
    /\ UNCHANGED <<out, tree, preimage, checked, build, bounds>>

-----------------------------------------------------------------------------
(* _cleanup_transaction and _remove_private_tree *)

BackupsMatch(r, partial) ==
    /\ \A o \in Outputs : \/ backup[r][o] = preimage[r].outputs[o]
                          \/ partial /\ backup[r][o] = None
    /\ history[r] = preimage[r].log \/ (partial /\ history[r] = None)

Cleanup(r) ==
    /\ At(r, "cleanup")
    /\ IF BackupsMatch(r, mode = "recover") /\ ParentInventory(r, preimage[r].roots)
       THEN Goto("removeTree")
       ELSE Goto(IF mode = "recover" THEN "release" ELSE "failure")
    /\ UNCHANGED <<out, tree, records, checked, build, bounds>>

(* The entries of the root go one by one, in the order of their names. *)
NoBackup(r) == \A o \in Outputs : backup[r][o] = None

RemoveHistoryCopy(r) ==
    /\ At(r, "removeTree")
    /\ history[r] # None
    /\ history' = [history EXCEPT ![r] = None]
    /\ UNCHANGED <<out, root, backup, records, checked, process, build, bounds>>

RemoveInternalJournal(r) ==
    /\ At(r, "removeTree")
    /\ history[r] = None /\ "journal" \in root[r]
    /\ root' = [root EXCEPT ![r] = @ \ {"journal"}]
    /\ UNCHANGED <<out, backup, history, records, checked, process, build, bounds>>

RemoveBackup(r, o) ==
    /\ At(r, "removeTree")
    /\ history[r] = None /\ "journal" \notin root[r]
    /\ backup[r][o] # None
    /\ backup' = [backup EXCEPT ![r][o] = None]
    /\ UNCHANGED <<out, root, history, records, checked, process, build, bounds>>

RemoveInternalMoved(r) ==
    /\ At(r, "removeTree")
    /\ history[r] = None /\ "journal" \notin root[r] /\ NoBackup(r)
    /\ "moved" \in root[r]
    /\ root' = [root EXCEPT ![r] = @ \ {"moved"}]
    /\ UNCHANGED <<out, backup, history, records, checked, process, build, bounds>>

RemoveRoot(r) ==
    /\ At(r, "removeTree")
    /\ history[r] = None /\ NoBackup(r) /\ root[r] = {"root"}
    /\ root' = [root EXCEPT ![r] = {}]
    /\ Goto(IF Committed(r) THEN "cleanupRecord"
            ELSE IF mode = "recover" THEN "recovery" ELSE "failure")
    /\ UNCHANGED <<out, backup, history, records, checked, build, bounds>>

(* A signal deferred since the commit surfaces after the record. *)
PublishCleanup(r) ==
    /\ At(r, "cleanupRecord")
    /\ Publish(r, "cleanup")
    /\ \/ Goto(IF mode = "recover" THEN "recovery" ELSE "release") /\ UNCHANGED faults
       \/ /\ mode = "execute" /\ faults < MaxFaults
          /\ faults' = faults + 1
          /\ Goto("failure")
    /\ UNCHANGED <<out, tree, preimage, checked, build, crashes>>

PublishFailure(r) ==
    /\ At(r, "failure")
    /\ evidence' = [evidence EXCEPT ![r] = @ \cup {"failure"}]
    /\ Goto("release")
    /\ UNCHANGED <<out, tree, preimage, checked, build, bounds>>

-----------------------------------------------------------------------------
(* _rollback_transaction, run by execute() and by recover_transaction(). *)

RollbackFails == Goto(IF mode = "recover" THEN "release" ELSE "failure")

RollbackNext == /\ cursor' = cursor - 1
                /\ pc' = (IF cursor = 1 THEN "restoreHistory" ELSE "rollback")
                /\ UNCHANGED <<holder, mode, snapshot>>

UnlinkAnyOutput(r) ==
    /\ At(r, "rollback")
    /\ live[cursor] # None
    /\ live' = [live EXCEPT ![cursor] = None]
    /\ UNCHANGED <<rspfiles, log, tree, records, checked, process, build, bounds>>

UnlinkGenerated(r) ==
    /\ At(r, "rollback")
    /\ backup[r][cursor] # None /\ live[cursor] # None
    /\ live' = [live EXCEPT ![cursor] = None]
    /\ UNCHANGED <<rspfiles, log, tree, records, checked, process, build, bounds>>

RestoreOutput(r) ==
    /\ At(r, "rollback")
    /\ backup[r][cursor] # None /\ live[cursor] = None
    /\ live' = [live EXCEPT ![cursor] = backup[r][cursor]]
    /\ backup' = [backup EXCEPT ![r][cursor] = None]
    /\ RollbackNext
    /\ UNCHANGED <<rspfiles, log, root, history, records, checked, build, bounds>>

KeepOutput(r) ==
    /\ At(r, "rollback")
    /\ backup[r][cursor] = None
    /\ IF live[cursor] = preimage[r].outputs[cursor] THEN RollbackNext ELSE RollbackFails
    /\ UNCHANGED <<out, tree, records, checked, build, bounds>>

UnlinkHistory(r) ==
    /\ At(r, "restoreHistory")
    /\ history[r] # None /\ log # None
    /\ log' = None
    /\ UNCHANGED <<live, rspfiles, tree, records, checked, process, build, bounds>>

RestoreHistory(r) ==
    /\ At(r, "restoreHistory")
    /\ history[r] # None /\ log = None
    /\ log' = history[r]
    /\ history' = [history EXCEPT ![r] = None]
    /\ Goto("revalidate")
    /\ UNCHANGED <<live, rspfiles, root, backup, records, checked, build, bounds>>

KeepHistory(r) ==
    /\ At(r, "restoreHistory")
    /\ history[r] = None
    /\ IF log = preimage[r].log THEN Goto("revalidate") ELSE RollbackFails
    /\ UNCHANGED <<out, tree, records, checked, build, bounds>>

RevalidateNothing(r) ==
    /\ At(r, "revalidate")
    /\ Goto("removeTree")
    /\ UNCHANGED <<out, tree, records, checked, build, bounds>>

Revalidate(r) ==
    /\ At(r, "revalidate")
    /\ IF ParentInventory(r, preimage[r].roots) THEN Goto("removeTree") ELSE RollbackFails
    /\ UNCHANGED <<out, tree, records, checked, build, bounds>>

-----------------------------------------------------------------------------
(* recover_transaction() *)

RestoredPreimage(r) ==
    /\ live = preimage[r].outputs /\ log = preimage[r].log
    /\ ParentInventory(r, preimage[r].roots)

(* _execution_commit_contract: the committed files and their history. *)
CommittedImage(r) ==
    /\ \A o \in Outputs : live[o] = r
    /\ log = Outputs
    /\ ParentInventory(r, preimage[r].roots)

(* validate_completed_execution(), the audit of a finished run: its three     *)
(* records, with no output absent from the pre-image, ...                    *)
AuditedRecords(r) ==
    /\ {"preflight", "execution", "cleanup"} \subseteq evidence[r]
    /\ \A o \in Outputs : preimage[r].outputs[o] # None

(* ... and the files the records name, with no root of the run left.         *)
AuditedImage(r) == CommittedImage(r) /\ root[r] = {}

JournalPublished(r) == Has(r, "journal")

JournalAvailable(r) == "journal" \in root[r] \/ Has(r, "journal")

(* A root that never held a journal; also true when there is no root. *)
PreparedOnly(r) == root[r] \subseteq {"root"} /\ NoBackup(r)

(* Which branch of recover_transaction() the evidence selects. *)
RecoveryBranch(r) ==
    IF ~ProcessGate \/ Has(r, "cleanup") THEN "release"
    ELSE IF Committed(r)
         THEN IF ~CommittedImage(r) THEN "release"
              ELSE IF root[r] # {} THEN "cleanup" ELSE "cleanupRecord"
    ELSE IF ~{"preflight", "prepared"} \subseteq evidence[r] THEN "release"
    ELSE IF root[r] # {} /\ JournalAvailable(r) THEN "adoptJournal"
    ELSE IF ~RestoredPreimage(r) \/ ~PreparedOnly(r) THEN "release"
    ELSE IF root[r] # {} THEN "removeTree" ELSE "recovery"

ChooseRecovery(r) ==
    /\ At(r, "gate") /\ mode = "recover"
    /\ Goto(RecoveryBranch(r))
    /\ UNCHANGED <<out, tree, records, checked, build, bounds>>

(* The external copies of the journal and of the moved record are published *)
(* when only the internal ones were.                                        *)
AdoptJournal(r) ==
    /\ At(r, "adoptJournal")
    /\ evidence' = [evidence EXCEPT ![r] = @ \cup {"journal"}]
    /\ Goto("adoptMoved")
    /\ UNCHANGED <<out, tree, preimage, checked, build, bounds>>

AdoptMoved(r) ==
    /\ At(r, "adoptMoved")
    /\ evidence' = [evidence EXCEPT ![r] =
                       IF "moved" \in root[r] THEN @ \cup {"moved"} ELSE @]
    /\ StartRollback
    /\ UNCHANGED <<out, tree, preimage, checked, build, bounds>>

(* A recovery record that another process published first is not replaced. *)
PublishRecovery(r) ==
    /\ At(r, "recovery")
    /\ evidence' = [evidence EXCEPT ![r] = @ \cup {"recovery"}]
    /\ Goto("release")
    /\ UNCHANGED <<out, tree, preimage, checked, build, bounds>>

-----------------------------------------------------------------------------
(* The environment. *)

(* A system call fails or a signal is delivered where it is not deferred. *)
Fault(r) ==
    /\ holder = r /\ pc \notin {"idle", "release"} /\ (pc = "wait" => ninja = None)
    /\ faults < MaxFaults
    /\ faults' = faults + 1
    /\ \E target \in ErrorTargets(r) :
          IF target = "rollback" THEN StartRollback ELSE Goto(target)
    /\ UNCHANGED <<out, tree, records, checked, build, crashes>>

(* The process is killed: the kernel drops its lock; Ninja may live on. *)
Crash ==
    /\ holder # None /\ crashes < MaxCrashes
    /\ crashes' = crashes + 1
    /\ Idle
    /\ ninja' \in {ninja, None} /\ ninjaExit' = "none"
    /\ UNCHANGED <<out, tree, records, checked, faults>>

DeleteResponseFiles ==
    /\ OperatorCleans /\ holder = None /\ ninja = None /\ rspfiles # {}
    /\ rspfiles' = {}
    /\ UNCHANGED <<live, log, tree, records, checked, process, build, bounds>>

ExecuteStep(r) ==
    \/ Gate(r) \/ DryRun(r) \/ PublishPreflight(r) \/ PublishPrepared(r)
    \/ MakeRoot(r) \/ CopyHistory(r) \/ PublishInternalJournal(r)
    \/ PublishExternalJournal(r) \/ MoveOutput(r) \/ PublishInternalMoved(r)
    \/ PublishExternalMoved(r) \/ SpawnNinja(r) \/ NinjaReaped(r)
    \/ PostContract(r) \/ PublishExecution(r) \/ PublishFailure(r)

CleanupStep(r) ==
    \/ Cleanup(r) \/ RemoveHistoryCopy(r) \/ RemoveInternalJournal(r)
    \/ (\E o \in Outputs : RemoveBackup(r, o)) \/ RemoveInternalMoved(r)
    \/ RemoveRoot(r) \/ PublishCleanup(r)

RollbackStep(r) ==
    \/ UnlinkGenerated(r) \/ RestoreOutput(r) \/ KeepOutput(r)
    \/ UnlinkHistory(r) \/ RestoreHistory(r) \/ KeepHistory(r) \/ Revalidate(r)

RecoverStep(r) ==
    ChooseRecovery(r) \/ AdoptJournal(r) \/ AdoptMoved(r) \/ PublishRecovery(r)

ProcessStep(r) ==
    ExecuteStep(r) \/ CleanupStep(r) \/ RollbackStep(r) \/ RecoverStep(r) \/ Release(r)

NinjaStep ==
    \/ \E o \in Outputs : NinjaStartEdge(o) \/ NinjaLink(o) \/ NinjaFinishEdge(o)
    \/ \E status \in {"ok", "failed"} : NinjaExits(status)

Lock(r) ==
    \/ CheckExecute(r) \/ CheckRecover(r)
    \/ \E m \in {"execute", "recover"} : AcquireLock(m, r) \/ LockBusy(m, r)

Next ==
    \/ \E r \in Runs : Lock(r) \/ ProcessStep(r) \/ TerminateNinja(r)
                       \/ UnsafeGroup(r) \/ SignalInPopen(r) \/ Fault(r)
    \/ NinjaStep \/ Crash \/ DeleteResponseFiles

Spec == Init /\ [][Next]_vars

-----------------------------------------------------------------------------
Labels == {"idle", "gate", "dryRun", "preflight", "prepared", "makeRoot", "copyHistory",
           "journalInternal", "journalExternal", "move", "movedInternal", "movedExternal",
           "spawn", "wait", "post", "execution", "cleanup", "removeTree", "cleanupRecord",
           "rollback", "restoreHistory", "revalidate", "adoptJournal", "adoptMoved",
           "recovery", "failure", "release"}

(* Every variable has its type, and the move and rollback loops stand at an  *)
(* output.                                                                   *)
TypeOK ==
    /\ live \in [Outputs -> Files \cup {None}]
    /\ rspfiles \in SUBSET Outputs
    /\ log \in {None} \cup Logs
    /\ root \in [Runs -> SUBSET {"root", "journal", "moved"}]
    /\ backup \in [Runs -> [Outputs -> Files \cup {None}]]
    /\ history \in [Runs -> {None} \cup Logs]
    /\ evidence \in [Runs -> SUBSET Evidence]
    /\ preimage \in [Runs -> Snapshots]
    /\ checked \in SUBSET ({"execute", "recover"} \X Runs)
    /\ holder \in Runs \cup {None}
    /\ mode \in {"execute", "recover"}
    /\ pc \in Labels
    /\ cursor \in 0 .. N + 1
    /\ pc \in {"move", "rollback"} => cursor \in Outputs
    /\ snapshot \in Snapshots
    /\ ninja \in Runs \cup {None}
    /\ ninjaExit \in {"none", "ok", "failed"}
    /\ crashes \in 0 .. MaxCrashes /\ faults \in 0 .. MaxFaults

-----------------------------------------------------------------------------
(* Safety. *)

(* Until a run has published its execution record, the file every output    *)
(* had before any run, and the Ninja history of that time, exist: at their  *)
(* paths or in some transaction root (_move_outputs_to_backup, rollback).   *)
(* Without it no failure "restores the exact pre-image" (lines 11-12).      *)
PreimageRecoverable ==
    (\A r \in Runs : ~Committed(r)) =>
        /\ \A o \in Outputs : live[o] = Base \/ \E r \in Runs : backup[r][o] = Base
        /\ log = {} \/ \E r \in Runs : history[r] = {}

(* No output is out of its place before the authorisation and the journal   *)
(* that lead a recovery to it are durable outside the output directory.     *)
WriteAhead ==
    \A r \in Runs : ~NoBackup(r) => {"preflight", "prepared", "journal"} \subseteq evidence[r]

(* The pre-image a run records is the build that preceded every run: no run *)
(* ever takes what an unfinished other run left behind for its pre-image.   *)
GenuinePreimage ==
    \A r \in Runs : Has(r, "preflight") =>
        /\ preimage[r].outputs = [o \in Outputs |-> Base]
        /\ preimage[r].log = {}

(* Outputs are out of their places on behalf of at most one run, whatever   *)
(* roots crashed runs have left; evidence of a cleanup or of a recovery     *)
(* means that the root of its run is gone; and a run with evidence of a     *)
(* cleanup passes its audit, then and for ever.                             *)
OneTransaction ==
    /\ \A r, s \in Runs : ~NoBackup(r) /\ ~NoBackup(s) => r = s
    /\ \A r \in Runs : /\ Has(r, "cleanup") => AuditedRecords(r) /\ AuditedImage(r)
                       /\ {"cleanup", "recovery"} \cap evidence[r] # {} =>
                             root[r] = {} /\ NoBackup(r) /\ history[r] = None

Restored == /\ live = [o \in Outputs |-> Base]
            /\ log = {} /\ rspfiles = {}

(* What the module docstring says of a run that fails before its execution  *)
(* record is published: the exact pre-image is back (lines 11-12).          *)
FailureRestoresPreimage ==
    \A r \in Runs : Has(r, "failure") /\ ~Committed(r) => Restored

-----------------------------------------------------------------------------
(* Action properties. *)

(* While a Ninja group is alive no transaction root changes, and only that  *)
(* Ninja writes outputs (process gate, _terminate_group).                   *)
Undisturbed ==
    ninja # None => /\ UNCHANGED tree
                    /\ \A o \in Outputs : live'[o] \in {live[o], ninja}

UndisturbedBuild == [][Undisturbed]_vars

(* The record commits all outputs at once, and while it is published every  *)
(* pre-image is still in the root (preimages_retained_at_publication).      *)
CommitStep ==
    \A r \in Runs : Committed(r)' /\ ~Committed(r) =>
        /\ \A o \in Outputs : live[o] = r /\ backup[r][o] = preimage[r].outputs[o]
        /\ history[r] = preimage[r].log /\ log = Outputs

CommitWithPreimages == [][CommitStep]_vars

(* After a commit nothing, no late signal, no recovery of this or another   *)
(* run, changes an output or the history.                                   *)
CommitIsFinal ==
    [][\A r \in Runs : Committed(r) => UNCHANGED <<live, log>>]_vars

(* A rollback is reported as recovered only with the exact pre-image back.  *)
RecoveryIsExact ==
    [][\A r \in Runs : Has(r, "recovery")' /\ ~Has(r, "recovery") /\ ~Committed(r) =>
           Restored']_vars

-----------------------------------------------------------------------------
(* The relink as one atomic step. *)

(* The image recovery would expose now: what was moved away counts as       *)
(* present until the record is published.                                   *)
Image == [o \in Outputs |->
            IF \E r \in Runs : ~Committed(r) /\ backup[r][o] # None
            THEN backup[CHOOSE r \in Runs : ~Committed(r) /\ backup[r][o] # None][o]
            ELSE live[o]]

Outcome == [r \in Runs |-> IF Has(r, "cleanup") THEN "finished"
                           ELSE IF Committed(r) THEN "committed"
                           ELSE IF Has(r, "recovery") THEN "restored"
                           ELSE "open"]

Atomic == INSTANCE FrozenRelinkAtomic WITH image <- Image, outcome <- Outcome

(* The executor implements the all-or-nothing relink.                       *)
AtomicRelink == Atomic!Spec

-----------------------------------------------------------------------------
(* Liveness. *)

(* A process that holds the lock runs on unless it is killed; Ninja ends;   *)
(* somebody starts a recovery of a run that left evidence and deletes the   *)
(* response files that make it fail closed.  Nothing obliges anybody to     *)
(* start an execution, and faults and crashes are bounded.                  *)
Fairness ==
    /\ \A r \in Runs : /\ WF_vars(ProcessStep(r))
                       /\ WF_vars(CheckRecover(r))
                       /\ WF_vars(AcquireLock("recover", r))
    /\ WF_vars(\E status \in {"ok", "failed"} : NinjaExits(status))
    /\ SF_vars(DeleteResponseFiles)

FairSpec == Spec /\ Fairness

(* A run that was authorised to mutate ends with its root gone and either   *)
(* its commit or the exact pre-image, however often it was interrupted.     *)
EventuallySettled ==
    \A r \in Runs : Has(r, "prepared") ~>
        root[r] = {} /\ (Has(r, "cleanup") \/ (Has(r, "recovery") /\ Restored))
=============================================================================
