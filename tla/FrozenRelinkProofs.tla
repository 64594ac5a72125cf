------------------------- MODULE FrozenRelinkProofs -------------------------
(***************************************************************************)
(* Theorems about the executor of FrozenRelink, for any set of runs, any   *)
(* number of outputs and any bounds.                                       *)
(***************************************************************************)
EXTENDS FrozenRelink, TLAPS

USE DEF out, tree, records, process, build, bounds, Outputs, Files, Logs, Evidence

-----------------------------------------------------------------------------
(* Type correctness, by the process that acts. *)

LEMMA TypeInit == Init => TypeOK
  BY RelinkAssumption DEF Init, TypeOK, NoSnapshot, Snapshots, Labels

(* The steps that leave the outputs, the roots and the records alone. *)
LEMMA TypeLock == \A r \in Runs : TypeOK /\ Lock(r) => TypeOK'
  <1> SUFFICES ASSUME NEW r \in Runs, TypeOK, Lock(r) PROVE TypeOK'
    OBVIOUS
  <1>1. CASE CheckExecute(r)
    BY <1>1 DEF TypeOK, CheckExecute
  <1>2. CASE CheckRecover(r)
    BY <1>2 DEF TypeOK, CheckRecover
  <1>3. ASSUME NEW m \in {"execute", "recover"}, AcquireLock(m, r) PROVE TypeOK'
    BY <1>3 DEF TypeOK, AcquireLock, Labels
  <1>4. ASSUME NEW m \in {"execute", "recover"}, LockBusy(m, r) PROVE TypeOK'
    BY <1>4 DEF TypeOK, LockBusy
  <1> QED
    BY <1>1, <1>2, <1>3, <1>4 DEF Lock

LEMMA TypeExecute == \A r \in Runs : TypeOK /\ ExecuteStep(r) => TypeOK'
  <1> SUFFICES ASSUME NEW r \in Runs, TypeOK, ExecuteStep(r) PROVE TypeOK'
    OBVIOUS
  <1> USE RelinkAssumption DEF TypeOK, At, Goto, Publish, Has, StartRollback
  <1>1. CASE Gate(r)
    BY <1>1 DEF Gate, Snapshots, OtherRoots, Labels
  <1>2. CASE DryRun(r)
    BY <1>2 DEF DryRun, Labels
  <1>3. CASE PublishPreflight(r)
    <2>1. preimage' \in [Runs -> Snapshots]
      BY <1>3 DEF PublishPreflight
    <2>2. evidence' \in [Runs -> SUBSET Evidence]
      BY <1>3 DEF PublishPreflight
    <2> QED
      BY <1>3, <2>1, <2>2 DEF PublishPreflight, Labels
  <1>4. CASE PublishPrepared(r)
    BY <1>4 DEF PublishPrepared, Labels
  <1>5. CASE MakeRoot(r)
    <2>1. root' \in [Runs -> SUBSET {"root", "journal", "moved"}]
      BY <1>5 DEF MakeRoot
    <2>2. pc' \in {"copyHistory", "failure"}
      BY <1>5 DEF MakeRoot
    <2> QED
      BY <1>5, <2>1, <2>2 DEF MakeRoot, Labels
  <1>6. CASE CopyHistory(r)
    BY <1>6 DEF CopyHistory, Labels
  <1>7. CASE PublishInternalJournal(r)
    BY <1>7 DEF PublishInternalJournal, Labels
  <1>8. CASE PublishExternalJournal(r)
    BY <1>8 DEF PublishExternalJournal, Labels
  <1>9. CASE MoveOutput(r)
    <2>1. cursor \in Outputs /\ live[cursor] \in Files \cup {None}
      BY <1>9 DEF MoveOutput
    <2>2. CASE live[cursor] = snapshot.outputs[cursor]
      <3>1. live' \in [Outputs -> Files \cup {None}]
        BY <1>9, <2>1, <2>2 DEF MoveOutput
      <3>2. backup' \in [Runs -> [Outputs -> Files \cup {None}]]
        <4>1. backup' = [backup EXCEPT ![r] = [backup[r] EXCEPT ![cursor] = live[cursor]]]
          BY <1>9, <2>2 DEF MoveOutput
        <4>2. [backup[r] EXCEPT ![cursor] = live[cursor]] \in [Outputs -> Files \cup {None}]
          BY <2>1
        <4>3. backup \in [Runs -> [Outputs -> Files \cup {None}]]
          OBVIOUS
        <4> HIDE DEF TypeOK
        <4> QED
          BY <4>1, <4>2, <4>3
      <3>3. pc' = (IF cursor = N THEN "movedInternal" ELSE "move") /\ cursor' = cursor + 1
        BY <1>9, <2>2 DEF MoveOutput
      <3>4. /\ pc' \in {"move", "movedInternal"} /\ cursor' \in 0 .. N + 1
            /\ pc' \in {"move", "rollback"} => cursor' \in Outputs
        BY <2>1, <3>3
      <3> QED
        BY <1>9, <2>2, <3>1, <3>2, <3>4 DEF MoveOutput, Labels
    <2>3. CASE live[cursor] # snapshot.outputs[cursor]
      BY <1>9, <2>3 DEF MoveOutput, Labels
    <2> QED
      BY <2>2, <2>3
  <1>10. CASE PublishInternalMoved(r)
    BY <1>10 DEF PublishInternalMoved, Labels
  <1>11. CASE PublishExternalMoved(r)
    BY <1>11 DEF PublishExternalMoved, Labels
  <1>12. CASE SpawnNinja(r)
    <2>1. CASE MaySpawn(r)
      <3>1. evidence' \in [Runs -> SUBSET Evidence]
        BY <1>12, <2>1 DEF SpawnNinja
      <3>2. ninja' = r /\ ninjaExit' = "none" /\ pc' = "wait"
        BY <1>12, <2>1 DEF SpawnNinja
      <3> QED
        BY <1>12, <2>1, <3>1, <3>2 DEF SpawnNinja, Labels
    <2>2. CASE ~MaySpawn(r)
      BY <1>12, <2>2 DEF SpawnNinja, Labels
    <2> QED
      BY <2>1, <2>2
  <1>13. CASE NinjaReaped(r)
    BY <1>13 DEF NinjaReaped, Labels
  <1>14. CASE PostContract(r)
    BY <1>14 DEF PostContract, Labels
  <1>15. CASE PublishExecution(r)
    BY <1>15 DEF PublishExecution, Labels
  <1>16. CASE PublishFailure(r)
    BY <1>16 DEF PublishFailure, Labels
  <1> QED
    BY <1>1, <1>2, <1>3, <1>4, <1>5, <1>6, <1>7, <1>8, <1>9, <1>10, <1>11, <1>12, <1>13,
       <1>14, <1>15, <1>16 DEF ExecuteStep

LEMMA TypeCleanup == \A r \in Runs : TypeOK /\ CleanupStep(r) => TypeOK'
  <1> SUFFICES ASSUME NEW r \in Runs, TypeOK, CleanupStep(r) PROVE TypeOK'
    OBVIOUS
  <1> USE RelinkAssumption DEF TypeOK, At, Goto, Publish, Has
  <1>1. CASE Cleanup(r)
    BY <1>1 DEF Cleanup, Labels
  <1>2. CASE RemoveHistoryCopy(r)
    BY <1>2 DEF RemoveHistoryCopy
  <1>3. CASE RemoveInternalJournal(r)
    BY <1>3 DEF RemoveInternalJournal
  <1>4. ASSUME NEW o \in Outputs, RemoveBackup(r, o) PROVE TypeOK'
    BY <1>4 DEF RemoveBackup
  <1>5. CASE RemoveInternalMoved(r)
    BY <1>5 DEF RemoveInternalMoved
  <1>6. CASE RemoveRoot(r)
    BY <1>6 DEF RemoveRoot, Committed, Labels
  <1>7. CASE PublishCleanup(r)
    BY <1>7 DEF PublishCleanup, Labels
  <1> QED
    BY <1>1, <1>2, <1>3, <1>4, <1>5, <1>6, <1>7 DEF CleanupStep

LEMMA TypeRollback == \A r \in Runs : TypeOK /\ RollbackStep(r) => TypeOK'
  <1> SUFFICES ASSUME NEW r \in Runs, TypeOK, RollbackStep(r) PROVE TypeOK'
    OBVIOUS
  <1> USE RelinkAssumption DEF TypeOK, At, Goto, RollbackFails, RollbackNext
  <1>1. CASE UnlinkGenerated(r)
    BY <1>1 DEF UnlinkGenerated
  <1>2. CASE RestoreOutput(r)
    BY <1>2 DEF RestoreOutput, Labels
  <1>3. CASE KeepOutput(r)
    BY <1>3 DEF KeepOutput, Labels
  <1>4. CASE UnlinkHistory(r)
    BY <1>4 DEF UnlinkHistory
  <1>5. CASE RestoreHistory(r)
    BY <1>5 DEF RestoreHistory, Labels
  <1>6. CASE KeepHistory(r)
    BY <1>6 DEF KeepHistory, Labels
  <1>7. CASE Revalidate(r)
    BY <1>7 DEF Revalidate, Labels
  <1> QED
    BY <1>1, <1>2, <1>3, <1>4, <1>5, <1>6, <1>7 DEF RollbackStep

LEMMA TypeRecover == \A r \in Runs : TypeOK /\ RecoverStep(r) => TypeOK'
  <1> SUFFICES ASSUME NEW r \in Runs, TypeOK, RecoverStep(r) PROVE TypeOK'
    OBVIOUS
  <1> USE RelinkAssumption DEF TypeOK, At, Goto
  <1>1. CASE ChooseRecovery(r)
    <2>1. RecoveryBranch(r) \in Labels \ {"move", "rollback"}
      BY DEF RecoveryBranch, Labels
    <2> QED
      BY <1>1, <2>1 DEF ChooseRecovery
  <1>2. CASE AdoptJournal(r)
    BY <1>2 DEF AdoptJournal, Labels
  <1>3. CASE AdoptMoved(r)
    BY <1>3 DEF AdoptMoved, StartRollback, Labels
  <1>4. CASE PublishRecovery(r)
    BY <1>4 DEF PublishRecovery, Labels
  <1> QED
    BY <1>1, <1>2, <1>3, <1>4 DEF RecoverStep

LEMMA TypeNinja == TypeOK /\ NinjaStep => TypeOK'
  <1> SUFFICES ASSUME TypeOK, NinjaStep PROVE TypeOK'
    OBVIOUS
  <1> USE RelinkAssumption DEF TypeOK
  <1>1. ASSUME NEW o \in Outputs, NinjaStartEdge(o) PROVE TypeOK'
    BY <1>1 DEF NinjaStartEdge
  <1>2. ASSUME NEW o \in Outputs, NinjaLink(o) PROVE TypeOK'
    BY <1>2 DEF NinjaLink
  <1>3. ASSUME NEW o \in Outputs, NinjaFinishEdge(o) PROVE TypeOK'
    BY <1>3 DEF NinjaFinishEdge, Linked
  <1>4. ASSUME NEW status \in {"ok", "failed"}, NinjaExits(status) PROVE TypeOK'
    BY <1>4 DEF NinjaExits
  <1> QED
    BY <1>1, <1>2, <1>3, <1>4 DEF NinjaStep

LEMMA TypeFault == \A r \in Runs : TypeOK /\ Fault(r) => TypeOK'
  <1> SUFFICES ASSUME NEW r \in Runs, TypeOK, Fault(r) PROVE TypeOK'
    OBVIOUS
  <1> USE RelinkAssumption DEF TypeOK
  <1>1. PICK target \in ErrorTargets(r) :
           IF target = "rollback" THEN StartRollback ELSE Goto(target)
    BY DEF Fault
  <1>2. target \in {"release", "removeTree", "failure", "rollback"}
    BY DEF ErrorTargets
  <1> QED
    BY <1>1, <1>2 DEF Fault, StartRollback, Goto, Labels

LEMMA TypeStep == TypeOK /\ [Next]_vars => TypeOK'
  <1> SUFFICES ASSUME TypeOK, [Next]_vars PROVE TypeOK'
    OBVIOUS
  <1> USE RelinkAssumption
  <1>1. ASSUME NEW r \in Runs, Release(r) PROVE TypeOK'
    BY <1>1 DEF TypeOK, Release, Idle, NoSnapshot, Snapshots, Labels
  <1>2. ASSUME NEW r \in Runs, TerminateNinja(r) PROVE TypeOK'
    BY <1>2 DEF TypeOK, TerminateNinja, StartRollback, At, Labels
  <1>3. ASSUME NEW r \in Runs, UnsafeGroup(r) PROVE TypeOK'
    BY <1>3 DEF TypeOK, UnsafeGroup, Goto, At, Labels
  <1>4. CASE Crash
    BY <1>4 DEF TypeOK, Crash, Idle, NoSnapshot, Snapshots, Labels
  <1>5. CASE DeleteResponseFiles
    BY <1>5 DEF TypeOK, DeleteResponseFiles
  <1>6. ASSUME NEW r \in Runs, SignalInPopen(r) PROVE TypeOK'
    BY <1>6 DEF TypeOK, SignalInPopen, StartRollback, Publish, At, Labels
  <1>7. CASE UNCHANGED vars
    BY <1>7 DEF TypeOK, vars
  <1> QED
    BY <1>1, <1>2, <1>3, <1>4, <1>5, <1>6, <1>7, TypeLock, TypeExecute, TypeCleanup, TypeRollback,
       TypeRecover, TypeNinja, TypeFault DEF Next, ProcessStep

(* Every variable keeps its type, whatever is interrupted.                  *)
THEOREM TypeCorrect == Spec => []TypeOK
  <1>1. Init => TypeOK
    BY TypeInit
  <1> QED
    BY <1>1, TypeStep, PTL DEF Spec

-----------------------------------------------------------------------------
(* Who acts while Ninja runs.  Always: nobody plans, moves, or judges what  *)
(* Ninja did.  If no signal lands inside Popen(), nobody repairs either: a  *)
(* Ninja group is alive only while the lock is free or its holder stands    *)
(* where it changes nothing.                                                *)

BeforeNinja == {"dryRun", "preflight", "prepared", "makeRoot", "copyHistory",
                "journalInternal", "journalExternal", "move", "movedInternal",
                "movedExternal", "spawn"}

NeedsNinjaGone == BeforeNinja \cup {"post", "execution"}

Quiet == {"idle", "gate", "wait", "failure", "release"}

NinjaAway == ninja # None => pc \notin NeedsNinjaGone

NinjaAlone == ninja # None => pc \in Quiet

(* Where neither claim is at stake. *)
LEMMA Gone ==
  ASSUME ninja' = None \/ (ninja' = ninja /\ (pc' = pc \/ pc' \in Quiet))
  PROVE  (NinjaAway => NinjaAway') /\ (NinjaAlone => NinjaAlone')
  BY DEF NinjaAway, NinjaAlone, Quiet, NeedsNinjaGone, BeforeNinja

LEMMA AwayExecute ==
  \A r \in Runs : ExecuteStep(r) => (NinjaAway => NinjaAway') /\ (NinjaAlone => NinjaAlone')
  <1> SUFFICES ASSUME NEW r \in Runs, ExecuteStep(r)
               PROVE  (NinjaAway => NinjaAway') /\ (NinjaAlone => NinjaAlone')
    OBVIOUS
  <1> USE RelinkAssumption
      DEF NinjaAway, NinjaAlone, Quiet, NeedsNinjaGone, BeforeNinja, At, Goto, StartRollback
  <1>1. CASE Gate(r)
    BY <1>1 DEF Gate, ProcessGate
  <1>2. CASE DryRun(r) \/ PublishPreflight(r) \/ PublishPrepared(r)
    BY <1>2 DEF DryRun, PublishPreflight, PublishPrepared
  <1>3. CASE MakeRoot(r) \/ CopyHistory(r) \/ PublishInternalJournal(r)
             \/ PublishExternalJournal(r)
    BY <1>3 DEF MakeRoot, CopyHistory, PublishInternalJournal, PublishExternalJournal
  <1>4. CASE MoveOutput(r) \/ PublishInternalMoved(r) \/ PublishExternalMoved(r)
    BY <1>4 DEF MoveOutput, PublishInternalMoved, PublishExternalMoved
  <1>5. CASE SpawnNinja(r)
    BY <1>5 DEF SpawnNinja
  <1>6. CASE NinjaReaped(r) \/ PostContract(r)
    BY <1>6 DEF NinjaReaped, PostContract
  <1>7. CASE PublishExecution(r) \/ PublishFailure(r)
    BY <1>7 DEF PublishExecution, PublishFailure
  <1> QED
    BY <1>1, <1>2, <1>3, <1>4, <1>5, <1>6, <1>7 DEF ExecuteStep

(* Cleanup, rollback and the later steps of a recovery stand at labels that *)
(* are not quiet and lead to none that needs Ninja gone.                    *)
LEMMA AwayRepair ==
  \A r \in Runs :
     CleanupStep(r) \/ RollbackStep(r) \/ RecoverStep(r) \/ Release(r)
        => (NinjaAway => NinjaAway') /\ (NinjaAlone => NinjaAlone')
  <1> SUFFICES ASSUME NEW r \in Runs,
                      CleanupStep(r) \/ RollbackStep(r) \/ RecoverStep(r) \/ Release(r)
               PROVE  (NinjaAway => NinjaAway') /\ (NinjaAlone => NinjaAlone')
    OBVIOUS
  <1> USE RelinkAssumption DEF NinjaAway, NinjaAlone, Quiet, NeedsNinjaGone, BeforeNinja, At, Goto
  <1>1. CASE CleanupStep(r)
    BY <1>1 DEF CleanupStep, Cleanup, RemoveHistoryCopy, RemoveInternalJournal, RemoveBackup,
                RemoveInternalMoved, RemoveRoot, PublishCleanup
  <1>2. CASE RollbackStep(r)
    BY <1>2 DEF RollbackStep, UnlinkGenerated, RestoreOutput, KeepOutput, UnlinkHistory,
                RestoreHistory, KeepHistory, Revalidate, RollbackFails, RollbackNext
  <1>3. CASE ChooseRecovery(r)
    <2>1. /\ RecoveryBranch(r) \notin NeedsNinjaGone
          /\ ninja # None => RecoveryBranch(r) = "release"
      BY DEF RecoveryBranch, ProcessGate
    <2> QED
      BY <1>3, <2>1 DEF ChooseRecovery
  <1>4. CASE AdoptJournal(r) \/ AdoptMoved(r) \/ PublishRecovery(r) \/ Release(r)
    BY <1>4 DEF AdoptJournal, AdoptMoved, PublishRecovery, Release, Idle, StartRollback
  <1> QED
    BY <1>1, <1>2, <1>3, <1>4 DEF RecoverStep

LEMMA AwayFault ==
  \A r \in Runs : TerminateNinja(r) \/ UnsafeGroup(r) \/ Fault(r)
     => (NinjaAway => NinjaAway') /\ (NinjaAlone => NinjaAlone')
  <1> SUFFICES ASSUME NEW r \in Runs, TerminateNinja(r) \/ UnsafeGroup(r) \/ Fault(r)
               PROVE  (NinjaAway => NinjaAway') /\ (NinjaAlone => NinjaAlone')
    OBVIOUS
  <1> USE RelinkAssumption DEF NinjaAway, NinjaAlone, Quiet, NeedsNinjaGone, BeforeNinja
  <1>1. CASE TerminateNinja(r) \/ UnsafeGroup(r)
    BY <1>1 DEF TerminateNinja, UnsafeGroup, StartRollback, Goto
  <1>2. CASE Fault(r)
    <2>1. PICK target \in ErrorTargets(r) :
             IF target = "rollback" THEN StartRollback ELSE Goto(target)
      BY <1>2 DEF Fault
    <2>2. /\ target \in {"release", "removeTree", "failure", "rollback"}
          /\ target \in {"removeTree", "rollback"} => pc = "wait" \/ pc \notin Quiet
      BY DEF ErrorTargets, RollbackPoints
    <2> QED
      BY <1>2, <2>1, <2>2 DEF Fault, StartRollback, Goto
  <1> QED
    BY <1>1, <1>2

LEMMA AwayRest ==
  [(\E r \in Runs : Lock(r)) \/ NinjaStep \/ Crash \/ DeleteResponseFiles]_vars
     => (NinjaAway => NinjaAway') /\ (NinjaAlone => NinjaAlone')
  <1> SUFFICES ASSUME [(\E r \in Runs : Lock(r)) \/ NinjaStep \/ Crash
                         \/ DeleteResponseFiles]_vars
               PROVE  ninja' = None \/ (ninja' = ninja /\ (pc' = pc \/ pc' \in Quiet))
    BY Gone
  <1>1. ASSUME NEW r \in Runs, Lock(r)
        PROVE  ninja' = ninja /\ (pc' = pc \/ pc' \in Quiet)
    BY <1>1 DEF Lock, CheckExecute, CheckRecover, AcquireLock, LockBusy, Quiet
  <1>2. CASE NinjaStep
    BY <1>2 DEF NinjaStep, NinjaStartEdge, NinjaLink, NinjaFinishEdge, NinjaExits
  <1>3. CASE Crash
    BY <1>3 DEF Crash, Idle, Quiet
  <1>4. CASE DeleteResponseFiles \/ UNCHANGED vars
    BY <1>4 DEF DeleteResponseFiles, vars
  <1> QED
    BY <1>1, <1>2, <1>3, <1>4

(* A signal inside Popen() starts a rollback next to a live Ninja.          *)
LEMMA AwayStep == NinjaAway /\ [Next]_vars => NinjaAway'
  <1> SUFFICES ASSUME NinjaAway, [Next]_vars PROVE NinjaAway'
    OBVIOUS
  <1>1. ASSUME NEW r \in Runs, SignalInPopen(r) PROVE NinjaAway'
    BY <1>1 DEF SignalInPopen, StartRollback, NinjaAway, NeedsNinjaGone, BeforeNinja
  <1> QED
    BY <1>1, AwayExecute, AwayRepair, AwayFault, AwayRest DEF Next, ProcessStep

LEMMA AloneStep == ~SignalsInPopen /\ NinjaAlone /\ [Next]_vars => NinjaAlone'
  <1> SUFFICES ASSUME ~SignalsInPopen, NinjaAlone, [Next]_vars PROVE NinjaAlone'
    OBVIOUS
  <1>1. \A r \in Runs : ~SignalInPopen(r)
    BY DEF SignalInPopen
  <1> QED
    BY <1>1, AwayExecute, AwayRepair, AwayFault, AwayRest DEF Next, ProcessStep

-----------------------------------------------------------------------------
(* Nothing but Ninja works in the output directory while it is alive.       *)

LEMMA UndisturbedStep ==
  ~SignalsInPopen /\ TypeOK /\ NinjaAlone /\ [Next]_vars => [Undisturbed]_vars
  <1> SUFFICES ASSUME ~SignalsInPopen, TypeOK, NinjaAlone, Next, ninja # None
               PROVE  Undisturbed
    BY DEF Undisturbed
  <1> USE DEF Undisturbed
  <1>1. pc \in Quiet /\ live \in [Outputs -> Files \cup {None}]
    BY DEF NinjaAlone, TypeOK
  <1>2. ASSUME NEW r \in Runs, Lock(r) \/ TerminateNinja(r) \/ UnsafeGroup(r) \/ Fault(r)
        PROVE  UNCHANGED <<live, tree>>
    BY <1>2 DEF Lock, CheckExecute, CheckRecover, AcquireLock, LockBusy, TerminateNinja,
                UnsafeGroup, Fault
  <1>3. ASSUME NEW r \in Runs, ProcessStep(r) PROVE UNCHANGED <<live, tree>>
    <2> USE <1>1 DEF Quiet, At
    <2>1. CASE ExecuteStep(r)
      BY <2>1 DEF ExecuteStep, Gate, DryRun, PublishPreflight, PublishPrepared, MakeRoot,
                  CopyHistory, PublishInternalJournal, PublishExternalJournal, MoveOutput,
                  PublishInternalMoved, PublishExternalMoved, SpawnNinja, NinjaReaped,
                  PostContract, PublishExecution, PublishFailure
    <2>2. CASE CleanupStep(r)
      BY <2>2 DEF CleanupStep, Cleanup, RemoveHistoryCopy, RemoveInternalJournal,
                  RemoveBackup, RemoveInternalMoved, RemoveRoot, PublishCleanup
    <2>3. CASE RollbackStep(r)
      BY <2>3 DEF RollbackStep, UnlinkGenerated, RestoreOutput, KeepOutput, UnlinkHistory,
                  RestoreHistory, KeepHistory, Revalidate
    <2>4. CASE RecoverStep(r) \/ Release(r)
      BY <2>4 DEF RecoverStep, ChooseRecovery, AdoptJournal, AdoptMoved, PublishRecovery,
                  Release
    <2> QED
      BY <1>3, <2>1, <2>2, <2>3, <2>4 DEF ProcessStep
  <1>4. CASE NinjaStep
    BY <1>1, <1>4 DEF NinjaStep, NinjaStartEdge, NinjaLink, NinjaFinishEdge, NinjaExits
  <1>5. CASE Crash \/ DeleteResponseFiles
    BY <1>5 DEF Crash, DeleteResponseFiles
  <1> QED
    BY <1>2, <1>3, <1>4, <1>5 DEF Next, SignalInPopen

(* While a Ninja group is alive, of whichever run, no transaction root      *)
(* changes and no process but Ninja writes an output: as long as no signal  *)
(* lands inside Popen().                                                    *)
THEOREM BuildUndisturbed == ~SignalsInPopen => (Spec => UndisturbedBuild)
  <1> SUFFICES ASSUME ~SignalsInPopen PROVE Spec => UndisturbedBuild
    OBVIOUS
  <1>1. Init => NinjaAlone
    BY DEF Init, NinjaAlone
  <1>2. NinjaAlone /\ [Next]_vars => NinjaAlone'
    BY AloneStep
  <1>3. TypeOK /\ NinjaAlone /\ [Next]_vars => [Undisturbed]_vars
    BY UndisturbedStep
  <1> QED
    BY <1>1, <1>2, <1>3, TypeCorrect, PTL DEF Spec, UndisturbedBuild

-----------------------------------------------------------------------------
(* Write-ahead: the evidence of a run grows with the labels it passes.      *)

Authorised ==
    \A r \in Runs :
        /\ At(r, "prepared") => Has(r, "preflight")
        /\ holder = r /\ pc \in {"makeRoot", "copyHistory", "journalInternal",
                                 "journalExternal"}
              => Has(r, "preflight") /\ Has(r, "prepared")
        /\ At(r, "move") => Has(r, "preflight") /\ Has(r, "prepared") /\ Has(r, "journal")

AheadInv == TypeOK /\ WriteAhead /\ Authorised

(* Evidence is only ever added, and outside the move loop no backup is.     *)
LEMMA AheadFrame ==
  ASSUME TypeOK, WriteAhead, Authorised,
         \A s \in Runs : evidence[s] \subseteq evidence'[s],
         \A s \in Runs : NoBackup(s) => NoBackup(s)',
         holder' # None =>
            \/ pc' \notin {"prepared", "makeRoot", "copyHistory", "journalInternal",
                           "journalExternal", "move"}
            \/ holder' = holder /\ pc' = pc
  PROVE  WriteAhead' /\ Authorised'
  BY RelinkAssumption DEF WriteAhead, Authorised, At, Has

(* The steps that lead a run into the labels before its first move.         *)
LEMMA AheadExecute ==
  \A r \in Runs : AheadInv /\ ExecuteStep(r) => WriteAhead' /\ Authorised'
  <1> SUFFICES ASSUME NEW r \in Runs, AheadInv, ExecuteStep(r)
               PROVE  WriteAhead' /\ Authorised'
    OBVIOUS
  <1>0. TypeOK /\ WriteAhead /\ Authorised /\ evidence \in [Runs -> SUBSET Evidence]
    BY DEF AheadInv, TypeOK
  <1>a. CASE PublishPreflight(r) \/ PublishPrepared(r) \/ MakeRoot(r) \/ CopyHistory(r)
             \/ PublishInternalJournal(r) \/ PublishExternalJournal(r)
    <2> USE RelinkAssumption, <1>0 DEF WriteAhead, Authorised, At, Has, Goto, Publish, NoBackup
    <2>1. CASE PublishPreflight(r)
      BY <2>1 DEF PublishPreflight
    <2>2. CASE PublishPrepared(r)
      BY <2>2 DEF PublishPrepared
    <2>3. CASE MakeRoot(r)
      BY <2>3 DEF MakeRoot
    <2>4. CASE CopyHistory(r)
      BY <2>4 DEF CopyHistory
    <2>5. CASE PublishInternalJournal(r)
      BY <2>5 DEF PublishInternalJournal
    <2>6. CASE PublishExternalJournal(r)
      BY <2>6 DEF PublishExternalJournal
    <2> QED
      BY <1>a, <2>1, <2>2, <2>3, <2>4, <2>5, <2>6
  <1>b. CASE MoveOutput(r)
    <2>1. \A s \in Runs \ {r} : NoBackup(s) => NoBackup(s)'
      BY <1>b, <1>0 DEF MoveOutput, TypeOK, NoBackup, StartRollback
    <2>2. UNCHANGED evidence /\ holder' = r /\ pc = "move" /\ holder = r
          /\ pc' \in {"move", "movedInternal", "rollback"}
      BY <1>b DEF MoveOutput, At, StartRollback
    <2> QED
      BY RelinkAssumption, <1>0, <2>1, <2>2 DEF WriteAhead, Authorised, At, Has
  <1>c. CASE Gate(r) \/ DryRun(r) \/ PublishInternalMoved(r) \/ PublishExternalMoved(r)
             \/ SpawnNinja(r) \/ NinjaReaped(r) \/ PostContract(r) \/ PublishExecution(r)
             \/ PublishFailure(r)
    <2>1. \A s \in Runs : evidence[s] \subseteq evidence'[s]
      BY <1>c, <1>0 DEF Gate, DryRun, PublishInternalMoved, PublishExternalMoved, SpawnNinja,
                        NinjaReaped, PostContract, PublishExecution, PublishFailure, Publish
    <2>2. UNCHANGED backup
      BY <1>c DEF Gate, DryRun, PublishInternalMoved, PublishExternalMoved, SpawnNinja,
                  NinjaReaped, PostContract, PublishExecution, PublishFailure, tree
    <2>3. pc' \notin {"prepared", "makeRoot", "copyHistory", "journalInternal",
                     "journalExternal", "move"}
      BY <1>c DEF Gate, DryRun, PublishInternalMoved, PublishExternalMoved, SpawnNinja,
                  NinjaReaped, PostContract, PublishExecution, PublishFailure, Goto,
                  StartRollback
    <2> QED
      BY <1>0, <2>1, <2>2, <2>3, AheadFrame DEF NoBackup
  <1> QED
    BY <1>a, <1>b, <1>c DEF ExecuteStep

(* Cleanup, rollback and recovery take backups away and add evidence.       *)
LEMMA AheadRepair ==
  \A r \in Runs :
     AheadInv /\ (CleanupStep(r) \/ RollbackStep(r) \/ RecoverStep(r) \/ Release(r))
        => WriteAhead' /\ Authorised'
  <1> SUFFICES ASSUME NEW r \in Runs, AheadInv,
                      CleanupStep(r) \/ RollbackStep(r) \/ RecoverStep(r) \/ Release(r)
               PROVE  WriteAhead' /\ Authorised'
    OBVIOUS
  <1>0. /\ TypeOK /\ WriteAhead /\ Authorised
        /\ evidence \in [Runs -> SUBSET Evidence]
        /\ backup \in [Runs -> [Outputs -> Files \cup {None}]]
    BY DEF AheadInv, TypeOK
  <1> DEFINE Before == {"prepared", "makeRoot", "copyHistory", "journalInternal",
                        "journalExternal", "move"}
  <1>1. CASE CleanupStep(r)
    <2>1. \A s \in Runs : evidence[s] \subseteq evidence'[s]
      BY <1>0, <1>1 DEF CleanupStep, Cleanup, RemoveHistoryCopy, RemoveInternalJournal,
                        RemoveBackup, RemoveInternalMoved, RemoveRoot, PublishCleanup, Publish
    <2>2. \A s \in Runs : NoBackup(s) => NoBackup(s)'
      BY <1>0, <1>1 DEF CleanupStep, Cleanup, RemoveHistoryCopy, RemoveInternalJournal,
                        RemoveBackup, RemoveInternalMoved, RemoveRoot, PublishCleanup, NoBackup
    <2>3. pc' \notin Before
      BY <1>1 DEF CleanupStep, Cleanup, RemoveHistoryCopy, RemoveInternalJournal,
                  RemoveBackup, RemoveInternalMoved, RemoveRoot, PublishCleanup, Goto, At
    <2> QED
      BY <1>0, <2>1, <2>2, <2>3, AheadFrame
  <1>2. CASE RollbackStep(r)
    <2>1. UNCHANGED evidence
      BY <1>2 DEF RollbackStep, UnlinkGenerated, RestoreOutput, KeepOutput, UnlinkHistory,
                  RestoreHistory, KeepHistory, Revalidate
    <2>2. \A s \in Runs : NoBackup(s) => NoBackup(s)'
      <3>1. CASE RestoreOutput(r)
        BY <1>0, <3>1 DEF RestoreOutput, NoBackup
      <3>2. UNCHANGED backup \/ RestoreOutput(r)
        BY <1>2 DEF RollbackStep, UnlinkGenerated, KeepOutput, UnlinkHistory,
                    RestoreHistory, KeepHistory, Revalidate
      <3> QED
        BY <3>1, <3>2 DEF NoBackup
    <2>3. pc' \notin Before
      BY <1>2 DEF RollbackStep, UnlinkGenerated, RestoreOutput, KeepOutput, UnlinkHistory,
                  RestoreHistory, KeepHistory, Revalidate, RollbackFails, RollbackNext,
                  Goto, At
    <2> QED
      BY <1>0, <2>1, <2>2, <2>3, AheadFrame
  <1>3. CASE RecoverStep(r) \/ Release(r)
    <2>1. \A s \in Runs : evidence[s] \subseteq evidence'[s]
      BY <1>0, <1>3 DEF RecoverStep, ChooseRecovery, AdoptJournal, AdoptMoved,
                        PublishRecovery, Release
    <2>2. UNCHANGED backup
      BY <1>3 DEF RecoverStep, ChooseRecovery, AdoptJournal, AdoptMoved, PublishRecovery,
                  Release
    <2>3. RecoveryBranch(r) \notin Before
      BY DEF RecoveryBranch
    <2>4. pc' \notin Before
      BY <1>3, <2>3 DEF RecoverStep, ChooseRecovery, AdoptJournal, AdoptMoved,
                        PublishRecovery, Release, Idle, Goto, StartRollback
    <2> QED
      BY <1>0, <2>1, <2>2, <2>4, AheadFrame DEF NoBackup
  <1> QED
    BY <1>1, <1>2, <1>3

LEMMA AheadStep == AheadInv /\ [Next]_vars => WriteAhead' /\ Authorised'
  <1> SUFFICES ASSUME AheadInv, [Next]_vars PROVE WriteAhead' /\ Authorised'
    OBVIOUS
  <1>0. TypeOK /\ WriteAhead /\ Authorised
    BY DEF AheadInv
  <1> DEFINE Before == {"prepared", "makeRoot", "copyHistory", "journalInternal",
                        "journalExternal", "move"}
  <1>1. ASSUME NEW r \in Runs,
               Lock(r) \/ TerminateNinja(r) \/ UnsafeGroup(r) \/ Fault(r)
        PROVE  WriteAhead' /\ Authorised'
    <2>1. UNCHANGED <<evidence, backup>>
      BY <1>1 DEF Lock, CheckExecute, CheckRecover, AcquireLock, LockBusy, TerminateNinja,
                  UnsafeGroup, Fault
    <2>2. \A t \in ErrorTargets(r) : t \notin Before
      BY DEF ErrorTargets
    <2>3. pc' \notin Before \/ (holder' = holder /\ pc' = pc)
      BY <1>1, <2>2 DEF Lock, CheckExecute, CheckRecover, AcquireLock, LockBusy,
                        TerminateNinja, UnsafeGroup, Fault, Goto, StartRollback
    <2> QED
      BY <1>0, <2>1, <2>3, AheadFrame DEF NoBackup
  <1>2. CASE NinjaStep \/ Crash \/ DeleteResponseFiles \/ UNCHANGED vars
    <2>1. UNCHANGED <<evidence, backup>>
      BY <1>2 DEF NinjaStep, NinjaStartEdge, NinjaLink, NinjaFinishEdge, NinjaExits, Crash,
                  DeleteResponseFiles, vars
    <2>2. pc' \notin Before \/ (holder' = holder /\ pc' = pc)
      BY <1>2 DEF NinjaStep, NinjaStartEdge, NinjaLink, NinjaFinishEdge, NinjaExits, Crash,
                  Idle, DeleteResponseFiles, vars
    <2> QED
      BY <1>0, <2>1, <2>2, AheadFrame DEF NoBackup
  <1>3. ASSUME NEW r \in Runs, SignalInPopen(r) PROVE WriteAhead' /\ Authorised'
    <2>1. /\ \A s \in Runs : evidence[s] \subseteq evidence'[s]
          /\ UNCHANGED backup /\ pc' = "rollback"
      BY <1>0, <1>3 DEF SignalInPopen, Publish, StartRollback, TypeOK
    <2> QED
      BY <1>0, <2>1, AheadFrame DEF NoBackup
  <1> QED
    BY <1>1, <1>2, <1>3, AheadExecute, AheadRepair DEF Next, ProcessStep

(* No output leaves its place before the authorisation and the journal of   *)
(* its run are durable, for any number of outputs, runs and interruptions.  *)
THEOREM JournalFirst == Spec => []WriteAhead
  <1>1. Init /\ TypeOK => WriteAhead /\ Authorised
    BY RelinkAssumption DEF Init, WriteAhead, Authorised, NoBackup, At
  <1>2. TypeOK /\ TypeOK' /\ WriteAhead /\ Authorised /\ [Next]_vars
           => WriteAhead' /\ Authorised'
    BY AheadStep DEF AheadInv
  <1> QED
    BY <1>1, <1>2, TypeCorrect, PTL DEF Spec

-----------------------------------------------------------------------------
(* What a commit publishes: every output at once, linked by the run that    *)
(* commits, with every pre-image still in its root.                         *)

(* From the preflight record to the commit. *)
Planned == {"prepared", "makeRoot", "copyHistory", "journalInternal", "journalExternal",
            "move", "movedInternal", "movedExternal", "spawn", "wait", "post", "execution"}

Copied == {"journalInternal", "journalExternal", "move", "movedInternal", "movedExternal",
           "spawn", "wait", "post", "execution"}

Moved == {"movedInternal", "movedExternal", "spawn", "wait", "post", "execution"}

(* What the lock holder has established by the time it stands at its label. *)
Recorded == pc \in Planned => preimage[holder] = snapshot
SameHistory == pc \in BeforeNinja => log = snapshot.log
HistoryKept == pc \in Copied => history[holder] = snapshot.log
OutputsKept ==
    /\ pc = "move" => \A o \in 1 .. cursor - 1 : backup[holder][o] = snapshot.outputs[o]
    /\ pc \in Moved => \A o \in Outputs : backup[holder][o] = snapshot.outputs[o]
OutputsOut ==
    /\ pc = "move" => \A o \in 1 .. cursor - 1 : live[o] = None
    /\ pc \in {"movedInternal", "movedExternal", "spawn"} => \A o \in Outputs : live[o] = None
    /\ pc \in {"wait", "post", "execution"} =>
          /\ ninja \in {None, holder}
          /\ \A o \in Outputs : live[o] \in {None, holder}
Complete == pc = "execution" => log = Outputs /\ \A o \in Outputs : live[o] # None

Progress == Recorded /\ SameHistory /\ HistoryKept /\ OutputsKept /\ OutputsOut /\ Complete

AtWork == Planned \cup BeforeNinja

Held == pc \in AtWork => holder \in Runs

CommitInv == TypeOK /\ NinjaAway /\ Held /\ Progress

(* A step to a label where nothing is planned owes nothing.                 *)
LEMMA Elsewhere == pc' \notin AtWork => Progress' /\ Held'
  BY DEF Progress, Held, AtWork, Planned, BeforeNinja, Copied, Moved, Recorded, SameHistory,
         HistoryKept, OutputsKept, OutputsOut, Complete

(* A step that touches nothing the invariant speaks of keeps it.            *)
LEMMA Unmoved ==
  ASSUME Progress, Held,
         UNCHANGED <<live, log, backup, history, preimage, snapshot, holder, cursor, ninja, pc>>
  PROVE  Progress' /\ Held'
  BY DEF Progress, Held, Recorded, SameHistory, HistoryKept, OutputsKept, OutputsOut, Complete

(* One label further, with nothing the invariant speaks of touched: enough  *)
(* wherever no conjunct begins to speak.                                    *)
LEMMA Onward ==
  ASSUME Progress, Held,
         UNCHANGED <<live, log, backup, history, preimage, snapshot, holder, ninja>>,
         \/ <<pc, pc'>> \in {<<"dryRun", "preflight">>, <<"prepared", "makeRoot">>,
                             <<"makeRoot", "copyHistory">>,
                             <<"journalInternal", "journalExternal">>,
                             <<"movedInternal", "movedExternal">>,
                             <<"movedExternal", "spawn">>, <<"wait", "post">>}
  PROVE  Progress' /\ Held'
  BY DEF Progress, Held, Recorded, SameHistory, HistoryKept, OutputsKept, OutputsOut, Complete,
         AtWork, Planned, BeforeNinja, Copied, Moved

LEMMA ProgressMove == \A r \in Runs : CommitInv /\ MoveOutput(r) => Progress' /\ Held'
  <1> SUFFICES ASSUME NEW r \in Runs, CommitInv, MoveOutput(r) PROVE Progress' /\ Held'
    OBVIOUS
  <1>0. /\ Progress /\ holder = r /\ pc = "move" /\ N \in Nat /\ cursor \in Outputs
        /\ live \in [Outputs -> Files \cup {None}]
        /\ backup \in [Runs -> [Outputs -> Files \cup {None}]]
    BY RelinkAssumption DEF CommitInv, TypeOK, MoveOutput, At
  <1>1. CASE live[cursor] # snapshot.outputs[cursor]
    BY <1>1, Elsewhere DEF MoveOutput, StartRollback, AtWork, Planned, BeforeNinja
  <1>2. CASE live[cursor] = snapshot.outputs[cursor]
    <2>1. /\ UNCHANGED <<log, history, preimage, snapshot, holder>>
          /\ cursor' = cursor + 1
          /\ pc' = (IF cursor = N THEN "movedInternal" ELSE "move")
      BY <1>2 DEF MoveOutput
    <2>2. Recorded' /\ SameHistory' /\ HistoryKept' /\ Complete' /\ Held'
      BY <1>0, <2>1 DEF Progress, Recorded, SameHistory, HistoryKept, Complete, Held, AtWork,
                        Planned, BeforeNinja, Copied
    <2>3. /\ backup'[r][cursor] = snapshot.outputs[cursor] /\ live'[cursor] = None
          /\ \A o \in Outputs \ {cursor} : backup'[r][o] = backup[r][o] /\ live'[o] = live[o]
      <3>1. /\ backup' = [backup EXCEPT ![r] = [backup[r] EXCEPT ![cursor] = live[cursor]]]
            /\ live' = [live EXCEPT ![cursor] = None]
        BY <1>2 DEF MoveOutput
      <3>2. backup[r] \in [Outputs -> Files \cup {None}]
        BY <1>0
      <3>3. backup'[r] = [backup[r] EXCEPT ![cursor] = live[cursor]]
        BY <1>0, <3>1
      <3> QED
        BY <1>0, <1>2, <3>1, <3>2, <3>3
    <2>4. \A o \in 1 .. cursor : backup'[r][o] = snapshot.outputs[o] /\ live'[o] = None
      <3>1. \A o \in 1 .. cursor - 1 : backup[r][o] = snapshot.outputs[o] /\ live[o] = None
        BY <1>0 DEF Progress, OutputsKept, OutputsOut
      <3> QED
        BY <1>0, <2>3, <3>1
    <2>5. OutputsKept' /\ OutputsOut'
      BY <1>0, <2>1, <2>4 DEF OutputsKept, OutputsOut, Moved
    <2> QED
      BY <2>2, <2>5 DEF Progress
  <1> QED
    BY <1>1, <1>2

LEMMA ProgressExecute == \A r \in Runs : CommitInv /\ ExecuteStep(r) => Progress' /\ Held'
  <1> SUFFICES ASSUME NEW r \in Runs, CommitInv, ExecuteStep(r) PROVE Progress' /\ Held'
    OBVIOUS
  <1>0. /\ Progress /\ Held /\ N \in Nat
        /\ live \in [Outputs -> Files \cup {None}]
        /\ preimage \in [Runs -> Snapshots] /\ history \in [Runs -> {None} \cup Logs]
    BY RelinkAssumption DEF CommitInv, TypeOK
  <1> DEFINE Conjuncts == Recorded' /\ SameHistory' /\ HistoryKept' /\ OutputsKept'
                          /\ OutputsOut' /\ Complete' /\ Held'
  <1> USE DEF At, Goto
  <1>1. CASE Gate(r)
    <2>1. CASE pc' = "failure"
      BY <2>1, Elsewhere DEF AtWork, Planned, BeforeNinja
    <2>2. CASE pc' # "failure"
      BY <1>1, <2>2 DEF Gate, Progress, Held, Recorded, SameHistory, HistoryKept, OutputsKept,
                        OutputsOut, Complete, AtWork, Planned, BeforeNinja, Copied, Moved
    <2> QED
      BY <2>1, <2>2
  <1>2. CASE DryRun(r) \/ MakeRoot(r)
    <2>1. pc' = "failure" \/ <<pc, pc'>> \in {<<"dryRun", "preflight">>,
                                               <<"makeRoot", "copyHistory">>}
      BY <1>2 DEF DryRun, MakeRoot
    <2>2. CASE pc' = "failure"
      BY <2>2, Elsewhere DEF AtWork, Planned, BeforeNinja
    <2> QED
      BY <1>0, <1>2, <2>1, <2>2, Onward DEF DryRun, MakeRoot
  <1>3. CASE PublishPreflight(r)
    BY <1>0, <1>3 DEF PublishPreflight, Progress, Held, Recorded, SameHistory, HistoryKept,
                      OutputsKept, OutputsOut, Complete, AtWork, Planned, BeforeNinja, Copied,
                      Moved
  <1>4. CASE PublishPrepared(r) \/ PublishInternalJournal(r) \/ PublishInternalMoved(r)
             \/ PublishExternalMoved(r)
    BY <1>0, <1>4, Onward DEF PublishPrepared, PublishInternalJournal, PublishInternalMoved,
                              PublishExternalMoved
  <1>5. CASE CopyHistory(r)
    BY <1>0, <1>5 DEF CopyHistory, Progress, Held, Recorded, SameHistory, HistoryKept,
                      OutputsKept, OutputsOut, Complete, AtWork, Planned, BeforeNinja, Copied,
                      Moved
  <1>6. CASE PublishExternalJournal(r)
    BY <1>0, <1>6 DEF PublishExternalJournal, Progress, Held, Recorded, SameHistory,
                      HistoryKept, OutputsKept, OutputsOut, Complete, AtWork, Planned,
                      BeforeNinja, Copied, Moved
  <1>7. CASE MoveOutput(r)
    BY <1>7, ProgressMove
  <1>8. CASE SpawnNinja(r)
    <2>1. CASE pc' = "rollback"
      BY <2>1, Elsewhere DEF AtWork, Planned, BeforeNinja
    <2>2. CASE pc' # "rollback"
      BY <1>0, <1>8, <2>2 DEF SpawnNinja, MaySpawn, StartRollback, Progress, Held, Recorded, SameHistory,
                              HistoryKept, OutputsKept, OutputsOut, Complete, AtWork, Planned,
                              BeforeNinja, Copied, Moved
    <2> QED
      BY <2>1, <2>2
  <1>9. CASE NinjaReaped(r)
    <2>1. CASE pc' = "rollback"
      BY <2>1, Elsewhere DEF AtWork, Planned, BeforeNinja
    <2> QED
      BY <1>0, <1>9, <2>1, Onward DEF NinjaReaped, StartRollback
  <1>10. CASE PostContract(r)
    <2>1. CASE pc' = "rollback"
      BY <2>1, Elsewhere DEF AtWork, Planned, BeforeNinja
    <2>2. CASE pc' # "rollback"
      BY <1>0, <1>10, <2>2 DEF PostContract, ParentInventory, StartRollback, Progress, Held,
                               Recorded, SameHistory, HistoryKept, OutputsKept, OutputsOut,
                               Complete, AtWork, Planned, BeforeNinja, Copied, Moved
    <2> QED
      BY <2>1, <2>2
  <1>11. CASE PublishExecution(r) \/ PublishFailure(r)
    BY <1>11, Elsewhere DEF PublishExecution, PublishFailure, AtWork, Planned, BeforeNinja
  <1> QED
    BY <1>1, <1>2, <1>3, <1>4, <1>5, <1>6, <1>7, <1>8, <1>9, <1>10, <1>11 DEF ExecuteStep

LEMMA ProgressNinja == CommitInv /\ NinjaStep => Progress' /\ Held'
  <1> SUFFICES ASSUME CommitInv, NinjaStep PROVE Progress' /\ Held'
    OBVIOUS
  <1>0. /\ Progress /\ Held
        /\ live \in [Outputs -> Files \cup {None}]
    BY DEF CommitInv, TypeOK
  <1>1. UNCHANGED <<backup, history, preimage, snapshot, holder, cursor, pc>>
        /\ ninja' \in {ninja, None} /\ ninja # None
    BY DEF NinjaStep, NinjaStartEdge, NinjaLink, NinjaFinishEdge, NinjaExits
  <1>2. pc \notin NeedsNinjaGone
    BY <1>1 DEF CommitInv, NinjaAway
  <1>3. CASE pc # "wait"
    BY <1>1, <1>2, <1>3, Elsewhere DEF NeedsNinjaGone, AtWork, Planned, BeforeNinja
  <1>4. CASE pc = "wait"
    <2>1. \A o \in Outputs : live'[o] \in {live[o], ninja}
      BY <1>0, <1>1 DEF NinjaStep, NinjaStartEdge, NinjaLink, NinjaFinishEdge, NinjaExits
    <2>2. OutputsOut'
      BY <1>0, <1>1, <1>4, <2>1 DEF Progress, OutputsOut
    <2> QED
      BY <1>0, <1>1, <1>4, <2>2 DEF Progress, Held, Recorded, SameHistory, HistoryKept,
                                    OutputsKept, Complete, AtWork, BeforeNinja
  <1> QED
    BY <1>3, <1>4

LEMMA ProgressStep == CommitInv /\ [Next]_vars => Progress' /\ Held'
  <1> SUFFICES ASSUME CommitInv, [Next]_vars PROVE Progress' /\ Held'
    OBVIOUS
  <1>0. Progress /\ Held
    BY DEF CommitInv
  <1>1. ASSUME NEW r \in Runs, Lock(r) PROVE Progress' /\ Held'
    <2>1. UNCHANGED <<out, tree, records, process, build>> \/ pc' = "gate"
      BY <1>1 DEF Lock, CheckExecute, CheckRecover, AcquireLock, LockBusy
    <2>2. CASE pc' = "gate"
      BY <2>2, Elsewhere DEF AtWork, Planned, BeforeNinja
    <2> QED
      BY <1>0, <2>1, <2>2, Unmoved
  <1>2. ASSUME NEW r \in Runs, CleanupStep(r) \/ RollbackStep(r) \/ RecoverStep(r) \/ Release(r)
        PROVE  pc' \notin AtWork
    <2> USE DEF AtWork, Planned, BeforeNinja, At, Goto
    <2>1. CASE CleanupStep(r)
      BY <2>1 DEF CleanupStep, Cleanup, RemoveHistoryCopy, RemoveInternalJournal,
                  RemoveBackup, RemoveInternalMoved, RemoveRoot, PublishCleanup
    <2>2. CASE RollbackStep(r)
      BY <2>2 DEF RollbackStep, UnlinkGenerated, RestoreOutput, KeepOutput, UnlinkHistory,
                  RestoreHistory, KeepHistory, Revalidate, RollbackFails, RollbackNext
    <2>3. CASE RecoverStep(r) \/ Release(r)
      <3>1. RecoveryBranch(r) \notin AtWork
        BY DEF RecoveryBranch
      <3> QED
        BY <2>3, <3>1 DEF RecoverStep, ChooseRecovery, AdoptJournal, AdoptMoved,
                          PublishRecovery, Release, Idle, StartRollback
    <2> QED
      BY <1>2, <2>1, <2>2, <2>3
  <1>3. ASSUME NEW r \in Runs,
               TerminateNinja(r) \/ UnsafeGroup(r) \/ SignalInPopen(r) \/ Fault(r)
        PROVE  pc' \notin AtWork
    <2>1. \A t \in ErrorTargets(r) : t \notin AtWork
      BY DEF ErrorTargets, AtWork, Planned, BeforeNinja
    <2> QED
      BY <1>3, <2>1 DEF TerminateNinja, UnsafeGroup, SignalInPopen, Fault, Goto, StartRollback, AtWork,
                        Planned, BeforeNinja
  <1>4. CASE Crash
    BY <1>4, Elsewhere DEF Crash, Idle, AtWork, Planned, BeforeNinja
  <1>5. CASE DeleteResponseFiles \/ UNCHANGED vars
    <2>1. UNCHANGED <<live, log, tree, records, process, build>>
      BY <1>5 DEF DeleteResponseFiles, vars
    <2> QED
      BY <1>0, <2>1, Unmoved
  <1> QED
    BY <1>1, <1>2, <1>3, <1>4, <1>5, ProgressNinja, ProgressExecute, Elsewhere
       DEF Next, ProcessStep

LEMMA CommitInvariant == Spec => []CommitInv
  <1>1. Init => CommitInv
    BY TypeInit DEF Init, CommitInv, NinjaAway, Progress, Held, AtWork,
                    Planned, BeforeNinja, Copied, Moved, Recorded, SameHistory, HistoryKept,
                    OutputsKept, OutputsOut, Complete
  <1>2. CommitInv /\ [Next]_vars => CommitInv'
    BY TypeStep, AwayStep, ProgressStep DEF CommitInv
  <1> QED
    BY <1>1, <1>2, PTL DEF Spec

(* Only PublishExecution publishes an execution record.                     *)
LEMMA OnlyPublished ==
  ASSUME TypeOK, Next, NEW r \in Runs, Committed(r)', ~Committed(r)
  PROVE  PublishExecution(r)
  <1>0. evidence \in [Runs -> SUBSET Evidence]
    BY DEF TypeOK
  <1> USE <1>0 DEF Committed, Has
  <1>1. ASSUME NEW s \in Runs, ProcessStep(s) PROVE PublishExecution(r)
    <2>1. CASE ExecuteStep(s)
      BY <2>1 DEF ExecuteStep, Gate, DryRun, PublishPreflight, PublishPrepared, MakeRoot,
                  CopyHistory, PublishInternalJournal, PublishExternalJournal, MoveOutput,
                  PublishInternalMoved, PublishExternalMoved, SpawnNinja, NinjaReaped,
                  PostContract, PublishExecution, PublishFailure, Publish
    <2>2. CASE CleanupStep(s)
      BY <2>2 DEF CleanupStep, Cleanup, RemoveHistoryCopy, RemoveInternalJournal,
                  RemoveBackup, RemoveInternalMoved, RemoveRoot, PublishCleanup, Publish
    <2>3. CASE RollbackStep(s)
      BY <2>3 DEF RollbackStep, UnlinkGenerated, RestoreOutput, KeepOutput, UnlinkHistory,
                  RestoreHistory, KeepHistory, Revalidate
    <2>4. CASE RecoverStep(s) \/ Release(s)
      BY <2>4 DEF RecoverStep, ChooseRecovery, AdoptJournal, AdoptMoved, PublishRecovery,
                  Release
    <2> QED
      BY <1>1, <2>1, <2>2, <2>3, <2>4 DEF ProcessStep
  <1>2. ASSUME NEW s \in Runs,
               Lock(s) \/ TerminateNinja(s) \/ UnsafeGroup(s) \/ SignalInPopen(s) \/ Fault(s)
        PROVE  FALSE
    BY <1>2 DEF Lock, CheckExecute, CheckRecover, AcquireLock, LockBusy, TerminateNinja,
                UnsafeGroup, SignalInPopen, Publish, Fault
  <1>3. CASE NinjaStep \/ Crash \/ DeleteResponseFiles
    BY <1>3 DEF NinjaStep, NinjaStartEdge, NinjaLink, NinjaFinishEdge, NinjaExits, Crash,
                DeleteResponseFiles
  <1> QED
    BY <1>1, <1>2, <1>3 DEF Next

LEMMA CommitIsWhole == CommitInv /\ [Next]_vars => [CommitStep]_vars
  <1> SUFFICES ASSUME CommitInv, Next, NEW r \in Runs, Committed(r)', ~Committed(r)
               PROVE  /\ \A o \in Outputs : live[o] = r /\ backup[r][o] = preimage[r].outputs[o]
                      /\ history[r] = preimage[r].log /\ log = Outputs
    BY DEF CommitStep
  <1>1. holder = r /\ pc = "execution"
    BY OnlyPublished DEF CommitInv, PublishExecution, At
  <1> QED
    BY <1>1 DEF CommitInv, Progress, Recorded, HistoryKept, OutputsKept, OutputsOut, Complete,
                Planned, Copied, Moved

(* When an execution record is published, every output is the one its run   *)
(* linked, and the root still holds every pre-image.                        *)
THEOREM CommitIsComplete == Spec => CommitWithPreimages
  BY CommitInvariant, CommitIsWhole, PTL DEF Spec, CommitWithPreimages
=============================================================================
