----------------------- MODULE FrozenRelinkAtomicProofs -----------------------
(***************************************************************************)
(* The relink of FrozenRelink as a transaction: the pre-image survives     *)
(* until a commit, the commit stands for ever, a recovery restores, and    *)
(* the executor implements FrozenRelinkAtomic.  All of it follows from one *)
(* inductive invariant, Whole: what holds of the files wherever the lock   *)
(* holder stands (Data), and what the lock holder may rely on at its label *)
(* (Control).                                                              *)
(***************************************************************************)
EXTENDS FrozenRelinkProofs

USE DEF out, tree, records, process, build, bounds, Outputs, Files, Logs, Evidence

(* The labels between the dry run and the commit.                           *)
Chain == {"preflight"} \cup Planned

(* The labels at which nothing has been moved yet.                          *)
Untouched == {"preflight", "prepared", "makeRoot", "copyHistory", "journalInternal",
              "journalExternal"}

(* The labels at which the lock holder relies on nothing.                   *)
Idling == {"idle", "gate", "failure", "release"}

-----------------------------------------------------------------------------
(* What holds of the files, wherever the lock holder stands. *)

(* Only files of the earlier build are ever moved away, and a root that     *)
(* holds one is the only place that does.                                   *)
Owned == \A r \in Runs, o \in Outputs :
    backup[r][o] = None \/ (backup[r][o] = Base /\ live[o] # Base)

(* The only history ever copied is the empty one of the earlier build.      *)
Copies == \A r \in Runs : history[r] \in {None, {}}

(* A linked output leaves a trace: a response file or an entry of the log.  *)
(* This is what the gate and the dry run see of an unfinished other run.    *)
Traced == \A o \in Outputs : live[o] \in {Base, None} \/ o \in rspfiles \cup Linked

(* While Ninja lives, the root of its run holds the whole pre-image.        *)
Building == ninja # None =>
    /\ \A o \in Outputs : backup[ninja][o] = Base
    /\ history[ninja] = {}
    /\ \A s \in Runs : ~Committed(s)

Solo == \A r, s \in Runs : ~NoBackup(r) /\ ~NoBackup(s) => r = s

(* A commit keeps standing, and nothing of any other run can undo it.       *)
Final == \A r \in Runs : Committed(r) =>
    /\ CommittedImage(r) /\ Has(r, "preflight")
    /\ \A s \in Runs : s = r \/ NoBackup(s)

(* A run without a dry-run log has published nothing but a failure.         *)
Early == \A r \in Runs : ~Has(r, "dryRunLog") => evidence[r] \subseteq {"failure"}

Rooted == \A r \in Runs :
    /\ root[r] = {} => NoBackup(r) /\ history[r] = None
    /\ root[r] # {} => "root" \in root[r]
    /\ {"cleanup", "recovery"} \cap evidence[r] # {} => root[r] = {}
    /\ Has(r, "cleanup") => Committed(r)

Data == /\ Owned /\ Copies /\ Traced /\ Building /\ Solo /\ Final /\ Early /\ Rooted
        /\ GenuinePreimage /\ PreimageRecoverable

-----------------------------------------------------------------------------
(* What the lock holder may rely on at its label. *)

(* At the dry run: the gate found no response file and no output missing.   *)
Looked == pc = "dryRun" =>
    /\ rspfiles = {} /\ log = snapshot.log
    /\ live = snapshot.outputs /\ \A o \in Outputs : live[o] # None

(* From there to the commit the snapshot is that of the earlier build, and  *)
(* no other run has anything moved away.                                    *)
Intended == pc \in Chain =>
    /\ snapshot.outputs = [o \in Outputs |-> Base] /\ snapshot.log = {}
    /\ \A s \in Runs : ~Committed(s) /\ (s = holder \/ NoBackup(s))

Still ==
    /\ pc \in Untouched => Restored
    /\ pc \in {"move", "movedInternal", "movedExternal", "spawn"} =>
          log = {} /\ rspfiles = {}
    /\ pc = "move" => \A o \in cursor .. N : live[o] = Base

(* How far a rollback has come.                                             *)
Rolling ==
    /\ pc = "rollback" => \A o \in cursor + 1 .. N : live[o] = Base
    /\ pc \in {"restoreHistory", "revalidate"} => \A o \in Outputs : live[o] = Base
    /\ pc = "revalidate" => log = {}

Reverting ==
    pc \in {"adoptJournal", "adoptMoved", "rollback", "restoreHistory", "revalidate"} =>
       ~Committed(holder) /\ Has(holder, "preflight")

(* A root is removed only after the commit or with the pre-image back.      *)
Settling == pc \in {"removeTree", "recovery"} => Committed(holder) \/ Restored

Finishing == pc \in {"cleanup", "cleanupRecord"} => Committed(holder)

Judged == pc = "execution" => log = Outputs /\ ParentInventory(holder, snapshot.roots)

Known ==
    /\ pc \notin Idling \cup {"dryRun"} => holder \in Runs /\ Has(holder, "dryRunLog")
    /\ pc \in Planned => Has(holder, "preflight")
    /\ pc \in Chain => {"cleanup", "recovery"} \cap evidence[holder] = {}

Standing ==
    /\ pc \in Planned \ {"prepared", "makeRoot"} => root[holder] # {}
    /\ pc \in {"cleanupRecord", "recovery"} => root[holder] = {}

Control == /\ Looked /\ Intended /\ Still /\ Rolling /\ Reverting /\ Settling /\ Finishing
           /\ Judged /\ Known /\ Standing

Whole == CommitInv /\ NinjaAlone /\ Data /\ Control

(* No signal lands inside Popen(), where the handler of execute() would roll *)
(* back under a living Ninja, and nobody deletes the response files by which *)
(* an unfinished run is recognised.                                          *)
Careful == ~SignalsInPopen /\ ~OperatorCleans

-----------------------------------------------------------------------------
(* Frames: steps that move nothing the invariant speaks of.                 *)

LEMMA DataFrame ==
  ASSUME Data, UNCHANGED <<out, tree, records>>, ninja' \in {ninja, None}
  PROVE  Data'
  <1>1. Owned' /\ Copies' /\ Traced' /\ Solo'
    BY DEF Data, Owned, Copies, Traced, Linked, Solo, NoBackup
  <1>4. Early' /\ Rooted' /\ GenuinePreimage'
    BY DEF Data, Early, Rooted, NoBackup, Has, Committed, GenuinePreimage
  <1>5. PreimageRecoverable'
    BY DEF Data, PreimageRecoverable, Committed, Has
  <1>2. Building'
    BY DEF Data, Building, Committed, Has
  <1>3. Final'
    BY DEF Data, Final, CommittedImage, ParentInventory, OtherRoots, NoBackup,
       Committed, Has
  <1> QED BY <1>1, <1>2, <1>3, <1>4, <1>5 DEF Data

(* At these labels nothing is claimed of the lock holder.                    *)
LEMMA Away == pc' \in Idling => Control'
  BY DEF Control, Looked, Intended, Still, Rolling, Reverting, Settling, Finishing,
     Judged, Known,
         Standing, Idling, Chain, Planned, Untouched

LEMMA ControlFrame ==
  ASSUME Control, UNCHANGED <<live, rspfiles, log, tree, records, holder, pc, cursor,
  snapshot>>
  PROVE  Control'
  BY DEF Control, Looked, Intended, Still, Rolling, Reverting, Settling, Finishing,
     Judged, Known,
         Standing, Committed, Has, NoBackup, Restored, ParentInventory, OtherRoots

-----------------------------------------------------------------------------
(* The invariant, step by step. *)

(* The steps that move only the lock holder.                                *)
LEMMA SoundLock == \A r \in Runs : Whole /\ (Lock(r) \/ Release(r)) => Data' /\ Control'
  <1> SUFFICES ASSUME NEW r \in Runs, Whole, Lock(r) \/ Release(r) PROVE Data' /\ Control'
    OBVIOUS
  <1>1. UNCHANGED <<out, tree, records, build>>
    BY DEF Lock, CheckExecute, CheckRecover, AcquireLock, LockBusy, Release
  <1>2. UNCHANGED process \/ pc' \in Idling
    BY DEF Lock, CheckExecute, CheckRecover, AcquireLock, LockBusy, Release, Idle, Idling
  <1> QED
    BY <1>1, <1>2, DataFrame, Away, ControlFrame DEF Whole

(* A fault, a signal, a dead process.                                       *)
LEMMA SoundFault ==
  \A r \in Runs : Whole /\ (TerminateNinja(r) \/ UnsafeGroup(r) \/ Fault(r) \/ Crash)
      => Data' /\ Control'
  <1> SUFFICES ASSUME NEW r \in Runs, Whole,
                      TerminateNinja(r) \/ UnsafeGroup(r) \/ Fault(r) \/ Crash
               PROVE  Data' /\ Control'
    OBVIOUS
  <1>0. Control /\ Data /\ N \in Nat
    BY RelinkAssumption DEF Whole
  <1>1. UNCHANGED <<out, tree, records>> /\ ninja' \in {ninja, None}
    BY DEF TerminateNinja, UnsafeGroup, Fault, Crash
  <1>2. \/ pc' \in Idling
        \/ /\ UNCHANGED <<holder, snapshot>> /\ holder = r
           /\ \/ pc' = "rollback" /\ cursor' = N /\ pc \in RollbackPoints
              \/ pc' = "removeTree" /\ pc \in {"copyHistory", "journalInternal", "journalExternal"}
    BY DEF TerminateNinja, UnsafeGroup, Fault, Crash, Idle, Idling, ErrorTargets, Goto,
       StartRollback, RollbackPoints, At
  <1>3. ASSUME pc' = "rollback", cursor' = N, pc \in RollbackPoints, UNCHANGED <<holder, snapshot>>
        PROVE  Control'
    <2>1. /\ ~Committed(holder) /\ holder \in Runs
          /\ Has(holder, "preflight") /\ Has(holder, "dryRunLog")
      BY <1>0, <1>3 DEF Control, Intended, Known, RollbackPoints, Chain, Planned, Idling
    <2> QED
      BY <1>0, <1>1, <1>3, <2>1 DEF Control, Looked, Intended, Still, Rolling,
         Reverting, Settling, Finishing,
         Judged, Known, Standing, Has, Committed, Chain, Planned, Untouched, Idling
  <1>4. ASSUME pc' = "removeTree", pc \in {"copyHistory", "journalInternal", "journalExternal"},
               UNCHANGED <<holder, snapshot>>
        PROVE  Control'
    <2>1. Restored /\ Has(holder, "dryRunLog") /\ holder \in Runs
      BY <1>0, <1>4 DEF Control, Still, Known, Untouched, Idling
    <2> QED
      BY <1>0, <1>1, <1>4, <2>1 DEF Control, Looked, Intended, Still, Rolling,
         Reverting, Settling, Finishing,
         Judged, Known, Standing, Has, Committed, Restored, Chain, Planned, Untouched,
         Idling
  <1> QED
    BY <1>0, <1>1, <1>2, <1>3, <1>4, DataFrame, Away
(* Evidence that is neither the pre-image nor the commit.                   *)
LEMMA EvidenceFrame ==
  ASSUME TypeOK, Data, UNCHANGED <<out, tree, preimage>>, ninja' \in {ninja, None},
         NEW r \in Runs, \A s \in Runs : s # r => evidence'[s] = evidence[s],
         evidence[r] \subseteq evidence'[r],
         {"execution", "preflight"} \cap evidence'[r] \subseteq evidence[r],
         "dryRunLog" \in evidence'[r] \/ evidence'[r] \subseteq evidence[r] \cup {"failure"},
         {"cleanup", "recovery"} \cap evidence'[r] \subseteq evidence[r] \/ root[r] = {},
         "cleanup" \in evidence'[r] => Committed(r)
  PROVE  Data' /\ \A s \in Runs : Committed(s)' = Committed(s)
  <1>1. \A s \in Runs : s # r => evidence'[s] = evidence[s]
    OBVIOUS
  <1>2. \A s \in Runs : /\ Committed(s)' <=> Committed(s)
                        /\ Has(s, "preflight")' <=> Has(s, "preflight")
    BY <1>1 DEF Committed, Has
  <1>3. Owned' /\ Copies' /\ Traced' /\ Solo'
    BY DEF Data, Owned, Copies, Traced, Linked, Solo, NoBackup
  <1>4. PreimageRecoverable' /\ GenuinePreimage'
    BY <1>2 DEF Data, PreimageRecoverable, GenuinePreimage
  <1>5. Building'
    BY <1>2, RelinkAssumption DEF Data, Building, TypeOK
  <1>6. Final'
    BY <1>2 DEF Data, Final, CommittedImage, ParentInventory, OtherRoots, NoBackup
  <1>7. Early'
    BY <1>1 DEF Data, Early, Has
  <1>8. Rooted'
    BY <1>1, <1>2 DEF Data, Rooted, NoBackup, Has
  <1> QED
    BY <1>1, <1>2, <1>3, <1>4, <1>5, <1>6, <1>7, <1>8 DEF Data, Committed, Has

(* The gate: what it finds, the snapshot records.                           *)
LEMMA SoundGate == \A r \in Runs : Whole /\ Gate(r) => Data' /\ Control'
  <1> SUFFICES ASSUME NEW r \in Runs, Whole, Gate(r) PROVE Data' /\ Control'
    OBVIOUS
  <1>1. Data'
    BY DataFrame DEF Whole, Gate
  <1>2. CASE pc' = "failure"
    BY <1>1, <1>2, Away DEF Idling
  <1>3. CASE pc' # "failure"
    <2>1. pc' = "dryRun" /\ Looked'
      BY <1>3 DEF Gate, Goto, Looked, ParentInventory
    <2> QED
      BY <1>1, <2>1 DEF Control, Intended, Still, Rolling, Reverting, Settling, Finishing,
         Judged, Known, Standing, Chain, Planned, Untouched, Idling
  <1> QED BY <1>2, <1>3

(* With an empty history and nothing absent every output is the earlier one. *)
LEMMA Earlier ==
  ASSUME TypeOK, Data, log = {}, rspfiles = {}, \A o \in Outputs : live[o] # None
  PROVE  Restored /\ \A r \in Runs : NoBackup(r) /\ ~Committed(r)
  <1>1. \A o \in Outputs : live[o] = Base
    BY RelinkAssumption DEF Data, Traced, Linked
  <1>2. live = [o \in Outputs |-> Base]
    BY <1>1 DEF TypeOK
  <1>3. \A r \in Runs : NoBackup(r)
    BY <1>1 DEF Data, Owned, NoBackup
  <1>4. \A r \in Runs : ~Committed(r)
    BY RelinkAssumption DEF Data, Final, CommittedImage
  <1> QED
    BY <1>2, <1>3, <1>4 DEF Restored

(* The dry run passes only on an empty history.                             *)
LEMMA SoundDryRun == \A r \in Runs : Whole /\ DryRun(r) => Data' /\ Control'
  <1> SUFFICES ASSUME NEW r \in Runs, Whole, DryRun(r) PROVE Data' /\ Control'
    OBVIOUS
  <1>0. TypeOK /\ Data /\ Control /\ holder = r /\ pc = "dryRun"
    BY DEF Whole, CommitInv, DryRun, At
  <1>1. CASE Has(r, "dryRunLog")
    BY <1>0, <1>1, DataFrame, Away DEF DryRun, Goto, Idling
  <1>2. CASE ~Has(r, "dryRunLog")
    <2>0. evidence' = [evidence EXCEPT ![r] = @ \cup {"dryRunLog"}]
      BY <1>2 DEF DryRun, Publish
    <2>a. /\ UNCHANGED <<out, tree, preimage>> /\ ninja' \in {ninja, None}
          /\ \A s \in Runs : s # r => evidence'[s] = evidence[s]
          /\ evidence'[r] = evidence[r] \cup {"dryRunLog"}
      BY <1>0, <2>0 DEF DryRun, TypeOK
    <2>b. "cleanup" \in evidence'[r] => Committed(r)
      BY <1>0, <2>a DEF Data, Rooted, Has
    <2>1. /\ Data'
          /\ \A s \in Runs : Committed(s)' = Committed(s) /\ evidence[s] \subseteq evidence'[s]
      BY <1>0, <2>a, <2>b, EvidenceFrame
    <2>2. CASE log # {}
      BY <1>0, <2>1, <2>2, <1>2, Away DEF DryRun, Goto, Idling
    <2>3. CASE log = {}
      <3>1. Restored /\ \A s \in Runs : NoBackup(s) /\ ~Committed(s)
        BY <1>0, <2>3, Earlier DEF Control, Looked
      <3>2. pc' = "preflight" /\ snapshot' = snapshot /\ holder' = holder /\ UNCHANGED <<out, tree>>
        BY <1>2, <2>3 DEF DryRun, Goto
      <3>3. evidence[r] \subseteq {"failure"} /\ evidence'[r] = evidence[r] \cup {"dryRunLog"}
        BY <1>0, <1>2, <2>0 DEF Data, Early, TypeOK
      <3>4. Intended'
        BY <1>0, <2>1, <2>3, <3>1, <3>2 DEF Intended, Control, Looked, Restored, NoBackup
      <3>5. Still'
        BY <3>1, <3>2 DEF Still, Restored
      <3>6. Known'
        BY <1>0, <3>2, <3>3 DEF Known, Has, Planned
      <3> QED
        BY <2>1, <3>2, <3>4, <3>5, <3>6 DEF Control, Looked, Rolling, Reverting,
           Settling, Finishing,
           Judged, Standing, Planned
    <2> QED BY <2>2, <2>3
  <1> QED BY <1>1, <1>2

(* The pre-image that is recorded is the earlier build.                     *)
LEMMA SoundPreflight == \A r \in Runs : Whole /\ PublishPreflight(r) => Data' /\ Control'
  <1> SUFFICES ASSUME NEW r \in Runs, Whole, PublishPreflight(r) PROVE Data' /\ Control'
    OBVIOUS
  <1>0. TypeOK /\ Data /\ Control /\ holder = r /\ pc = "preflight"
    BY DEF Whole, CommitInv, PublishPreflight, At
  <1>1. /\ evidence' = [evidence EXCEPT ![r] = @ \cup {"preflight"}]
        /\ preimage' = [preimage EXCEPT ![r] = snapshot] /\ pc' = "prepared"
        /\ UNCHANGED <<out, tree, build, holder, snapshot>>
    BY DEF PublishPreflight, Publish, Goto
  <1>2. /\ evidence'[r] = evidence[r] \cup {"preflight"} /\ preimage'[r] = snapshot
        /\ \A s \in Runs : s # r => evidence'[s] = evidence[s] /\ preimage'[s] = preimage[s]
    BY <1>0, <1>1 DEF TypeOK
  <1>3. \A s \in Runs : ~Committed(s)' /\ ~Committed(s)
    BY <1>0, <1>2 DEF Control, Intended, Chain, Committed, Has
  <1>4. Owned' /\ Copies' /\ Traced' /\ Solo'
    BY <1>0, <1>1 DEF Data, Owned, Copies, Traced, Linked, Solo, NoBackup
  <1>5. Building' /\ Final' /\ PreimageRecoverable'
    BY <1>0, <1>1, <1>3, RelinkAssumption DEF Data, Building, Final,
       PreimageRecoverable, TypeOK
  <1>6. GenuinePreimage'
    BY <1>0, <1>2 DEF Data, GenuinePreimage, Has, Control, Intended, Chain
  <1>7. Early' /\ Rooted'
    BY <1>0, <1>1, <1>2 DEF Data, Early, Rooted, Has, NoBackup, Committed, Control,
       Known, Idling
  <1>8. Intended'
    BY <1>0, <1>1, <1>3 DEF Control, Intended, Chain, NoBackup
  <1>9. Still'
    BY <1>0, <1>1 DEF Control, Still, Untouched, Restored
  <1>10. Known'
    BY <1>0, <1>1, <1>2 DEF Control, Known, Has, Idling, Chain
  <1> QED
    BY <1>1, <1>4, <1>5, <1>6, <1>7, <1>8, <1>9, <1>10 DEF Data, Control, Looked,
       Rolling, Reverting, Settling, Finishing,
           Judged, Standing, Planned
(* In the chain of labels to the commit nobody has committed.               *)
LEMMA ChainData ==
  ASSUME Data, pc \in Chain, Intended, UNCHANGED <<evidence, preimage>>, ninja' = ninja,
         Owned', Copies', Traced', Solo',
         \A s \in Runs : root'[s] = {} => NoBackup(s)' /\ history'[s] = None,
         \A s \in Runs : root'[s] # {} => "root" \in root'[s],
         \A s \in Runs : root[s] = {} => root'[s] = {} \/ (s = holder /\ Known),
         Building',
         PreimageRecoverable'
  PROVE  Data'
  <1>1. \A s \in Runs : ~Committed(s) /\ ~Committed(s)'
    BY DEF Intended, Committed, Has
  <1>2. Final' /\ GenuinePreimage' /\ Early'
    BY <1>1 DEF Data, Final, GenuinePreimage, Early, Has
  <1>3. Rooted'
    BY <1>1 DEF Data, Rooted, Known, Committed, Has
  <1> QED
    BY <1>2, <1>3 DEF Data

(* The records published on the way to the spawn.                           *)
LEMMA SoundPrepared ==
  \A r \in Runs :
     Whole /\ (PublishPrepared(r) \/ PublishExternalJournal(r) \/ PublishExternalMoved(r))
        => Data' /\ Control'
  <1> SUFFICES ASSUME NEW r \in Runs, Whole,
                      PublishPrepared(r) \/ PublishExternalJournal(r) \/ PublishExternalMoved(r)
               PROVE Data' /\ Control'
    OBVIOUS
  <1>0. TypeOK /\ Data /\ Control /\ N \in Nat \ {0}
    BY RelinkAssumption DEF Whole, CommitInv
  <1> DEFINE K == IF pc = "prepared" THEN {"prepared"}
                  ELSE IF pc = "journalExternal" THEN {"journal"} ELSE {"moved"}
  <1>1. /\ holder = r
        /\ <<pc, pc'>> \in {<<"prepared", "makeRoot">>, <<"journalExternal", "move">>,
                           <<"movedExternal", "spawn">>}
        /\ evidence' = [evidence EXCEPT ![r] = @ \cup K]
        /\ UNCHANGED <<out, tree, preimage, build, holder, snapshot>>
        /\ pc' = "move" => cursor' = 1
    BY DEF PublishPrepared, PublishExternalJournal, PublishExternalMoved, Publish,
       Goto, At
  <1>2. K \cap {"execution", "preflight", "cleanup", "recovery"} = {}
    OBVIOUS
  <1>3. Has(r, "dryRunLog")
    BY <1>0, <1>1 DEF Control, Known, Idling
  <1> HIDE DEF K
  <1>7. evidence'[r] = evidence[r] \cup K /\ \A s \in Runs : s # r => evidence'[s] = evidence[s]
    BY <1>0, <1>1 DEF TypeOK
  <1>a. "cleanup" \in evidence'[r] => Committed(r)
    BY <1>0, <1>2, <1>7 DEF Data, Rooted, Has
  <1>4. Data' /\ \A s \in Runs : /\ evidence[s] \subseteq evidence'[s]
                                /\ Committed(s)' = Committed(s)
    BY <1>0, <1>1, <1>2, <1>3, <1>7, <1>a, EvidenceFrame DEF Has
  <1>5. Intended'
    BY <1>0, <1>1, <1>4 DEF Control, Intended, Chain, Planned, NoBackup
  <1>6. Still'
    BY <1>0, <1>1 DEF Control, Still, Untouched, Restored
  <1>8. Known'
    BY <1>0, <1>1, <1>2, <1>4, <1>7 DEF Control, Known, Has, Idling, Chain, Planned
  <1>9. Standing'
    BY <1>0, <1>1 DEF Control, Standing, Planned
  <1> QED
    BY <1>1, <1>4, <1>5, <1>6, <1>8, <1>9 DEF Control, Looked, Rolling, Reverting,
       Settling, Finishing,
           Judged

(* The root, and what goes into it before the first move.                   *)
LEMMA SoundBegin ==
  \A r \in Runs :
     Whole /\ (MakeRoot(r) \/ CopyHistory(r) \/ PublishInternalJournal(r)
               \/ PublishInternalMoved(r))
        => Data' /\ Control'
  <1> SUFFICES ASSUME NEW r \in Runs, Whole,
                      MakeRoot(r) \/ CopyHistory(r) \/ PublishInternalJournal(r)
                         \/ PublishInternalMoved(r)
               PROVE Data' /\ Control'
    OBVIOUS
  <1>0. TypeOK /\ Data /\ Control /\ N \in Nat \ {0} /\ holder = r
        /\ root \in [Runs -> SUBSET {"root", "journal", "moved"}]
        /\ history \in [Runs -> {None} \cup Logs]
    BY RelinkAssumption DEF Whole, CommitInv, MakeRoot, CopyHistory,
       PublishInternalJournal, PublishInternalMoved, At, TypeOK
  <1>1. CASE MakeRoot(r) /\ root[r] # {}
    BY <1>0, <1>1, DataFrame, Away DEF MakeRoot, Goto, Idling
  <1>2. CASE root[r] = {} \/ ~MakeRoot(r)
    <2>1. /\ UNCHANGED <<out, backup, records, build, holder, snapshot>>
          /\ <<pc, pc'>> \in {<<"makeRoot", "copyHistory">>, <<"copyHistory", "journalInternal">>,
                             <<"journalInternal", "journalExternal">>,
                             <<"movedInternal", "movedExternal">>}
          /\ ninja = None
      BY <1>2 DEF MakeRoot, CopyHistory, PublishInternalJournal, PublishInternalMoved,
         Goto, At, Whole, NinjaAlone, Quiet
    <2>2. /\ \A s \in Runs : s # r => root'[s] = root[s] /\ history'[s] = history[s]
          /\ "root" \in root'[r]
          /\ history'[r] = history[r] \/ (pc = "copyHistory" /\ history'[r] = log)
      <3>1. CASE MakeRoot(r)
        BY <1>0, <1>2, <3>1 DEF MakeRoot
      <3>2. CASE CopyHistory(r)
        BY <1>0, <3>2 DEF CopyHistory, Control, Standing, Data, Rooted, Planned, At
      <3>3. CASE PublishInternalJournal(r) \/ PublishInternalMoved(r)
        BY <1>0, <3>3 DEF PublishInternalJournal, PublishInternalMoved, Control,
           Standing, Data, Rooted, Planned, At
      <3> QED BY <1>2, <3>1, <3>2, <3>3
    <2>3. pc \in Chain /\ Known /\ Intended /\ (pc = "copyHistory" => log = {})
      BY <1>0, <2>1 DEF Control, Chain, Planned, Still, Untouched, Restored
    <2>4. Owned' /\ Traced' /\ Solo'
      BY <1>0, <2>1 DEF Data, Owned, Traced, Linked, Solo, NoBackup
    <2>5. Copies' /\ Building'
      BY <1>0, <2>1, <2>2, <2>3 DEF Data, Copies, Building
    <2>6. PreimageRecoverable'
      <3>1. \A s \in Runs : history[s] = {} => history'[s] = {}
        BY <1>0, <2>1, <2>2, <2>3
      <3> QED
        BY <1>0, <2>1, <3>1 DEF Data, PreimageRecoverable, Committed, Has
    <2>7. Data'
      BY <1>0, <2>1, <2>2, <2>3, <2>4, <2>5, <2>6, ChainData DEF Data, Rooted, NoBackup
    <2>8. Intended' /\ Still'
      BY <1>0, <2>1 DEF Control, Intended, Still, Restored, Chain, Planned, Untouched,
         NoBackup, Committed, Has
    <2>9. Known' /\ Standing'
      BY <1>0, <2>1, <2>2 DEF Control, Known, Has, Standing, Chain, Planned, Idling
    <2> QED
      BY <2>1, <2>7, <2>8, <2>9 DEF Control, Looked, Rolling, Reverting, Settling,
         Finishing, Judged
  <1> QED
    BY <1>1, <1>2

(* One output moves out: now its backup is the earlier file.                *)
LEMMA SoundMove == \A r \in Runs : Whole /\ MoveOutput(r) => Data' /\ Control'
  <1> SUFFICES ASSUME NEW r \in Runs, Whole, MoveOutput(r) PROVE Data' /\ Control'
    OBVIOUS
  <1>0. /\ TypeOK /\ Data /\ Control /\ N \in Nat \ {0} /\ cursor \in Outputs
        /\ holder = r /\ pc = "move" /\ ninja = None
        /\ live \in [Outputs -> Files \cup {None}]
        /\ backup \in [Runs -> [Outputs -> Files \cup {None}]]
    BY RelinkAssumption DEF Whole, CommitInv, TypeOK, MoveOutput, At, NinjaAlone, Quiet
  <1>1. /\ \A o \in cursor .. N : live[o] = Base
        /\ snapshot.outputs = [o \in Outputs |-> Base]
        /\ log = {} /\ rspfiles = {} /\ root[r] # {}
        /\ \A s \in Runs : ~Committed(s) /\ (s = r \/ NoBackup(s))
        /\ Intended /\ Known /\ pc \in Chain
    BY <1>0 DEF Control, Still, Intended, Standing, Chain, Planned
  <1>2. live[cursor] = Base /\ snapshot.outputs[cursor] = Base
    BY <1>0, <1>1
  <1>3. /\ live' = [live EXCEPT ![cursor] = None]
        /\ backup' = [backup EXCEPT ![r] = [backup[r] EXCEPT ![cursor] = Base]]
        /\ cursor' = cursor + 1
        /\ pc' = (IF cursor = N THEN "movedInternal" ELSE "move")
        /\ UNCHANGED <<rspfiles, log, root, history, records, build, holder, snapshot>>
    BY <1>2 DEF MoveOutput
  <1>4. /\ live'[cursor] = None
        /\ \A o \in Outputs \ {cursor} : live'[o] = live[o]
    BY <1>0, <1>3
  <1>5. /\ backup'[r][cursor] = Base
        /\ \A o \in Outputs \ {cursor} : backup'[r][o] = backup[r][o]
        /\ \A s \in Runs \ {r} : backup'[s] = backup[s]
    <2>1. backup[r] \in [Outputs -> Files \cup {None}]
      BY <1>0
    <2>2. /\ backup'[r] = [backup[r] EXCEPT ![cursor] = Base]
          /\ \A s \in Runs \ {r} : backup'[s] = backup[s]
      BY <1>0, <1>3
    <2> QED
      BY <1>0, <2>1, <2>2
  <1>6. Owned'
    BY <1>0, <1>4, <1>5, RelinkAssumption DEF Data, Owned
  <1>7. Copies' /\ Traced' /\ Building'
    BY <1>0, <1>3, <1>4 DEF Data, Copies, Traced, Linked, Building
  <1>8. Solo'
    <2>1. \A s \in Runs \ {r} : NoBackup(s)'
      BY <1>1, <1>5 DEF NoBackup
    <2> QED BY <2>1 DEF Solo
  <1>9. PreimageRecoverable'
    <2>1. ASSUME NEW o \in Outputs
          PROVE  live'[o] = Base \/ \E s \in Runs : backup'[s][o] = Base
      <3>1. live[o] = Base \/ \E s \in Runs : backup[s][o] = Base
        BY <1>0, <1>1 DEF Data, PreimageRecoverable
      <3>2. CASE o = cursor
        BY <1>5, <3>2
      <3>3. CASE o # cursor
        <4>1. live'[o] = live[o] /\ \A s \in Runs : backup'[s][o] = backup[s][o]
          BY <1>4, <1>5, <3>3
        <4> QED BY <3>1, <4>1
      <3> QED BY <3>2, <3>3
    <2> QED
      BY <1>1, <1>3, <2>1 DEF PreimageRecoverable
  <1>10. \A s \in Runs : root'[s] = {} => NoBackup(s)' /\ history'[s] = None
    BY <1>0, <1>1, <1>3, <1>5 DEF Data, Rooted, NoBackup
  <1>11. Data'
    BY <1>0, <1>1, <1>3, <1>6, <1>7, <1>8, <1>9, <1>10, ChainData DEF Data, Rooted
  <1>12. Intended'
    <2>1. \A s \in Runs : s = r \/ NoBackup(s)'
      BY <1>1, <1>5 DEF NoBackup
    <2> QED
      BY <1>1, <1>3, <1>0, <2>1 DEF Intended, Committed, Has, Chain
  <1>13. Still'
    <2>1. \A o \in cursor + 1 .. N : live'[o] = Base
      BY <1>0, <1>1, <1>4
    <2> QED
      BY <1>1, <1>3, <2>1 DEF Still, Untouched
  <1>14. Known' /\ Standing'
    BY <1>0, <1>1, <1>3 DEF Known, Has, Standing, Chain, Planned, Idling
  <1> QED
    BY <1>3, <1>11, <1>12, <1>13, <1>14 DEF Control, Looked, Rolling, Reverting,
       Settling, Finishing, Judged

(* From the spawn on the root holds everything (Building).                  *)
LEMMA SoundSpawn == \A r \in Runs : Whole /\ SpawnNinja(r) => Data' /\ Control'
  <1> SUFFICES ASSUME NEW r \in Runs, Whole, SpawnNinja(r) PROVE Data' /\ Control'
    OBVIOUS
  <1>0. /\ TypeOK /\ Data /\ Control /\ N \in Nat \ {0}
        /\ holder = r /\ pc = "spawn" /\ Progress
    BY RelinkAssumption DEF Whole, CommitInv, SpawnNinja, At
  <1>1. CASE ~MaySpawn(r)
    <2>1. /\ UNCHANGED <<out, tree, records, build, holder, snapshot>>
          /\ pc' = "rollback" /\ cursor' = N
      BY <1>1 DEF SpawnNinja, StartRollback
    <2>2. Data'
      BY <1>0, <2>1, DataFrame
    <2>3. /\ ~Committed(holder) /\ holder \in Runs
          /\ Has(holder, "preflight") /\ Has(holder, "dryRunLog")
      BY <1>0 DEF Control, Intended, Known, Chain, Planned, Idling
    <2> QED
      BY <1>0, <2>1, <2>2, <2>3 DEF Control, Looked, Intended, Still, Rolling,
         Reverting, Settling, Finishing, Judged,
         Known, Standing, Has, Committed, Chain, Planned, Untouched, Idling
  <1>2. CASE MaySpawn(r)
    <2>1. /\ UNCHANGED <<out, tree, preimage, holder, snapshot, cursor>>
          /\ pc' = "wait" /\ ninja' = r
          /\ evidence' = [evidence EXCEPT ![r] = @ \cup {"executionLog"}]
      BY <1>2 DEF SpawnNinja, Goto, Publish
    <2>2. /\ evidence'[r] = evidence[r] \cup {"executionLog"}
          /\ \A s \in Runs \ {r} : evidence'[s] = evidence[s]
      BY <1>0, <2>1 DEF TypeOK
    <2>3. /\ \A s \in Runs : ~Committed(s) /\ (s = r \/ NoBackup(s))
          /\ snapshot.outputs = [o \in Outputs |-> Base] /\ snapshot.log = {}
          /\ root[r] # {} /\ Has(r, "dryRunLog") /\ Has(r, "preflight")
          /\ {"cleanup", "recovery"} \cap evidence[r] = {}
      BY <1>0 DEF Control, Intended, Known, Standing, Chain, Planned, Idling
    <2>4. \A s \in Runs : ~Committed(s)'
      BY <2>2, <2>3 DEF Committed, Has
    <2>5. Owned' /\ Copies' /\ Traced' /\ Solo'
      BY <1>0, <2>1 DEF Data, Owned, Copies, Traced, Linked, Solo, NoBackup
    <2>6. Building'
      <3>1. \A o \in Outputs : backup[r][o] = snapshot.outputs[o]
        BY <1>0 DEF Progress, OutputsKept, Moved
      <3>2. history[r] = snapshot.log
        BY <1>0 DEF Progress, HistoryKept, Copied
      <3> QED
        BY <2>1, <2>3, <2>4, <3>1, <3>2 DEF Building
    <2>7. Final'
      BY <2>4 DEF Final
    <2>8. GenuinePreimage'
      BY <1>0, <2>1, <2>2 DEF Data, GenuinePreimage, Has
    <2>9. PreimageRecoverable'
      BY <1>0, <2>1, <2>3 DEF Data, PreimageRecoverable
    <2>10. Early' /\ Rooted'
      BY <1>0, <2>1, <2>2, <2>3 DEF Data, Early, Rooted, Has, NoBackup, Committed
    <2>11. Intended' /\ Still'
      <3>1. Intended'
        BY <1>0, <2>1, <2>3, <2>4 DEF Intended, NoBackup
      <3> QED
        BY <2>1, <3>1 DEF Still, Untouched
    <2>12. Known' /\ Standing'
      BY <1>0, <2>1, <2>2, <2>3 DEF Known, Has, Standing, Chain, Planned
    <2> QED
      BY <2>1, <2>5, <2>6, <2>7, <2>8, <2>9, <2>10, <2>11, <2>12
         DEF Data, Control, Looked, Rolling, Reverting, Settling, Finishing, Judged
  <1> QED
    BY <1>1, <1>2

(* Ninja has ended, and its work is judged.                                 *)
LEMMA SoundReaped ==
  \A r \in Runs : Whole /\ (NinjaReaped(r) \/ PostContract(r)) => Data' /\ Control'
  <1> SUFFICES ASSUME NEW r \in Runs, Whole, NinjaReaped(r) \/ PostContract(r)
               PROVE  Data' /\ Control'
    OBVIOUS
  <1>0. /\ TypeOK /\ Data /\ Control /\ N \in Nat \ {0} /\ holder = r /\ pc \in {"wait", "post"}
    BY RelinkAssumption DEF Whole, CommitInv, NinjaReaped, PostContract, At
  <1>1. /\ UNCHANGED <<out, tree, records, ninja, holder, snapshot>>
        /\ \/ pc' = "rollback" /\ cursor' = N
           \/ pc = "wait" /\ pc' = "post"
           \/ /\ pc = "post" /\ pc' = "execution"
              /\ log = Outputs /\ ParentInventory(r, snapshot.roots)
    BY DEF NinjaReaped, PostContract, Goto, StartRollback, At
  <1>2. Data'
    BY <1>0, <1>1, DataFrame
  <1>3. /\ ~Committed(r) /\ Has(r, "preflight") /\ Has(r, "dryRunLog")
        /\ {"cleanup", "recovery"} \cap evidence[r] = {} /\ root[r] # {}
    BY <1>0 DEF Control, Intended, Known, Standing, Chain, Planned, Idling
  <1>4. CASE pc' = "rollback"
    BY <1>0, <1>1, <1>2, <1>3, <1>4 DEF Control, Looked, Intended, Still, Rolling,
       Reverting, Settling, Finishing, Judged,
         Known, Standing, Has, Committed, Chain, Planned, Untouched, Idling
  <1>5. CASE pc' # "rollback"
    <2>1. Intended' /\ Still'
      BY <1>0, <1>1, <1>5 DEF Control, Intended, Still, Chain, Planned, Untouched,
         NoBackup, Committed, Has
    <2>2. Known' /\ Standing'
      BY <1>0, <1>1, <1>3, <1>5 DEF Known, Standing, Has, Chain, Planned
    <2>3. Judged'
      BY <1>0, <1>1, <1>5 DEF Judged, ParentInventory, OtherRoots
    <2> QED
      BY <1>1, <1>2, <1>5, <2>1, <2>2, <2>3 DEF Control, Looked, Rolling, Reverting,
         Settling, Finishing
  <1> QED
    BY <1>4, <1>5

(* The commit: what was judged is the committed image.                      *)
LEMMA SoundExecution == \A r \in Runs : Whole /\ PublishExecution(r) => Data' /\ Control'
  <1> SUFFICES ASSUME NEW r \in Runs, Whole, PublishExecution(r) PROVE Data' /\ Control'
    OBVIOUS
  <1>0. /\ TypeOK /\ Data /\ Control /\ N \in Nat \ {0} /\ r # None
        /\ holder = r /\ pc = "execution" /\ Progress /\ ninja = None
    BY RelinkAssumption DEF Whole, CommitInv, PublishExecution, At, NinjaAlone, Quiet
  <1>1. /\ UNCHANGED <<out, tree, preimage, build, holder, snapshot, cursor>> /\ pc' = "cleanup"
        /\ evidence' = [evidence EXCEPT ![r] = @ \cup {"execution"}]
    BY DEF PublishExecution, Publish, Goto
  <1>2. /\ evidence'[r] = evidence[r] \cup {"execution"}
        /\ \A s \in Runs \ {r} : evidence'[s] = evidence[s]
    BY <1>0, <1>1 DEF TypeOK
  <1>3. /\ \A s \in Runs : ~Committed(s) /\ (s = r \/ NoBackup(s))
        /\ Has(r, "dryRunLog") /\ Has(r, "preflight")
        /\ {"cleanup", "recovery"} \cap evidence[r] = {}
    BY <1>0 DEF Control, Intended, Known, Chain, Planned, Idling
  <1>4. Committed(r)' /\ \A s \in Runs \ {r} : ~Committed(s)'
    BY <1>2, <1>3 DEF Committed, Has
  <1>5. CommittedImage(r)
    <2>1. \A o \in Outputs : live[o] = r
      BY <1>0 DEF Progress, OutputsOut, Complete
    <2>2. log = Outputs /\ ParentInventory(r, snapshot.roots)
      BY <1>0 DEF Control, Judged
    <2>3. preimage[r] = snapshot
      BY <1>0 DEF Progress, Recorded, Planned
    <2> QED
      BY <2>1, <2>2, <2>3 DEF CommittedImage
  <1>6. Owned' /\ Copies' /\ Traced' /\ Solo'
    BY <1>0, <1>1 DEF Data, Owned, Copies, Traced, Linked, Solo, NoBackup
  <1>7. Building' /\ PreimageRecoverable'
    BY <1>0, <1>1, <1>4 DEF Building, PreimageRecoverable
  <1>8. Final'
    <2>1. CommittedImage(r)' /\ Has(r, "preflight")'
      BY <1>1, <1>2, <1>3, <1>5 DEF CommittedImage, ParentInventory, OtherRoots, Has
    <2>2. \A s \in Runs \ {r} : NoBackup(s)'
      BY <1>1, <1>3 DEF NoBackup
    <2> QED
      BY <1>4, <2>1, <2>2 DEF Final
  <1>9. GenuinePreimage'
    BY <1>0, <1>1, <1>2, <1>3 DEF Data, GenuinePreimage, Has
  <1>10. Early' /\ Rooted'
    BY <1>0, <1>1, <1>2, <1>3 DEF Data, Early, Rooted, Has, NoBackup, Committed
  <1>11. Known' /\ Finishing'
    BY <1>0, <1>1, <1>2, <1>3, <1>4 DEF Known, Finishing, Has, Chain, Planned
  <1> QED
    BY <1>1, <1>6, <1>7, <1>8, <1>9, <1>10, <1>11
       DEF Data, Control, Looked, Intended, Still, Rolling, Reverting, Settling,
          Judged, Standing,
           Chain, Planned, Untouched

(* The records that end a run.                                              *)
LEMMA SoundReports ==
  \A r \in Runs :
     Whole /\ (PublishFailure(r) \/ PublishRecovery(r) \/ PublishCleanup(r)) => Data' /\ Control'
  <1> SUFFICES ASSUME NEW r \in Runs, Whole,
                      PublishFailure(r) \/ PublishRecovery(r) \/ PublishCleanup(r)
               PROVE  Data' /\ Control'
    OBVIOUS
  <1> DEFINE K == IF pc = "failure" THEN {"failure"}
                  ELSE IF pc = "recovery" THEN {"recovery"} ELSE {"cleanup"}
  <1>0. /\ TypeOK /\ Data /\ Control /\ holder = r
        /\ pc \in {"failure", "recovery", "cleanupRecord"}
        /\ UNCHANGED <<out, tree, preimage, build, holder, snapshot>>
        /\ evidence' = [evidence EXCEPT ![r] = @ \cup K]
        /\ pc' \in Idling \/ (pc = "cleanupRecord" /\ pc' = "recovery")
    BY DEF Whole, CommitInv, PublishFailure, PublishRecovery, PublishCleanup, Publish,
       Goto, At, Idling
  <1>1. /\ pc # "failure" => Has(r, "dryRunLog") /\ root[r] = {}
        /\ pc = "cleanupRecord" => Committed(r)
    BY <1>0 DEF Control, Known, Standing, Finishing, Idling
  <1>2. /\ K \cap {"execution", "preflight"} = {}
        /\ "dryRunLog" \in evidence[r] \/ K \subseteq {"failure"}
        /\ K \cap {"cleanup", "recovery"} = {} \/ root[r] = {}
        /\ "cleanup" \in K => Committed(r)
    BY <1>0, <1>1 DEF Has
  <1> HIDE DEF K
  <1>3. /\ evidence'[r] = evidence[r] \cup K
        /\ \A s \in Runs : s # r => evidence'[s] = evidence[s]
    BY <1>0 DEF TypeOK
  <1>4. "cleanup" \in evidence'[r] => Committed(r)
    BY <1>0, <1>2, <1>3 DEF Data, Rooted, Has
  <1>5. Data' /\ \A s \in Runs : Committed(s)' = Committed(s)
    BY <1>0, <1>2, <1>3, <1>4, EvidenceFrame
  <1>6. CASE pc' \in Idling
    BY <1>5, <1>6, Away
  <1>7. CASE pc = "cleanupRecord" /\ pc' = "recovery"
    BY <1>0, <1>1, <1>3, <1>5, <1>7 DEF Control, Looked, Intended, Still, Rolling,
       Reverting, Settling,
       Finishing, Judged, Known, Standing, Has, Chain, Planned, Untouched, Idling
  <1> QED
    BY <1>0, <1>6, <1>7

(* What the removal of a finished or restored transaction may take away.    *)
LEMMA Removal ==
  ASSUME TypeOK, Data, ninja = None, UNCHANGED <<out, records, build>>, NEW r \in Runs,
         Committed(r) \/ Restored,
         \A s \in Runs : s # r =>
            root'[s] = root[s] /\ backup'[s] = backup[s] /\ history'[s] = history[s],
         \A o \in Outputs : backup'[r][o] \in {backup[r][o], None},
         history'[r] \in {history[r], None},
         root'[r] = {} <=> root[r] = {}, "root" \in root[r] => "root" \in root'[r]
  PROVE  Data'
  <1>1. Owned'
    BY DEF Data, Owned
  <1>2. Copies' /\ Traced' /\ Building'
    BY DEF Data, Copies, Traced, Linked, Building
  <1>3. \A s \in Runs : NoBackup(s) => NoBackup(s)'
    BY DEF NoBackup
  <1>4. \A s \in Runs : (Committed(s)' <=> Committed(s)) /\ OtherRoots(s)' = OtherRoots(s)
    BY DEF Committed, Has, OtherRoots
  <1>5. Solo' /\ Early'
    BY <1>3 DEF Data, Solo, Early, Has
  <1>6. Final'
    <2>1. \A s \in Runs : CommittedImage(s) => CommittedImage(s)'
      BY <1>4 DEF CommittedImage, ParentInventory
    <2> QED
      BY <1>3, <1>4, <2>1 DEF Data, Final, Has
  <1>7. Rooted'
    BY <1>3, <1>4 DEF Data, Rooted, Has
  <1>8. GenuinePreimage'
    BY DEF Data, GenuinePreimage, Has
  <1>9. PreimageRecoverable'
    BY <1>4 DEF PreimageRecoverable, Restored
  <1> QED
    BY <1>1, <1>2, <1>5, <1>6, <1>7, <1>8, <1>9 DEF Data

(* One entry of the root goes.                                              *)
LEMMA SoundRemove ==
  \A r \in Runs :
     Whole /\ (RemoveHistoryCopy(r) \/ RemoveInternalJournal(r) \/ RemoveInternalMoved(r)
               \/ \E o \in Outputs : RemoveBackup(r, o))
        => Data' /\ Control'
  <1> SUFFICES ASSUME NEW r \in Runs, Whole,
                      RemoveHistoryCopy(r) \/ RemoveInternalJournal(r) \/ RemoveInternalMoved(r)
                            \/ \E o \in Outputs : RemoveBackup(r, o)
               PROVE  Data' /\ Control'
    OBVIOUS
  <1>0. /\ TypeOK /\ Data /\ Control /\ holder = r /\ pc = "removeTree" /\ ninja = None
        /\ UNCHANGED <<out, records, build, process>>
        /\ root \in [Runs -> SUBSET {"root", "journal", "moved"}]
        /\ history \in [Runs -> {None} \cup Logs]
        /\ backup \in [Runs -> [Outputs -> Files \cup {None}]]
    BY DEF Whole, CommitInv, TypeOK, RemoveHistoryCopy, RemoveInternalJournal,
       RemoveInternalMoved,
           RemoveBackup, At, NinjaAlone, Quiet
  <1>1. Committed(r) \/ Restored
    BY <1>0 DEF Control, Settling
  <1>2. /\ \A s \in Runs : s # r =>
              root'[s] = root[s] /\ backup'[s] = backup[s] /\ history'[s] = history[s]
        /\ \A o \in Outputs : backup'[r][o] \in {backup[r][o], None}
        /\ history'[r] \in {history[r], None}
        /\ (root'[r] = {} <=> root[r] = {}) /\ ("root" \in root[r] => "root" \in root'[r])
    <2>1. CASE RemoveHistoryCopy(r)
      BY <1>0, <2>1 DEF RemoveHistoryCopy
    <2>2. CASE RemoveInternalJournal(r) \/ RemoveInternalMoved(r)
      <3>1. "root" \in root[r] \/ root[r] = {}
        BY <1>0 DEF Data, Rooted
      <3> QED
        BY <1>0, <2>2, <3>1 DEF RemoveInternalJournal, RemoveInternalMoved
    <2>3. ASSUME NEW o \in Outputs, RemoveBackup(r, o)
          PROVE  /\ \A s \in Runs : s # r => backup'[s] = backup[s]
                 /\ \A p \in Outputs : backup'[r][p] \in {backup[r][p], None}
                 /\ UNCHANGED <<root, history>>
      <3>1. /\ backup' = [backup EXCEPT ![r] = [backup[r] EXCEPT ![o] = None]]
            /\ UNCHANGED <<root, history>>
        BY <2>3 DEF RemoveBackup
      <3>2. /\ backup'[r] = [backup[r] EXCEPT ![o] = None]
            /\ \A s \in Runs : s # r => backup'[s] = backup[s]
        BY <1>0, <3>1
      <3>3. backup[r] \in [Outputs -> Files \cup {None}]
        BY <1>0
      <3> QED
        BY <3>1, <3>2, <3>3
    <2> QED
      BY <2>1, <2>2, <2>3
  <1>3. Data'
    BY <1>0, <1>1, <1>2, Removal
  <1> QED
    BY <1>0, <1>1, <1>3 DEF Control, Looked, Intended, Still, Rolling, Reverting,
       Settling, Finishing, Judged,
       Known, Standing, Committed, Has, Restored, Chain, Planned, Untouched

(* The check before the removal changes nothing.                            *)
LEMMA SoundCleanup == \A r \in Runs : Whole /\ Cleanup(r) => Data' /\ Control'
  <1> SUFFICES ASSUME NEW r \in Runs, Whole, Cleanup(r) PROVE Data' /\ Control'
    OBVIOUS
  <1>0. /\ Data /\ Control /\ holder = r /\ pc = "cleanup"
        /\ UNCHANGED <<out, tree, records, build, holder, snapshot>>
        /\ pc' \in Idling \cup {"removeTree"}
    BY DEF Whole, Cleanup, Goto, At, Idling
  <1>1. Data'
    BY <1>0, DataFrame
  <1>2. CASE pc' \in Idling
    BY <1>1, <1>2, Away
  <1>3. CASE pc' = "removeTree"
    BY <1>0, <1>1, <1>3 DEF Control, Looked, Intended, Still, Rolling, Reverting,
       Settling, Finishing, Judged,
       Known, Standing, Committed, Has, Restored, Chain, Planned, Untouched, Idling
  <1> QED
    BY <1>0, <1>2, <1>3

(* The root itself goes; no other run can have committed against it.        *)
LEMMA SoundRemoveRoot == \A r \in Runs : Whole /\ RemoveRoot(r) => Data' /\ Control'
  <1> SUFFICES ASSUME NEW r \in Runs, Whole, RemoveRoot(r) PROVE Data' /\ Control'
    OBVIOUS
  <1>0. /\ TypeOK /\ Data /\ Control /\ holder = r /\ pc = "removeTree" /\ ninja = None
        /\ UNCHANGED <<out, records, build, backup, history, holder, snapshot>>
        /\ root' = [root EXCEPT ![r] = {}] /\ NoBackup(r) /\ history[r] = None
        /\ root \in [Runs -> SUBSET {"root", "journal", "moved"}]
        /\ pc' = (IF Committed(r) THEN "cleanupRecord"
                  ELSE IF mode = "recover" THEN "recovery" ELSE "failure")
    BY DEF Whole, CommitInv, TypeOK, RemoveRoot, At, Goto, NinjaAlone, Quiet
  <1>1. Committed(r) \/ Restored
    BY <1>0 DEF Control, Settling
  <1>2. root'[r] = {} /\ \A s \in Runs \ {r} : root'[s] = root[s]
    BY <1>0
  <1>3. \A s \in Runs \ {r} : ~Committed(s)
    BY <1>0, <1>1, RelinkAssumption DEF Data, Final, CommittedImage, Restored
  <1>4. Owned' /\ Copies' /\ Traced' /\ Solo'
    BY <1>0 DEF Data, Owned, Copies, Traced, Linked, Solo, NoBackup
  <1>5. Building' /\ Early' /\ GenuinePreimage' /\ PreimageRecoverable'
    BY <1>0 DEF Data, Building, Early, GenuinePreimage, PreimageRecoverable, Committed,
       Has
  <1>6. Final'
    <2>1. OtherRoots(r)' = OtherRoots(r)
      BY <1>2 DEF OtherRoots
    <2>2. CommittedImage(r) => CommittedImage(r)'
      BY <1>0, <2>1 DEF CommittedImage, ParentInventory
    <2> QED
      BY <1>0, <1>3, <2>2 DEF Data, Final, NoBackup, Committed, Has
  <1>7. Rooted'
    BY <1>0, <1>2 DEF Data, Rooted, NoBackup, Committed, Has
  <1>8. Data'
    BY <1>4, <1>5, <1>6, <1>7 DEF Data
  <1>9. CASE pc' = "failure"
    BY <1>8, <1>9, Away DEF Idling
  <1>10. CASE pc' # "failure"
    BY <1>0, <1>1, <1>2, <1>8, <1>10 DEF Control, Looked, Intended, Still, Rolling,
       Reverting, Settling, Finishing, Judged,
       Known, Standing, Committed, Has, Restored, Chain, Planned, Untouched, Idling
  <1> QED
    BY <1>9, <1>10

(* A step of a rollback that writes the output directory.                   *)
LEMMA SoundRestoring ==
  \A r \in Runs : Whole /\ (UnlinkGenerated(r) \/ RestoreOutput(r)) => Data' /\ Control'
  <1> SUFFICES ASSUME NEW r \in Runs, Whole, UnlinkGenerated(r) \/ RestoreOutput(r)
               PROVE  Data' /\ Control'
    OBVIOUS
  <1>0. /\ TypeOK /\ Data /\ Control /\ holder = r /\ pc = "rollback" /\ ninja = None
        /\ N \in Nat \ {0} /\ cursor \in Outputs /\ Base # None
        /\ live \in [Outputs -> Files \cup {None}]
        /\ backup \in [Runs -> [Outputs -> Files \cup {None}]]
        /\ UNCHANGED <<rspfiles, log, root, history, records, build, holder, snapshot>>
        /\ backup[r][cursor] # None
    BY RelinkAssumption DEF Whole, CommitInv, TypeOK, UnlinkGenerated, RestoreOutput,
       RollbackNext, At, NinjaAlone, Quiet
  <1>1. backup[r][cursor] = Base /\ live[cursor] # Base /\ ~NoBackup(r)
    BY <1>0 DEF Data, Owned, NoBackup
  <1>2. /\ \A s \in Runs \ {r} : NoBackup(s)
        /\ ~Committed(r) /\ Has(r, "preflight") /\ Has(r, "dryRunLog")
        /\ \A o \in cursor + 1 .. N : live[o] = Base
    BY <1>0, <1>1 DEF Data, Solo, Control, Reverting, Known, Rolling, Idling
  <1>3. \A s \in Runs : ~Committed(s) /\ ~Committed(s)'
    BY <1>0, <1>1, <1>2 DEF Data, Final, Committed, Has
  <1>4. /\ \A o \in Outputs \ {cursor} : live'[o] = live[o] /\ backup'[r][o] = backup[r][o]
        /\ \A s \in Runs \ {r} : backup'[s] = backup[s]
        /\ \/ UNCHANGED <<pc, cursor>> /\ live'[cursor] = None /\ backup'[r][cursor] = Base
           \/ /\ live'[cursor] = Base /\ backup'[r][cursor] = None /\ cursor' = cursor - 1
              /\ pc' = (IF cursor = 1 THEN "restoreHistory" ELSE "rollback")
    <2>1. CASE UnlinkGenerated(r)
      BY <1>0, <1>1, <2>1 DEF UnlinkGenerated
    <2>2. CASE RestoreOutput(r)
      <3>1. /\ live' = [live EXCEPT ![cursor] = Base]
            /\ backup' = [backup EXCEPT ![r] = [backup[r] EXCEPT ![cursor] = None]]
            /\ cursor' = cursor - 1
            /\ pc' = (IF cursor = 1 THEN "restoreHistory" ELSE "rollback")
        BY <1>1, <2>2 DEF RestoreOutput, RollbackNext
      <3>2. backup[r] \in [Outputs -> Files \cup {None}]
        BY <1>0
      <3>3. /\ backup'[r] = [backup[r] EXCEPT ![cursor] = None]
            /\ \A s \in Runs \ {r} : backup'[s] = backup[s]
        BY <1>0, <3>1
      <3> QED
        BY <1>0, <3>1, <3>2, <3>3
    <2> QED BY <2>1, <2>2
  <1>5. \A s \in Runs \ {r} : NoBackup(s)'
    BY <1>2, <1>4 DEF NoBackup
  <1>6. Owned'
    <2>1. ASSUME NEW s \in Runs, NEW o \in Outputs
          PROVE  backup'[s][o] = None \/ (backup'[s][o] = Base /\ live'[o] # Base)
      <3>1. CASE s # r
        BY <1>5, <3>1 DEF NoBackup
      <3>2. CASE s = r /\ o = cursor
        BY <1>0, <1>4, <3>2
      <3>3. CASE s = r /\ o # cursor
        BY <1>0, <1>4, <3>3 DEF Data, Owned
      <3> QED BY <3>1, <3>2, <3>3
    <2> QED BY <2>1 DEF Owned
  <1>7. Copies' /\ Traced' /\ Building' /\ Solo' /\ Final'
    BY <1>0, <1>3, <1>4, <1>5 DEF Data, Copies, Traced, Linked, Building, Solo, Final
  <1>8. Early' /\ Rooted' /\ GenuinePreimage'
    <2>1. root[r] # {}
      BY <1>0, <1>1 DEF Data, Rooted
    <2> QED
      BY <1>0, <1>3, <1>5, <2>1 DEF Data, Early, Rooted, GenuinePreimage, Has
  <1>9. PreimageRecoverable'
    <2>1. ASSUME NEW o \in Outputs
          PROVE  live'[o] = Base \/ \E s \in Runs : backup'[s][o] = Base
      <3>1. CASE o = cursor
        BY <1>4, <3>1
      <3>2. CASE o # cursor
        <4>1. live[o] = Base \/ \E s \in Runs : backup[s][o] = Base
          BY <1>0, <1>3 DEF Data, PreimageRecoverable
        <4>2. live'[o] = live[o] /\ \A s \in Runs : backup'[s][o] = backup[s][o]
          BY <1>4, <3>2
        <4> QED BY <4>1, <4>2
      <3> QED BY <3>1, <3>2
    <2> QED
      BY <1>0, <1>3, <2>1 DEF Data, PreimageRecoverable
  <1>10. Rolling'
    <2>1. \A o \in cursor' + 1 .. N : live'[o] = Base
      BY <1>0, <1>2, <1>4
    <2>2. pc' = "restoreHistory" => \A o \in Outputs : live'[o] = Base
      BY <1>0, <1>2, <1>4
    <2> QED
      BY <1>0, <1>4, <2>1, <2>2 DEF Rolling
  <1>11. pc' \in {"rollback", "restoreHistory"}
    BY <1>0, <1>4
  <1> QED
    BY <1>0, <1>2, <1>3, <1>6, <1>7, <1>8, <1>9, <1>10, <1>11 DEF Data, Control,
       Looked, Intended, Still,
       Reverting, Settling, Finishing, Judged, Known, Standing, Has, Chain, Planned,
       Untouched

(* What a rollback finds in its place it leaves.                            *)
LEMMA SoundKeep ==
  \A r \in Runs : Whole /\ (KeepOutput(r) \/ KeepHistory(r) \/ Revalidate(r)) => Data' /\ Control'
  <1> SUFFICES ASSUME NEW r \in Runs, Whole, KeepOutput(r) \/ KeepHistory(r) \/ Revalidate(r)
               PROVE  Data' /\ Control'
    OBVIOUS
  <1>0. /\ TypeOK /\ Data /\ Control /\ holder = r
        /\ pc \in {"rollback", "restoreHistory", "revalidate"}
        /\ N \in Nat \ {0} /\ (pc = "rollback" => cursor \in Outputs)
        /\ UNCHANGED <<out, tree, records, build>>
        /\ Has(r, "preflight") /\ ~Committed(r) /\ Has(r, "dryRunLog")
    BY RelinkAssumption DEF Whole, CommitInv, TypeOK, KeepOutput, KeepHistory,
       Revalidate, At,
       Control, Reverting, Known, Idling
  <1>1. Data'
    BY <1>0, DataFrame
  <1>2. preimage[r].outputs = [o \in Outputs |-> Base] /\ preimage[r].log = {}
    BY <1>0 DEF Data, GenuinePreimage
  <1>3. CASE pc' \in Idling
    BY <1>1, <1>3, Away
  <1>4. CASE pc' \notin Idling
    <2>1. UNCHANGED <<holder, snapshot>>
      BY <1>4 DEF KeepOutput, KeepHistory, Revalidate, RollbackFails, RollbackNext, Goto
    <2>2. CASE KeepOutput(r)
      <3>1. live[cursor] = preimage[r].outputs[cursor] /\ pc = "rollback" /\ cursor' = cursor - 1
            /\ pc' = (IF cursor = 1 THEN "restoreHistory" ELSE "rollback")
        BY <1>4, <2>2 DEF KeepOutput, RollbackFails, RollbackNext, Goto, Idling, At
      <3>2. \A o \in cursor .. N : live[o] = Base
        BY <1>0, <1>2, <3>1 DEF Control, Rolling
      <3>3. Rolling'
        BY <1>0, <3>1, <3>2 DEF Rolling
      <3> QED
        BY <1>0, <1>1, <2>1, <3>1, <3>3 DEF Control, Looked, Intended, Still,
           Reverting, Settling, Finishing, Judged, Known, Standing, Has, Committed,
           Chain, Planned, Untouched
    <2>3. CASE KeepHistory(r)
      <3>1. log = {} /\ pc = "restoreHistory" /\ pc' = "revalidate"
        BY <1>2, <1>4, <2>3 DEF KeepHistory, RollbackFails, Goto, Idling, At
      <3> QED
        BY <1>0, <1>1, <2>1, <3>1 DEF Control, Looked, Intended, Still, Rolling,
           Reverting, Settling, Finishing, Judged, Known, Standing, Has, Committed,
           Chain, Planned, Untouched
    <2>4. CASE Revalidate(r)
      <3>1. rspfiles = {} /\ pc = "revalidate" /\ pc' = "removeTree"
        BY <1>4, <2>4 DEF Revalidate, RollbackFails, Goto, Idling, At, ParentInventory
      <3>2. Restored
        BY <1>0, <3>1 DEF Restored, Control, Rolling, TypeOK
      <3> QED
        BY <1>0, <1>1, <2>1, <3>1, <3>2 DEF Control, Looked, Intended, Still, Rolling,
           Restored,
           Reverting, Settling, Finishing, Judged, Known, Standing, Has, Committed,
           Chain, Planned, Untouched
    <2> QED
      BY <2>2, <2>3, <2>4
  <1> QED
    BY <1>3, <1>4

(* The history goes back after the outputs.                                 *)
LEMMA SoundHistory ==
  \A r \in Runs : Whole /\ (UnlinkHistory(r) \/ RestoreHistory(r)) => Data' /\ Control'
  <1> SUFFICES ASSUME NEW r \in Runs, Whole, UnlinkHistory(r) \/ RestoreHistory(r)
               PROVE  Data' /\ Control'
    OBVIOUS
  <1>0. /\ TypeOK /\ Data /\ Control /\ holder = r /\ pc = "restoreHistory" /\ ninja = None
        /\ N \in Nat \ {0} /\ Base \notin Runs
        /\ history \in [Runs -> {None} \cup Logs]
        /\ UNCHANGED <<live, rspfiles, root, backup, records, build, holder, snapshot>>
        /\ history[r] # None
    BY RelinkAssumption DEF Whole, CommitInv, TypeOK, UnlinkHistory, RestoreHistory,
       Goto, At, NinjaAlone, Quiet
  <1>1. /\ \A o \in Outputs : live[o] = Base
        /\ history[r] = {}
        /\ Has(r, "preflight") /\ ~Committed(r) /\ Has(r, "dryRunLog")
    BY <1>0 DEF Data, Copies, Control, Rolling, Reverting, Known, Idling
  <1>2. \A s \in Runs : ~Committed(s) /\ ~Committed(s)'
    BY <1>0, <1>1 DEF Data, Final, CommittedImage, Committed, Has
  <1>3. /\ \A s \in Runs \ {r} : history'[s] = history[s]
        /\ \/ log' = None /\ history' = history /\ pc' = pc
           \/ log' = {} /\ history'[r] = None /\ pc' = "revalidate"
    BY <1>0, <1>1 DEF UnlinkHistory, RestoreHistory, Goto
  <1>4. Owned' /\ Copies' /\ Traced' /\ Solo'
    BY <1>0, <1>1, <1>3 DEF Data, Owned, Copies, Traced, Solo, NoBackup
  <1>5. Building' /\ Final' /\ Early' /\ GenuinePreimage' /\ PreimageRecoverable'
    BY <1>0, <1>1, <1>2, <1>3 DEF Data, Building, Final, Early, GenuinePreimage,
       PreimageRecoverable, Has
  <1>6. Rooted'
    BY <1>0, <1>2, <1>3 DEF Data, Rooted, NoBackup, Has
  <1> QED
    BY <1>0, <1>1, <1>2, <1>3, <1>4, <1>5, <1>6 DEF Data, Control, Looked, Intended,
       Still, Rolling,
       Reverting, Settling, Finishing, Judged, Known, Standing, Has, Chain, Planned,
       Untouched

(* The branch of a recovery is true to the files.                           *)
LEMMA SoundChoose == \A r \in Runs : Whole /\ ChooseRecovery(r) => Data' /\ Control'
  <1> SUFFICES ASSUME NEW r \in Runs, Whole, ChooseRecovery(r) PROVE Data' /\ Control'
    OBVIOUS
  <1>0. /\ Data /\ holder = r
        /\ UNCHANGED <<out, tree, records, build, holder, snapshot>> /\ pc' = RecoveryBranch(r)
    BY DEF Whole, ChooseRecovery, Goto, At
  <1>1. Data'
    BY <1>0, DataFrame
  <1>2. CASE RecoveryBranch(r) = "release"
    BY <1>0, <1>1, <1>2, Away DEF Idling
  <1>3. CASE RecoveryBranch(r) # "release"
    <2>1. Has(r, "preflight")
      BY <1>0, <1>3 DEF RecoveryBranch, Data, Final, Has
    <2>2. Has(r, "dryRunLog")
      BY <1>0, <2>1 DEF Data, Early, Has
    <2>3. RestoredPreimage(r) => Restored
      BY <1>0, <2>1 DEF RestoredPreimage, ParentInventory, Restored, Data, GenuinePreimage
    <2>4. \/ pc' \in {"cleanup", "cleanupRecord"} /\ Committed(r)
          \/ pc' = "adoptJournal" /\ ~Committed(r)
          \/ pc' \in {"removeTree", "recovery"} /\ Restored
      BY <1>0, <1>3, <2>3 DEF RecoveryBranch
    <2>5. pc' \in {"cleanupRecord", "recovery"} => root[r] = {}
      BY <1>0 DEF RecoveryBranch
    <2> QED
      BY <1>0, <1>1, <2>1, <2>2, <2>4, <2>5 DEF Control, Looked, Intended, Still,
         Rolling, Restored,
       Reverting, Settling, Finishing, Judged, Known, Standing, Has, Committed, Chain,
       Planned, Untouched
  <1> QED
    BY <1>2, <1>3

(* A recovery completes the external records before it rolls back.          *)
LEMMA SoundAdopt == \A r \in Runs : Whole /\ (AdoptJournal(r) \/ AdoptMoved(r)) => Data' /\ Control'
  <1> SUFFICES ASSUME NEW r \in Runs, Whole, AdoptJournal(r) \/ AdoptMoved(r)
               PROVE  Data' /\ Control'
    OBVIOUS
  <1>0. /\ TypeOK /\ Data /\ Control /\ holder = r
        /\ pc \in {"adoptJournal", "adoptMoved"} /\ N \in Nat
        /\ UNCHANGED <<out, tree, preimage, build, holder, snapshot>>
        /\ pc' = "adoptMoved" \/ (pc' = "rollback" /\ cursor' = N)
    BY RelinkAssumption DEF Whole, CommitInv, AdoptJournal, AdoptMoved, Goto,
       StartRollback, At
  <1>1. Has(r, "preflight") /\ ~Committed(r) /\ Has(r, "dryRunLog")
    BY <1>0 DEF Control, Reverting, Known, Idling
  <1>2. /\ \A s \in Runs : s # r => evidence'[s] = evidence[s]
        /\ evidence[r] \subseteq evidence'[r]
        /\ evidence'[r] \subseteq evidence[r] \cup {"journal", "moved"}
    BY <1>0 DEF TypeOK, AdoptJournal, AdoptMoved
  <1>3. "cleanup" \in evidence'[r] => Committed(r)
    BY <1>0, <1>2 DEF Data, Rooted, Has
  <1>4. Data' /\ \A s \in Runs : Committed(s)' = Committed(s)
    BY <1>0, <1>1, <1>2, <1>3, EvidenceFrame DEF Has
  <1> QED
    BY <1>0, <1>1, <1>2, <1>4 DEF Control, Looked, Intended, Still, Rolling,
       Reverting, Settling, Finishing, Judged, Known, Standing, Has, Chain, Planned,
       Untouched

(* Ninja overwrites what its root holds.                                    *)
LEMMA SoundNinja == Whole /\ NinjaStep => Data' /\ Control'
  <1> SUFFICES ASSUME Whole, NinjaStep PROVE Data' /\ Control'
    OBVIOUS
  <1>0. /\ TypeOK /\ Data /\ Control /\ ninja \in Runs /\ pc \in Quiet /\ ninja # Base
        /\ live \in [Outputs -> Files \cup {None}]
        /\ UNCHANGED <<tree, records, process>> /\ ninja' \in {ninja, None}
    BY RelinkAssumption DEF Whole, CommitInv, TypeOK, NinjaAlone, NinjaStep,
       NinjaStartEdge, NinjaLink, NinjaFinishEdge,
       NinjaExits
  <1>1. Control'
    BY <1>0 DEF Control, Looked, Intended, Still, Rolling,
       Reverting, Settling, Finishing, Judged, Known, Standing, Has, Committed,
       NoBackup, Quiet, Chain, Planned, Untouched, Idling
  <1>2. /\ \A o \in Outputs : backup[ninja][o] = Base
        /\ history[ninja] = {} /\ \A s \in Runs : ~Committed(s)
    BY <1>0, RelinkAssumption DEF Data, Building
  <1>3. \A o \in Outputs :
           \/ /\ live'[o] = live[o]
              /\ o \in rspfiles \cup Linked => o \in rspfiles' \cup Linked'
           \/ live'[o] = ninja /\ o \in rspfiles'
    <2>1. ASSUME NEW o \in Outputs, NinjaFinishEdge(o) PROVE Linked' = Linked \cup {o}
      <3>1. Linked \cup {o} \in SUBSET (1 .. N)
        BY <1>0 DEF TypeOK, Linked
      <3>2. Linked \cup {o} # None
        BY <3>1, RelinkAssumption
      <3> QED
        BY <2>1, <3>2 DEF NinjaFinishEdge, Linked
    <2>2. CASE \E o \in Outputs : NinjaFinishEdge(o)
      BY <1>0, <2>1, <2>2 DEF NinjaFinishEdge
    <2>3. CASE ~\E o \in Outputs : NinjaFinishEdge(o)
      <3>1. UNCHANGED log
        BY <2>3 DEF NinjaStep, NinjaStartEdge, NinjaLink, NinjaExits
      <3> QED
        BY <1>0, <2>3, <3>1 DEF NinjaStep, NinjaStartEdge, NinjaLink, NinjaExits, Linked
    <2> QED BY <2>2, <2>3
  <1>4. Owned' /\ Copies' /\ Traced' /\ Solo'
    BY <1>0, <1>3 DEF Data, Owned, Copies, Traced, Solo, NoBackup
  <1>5. Building'
    BY <1>0 DEF Data, Building, Committed, Has
  <1>6. Final' /\ Early' /\ Rooted' /\ GenuinePreimage'
    BY <1>0, <1>2 DEF Data, Final, Early, Rooted, NoBackup, GenuinePreimage, Committed,
       Has
  <1>7. PreimageRecoverable'
    BY <1>0, <1>2 DEF PreimageRecoverable
  <1> QED
    BY <1>1, <1>4, <1>5, <1>6, <1>7 DEF Data

LEMMA WholeInit == Init => Data /\ Control
  <1> SUFFICES ASSUME Init PROVE Data /\ Control
    OBVIOUS
  <1> USE RelinkAssumption
  <1>1. /\ \A r \in Runs : NoBackup(r) /\ evidence[r] = {} /\ history[r] = None /\ root[r] = {}
        /\ \A o \in Outputs : live[o] = Base
    BY DEF Init, NoBackup
  <1>2. Owned /\ Copies /\ Traced /\ Building /\ Solo /\ Final
    BY <1>1 DEF Init, Owned, Copies, Traced, Building, Solo, Final, NoBackup,
       Committed, Has
  <1>3. Early /\ Rooted /\ GenuinePreimage /\ PreimageRecoverable
    BY <1>1 DEF Init, Early, Rooted, GenuinePreimage, PreimageRecoverable, Has, NoBackup
  <1>4. Control
    BY DEF Init, Control, Looked, Intended, Still, Rolling, Reverting, Settling,
       Finishing, Judged, Known,
         Standing, Idling, Chain, Planned, Untouched
  <1> QED
    BY <1>2, <1>3, <1>4 DEF Data

LEMMA SoundStep == Careful /\ Whole /\ [Next]_vars => Data' /\ Control'
  <1> SUFFICES ASSUME Careful, Whole, [Next]_vars PROVE Data' /\ Control'
    OBVIOUS
  <1>1. ASSUME NEW r \in Runs, ExecuteStep(r) PROVE Data' /\ Control'
    BY <1>1, SoundGate, SoundDryRun, SoundPreflight, SoundPrepared, SoundBegin,
       SoundMove, SoundSpawn,
       SoundReaped, SoundExecution, SoundReports DEF ExecuteStep
  <1>2. ASSUME NEW r \in Runs, CleanupStep(r) PROVE Data' /\ Control'
    BY <1>2, SoundCleanup, SoundRemove, SoundRemoveRoot, SoundReports DEF CleanupStep
  <1>3. ASSUME NEW r \in Runs, RollbackStep(r) PROVE Data' /\ Control'
    BY <1>3, SoundRestoring, SoundKeep, SoundHistory DEF RollbackStep
  <1>4. ASSUME NEW r \in Runs, RecoverStep(r) PROVE Data' /\ Control'
    BY <1>4, SoundChoose, SoundAdopt, SoundReports DEF RecoverStep
  <1>5. CASE UNCHANGED vars
    BY <1>5, DataFrame, ControlFrame DEF vars, Whole
  <1>6. ~DeleteResponseFiles /\ \A r \in Runs : ~SignalInPopen(r)
    BY DEF Careful, DeleteResponseFiles, SignalInPopen
  <1>7. ASSUME NEW r \in Runs,
               Lock(r) \/ Release(r) \/ TerminateNinja(r) \/ UnsafeGroup(r) \/ Fault(r) \/ Crash
        PROVE  Data' /\ Control'
    BY <1>7, SoundLock, SoundFault
  <1>8. CASE \E r \in Runs : Lock(r) \/ ProcessStep(r) \/ TerminateNinja(r) \/ UnsafeGroup(r)
                           \/ Fault(r)
    BY <1>1, <1>2, <1>3, <1>4, <1>7, <1>8 DEF ProcessStep
  <1>9. CASE Crash
    <2>1. holder \in Runs
      BY <1>9 DEF Crash, Whole, CommitInv, TypeOK
    <2> QED BY <1>7, <1>9, <2>1
  <1> QED
    BY <1>5, <1>6, <1>8, <1>9, SoundNinja DEF Next

LEMMA WholeInvariant == Careful => (Spec => []Whole)
  <1> SUFFICES ASSUME Careful PROVE Spec => []Whole
    OBVIOUS
  <1>1. Init => NinjaAlone /\ Data /\ Control
    BY WholeInit DEF Init, NinjaAlone
  <1>2. CommitInv /\ CommitInv' /\ NinjaAlone /\ Data /\ Control /\ [Next]_vars
           => NinjaAlone' /\ Data' /\ Control'
    BY SoundStep, AloneStep DEF Whole, Careful
  <1>3. CommitInv /\ NinjaAlone /\ Data /\ Control => Whole
    BY DEF Whole
  <1> QED
    BY <1>1, <1>2, <1>3, CommitInvariant, PTL DEF Spec

-----------------------------------------------------------------------------
(* The theorems. *)

(* No run ever records for its pre-image what an unfinished other run left  *)
(* behind (the gate and the dry run of execute()).                          *)
THEOREM PreimageIsGenuine == Careful => (Spec => []GenuinePreimage)
  <1>1. Whole => GenuinePreimage
    BY DEF Whole, Data
  <1> QED
    BY <1>1, WholeInvariant, PTL

(* Until a commit every file and the history of the earlier build exist, at *)
(* their paths or in some root, whatever is interrupted.                    *)
THEOREM PreimageIsRecoverable == Careful => (Spec => []PreimageRecoverable)
  <1>1. Whole => PreimageRecoverable
    BY DEF Whole, Data
  <1> QED
    BY <1>1, WholeInvariant, PTL

(* A run with a cleanup record passes the audit.                            *)
LEMMA Audited == Whole => OneTransaction
  <1> SUFFICES ASSUME Whole PROVE OneTransaction
    OBVIOUS
  <1>0. Data
    BY DEF Whole
  <1>1. \A r, s \in Runs : ~NoBackup(r) /\ ~NoBackup(s) => r = s
    BY <1>0 DEF Data, Solo
  <1>2. ASSUME NEW r \in Runs, {"cleanup", "recovery"} \cap evidence[r] # {}
        PROVE  root[r] = {} /\ NoBackup(r) /\ history[r] = None
    BY <1>0, <1>2 DEF Data, Rooted
  <1>3. ASSUME NEW r \in Runs, Has(r, "cleanup") PROVE AuditedRecords(r) /\ AuditedImage(r)
    <2>1. Committed(r) /\ CommittedImage(r) /\ Has(r, "preflight")
      BY <1>0, <1>3 DEF Data, Rooted, Final
    <2>2. AuditedRecords(r)
      BY <1>0, <1>3, <2>1, RelinkAssumption DEF AuditedRecords, Has, Committed, Data,
         GenuinePreimage
    <2> QED
      BY <1>2, <1>3, <2>1, <2>2 DEF AuditedImage, Has
  <1> QED
    BY <1>1, <1>2, <1>3 DEF OneTransaction

(* Outputs are away for one run at most; a settled run has no root; and a   *)
(* finished run passes validate_completed_execution() for ever.             *)
THEOREM TransactionIsOne == Careful => (Spec => []OneTransaction)
  BY Audited, WholeInvariant, PTL

(* Each step that writes outputs or history excludes a commit.              *)
LEMMA FinalStep ==
  Whole /\ [Next]_vars /\ Careful => \A r \in Runs : Committed(r) => UNCHANGED <<live, log>>
  <1> SUFFICES ASSUME Careful, Whole, Next, NEW c \in Runs, Committed(c)
               PROVE  UNCHANGED <<live, log>>
    BY DEF vars
  <1>0. Data /\ Control /\ TypeOK /\ N \in Nat \ {0} /\ Base \notin Runs
    BY RelinkAssumption DEF Whole, CommitInv
  <1>1. (\A o \in Outputs : live[o] = c) /\ \A s \in Runs : s = c \/ NoBackup(s)
    BY <1>0 DEF Data, Final, CommittedImage
  <1>2. ASSUME NEW r \in Runs, ExecuteStep(r) PROVE UNCHANGED <<live, log>>
    <2>1. ~MoveOutput(r)
      BY <1>0 DEF MoveOutput, At, Control, Intended, Chain, Planned
    <2> QED
      BY <1>2, <2>1 DEF ExecuteStep, Gate, DryRun, PublishPreflight, PublishPrepared,
         MakeRoot,
                  CopyHistory, PublishInternalJournal, PublishExternalJournal,
                  PublishInternalMoved, PublishExternalMoved, SpawnNinja, NinjaReaped,
                  PostContract, PublishExecution, PublishFailure
  <1>3. ASSUME NEW r \in Runs, CleanupStep(r) PROVE UNCHANGED <<live, log>>
    BY <1>3 DEF CleanupStep, Cleanup, RemoveHistoryCopy, RemoveInternalJournal,
                  RemoveBackup, RemoveInternalMoved, RemoveRoot, PublishCleanup
  <1>4. ASSUME NEW r \in Runs, RollbackStep(r) PROVE UNCHANGED <<live, log>>
    <2>1. ASSUME UnlinkGenerated(r) \/ RestoreOutput(r) PROVE FALSE
      <3>1. ~NoBackup(r) /\ ~Committed(r)
        BY <1>0, <2>1 DEF UnlinkGenerated, RestoreOutput, At, NoBackup, Control,
           Reverting, TypeOK
      <3> QED
        BY <1>1, <3>1
    <2>2. ASSUME UnlinkHistory(r) \/ RestoreHistory(r) PROVE FALSE
      BY <1>0, <1>1, <2>2 DEF UnlinkHistory, RestoreHistory, At, Control, Rolling
    <2> QED
      BY <1>4, <2>1, <2>2 DEF RollbackStep, KeepOutput, KeepHistory, Revalidate
  <1>5. ASSUME NEW r \in Runs, RecoverStep(r) \/ Release(r) PROVE UNCHANGED <<live, log>>
    BY <1>5 DEF RecoverStep, ChooseRecovery, AdoptJournal, AdoptMoved, PublishRecovery,
       Release
  <1>6. ASSUME NEW r \in Runs, Lock(r) \/ TerminateNinja(r) \/ UnsafeGroup(r)
                  \/ SignalInPopen(r) \/ Fault(r)
        PROVE UNCHANGED <<live, log>>
    BY <1>6 DEF Lock, CheckExecute, CheckRecover, AcquireLock, LockBusy,
       TerminateNinja, UnsafeGroup, SignalInPopen, Fault
  <1>7. CASE NinjaStep
    <2>1. ninja = None
      BY <1>0 DEF Data, Building
    <2> QED
      BY <1>7, <2>1 DEF NinjaStep, NinjaStartEdge, NinjaLink, NinjaFinishEdge, NinjaExits
  <1>8. CASE Crash \/ DeleteResponseFiles
    BY <1>8 DEF Crash, DeleteResponseFiles
  <1> QED
    BY <1>2, <1>3, <1>4, <1>5, <1>6, <1>7, <1>8 DEF Next, ProcessStep

(* After a commit no step of any run, no recovery, no late signal changes   *)
(* an output or the history.                                                *)
THEOREM CommitStands == Careful => (Spec => CommitIsFinal)
  <1> SUFFICES ASSUME Careful PROVE Spec => CommitIsFinal
    OBVIOUS
  <1>1. Whole /\ [Next]_vars => [\A r \in Runs : Committed(r) => UNCHANGED <<live, log>>]_vars
    BY FinalStep
  <1> QED
    BY <1>1, WholeInvariant, PTL DEF Spec, CommitIsFinal

(* No record that settles a run is published.                               *)
NothingSettled ==
    \A s \in Runs : \A k \in {"execution", "cleanup", "recovery"} : Has(s, k)' = Has(s, k)

(* Which step publishes the record that settles a run.                      *)
LEMMA OnlySettled ==
  ASSUME TypeOK, [Next]_vars
  PROVE  \/ NothingSettled
         \/ \E r \in Runs : PublishExecution(r) \/ PublishCleanup(r) \/ PublishRecovery(r)
  <1>0. evidence \in [Runs -> SUBSET Evidence]
    BY DEF TypeOK
  <1> USE <1>0 DEF Has, NothingSettled
  <1>1. ASSUME NEW r \in Runs, ExecuteStep(r)
        PROVE  \/ NothingSettled
               \/ PublishExecution(r)
    BY <1>1 DEF ExecuteStep, Gate, DryRun, PublishPreflight, PublishPrepared, MakeRoot,
                  CopyHistory, PublishInternalJournal, PublishExternalJournal, MoveOutput,
                  PublishInternalMoved, PublishExternalMoved, SpawnNinja, NinjaReaped,
                  PostContract, PublishFailure, Publish
  <1>2. ASSUME NEW r \in Runs, CleanupStep(r) PROVE UNCHANGED evidence \/ PublishCleanup(r)
    BY <1>2 DEF CleanupStep, Cleanup, RemoveHistoryCopy, RemoveInternalJournal,
                  RemoveBackup, RemoveInternalMoved, RemoveRoot
  <1>3. ASSUME NEW r \in Runs, RollbackStep(r) PROVE UNCHANGED evidence
    BY <1>3 DEF RollbackStep, UnlinkGenerated, RestoreOutput, KeepOutput, UnlinkHistory,
                  RestoreHistory, KeepHistory, Revalidate
  <1>4. ASSUME NEW r \in Runs, RecoverStep(r) \/ Release(r)
        PROVE  \/ NothingSettled
               \/ PublishRecovery(r)
    BY <1>4 DEF RecoverStep, ChooseRecovery, AdoptJournal, AdoptMoved, Release
  <1>5. ASSUME NEW r \in Runs, Lock(r) \/ TerminateNinja(r) \/ UnsafeGroup(r)
                  \/ SignalInPopen(r) \/ Fault(r)
        PROVE  NothingSettled
    BY <1>5 DEF Lock, CheckExecute, CheckRecover, AcquireLock, LockBusy,
       TerminateNinja, UnsafeGroup,
                SignalInPopen, Fault, Publish
  <1>6. CASE NinjaStep \/ Crash \/ DeleteResponseFiles \/ UNCHANGED vars
    BY <1>6 DEF NinjaStep, NinjaStartEdge, NinjaLink, NinjaFinishEdge, NinjaExits, Crash,
                DeleteResponseFiles, vars
  <1> QED
    BY <1>1, <1>2, <1>3, <1>4, <1>5, <1>6 DEF Next, ProcessStep

(* A recovery of a run that did not commit is recorded only with the exact  *)
(* pre-image back in its place.                                             *)
THEOREM RecoveryRestores == Careful => (Spec => RecoveryIsExact)
  <1> SUFFICES ASSUME Careful PROVE Spec => RecoveryIsExact
    OBVIOUS
  <1>1. ASSUME Whole, [Next]_vars, NEW r \in Runs,
               Has(r, "recovery")', ~Has(r, "recovery"), ~Committed(r)
        PROVE  Restored'
    <2>1. TypeOK /\ Control /\ evidence \in [Runs -> SUBSET Evidence]
      BY <1>1 DEF Whole, CommitInv, TypeOK
    <2>2. PublishRecovery(r)
      <3>1. PICK s \in Runs : PublishExecution(s) \/ PublishCleanup(s) \/ PublishRecovery(s)
        BY <1>1, <2>1, OnlySettled DEF NothingSettled
      <3> QED
        BY <1>1, <2>1, <3>1 DEF PublishExecution, PublishCleanup, PublishRecovery,
           Publish, Has
    <2>3. holder = r /\ pc = "recovery" /\ UNCHANGED out
      BY <2>2 DEF PublishRecovery, At
    <2> QED
      BY <1>1, <2>1, <2>3 DEF Control, Settling, Restored
  <1>2. Whole /\ [Next]_vars =>
          [\A r \in Runs :
              Has(r, "recovery")' /\ ~Has(r, "recovery") /\ ~Committed(r) => Restored']_vars
    BY <1>1
  <1> QED
    BY <1>2, WholeInvariant, PTL DEF Spec, RecoveryIsExact

-----------------------------------------------------------------------------
(* The executor implements the atomic relink. *)

(* The image recovery would expose is fixed by which run has committed.     *)
Settled == /\ (\A r \in Runs : ~Committed(r)) => Image = [o \in Outputs |-> Base]
           /\ \A r \in Runs : Committed(r) => Image = [o \in Outputs |-> r]

LEMMA ImageBefore ==
  ASSUME Data, \A r \in Runs : ~Committed(r) PROVE Image = [o \in Outputs |-> Base]
  <1>1. ASSUME NEW o \in Outputs
        PROVE  (IF \E r \in Runs : ~Committed(r) /\ backup[r][o] # None
                THEN backup[CHOOSE r \in Runs : ~Committed(r) /\ backup[r][o] # None][o]
                ELSE live[o]) = Base
    <2>1. CASE \E r \in Runs : ~Committed(r) /\ backup[r][o] # None
      <3> DEFINE c == CHOOSE r \in Runs : ~Committed(r) /\ backup[r][o] # None
      <3>1. c \in Runs /\ backup[c][o] # None
        BY <2>1
      <3> HIDE DEF c
      <3>2. backup[c][o] = Base
        BY <3>1 DEF Data, Owned
      <3> QED
        BY <2>1, <3>2 DEF c
    <2>2. CASE ~\E r \in Runs : ~Committed(r) /\ backup[r][o] # None
      <3>1. \A r \in Runs : backup[r][o] = None
        BY <2>2
      <3>2. live[o] = Base
        BY <3>1, RelinkAssumption DEF Data, PreimageRecoverable
      <3> QED
        BY <2>2, <3>2
    <2> QED BY <2>1, <2>2
  <1> QED
    BY <1>1 DEF Image

LEMMA ImageAfter ==
  ASSUME Data, NEW c \in Runs, Committed(c) PROVE Image = [o \in Outputs |-> c]
  <1>1. (\A o \in Outputs : live[o] = c) /\ \A s \in Runs : s = c \/ NoBackup(s)
    BY DEF Data, Final, CommittedImage
  <1>2. \A o \in Outputs : ~\E r \in Runs : ~Committed(r) /\ backup[r][o] # None
    BY <1>1 DEF NoBackup
  <1> QED
    BY <1>1, <1>2 DEF Image

LEMMA ImageSettled == Data => Settled
  BY ImageBefore, ImageAfter DEF Settled

LEMMA ImageSettledNext == Data' => Settled'
  BY ImageSettled, PTL

(* A step publishes one of three records, or stutters.                      *)
LEMMA AtomicStep ==
  Whole /\ Data' /\ [Next]_vars => [Atomic!Next]_<<Image, Outcome>>
  <1> SUFFICES ASSUME Whole, Data', [Next]_vars
               PROVE  Atomic!Next \/ UNCHANGED <<Image, Outcome>>
    OBVIOUS
  <1>0. TypeOK /\ Data /\ Control /\ Settled /\ Settled' /\ evidence \in [Runs -> SUBSET Evidence]
    BY ImageSettled, ImageSettledNext DEF Whole, CommitInv, TypeOK
  <1>1. ASSUME \A s \in Runs : Committed(s)' = Committed(s) PROVE Image' = Image
    <2>1. CASE \A s \in Runs : ~Committed(s)
      BY <1>0, <1>1, <2>1 DEF Settled
    <2>2. CASE \E s \in Runs : Committed(s)
      <3>1. PICK s \in Runs : Committed(s)
        BY <2>2
      <3> QED
        BY <1>0, <1>1, <3>1 DEF Settled
    <2> QED BY <2>1, <2>2
  <1>2. CASE NothingSettled
    <2>1. \A s \in Runs : /\ Has(s, "execution")' = Has(s, "execution")
                          /\ Has(s, "cleanup")' = Has(s, "cleanup")
                          /\ Has(s, "recovery")' = Has(s, "recovery")
      BY <1>2 DEF NothingSettled
    <2>2. Outcome' = Outcome
      BY <2>1 DEF Outcome, Committed
    <2> QED
      BY <1>1, <2>1, <2>2 DEF Committed
  <1>3. ASSUME NEW r \in Runs, PublishExecution(r) PROVE Atomic!Next
    <2>1. /\ \A s \in Runs : ~Committed(s)
          /\ {"cleanup", "recovery"} \cap evidence[r] = {}
      BY <1>0, <1>3 DEF PublishExecution, At, Control, Intended, Known, Chain, Planned
    <2>2. /\ evidence'[r] = evidence[r] \cup {"execution"}
          /\ \A s \in Runs : s # r => evidence'[s] = evidence[s]
      BY <1>0, <1>3 DEF PublishExecution, Publish
    <2>3. Outcome[r] = "open" /\ Outcome' = [Outcome EXCEPT ![r] = "committed"]
      <3>1. /\ "execution" \in evidence'[r] /\ "execution" \notin evidence[r]
            /\ "cleanup" \notin evidence'[r]
        BY <2>1, <2>2 DEF Committed, Has
      <3> QED
        BY <2>1, <2>2, <3>1 DEF Outcome, Committed, Has
    <2>4. Committed(r)'
      BY <2>2 DEF Committed, Has
    <2>5. Image = [o \in Outputs |-> Base] /\ Image' = [o \in Outputs |-> r]
      BY <1>0, <2>1, <2>4 DEF Settled
    <2> QED
      BY <2>3, <2>5 DEF Atomic!Next, Atomic!Commit, Atomic!Before
  <1>4. ASSUME NEW r \in Runs, PublishCleanup(r) PROVE Atomic!Next
    <2>1. Committed(r) /\ ~Has(r, "cleanup")
      BY <1>0, <1>4 DEF PublishCleanup, Publish, At, Control, Finishing
    <2>2. /\ evidence'[r] = evidence[r] \cup {"cleanup"}
          /\ \A s \in Runs : s # r => evidence'[s] = evidence[s]
      BY <1>0, <1>4 DEF PublishCleanup, Publish
    <2>3. Outcome[r] = "committed" /\ Outcome' = [Outcome EXCEPT ![r] = "finished"]
      BY <2>1, <2>2 DEF Outcome, Committed, Has
    <2>4. \A s \in Runs : Committed(s)' = Committed(s)
      BY <2>2 DEF Committed, Has
    <2> QED
      BY <1>1, <2>3, <2>4 DEF Atomic!Next, Atomic!Finish
  <1>5. ASSUME NEW r \in Runs, PublishRecovery(r)
        PROVE  Atomic!Next \/ UNCHANGED <<Image, Outcome>>
    <2>1. Committed(r) \/ Restored
      BY <1>0, <1>5 DEF PublishRecovery, At, Control, Settling
    <2>2. /\ evidence'[r] = evidence[r] \cup {"recovery"}
          /\ \A s \in Runs : s # r => evidence'[s] = evidence[s]
      BY <1>0, <1>5 DEF PublishRecovery
    <2>3. \A s \in Runs : Committed(s)' = Committed(s)
      BY <2>2 DEF Committed, Has
    <2>4. CASE Committed(r) \/ Has(r, "recovery")
      <3>1. Outcome' = Outcome
        BY <2>2, <2>4 DEF Outcome, Committed, Has
      <3> QED
        BY <1>1, <2>3, <3>1
    <2>5. CASE ~Committed(r) /\ ~Has(r, "recovery")
      <3>1. \A s \in Runs : ~Committed(s)
        BY <1>0, <2>1, <2>5, RelinkAssumption DEF Data, Final, CommittedImage, Restored
      <3>2. ~Has(r, "cleanup")
        BY <1>0, <2>5 DEF Data, Rooted
      <3>3. Outcome[r] = "open" /\ Outcome' = [Outcome EXCEPT ![r] = "restored"]
        <4>1. /\ {"execution", "cleanup", "recovery"} \cap evidence[r] = {}
              /\ "execution" \notin evidence'[r] /\ "cleanup" \notin evidence'[r]
              /\ "recovery" \in evidence'[r]
          BY <2>2, <2>5, <3>2 DEF Committed, Has
        <4> QED
          BY <2>2, <4>1 DEF Outcome, Committed, Has
      <3>4. Image = [o \in Outputs |-> Base]
        BY <1>0, <3>1 DEF Settled
      <3> QED
        BY <1>1, <2>3, <3>3, <3>4 DEF Atomic!Next, Atomic!Restore, Atomic!Before
    <2> QED BY <2>4, <2>5
  <1> QED
    BY <1>0, <1>2, <1>3, <1>4, <1>5, OnlySettled

(* The crash-prone relink of many files implements the atomic one: all      *)
(* outputs change at the commit or none does.                               *)
THEOREM RelinkIsAtomic == Careful => (Spec => AtomicRelink)
  <1> SUFFICES ASSUME Careful PROVE Spec => AtomicRelink
    OBVIOUS
  <1>1. Init => Atomic!Init
    <2> SUFFICES ASSUME Init PROVE Atomic!Init
      OBVIOUS
    <2>1. \A r \in Runs : evidence[r] = {}
      BY DEF Init
    <2>2. Outcome = [r \in Runs |-> "open"]
      BY <2>1 DEF Outcome, Committed, Has
    <2>3. Image = [o \in Outputs |-> Base]
      BY <2>1, WholeInit, ImageSettled DEF Settled, Committed, Has
    <2> QED
      BY <2>2, <2>3 DEF Atomic!Init, Atomic!Before
  <1>2. Whole /\ Whole' /\ [Next]_vars => [Atomic!Next]_<<Image, Outcome>>
    BY AtomicStep DEF Whole
  <1> QED
    BY <1>1, <1>2, WholeInvariant, PTL DEF Spec, AtomicRelink, Atomic!Spec
=============================================================================
