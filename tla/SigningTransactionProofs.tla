---------------------- MODULE SigningTransactionProofs ----------------------
(***************************************************************************)
(* Theorems about SigningTransaction, for any histories and bounds.        *)
(***************************************************************************)
EXTENDS SigningTransaction, TLAPS

USE SigningAssumption DEF disk, process, ghosts, bounds

-----------------------------------------------------------------------------
(* The files. *)

LEMMA FileSets ==
  /\ "history" \in Files /\ "history" \notin Scripts \cup Copies
  /\ \A s \in Stages : /\ Sources(s) \subseteq Scripts /\ Packages(s) \subseteq Copies
                       /\ Sources(s) \cup Packages(s) \cup {"history"} \subseteq Targets(s)
                       /\ Targets(s) \subseteq Files
  /\ Scripts \cup Copies \subseteq Files
  /\ \A f \in Copies : ScriptOf[f] \in Scripts
  BY DEF Files, Scripts, Copies, Sources, Packages, Targets, ScriptOf, Stages

(* What a copy of the targets can be. *)
Trees == {t \in [Files -> Contents] : t["history"] \in Histories}

LEMMA TreesAre ==
  ASSUME NEW t \in Trees
  PROVE  /\ t \in [Files -> Contents] /\ t["history"] \in Histories
         /\ \A f \in Files : t[f] \in Contents
  BY FileSets DEF Trees

LEMMA TreeUpdate ==
  ASSUME NEW t \in Trees, NEW f \in Files, NEW c \in Contents,
         f = "history" => c \in Histories
  PROVE  [t EXCEPT ![f] = c] \in Trees
  BY FileSets DEF Trees

LEMMA TreeMix ==
  ASSUME NEW t \in Trees, NEW u \in Trees, NEW S
  PROVE  [f \in Files |-> IF f \in S THEN t[f] ELSE u[f]] \in Trees
  BY FileSets DEF Trees

LEMMA ContentsAre == Images \cup Histories \subseteq Contents
  BY DEF Contents

LEMMA BuildTreeIs == BuildTree \in Trees
  BY FileSets DEF BuildTree, Trees, Contents, Images

LEMMA NewOne ==
  ASSUME \E h \in Histories : IsNew(h)
  PROVE  (CHOOSE h \in Histories : IsNew(h)) \in Histories
  OBVIOUS

ImagesOK ==
    /\ tree \in Trees /\ memory \in Trees /\ settled \in Trees /\ backup \in [Stages -> Trees]
    /\ stage \in Stages /\ todo \subseteq Files /\ cont \in {"inspect", "plan", "end"}
    /\ pc = "patch" => todo \subseteq Scripts
    /\ pc \in {"unlink", "ninja"} => todo \subseteq Copies

(* Leave, Goto, Discard and Raise do not lead into a loop over files.      *)
LEMMA LeaveImages ==
  ASSUME ImagesOK, Leave, UNCHANGED <<tree, settled, backup>> PROVE ImagesOK'
  BY BuildTreeIs DEF ImagesOK, Leave

LEMMA OnwardsImages ==
  ASSUME ImagesOK, UNCHANGED <<tree, settled, backup, memory, stage, todo>>,
         pc' \notin {"patch", "unlink", "ninja"}, cont' \in {cont, "plan", "end"}
  PROVE  ImagesOK'
  BY DEF ImagesOK

LEMMA RaiseImages ==
  ASSUME ImagesOK, Raise, UNCHANGED <<tree, settled, backup>> PROVE ImagesOK'
  BY LeaveImages, OnwardsImages DEF Raise, Goto, Discard

LEMMA LoopImages ==
  ASSUME ImagesOK, UNCHANGED <<tree, settled, backup>>, NEW l, NEW S \in SUBSET Files, Loop(l, S),
         l = "patch" => S \subseteq Scripts, l \in {"unlink", "ninja"} => S \subseteq Copies
  PROVE  ImagesOK'
  BY DEF ImagesOK, Loop

(* One file of a loop gets contents of the right kind. *)
LEMMA ItemImages ==
  ASSUME ImagesOK, NEW f \in todo, NEW t \in Trees,
         tree' = [tree EXCEPT ![f] = t[f]], todo' = todo \ {f},
         UNCHANGED <<settled, backup, memory, stage, pc, cont>>
  PROVE  ImagesOK'
  <1>1. f \in Files /\ t[f] \in Contents /\ (f = "history" => t[f] \in Histories)
    BY TreesAre DEF ImagesOK
  <1>2. tree' \in Trees
    BY <1>1, TreeUpdate DEF ImagesOK
  <1> QED
    BY <1>2 DEF ImagesOK

LEMMA ScriptImages ==
  ASSUME ImagesOK, NEW f \in todo, pc \in {"patch", "unlink", "ninja"}, NEW c \in Contents,
         tree' = [tree EXCEPT ![f] = c], todo' = todo \ {f},
         UNCHANGED <<settled, backup, memory, stage, pc, cont>>
  PROVE  ImagesOK'
  <1>1. f \in Files /\ f # "history"
    BY FileSets DEF ImagesOK
  <1>2. tree' \in Trees
    BY <1>1, TreeUpdate DEF ImagesOK
  <1> QED
    BY <1>2 DEF ImagesOK

LEMMA ImagesStep == ASSUME ImagesOK, Next PROVE ImagesOK'
  <1> USE LeaveImages, OnwardsImages
  <1>1. CASE \E s \in Stages : Start(s)
    BY <1>1 DEF Start, ImagesOK
  <1>2. CASE SweepDone
    BY <1>2 DEF SweepDone, Continue, Goto, ImagesOK
  <1>3. CASE SweepRename
    BY <1>3, BuildTreeIs DEF SweepRename, ImagesOK
  <1>4. CASE SweepRemove \/ SweepUnlink
    BY <1>4 DEF SweepRemove, SweepUnlink, ImagesOK
  <1>5. CASE Authorize \/ RestoreDone \/ BeginRoot \/ BeginJournal \/ WriteReceiptTemp
    BY <1>5 DEF Authorize, RestoreDone, BeginRoot, BeginJournal, WriteReceiptTemp, Goto
  <1>6. CASE Inspect
    BY <1>6, FileSets DEF Inspect, Goto, Restore, Discard, ImagesOK
  <1>7. CASE AcceptReceipt \/ ReceiptReturned
    BY <1>7 DEF AcceptReceipt, Discard, ReceiptReturned
  <1>8. CASE RejectReceipt
    <2>1. settled' \in Trees
      <3>1. backup[stage] \in Trees /\ tree \in Trees
        BY DEF ImagesOK
      <3> QED
        BY <1>8, <3>1, TreeMix DEF RejectReceipt
    <2> QED
      BY <1>8, <2>1, FileSets DEF RejectReceipt, Restore, ImagesOK
  <1>9. CASE RestoreItem
    BY <1>9, ItemImages DEF RestoreItem, ImagesOK
  <1>10. CASE Plan
    BY <1>10, FileSets DEF Plan, ImagesOK
  <1>11. CASE PlanRefused \/ RefuseRollback \/ Crash
    BY <1>11 DEF PlanRefused, RefuseRollback, Crash
  <1>12. CASE BeginBackup
    BY <1>12 DEF BeginBackup, Goto, ImagesOK
  <1>13. CASE BeginSeal
    BY <1>13, FileSets, LoopImages DEF BeginSeal, ImagesOK
  <1>14. CASE PatchSource
    <2>1. PostImage(stage) \in Contents
      BY DEF ImagesOK, PostImage, Contents, Images, Stages
    <2> QED
      BY <1>14, <2>1, ScriptImages DEF PatchSource
  <1>15. CASE Patched \/ Unlinked
    BY <1>15, FileSets, LoopImages DEF Patched, Unlinked, ImagesOK
  <1>16. CASE UnlinkPackage
    BY <1>16, ContentsAre, ScriptImages DEF UnlinkPackage, Images
  <1>17. CASE NinjaCopies
    <2>1. ASSUME NEW f \in todo PROVE tree[ScriptOf[f]] \in Contents
      BY <1>17, <2>1, FileSets, TreesAre DEF NinjaCopies, ImagesOK
    <2> QED
      BY <1>17, <2>1, ScriptImages DEF NinjaCopies
  <1>18. CASE NinjaRecords
    <2>1. tree' \in Trees
      BY <1>18, NewOne, ContentsAre, FileSets, TreeUpdate DEF NinjaRecords, ImagesOK
    <2> QED
      BY <1>18, <2>1 DEF NinjaRecords, Goto, ImagesOK
  <1>19. CASE LinkReceipt
    BY <1>19 DEF LinkReceipt, Goto, ImagesOK
  <1>20. CASE Commit
    BY <1>20 DEF Commit, Discard
  <1>21. CASE Retract
    <2>1. settled' \in Trees
      BY <1>21 DEF Retract, ImagesOK
    <2> QED
      BY <1>21, <2>1, FileSets DEF Retract, Loop, ImagesOK
  <1>22. CASE UndoItem
    BY <1>22, ItemImages DEF UndoItem, ImagesOK
  <1>23. CASE UndoHistoryTemp
    BY <1>23 DEF UndoHistoryTemp, Goto
  <1>24. CASE UndoHistory
    <2>1. tree' \in Trees
      BY <1>24, FileSets, TreesAre, TreeUpdate DEF UndoHistory, ImagesOK
    <2> QED
      BY <1>24, <2>1, FileSets DEF UndoHistory, Restore, ImagesOK
  <1>25. CASE Fault \/ CheckFails \/ CommitRefused
    BY <1>25, RaiseImages DEF Fault, CheckFails, CommitRefused
  <1> QED
    BY <1>1, <1>2, <1>3, <1>4, <1>5, <1>6, <1>7, <1>8, <1>9, <1>10, <1>11, <1>12, <1>13, <1>14,
       <1>15, <1>16, <1>17, <1>18, <1>19, <1>20, <1>21, <1>22, <1>23, <1>24, <1>25 DEF Next, Step

-----------------------------------------------------------------------------
(* Everything else. *)

Holdings == SUBSET {"root", "backups", "journal", "sealed"}

DiskOK ==
    /\ alias \in BOOLEAN /\ owned \in BOOLEAN
    /\ receipt \in [Stages -> Receipts] /\ root \in [Stages -> Holdings]
    /\ marker \subseteq Stages /\ tombstone \subseteq Stages /\ accepted \subseteq Stages
    /\ leftover \subseteq {"history"} \cup Stages

FoundOK == found \in [source : FileStates, package : FileStates]
BoundsOK == crashes \in 0 .. MaxCrashes /\ faults \in 0 .. MaxFaults
PointOK ==
    pc \in {"idle", "sweep", "authorize", "inspect", "accept", "restore", "plan", "mkdir",
            "backup", "journal", "seal", "patch", "unlink", "ninja", "check", "link",
            "linked", "validate", "retract", "undo", "undoHistory"}

LEMMA DiskSame ==
  ASSUME DiskOK, UNCHANGED <<alias, receipt, root, marker, tombstone, accepted, leftover>>,
         owned' \in {owned, TRUE, FALSE}
  PROVE  DiskOK'
  BY DEF DiskOK

LEMMA LeaveOwned ==
  /\ Leave => owned' = FALSE
  /\ (\E l : Goto(l) \/ Restore(l) \/ Discard(l) \/ \E S : Loop(l, S)) => owned' = owned
  BY DEF Leave, Goto, Restore, Discard, Loop

LEMMA DiskStep == ASSUME DiskOK, ImagesOK, FoundOK, Next PROVE DiskOK'
  <1> USE LeaveOwned, DiskSame
  <1>1. CASE \E s \in Stages : Start(s)
    BY <1>1 DEF Start
  <1>2. CASE SweepDone \/ RestoreDone \/ Inspect \/ PlanRefused
    BY <1>2 DEF SweepDone, Continue, RestoreDone, Inspect, PlanRefused
  <1>3. CASE SweepRename \/ SweepRemove \/ SweepUnlink \/ Authorize
    BY <1>3 DEF SweepRename, SweepRemove, SweepUnlink, Authorize, Goto, DiskOK, ImagesOK, Holdings
  <1>4. CASE AcceptReceipt \/ Commit
    BY <1>4 DEF AcceptReceipt, Commit, DiskOK, ImagesOK
  <1>5. CASE RejectReceipt \/ Retract
    <2>1. NoReceipt \in Receipts
      BY DEF Receipts
    <2> QED
      BY <1>5, <2>1 DEF RejectReceipt, Retract, DiskOK, ImagesOK
  <1>6. CASE RestoreItem \/ PatchSource \/ UnlinkPackage \/ NinjaCopies \/ UndoItem
    BY <1>6 DEF RestoreItem, PatchSource, UnlinkPackage, NinjaCopies, UndoItem
  <1>7. CASE Plan
    BY <1>7 DEF Plan, DiskOK, Stages
  <1>8. CASE BeginRoot \/ BeginBackup \/ BeginJournal \/ BeginSeal
    <2>1. root[stage] \in Holdings
      BY DEF DiskOK, ImagesOK
    <2>2. \E h \in Holdings : root' = [root EXCEPT ![stage] = h]
      BY <1>8, <2>1 DEF BeginRoot, BeginBackup, BeginJournal, BeginSeal, Holdings
    <2>3. root' \in [Stages -> Holdings]
      BY <2>2 DEF DiskOK
    <2> QED
      BY <1>8, <2>3 DEF BeginRoot, BeginBackup, BeginJournal, BeginSeal, DiskOK
  <1>9. CASE Patched \/ Unlinked \/ NinjaRecords
    BY <1>9 DEF Patched, Unlinked, NinjaRecords
  <1>10. CASE WriteReceiptTemp \/ ReceiptReturned
    BY <1>10 DEF WriteReceiptTemp, ReceiptReturned, DiskOK, ImagesOK
  <1>11. CASE LinkReceipt
    <2>1. found.source \in FileStates /\ memory["history"] \in Histories /\ tree["history"] \in Histories
      BY TreesAre DEF FoundOK, ImagesOK
    <2>2. [found |-> found.source, before |-> memory["history"], after |-> tree["history"]] \in Receipts
      BY <2>1 DEF Receipts
    <2> QED
      BY <1>11, <2>2 DEF LinkReceipt, DiskOK, ImagesOK
  <1>12. CASE RefuseRollback \/ Crash
    BY <1>12 DEF RefuseRollback, Crash
  <1>13. CASE UndoHistoryTemp \/ UndoHistory
    BY <1>13 DEF UndoHistoryTemp, UndoHistory, DiskOK
  <1>14. CASE Fault \/ CheckFails \/ CommitRefused
    BY <1>14 DEF Fault, CheckFails, CommitRefused, Raise
  <1> QED
    BY <1>1, <1>2, <1>3, <1>4, <1>5, <1>6, <1>7, <1>8, <1>9, <1>10, <1>11, <1>12, <1>13, <1>14
       DEF Next, Step

LEMMA StatesAre == ASSUME NEW s, NEW S PROVE StateOf(s, S) \in FileStates
  BY DEF StateOf, FileStates

LEMMA FoundStep == ASSUME FoundOK, Next PROVE FoundOK'
  <1>1. CASE Plan
    BY <1>1, StatesAre DEF Plan, FoundOK
  <1>2. CASE UNCHANGED found
    BY <1>2 DEF FoundOK
  <1>3. CASE Leave
    BY <1>3 DEF Leave, FoundOK, FileStates
  <1>4. ASSUME NEW l, NEW S, Goto(l) \/ Restore(l) \/ Discard(l) \/ Loop(l, S)
        PROVE  UNCHANGED found
    BY <1>4 DEF Goto, Restore, Discard, Loop
  <1> QED
    BY <1>1, <1>2, <1>3, <1>4
       DEF Next, Step, Start, SweepDone, Continue, SweepRename, SweepRemove, SweepUnlink, Authorize,
           Inspect, AcceptReceipt, RejectReceipt, RestoreItem, RestoreDone, PlanRefused, BeginRoot,
           BeginBackup, BeginJournal, BeginSeal, PatchSource, Patched, UnlinkPackage, Unlinked,
           NinjaCopies, NinjaRecords, WriteReceiptTemp, LinkReceipt, ReceiptReturned, Commit,
           Retract, RefuseRollback, UndoItem, UndoHistoryTemp, UndoHistory, CheckFails,
           CommitRefused, Fault, Crash, Raise

LEMMA PointStep == ASSUME PointOK, ImagesOK, Next PROVE PointOK'
  <1>1. CASE UNCHANGED pc
    BY <1>1 DEF PointOK
  <1>2. CASE Leave
    BY <1>2 DEF Leave, PointOK
  <1>3. ASSUME NEW l, NEW S, Goto(l) \/ Loop(l, S), l \in {"inspect", "sweep", "authorize", "accept", "plan",
            "backup", "journal", "seal", "patch", "unlink", "ninja", "check", "link",
            "linked", "validate", "retract", "undo", "undoHistory"}
        PROVE  PointOK'
    <2>1. pc' = l
      BY <1>3 DEF Goto, Loop
    <2> QED
      BY <1>3, <2>1 DEF PointOK
  <1>4. ASSUME NEW l, Discard(l) \/ Restore(l) PROVE PointOK'
    BY <1>4 DEF Discard, Restore, PointOK
  <1>5. CASE pc' \in {"sweep", "plan", "mkdir", "patch", "validate"}
    BY <1>5 DEF PointOK
  <1>6. CASE Start(stage) \/ \E s \in Stages : Start(s)
    BY <1>5, <1>6 DEF Start
  <1>7. CASE Plan \/ ReceiptReturned
    BY <1>5, <1>7 DEF Plan, ReceiptReturned
  <1>8. CASE SweepDone \/ Authorize \/ Inspect \/ AcceptReceipt \/ RejectReceipt \/ RestoreDone \/ PlanRefused
    BY <1>2, <1>3, <1>4, <1>8
       DEF SweepDone, Continue, ImagesOK, Authorize, Inspect, AcceptReceipt, RejectReceipt, RestoreDone, PlanRefused
  <1>9. CASE BeginRoot \/ BeginBackup \/ BeginJournal \/ BeginSeal \/ Patched \/ Unlinked \/ NinjaRecords
    BY <1>3, <1>9 DEF BeginRoot, BeginBackup, BeginJournal, BeginSeal, Patched, Unlinked, NinjaRecords
  <1>10. CASE WriteReceiptTemp \/ LinkReceipt \/ Commit \/ Retract \/ RefuseRollback \/ UndoHistoryTemp \/ UndoHistory
    BY <1>2, <1>3, <1>4, <1>10
       DEF WriteReceiptTemp, LinkReceipt, Commit, Retract, RefuseRollback, UndoHistoryTemp, UndoHistory
  <1>11. CASE CheckFails \/ CommitRefused \/ Fault \/ Crash
    BY <1>2, <1>3, <1>4, <1>11 DEF CheckFails, CommitRefused, Fault, Crash, Raise
  <1> QED
    BY <1>1, <1>6, <1>7, <1>8, <1>9, <1>10, <1>11
       DEF Next, Step, SweepRename, SweepRemove, SweepUnlink, RestoreItem, PatchSource,
           UnlinkPackage, NinjaCopies, UndoItem

LEMMA BoundsStep == ASSUME BoundsOK, Next PROVE BoundsOK'
  <1>1. CASE UNCHANGED crashes /\ (UNCHANGED faults \/ SpendFault)
    BY <1>1 DEF BoundsOK, SpendFault
  <1>2. CASE Crash
    BY <1>2 DEF Crash, BoundsOK
  <1> QED
    BY <1>1, <1>2
       DEF Next, Step, Start, SweepDone, SweepRename, SweepRemove, SweepUnlink, Authorize, Inspect,
           AcceptReceipt, RejectReceipt, RestoreItem, RestoreDone, Plan, PlanRefused, BeginRoot,
           BeginBackup, BeginJournal, BeginSeal, PatchSource, Patched, UnlinkPackage, Unlinked,
           NinjaCopies, NinjaRecords, WriteReceiptTemp, LinkReceipt, ReceiptReturned, Commit,
           Retract, RefuseRollback, UndoItem, UndoHistoryTemp, UndoHistory, CheckFails,
           CommitRefused, Fault, Passes, Fails

TypeInv == ImagesOK /\ DiskOK /\ FoundOK /\ PointOK /\ BoundsOK

LEMMA TypeInit == Init => TypeInv
  <1> SUFFICES ASSUME Init PROVE TypeInv
    OBVIOUS
  <1>1. ImagesOK
    BY BuildTreeIs DEF Init, ImagesOK, Stages
  <1>2. DiskOK
    BY DEF Init, DiskOK, Receipts, Holdings
  <1>3. FoundOK /\ PointOK /\ BoundsOK
    BY DEF Init, FoundOK, FileStates, PointOK, BoundsOK
  <1> QED
    BY <1>1, <1>2, <1>3 DEF TypeInv

LEMMA TypeNext == TypeInv /\ [Next]_vars => TypeInv'
  <1>1. CASE Next
    BY <1>1, ImagesStep, DiskStep, FoundStep, PointStep, BoundsStep DEF TypeInv
  <1>2. CASE UNCHANGED vars
    BY <1>2 DEF vars, TypeInv, ImagesOK, DiskOK, FoundOK, PointOK, BoundsOK
  <1> QED
    BY <1>1, <1>2

(* Every variable keeps its type.                                           *)
THEOREM SigningTypes == Spec => []SigningTypeOK
  <1>1. TypeInv => SigningTypeOK
    <2> SUFFICES ASSUME TypeInv PROVE SigningTypeOK
      OBVIOUS
    <2>1. /\ tree \in [Files -> Contents] /\ memory \in [Files -> Contents]
          /\ settled \in [Files -> Contents] /\ backup \in [Stages -> [Files -> Contents]]
      BY TreesAre DEF TypeInv, ImagesOK
    <2>2. PointOK /\ FoundOK /\ BoundsOK /\ DiskOK
      BY DEF TypeInv
    <2>3. stage \in Stages /\ todo \subseteq Files /\ cont \in {"inspect", "plan", "end"}
      BY DEF TypeInv, ImagesOK
    <2> QED
      BY <2>1, <2>2, <2>3 DEF SigningTypeOK, PointOK, FoundOK, BoundsOK, DiskOK, Holdings
  <1> QED
    BY <1>1, TypeInit, TypeNext, PTL DEF Spec

-----------------------------------------------------------------------------
(* Recoverability on an aliased build.  A stage has a transaction open from *)
(* the seal of its journal to its receipt; as long as the other stage is   *)
(* recovered first, at most one root exists.                               *)

Open(s) == "sealed" \in root[s] /\ ~Published(s)
Busy(s) == root[s] # {} \/ s \in tombstone
Clean == tree = settled

(* The backups of s, and what s never touches, are the last settled state.  *)
Held(s) ==
    \A f \in Files : IF f \in Targets(s) THEN backup[s][f] = settled[f] ELSE tree[f] = settled[f]

(* The state of the stage that runs. *)
Local ==
    /\ Open(stage) => Held(stage)
    /\ ~Open(stage) => Clean
    /\ stage \in marker /\ Busy(stage) => Clean
    /\ pc = "authorize" => Clean

Others == \A s \in Stages \ {stage} : root[s] = {} /\ s \notin tombstone

Marks ==
    /\ tombstone \subseteq marker
    /\ pc \notin {"idle", "sweep"} => stage \notin marker
    /\ \A s \in Stages : "sealed" \in root[s] => "journal" \in root[s]

(* The process's own copies agree with the backups. *)
Copied ==
    \A f \in Files : IF f \in Targets(stage) THEN backup[stage][f] = memory[f] ELSE tree[f] = memory[f]

PutBack == \A f \in Targets(stage) \ todo : tree[f] = settled[f]

Undoing == {"undo", "undoHistory"}

Position ==
    /\ pc = "backup" => root[stage] = {"root"}
    /\ pc = "journal" => root[stage] = {"root", "backups"}
    /\ pc = "seal" => root[stage] = {"root", "backups", "journal"}
    /\ pc \in BeginPoints \cup {"mkdir"} => memory = tree /\ ~Published(stage)
    /\ pc \in {"journal", "seal"} => backup[stage] = tree
    /\ pc \in ExecutePoints \cup {"retract", "restore"} \cup Undoing => "sealed" \in root[stage]
    /\ pc \in {"patch", "unlink", "ninja", "check", "link", "restore"} \cup Undoing =>
         ~Published(stage)
    /\ pc \in ExecutePoints \cup {"retract"} => Copied
    /\ pc \in {"patch", "unlink", "ninja", "undo", "restore"} => todo \subseteq Targets(stage)
    /\ pc = "restore" => PutBack

Running == TypeInv /\ alias /\ Local /\ Others /\ Marks /\ Position

(* A step that leaves the disk alone. *)
LEMMA QuietStep ==
  ASSUME Running, UNCHANGED <<tree, receipt, root, backup, marker, tombstone, settled, stage>>
  PROVE  /\ Others'
         /\ (pc' = "authorize" => Clean) => Local'
         /\ pc' \in {"idle", "sweep"} \/ stage \notin marker => Marks'
         /\ Open(stage)' = Open(stage) /\ Clean' = Clean
         /\ UNCHANGED memory => Copied' = Copied
  BY DEF Running, Local, Others, Marks, Open, Busy, Clean, Held, Published, Copied

LEMMA QuietIdle ==
  ASSUME Running, UNCHANGED <<tree, receipt, root, backup, marker, tombstone, settled>>, Leave
  PROVE  Local' /\ Others' /\ Marks' /\ Position'
  <1>1. pc' = "idle" /\ stage' = stage
    BY DEF Leave
  <1>2. Local' /\ Others' /\ Marks'
    BY <1>1, QuietStep
  <1>3. Position'
    BY <1>1 DEF Position, BeginPoints, ExecutePoints, Undoing
  <1> QED
    BY <1>2, <1>3

LEMMA QuietGoto ==
  ASSUME Running, UNCHANGED <<tree, receipt, root, backup, marker, tombstone, settled, stage>>,
         stage \notin marker, pc' \in {"inspect", "accept", "plan"}
  PROVE  Local' /\ Others' /\ Marks' /\ Position'
  <1>1. Local' /\ Others' /\ Marks'
    BY QuietStep
  <1>2. Position'
    BY DEF Position, BeginPoints, ExecutePoints, Undoing
  <1> QED
    BY <1>1, <1>2

(* The discard condemns a root that is not needed any more. *)
LEMMA QuietDiscard ==
  ASSUME Running, UNCHANGED <<tree, receipt, root, backup, marker, tombstone, settled>>,
         NEW l, Discard(l), Clean, pc \notin {"idle", "sweep"}
  PROVE  Local' /\ Others' /\ Marks' /\ Position'
  <1>1. pc' = "authorize" /\ stage' = stage
    BY DEF Discard
  <1>2. stage \notin marker
    BY DEF Running, Marks
  <1>3. Local' /\ Others' /\ Marks'
    BY <1>1, <1>2, QuietStep
  <1>4. Position'
    BY <1>1 DEF Position, BeginPoints, ExecutePoints, Undoing
  <1> QED
    BY <1>3, <1>4

Safe == Local /\ Others /\ Marks /\ Position

LEMMA SweepSafe ==
  ASSUME Running, SweepDone \/ SweepRename \/ SweepRemove \/ SweepUnlink \/ Authorize
  PROVE  Safe'
  <1> USE DEF Safe
  <1>1. CASE SweepDone
    <2>1. CASE cont = "end"
      BY <1>1, <2>1, QuietIdle DEF SweepDone, Continue
    <2>2. CASE cont # "end"
      BY <1>1, <2>2, QuietGoto DEF SweepDone, Continue, Goto, Running, TypeInv, ImagesOK
    <2> QED
      BY <2>1, <2>2
  <1>2. CASE SweepRename \/ SweepRemove \/ SweepUnlink
    <2>1. pc = "sweep" /\ pc' = "sweep" /\ UNCHANGED <<stage, tree, settled, receipt>>
      BY <1>2 DEF SweepRename, SweepRemove, SweepUnlink
    <2>2. Position'
      BY <2>1 DEF Position, BeginPoints, ExecutePoints, Undoing
    <2>3. CASE SweepRename
      <3>1. Clean /\ stage \in Stages
        BY <2>3 DEF SweepRename, Running, Local, Busy, TypeInv, ImagesOK
      <3>2. root'[stage] = {} /\ \A s \in Stages \ {stage} : root'[s] = root[s]
        BY <2>3, <3>1 DEF SweepRename, Running, TypeInv, DiskOK
      <3>3. Others' /\ Marks'
        BY <2>1, <2>3, <3>2 DEF SweepRename, Running, Others, Marks
      <3>4. Local'
        BY <2>1, <3>1, <3>2 DEF Local, Clean, Open
      <3> QED
        BY <2>2, <3>3, <3>4
    <2>4. CASE SweepRemove \/ SweepUnlink
      <3>1. Others' /\ Marks'
        BY <2>1, <2>4 DEF SweepRemove, SweepUnlink, Running, Others, Marks
      <3>2. root[stage] = {} /\ UNCHANGED root
        BY <2>4 DEF SweepRemove, SweepUnlink
      <3>3. Clean
        BY <3>2 DEF Running, Local, Open
      <3>4. Local'
        BY <2>1, <3>2, <3>3 DEF Local, Clean, Open
      <3> QED
        BY <2>2, <3>1, <3>4
    <2> QED
      BY <1>2, <2>3, <2>4
  <1>3. CASE Authorize
    <2>1. pc' = "sweep" /\ UNCHANGED <<stage, tree, settled, receipt, root, backup, tombstone>> /\ Clean
      BY <1>3 DEF Authorize, Goto, Running, Local
    <2>2. Position'
      BY <2>1 DEF Position, BeginPoints, ExecutePoints, Undoing
    <2>3. Others' /\ Marks'
      BY <1>3, <2>1 DEF Authorize, Running, Others, Marks
    <2>4. Local'
      BY <2>1 DEF Running, Local, Clean, Open, Held, Published
    <2> QED
      BY <2>2, <2>3, <2>4
  <1> QED
    BY <1>1, <1>2, <1>3

LEMMA RecoverySafe ==
  ASSUME Running, Inspect \/ AcceptReceipt \/ RejectReceipt \/ RestoreItem \/ RestoreDone
  PROVE  Safe'
  <1> USE DEF Safe
  <1>0. stage \in Stages /\ Targets(stage) \subseteq Files /\ stage \notin marker
    BY FileSets DEF Running, TypeInv, ImagesOK, Marks, Inspect, AcceptReceipt, RejectReceipt,
                    RestoreItem, RestoreDone
  <1>1. CASE Inspect
    <2>1. CASE Goto("plan") \/ Goto("accept")
      BY <1>0, <1>1, <2>1, QuietGoto DEF Inspect, Goto
    <2>2. CASE Restore("plan") /\ Open(stage)
      <3>1. pc' = "restore" /\ todo' = Targets(stage) /\ stage' = stage
        BY <2>2 DEF Restore
      <3>2. Local' /\ Others' /\ Marks'
        BY <1>0, <1>1, <3>1, QuietStep DEF Inspect
      <3>3. Position'
        BY <1>1, <2>2, <3>1 DEF Inspect, Position, Open, Published, PutBack, BeginPoints, ExecutePoints, Undoing
      <3> QED
        BY <3>2, <3>3
    <2>3. CASE Discard("plan") /\ ~Open(stage)
      BY <1>1, <2>3, QuietDiscard DEF Inspect, Running, Local
    <2> QED
      BY <1>1, <2>1, <2>2, <2>3 DEF Inspect, Open
  <1>2. CASE AcceptReceipt
    <2>1. Published(stage)
      BY <1>2 DEF AcceptReceipt, Passes, Valid, SwiftShaderValid, AdhocValid, Running, TypeInv, ImagesOK, Stages
    <2>2. Clean
      BY <2>1 DEF Running, Local, Open
    <2> QED
      BY <1>2, <2>2, QuietDiscard DEF AcceptReceipt
  <1>3. CASE RejectReceipt
    <2>1. pc' = "restore" /\ todo' = Targets(stage) /\ UNCHANGED <<stage, tree, root, backup, marker, tombstone>>
      BY <1>3 DEF RejectReceipt, Restore
    <2>2. receipt'[stage] = NoReceipt /\ "sealed" \in root[stage]
      BY <1>0, <1>3 DEF RejectReceipt, Running, TypeInv, DiskOK
    <2>3. Held(stage)'
      BY <1>0, <1>3, <2>1 DEF RejectReceipt, Held
    <2>4. Local'
      BY <1>0, <2>1, <2>2, <2>3 DEF Local, Open, Published
    <2>5. Others' /\ Marks'
      BY <1>0, <2>1 DEF Running, Others, Marks
    <2>6. Position'
      BY <2>1, <2>2 DEF Position, Published, PutBack, BeginPoints, ExecutePoints, Undoing
    <2> QED
      BY <2>4, <2>5, <2>6
  <1>4. CASE RestoreItem
    <2>1. PICK f \in todo : tree' = [tree EXCEPT ![f] = backup[stage][f]] /\ todo' = todo \ {f}
      BY <1>4 DEF RestoreItem
    <2>2. UNCHANGED <<receipt, root, backup, marker, tombstone, stage, pc, settled>> /\ pc = "restore"
      BY <1>4 DEF RestoreItem
    <2>3. "sealed" \in root[stage] /\ ~Published(stage) /\ PutBack
      BY <2>2 DEF Running, Position
    <2>4. Held(stage) /\ Open(stage)
      BY <2>3 DEF Running, Local, Open
    <2>5. \A g \in Files : tree'[g] = IF g = f THEN backup[stage][f] ELSE tree[g]
      BY <2>1, TreesAre DEF Running, TypeInv, ImagesOK
    <2>6. f \in Files
      BY <2>1 DEF Running, TypeInv, ImagesOK
    <2>7. Held(stage)'
      <3>1. f \in Targets(stage)
        BY <2>1, <2>2 DEF Running, Position
      <3> QED
        BY <2>2, <2>4, <2>5, <3>1 DEF Held
    <2>8. PutBack'
      BY <1>0, <2>1, <2>2, <2>3, <2>4, <2>5 DEF PutBack, Held
    <2>9. Local' /\ Others' /\ Marks'
      BY <1>0, <2>2, <2>4, <2>7 DEF Running, Local, Others, Marks, Open, Published
    <2>10. Position'
      BY <2>1, <2>2, <2>3, <2>8 DEF Running, Position, Published, BeginPoints, ExecutePoints, Undoing
    <2> QED
      BY <2>9, <2>10
  <1>5. CASE RestoreDone
    <2>1. "sealed" \in root[stage] /\ ~Published(stage) /\ PutBack /\ todo = {}
      BY <1>5 DEF RestoreDone, Running, Position
    <2>2. Held(stage)
      BY <2>1 DEF Running, Local, Open
    <2>3. Clean
      <3>1. \A f \in Files : tree[f] = settled[f]
        BY <2>1, <2>2 DEF Held, PutBack
      <3> QED
        BY <3>1, TreesAre DEF Clean, Running, TypeInv, ImagesOK
    <2>4. pc' = "authorize" /\ stage' = stage
      BY <1>5 DEF RestoreDone, Goto
    <2>5. Local' /\ Others' /\ Marks'
      BY <1>0, <1>5, <2>3, <2>4, QuietStep DEF RestoreDone
    <2>6. Position'
      BY <2>4 DEF Position, BeginPoints, ExecutePoints, Undoing
    <2> QED
      BY <2>5, <2>6
  <1> QED
    BY <1>1, <1>2, <1>3, <1>4, <1>5

LEMMA BeginSafe ==
  ASSUME Running, Plan \/ PlanRefused \/ BeginRoot \/ BeginBackup \/ BeginJournal \/ BeginSeal
  PROVE  Safe'
  <1> USE DEF Safe
  <1>0. stage \in Stages /\ stage \notin marker
    BY DEF Running, TypeInv, ImagesOK, Marks, Plan, PlanRefused, BeginRoot, BeginBackup, BeginJournal,
           BeginSeal
  <1>1. CASE PlanRefused
    BY <1>1, QuietIdle DEF PlanRefused
  <1>2. CASE Plan
    <2>1. pc' = "mkdir" /\ memory' = tree /\ stage' = stage /\ ~Published(stage)
      BY <1>2 DEF Plan, PlanHolds, Running
    <2>2. Local' /\ Others' /\ Marks'
      BY <1>0, <1>2, <2>1, QuietStep DEF Plan
    <2>3. Position'
      BY <1>2, <2>1 DEF Plan, Position, Published, BeginPoints, ExecutePoints, Undoing
    <2> QED
      BY <2>2, <2>3
  <1>3. CASE BeginRoot \/ BeginBackup \/ BeginJournal \/ BeginSeal
    <2>1. UNCHANGED <<stage, tree, receipt, marker, tombstone, settled, memory>>
      BY <1>3 DEF BeginRoot, BeginBackup, BeginJournal, BeginSeal, Goto, Loop
    <2>2. memory = tree /\ ~Published(stage)
      BY <1>3 DEF BeginRoot, BeginBackup, BeginJournal, BeginSeal, Running, Position, BeginPoints
    <2>3. ~Open(stage)
      <3>1. \/ root[stage] = {} \/ root[stage] = {"root"} \/ root[stage] = {"root", "backups"}
            \/ root[stage] = {"root", "backups", "journal"}
        BY <1>3 DEF BeginRoot, BeginBackup, BeginJournal, BeginSeal, Running, Position
      <3> QED
        BY <3>1 DEF Open
    <2>4. Clean
      BY <2>3 DEF Running, Local
    <2>5. \A s \in Stages \ {stage} : root'[s] = root[s]
      BY <1>3 DEF BeginRoot, BeginBackup, BeginJournal, BeginSeal, Running, TypeInv, DiskOK
    <2>6. Others'
      BY <2>1, <2>5 DEF Running, Others
    <2>7. CASE BeginRoot \/ BeginBackup \/ BeginJournal
      <3>1. \/ BeginRoot /\ pc' = "backup" /\ root'[stage] = {"root"}
            \/ /\ BeginBackup /\ pc' = "journal" /\ root'[stage] = {"root", "backups"}
               /\ backup'[stage] = tree
            \/ /\ BeginJournal /\ pc' = "seal" /\ root'[stage] = {"root", "backups", "journal"}
               /\ backup'[stage] = tree
        <4>0. root \in [Stages -> Holdings] /\ backup \in [Stages -> Trees]
          BY DEF Running, TypeInv, DiskOK, ImagesOK
        <4>1. CASE BeginRoot
          BY <1>0, <4>0, <4>1 DEF BeginRoot, Goto
        <4>2. CASE BeginBackup
          <5>1. root[stage] = {"root"}
            BY <4>2 DEF BeginBackup, Running, Position
          <5> QED
            BY <1>0, <4>0, <4>2, <5>1 DEF BeginBackup, Goto
        <4>3. CASE BeginJournal
          <5>1. root[stage] = {"root", "backups"} /\ backup[stage] = tree
            BY <4>3 DEF BeginJournal, Running, Position
          <5> QED
            BY <1>0, <4>0, <4>3, <5>1 DEF BeginJournal, Goto
        <4> QED
          BY <2>7, <4>1, <4>2, <4>3
      <3>2. "sealed" \notin root'[stage] /\ pc' \in BeginPoints
        BY <3>1 DEF BeginPoints
      <3>3. Marks'
        BY <1>0, <2>1, <2>5, <3>2 DEF Running, Marks
      <3>4. Local'
        BY <2>1, <2>4, <3>2 DEF Local, Open, Clean, BeginPoints
      <3>5. Position'
        BY <2>1, <2>2, <3>1 DEF Position, Published, BeginPoints, ExecutePoints, Undoing
      <3> QED
        BY <2>6, <3>3, <3>4, <3>5
    <2>8. CASE BeginSeal
      <3>1. pc' = "patch" /\ todo' = Sources(stage) /\ UNCHANGED backup
        BY <2>8 DEF BeginSeal, Loop
      <3>2. root'[stage] = {"root", "backups", "journal", "sealed"} /\ backup[stage] = tree
        BY <1>0, <2>8 DEF BeginSeal, Running, Position, TypeInv, DiskOK
      <3>3. Held(stage)' /\ Copied'
        BY <2>1, <2>2, <2>4, <3>1, <3>2 DEF Held, Copied, Clean
      <3>4. Marks'
        BY <1>0, <2>1, <2>5, <3>2 DEF Running, Marks
      <3>5. Local'
        BY <1>0, <2>1, <2>2, <3>1, <3>2, <3>3 DEF Local, Open, Published
      <3>6. Position'
        BY <1>0, <2>1, <2>2, <3>1, <3>2, <3>3, FileSets DEF Position, Published, BeginPoints, ExecutePoints, Undoing
      <3> QED
        BY <2>6, <3>4, <3>5, <3>6
    <2> QED
      BY <1>3, <2>7, <2>8
  <1> QED
    BY <1>1, <1>2, <1>3

(* A target of the open stage changes. *)
LEMMA TargetStep ==
  ASSUME Running, NEW f \in Targets(stage), NEW c, tree' = [tree EXCEPT ![f] = c], Open(stage),
         UNCHANGED <<receipt, root, backup, marker, tombstone, stage, settled, memory>>,
         stage \notin marker, pc' # "authorize"
  PROVE  Local' /\ Others' /\ Marks' /\ (Copied => Copied')
  <1>1. \A g \in Files : g \notin Targets(stage) => tree'[g] = tree[g]
    BY TreesAre DEF Running, TypeInv, ImagesOK
  <1>2. Held(stage)'
    BY <1>1 DEF Running, Local, Held
  <1>3. Local' /\ Others' /\ Marks'
    BY <1>2 DEF Running, Local, Others, Marks, Open, Published
  <1>4. Copied => Copied'
    BY <1>1 DEF Copied
  <1> QED
    BY <1>3, <1>4

LEMMA ExecuteSafe ==
  ASSUME Running,
         \/ PatchSource \/ Patched \/ UnlinkPackage \/ Unlinked \/ NinjaCopies \/ NinjaRecords
         \/ WriteReceiptTemp
  PROVE  Safe'
  <1> USE DEF Safe
  <1>0. stage \in Stages /\ stage \notin marker /\ Open(stage) /\ Copied /\ "sealed" \in root[stage]
        /\ pc \in {"patch", "unlink", "ninja", "check"} /\ ~Published(stage)
    BY DEF Running, TypeInv, ImagesOK, Marks, Position, Open, ExecutePoints, PatchSource, Patched,
           UnlinkPackage, Unlinked, NinjaCopies, NinjaRecords, WriteReceiptTemp
  <1>1. CASE PatchSource \/ UnlinkPackage \/ NinjaCopies
    <2>1. PICK f \in todo : \E c : tree' = [tree EXCEPT ![f] = c] /\ todo' = todo \ {f}
      BY <1>1 DEF PatchSource, UnlinkPackage, NinjaCopies
    <2>2. UNCHANGED <<receipt, root, backup, marker, tombstone, stage, settled, memory, pc>>
            /\ pc \in {"patch", "unlink", "ninja"}
      BY <1>1 DEF PatchSource, UnlinkPackage, NinjaCopies
    <2>3. todo \subseteq Targets(stage)
      BY <2>2 DEF Running, Position
    <2>4. Local' /\ Others' /\ Marks' /\ Copied'
      BY <1>0, <2>1, <2>2, <2>3, TargetStep
    <2>5. Position'
      BY <1>0, <2>1, <2>2, <2>3, <2>4 DEF Position, Published, BeginPoints, ExecutePoints, Undoing
    <2> QED
      BY <2>4, <2>5
  <1>2. CASE NinjaRecords
    <2>1. UNCHANGED <<receipt, root, backup, marker, tombstone, stage, settled, memory>> /\ pc' = "check"
      BY <1>2 DEF NinjaRecords, Goto
    <2>2. Local' /\ Others' /\ Marks' /\ Copied'
      BY <1>0, <1>2, <2>1, FileSets, TargetStep DEF NinjaRecords
    <2>3. Position'
      BY <1>0, <2>1, <2>2 DEF Position, Published, BeginPoints, ExecutePoints, Undoing
    <2> QED
      BY <2>2, <2>3
  <1>3. CASE Patched \/ Unlinked \/ WriteReceiptTemp
    <2>1. UNCHANGED <<tree, receipt, root, backup, marker, tombstone, stage, settled, memory>>
          /\ \/ pc' \in {"unlink", "ninja"} /\ todo' = Packages(stage)
             \/ pc' \in {"check", "link"}
      BY <1>3 DEF Patched, Unlinked, WriteReceiptTemp, Goto, Loop
    <2>2. Local' /\ Others' /\ Marks' /\ Copied'
      BY <1>0, <2>1, QuietStep
    <2>3. Position'
      BY <1>0, <2>1, <2>2, FileSets DEF Position, Published, BeginPoints, ExecutePoints, Undoing
    <2> QED
      BY <2>2, <2>3
  <1> QED
    BY <1>1, <1>2, <1>3

LEMMA PublishSafe ==
  ASSUME Running, LinkReceipt \/ ReceiptReturned \/ Commit
  PROVE  Safe'
  <1> USE DEF Safe
  <1>0. /\ stage \in Stages /\ stage \notin marker /\ Copied /\ "sealed" \in root[stage]
        /\ pc \notin {"idle", "sweep"}
    BY DEF Running, TypeInv, ImagesOK, Marks, Position, ExecutePoints, LinkReceipt, ReceiptReturned, Commit
  <1>1. CASE LinkReceipt
    <2>1. UNCHANGED <<tree, root, backup, marker, tombstone, stage, memory>> /\ pc' = "linked"
          /\ settled' = tree
      BY <1>1 DEF LinkReceipt, Goto
    <2>2. receipt'[stage].found \in FileStates
      BY <1>0, <1>1 DEF LinkReceipt, Running, TypeInv, DiskOK, FoundOK
    <2>3. receipt'[stage] # NoReceipt
      BY <2>2 DEF NoReceipt, FileStates
    <2>4. Local'
      BY <2>1, <2>3 DEF Local, Open, Published, Clean
    <2>5. Others' /\ Marks' /\ Copied'
      BY <1>0, <2>1 DEF Running, Others, Marks, Copied
    <2>6. Position'
      BY <1>0, <2>1, <2>5 DEF Position, BeginPoints, ExecutePoints, Undoing
    <2> QED
      BY <2>4, <2>5, <2>6
  <1>2. CASE ReceiptReturned
    <2>1. UNCHANGED <<tree, receipt, root, backup, marker, tombstone, settled, stage, memory>>
          /\ pc' = "validate"
      BY <1>2 DEF ReceiptReturned
    <2>2. Local' /\ Others' /\ Marks' /\ Copied'
      BY <1>0, <2>1, QuietStep
    <2>3. Position'
      BY <1>0, <2>1, <2>2 DEF Position, BeginPoints, ExecutePoints, Undoing
    <2> QED
      BY <2>2, <2>3
  <1>3. CASE Commit
    <2>1. Published(stage)
      BY <1>0, <1>3 DEF Commit, Passes, Valid, SwiftShaderValid, AdhocValid, Stages
    <2>2. Clean
      BY <2>1 DEF Running, Local, Open
    <2> QED
      BY <1>0, <1>3, <2>2, QuietDiscard DEF Commit, Running
  <1> QED
    BY <1>1, <1>2, <1>3

LEMMA UndoSafe ==
  ASSUME Running, Retract \/ RefuseRollback \/ UndoItem \/ UndoHistoryTemp \/ UndoHistory
  PROVE  Safe'
  <1> USE DEF Safe
  <1>0. stage \in Stages /\ stage \notin marker /\ "sealed" \in root[stage]
    BY DEF Running, TypeInv, ImagesOK, Marks, Position, Undoing, Retract, RefuseRollback, UndoItem,
           UndoHistoryTemp, UndoHistory
  <1>1. CASE Retract
    <2>1. /\ UNCHANGED <<tree, root, backup, marker, tombstone, stage, memory>>
          /\ pc' = "undo" /\ todo' \subseteq Targets(stage)
      BY <1>0, <1>1, FileSets DEF Retract, Loop
    <2>2. Copied
      BY <1>1 DEF Retract, Running, Position
    <2>3. CASE ~Published(stage) /\ UNCHANGED <<receipt, settled>>
      <3>1. Local' /\ Others' /\ Marks'
        BY <1>0, <2>1, <2>3, QuietStep
      <3>2. Position'
        BY <1>0, <2>1, <2>3 DEF Position, Published, BeginPoints, ExecutePoints, Undoing
      <3> QED
        BY <3>1, <3>2
    <2>4. CASE receipt' = [receipt EXCEPT ![stage] = NoReceipt] /\ settled' = memory
      <3>1. receipt'[stage] = NoReceipt
        BY <1>0, <2>4 DEF Running, TypeInv, DiskOK
      <3>2. Held(stage)'
        BY <2>1, <2>2, <2>4 DEF Copied, Held
      <3>3. Local' /\ Others' /\ Marks'
        BY <1>0, <2>1, <3>1, <3>2 DEF Running, Local, Others, Marks, Open, Published
      <3>4. Position'
        BY <1>0, <2>1, <3>1 DEF Position, Published, BeginPoints, ExecutePoints, Undoing
      <3> QED
        BY <3>3, <3>4
    <2> QED
      BY <1>1, <2>3, <2>4 DEF Retract
  <1>2. CASE RefuseRollback
    BY <1>2, QuietIdle DEF RefuseRollback
  <1>3. CASE UndoItem
    <2>1. PICK f \in todo : \E c : tree' = [tree EXCEPT ![f] = c] /\ todo' = todo \ {f}
      BY <1>3 DEF UndoItem
    <2>2. UNCHANGED <<receipt, root, backup, marker, tombstone, stage, settled, memory, pc>> /\ pc = "undo"
      BY <1>3 DEF UndoItem
    <2>3. todo \subseteq Targets(stage) /\ ~Published(stage)
      BY <2>2 DEF Running, Position, Undoing
    <2>4. Local' /\ Others' /\ Marks'
      BY <1>0, <2>1, <2>2, <2>3, TargetStep DEF Open
    <2>5. Position'
      BY <1>0, <2>1, <2>2, <2>3 DEF Position, Published, BeginPoints, ExecutePoints, Undoing
    <2> QED
      BY <2>4, <2>5
  <1>4. CASE UndoHistoryTemp
    <2>1. UNCHANGED <<tree, receipt, root, backup, marker, tombstone, settled, stage>>
          /\ pc' = "undoHistory" /\ ~Published(stage)
      BY <1>4 DEF UndoHistoryTemp, Goto, Running, Position, Undoing
    <2>2. Local' /\ Others' /\ Marks'
      BY <1>0, <2>1, QuietStep
    <2>3. Position'
      BY <1>0, <2>1 DEF Position, Published, BeginPoints, ExecutePoints, Undoing
    <2> QED
      BY <2>2, <2>3
  <1>5. CASE UndoHistory
    <2>1. UNCHANGED <<receipt, root, backup, marker, tombstone, stage, settled, memory>>
          /\ pc' = "restore" /\ todo' = Targets(stage)
      BY <1>5 DEF UndoHistory, Restore
    <2>2. ~Published(stage)
      BY <1>5 DEF UndoHistory, Running, Position, Undoing
    <2>3. Local' /\ Others' /\ Marks'
      BY <1>0, <1>5, <2>1, <2>2, FileSets, TargetStep DEF UndoHistory, Open
    <2>4. Position'
      BY <1>0, <2>1, <2>2 DEF Position, Published, PutBack, BeginPoints, ExecutePoints, Undoing
    <2> QED
      BY <2>3, <2>4
  <1> QED
    BY <1>1, <1>2, <1>3, <1>4, <1>5

LEMMA RaiseSafe ==
  ASSUME Running, Raise, UNCHANGED <<tree, receipt, root, backup, marker, tombstone, settled>>
  PROVE  Safe'
  <1> USE DEF Safe
  <1>1. CASE pc \in ExecutePoints
    <2>1. /\ Goto("retract") /\ stage \notin marker /\ Copied /\ "sealed" \in root[stage]
      BY <1>1 DEF Raise, Running, Marks, Position, ExecutePoints
    <2>2. pc' = "retract" /\ UNCHANGED <<stage, memory>>
      BY <2>1 DEF Goto
    <2>3. Local' /\ Others' /\ Marks' /\ Copied'
      BY <2>1, <2>2, QuietStep
    <2>4. Position'
      BY <2>1, <2>2, <2>3 DEF Position, BeginPoints, ExecutePoints, Undoing
    <2> QED
      BY <2>3, <2>4
  <1>2. CASE Discard("end") /\ pc \in BeginPoints /\ "journal" \notin root[stage]
    <2>1. ~Open(stage)
      BY <1>2 DEF Running, Marks, Open, TypeInv, ImagesOK
    <2> QED
      BY <1>2, <2>1, QuietDiscard DEF Running, Local, BeginPoints
  <1>3. CASE Leave
    BY <1>3, QuietIdle
  <1> QED
    BY <1>1, <1>2, <1>3 DEF Raise

LEMMA RunningSafe == ASSUME Running, Step \/ Fault \/ Crash PROVE Safe'
  <1>1. CASE Fault \/ CheckFails \/ CommitRefused
    BY <1>1, RaiseSafe DEF Fault, CheckFails, CommitRefused
  <1>2. CASE Crash
    BY <1>2, QuietIdle DEF Crash, Safe
  <1> QED
    BY <1>1, <1>2, SweepSafe, RecoverySafe, BeginSafe, ExecuteSafe, PublishSafe, UndoSafe DEF Step

(* Between two processes. *)
Calm ==
    /\ \A s, t \in Stages : Busy(s) /\ Busy(t) => s = t
    /\ (\A s \in Stages : ~Open(s)) => Clean
    /\ \A s \in Stages : Open(s) => Held(s)
    /\ \A s \in marker : Busy(s) => Clean
    /\ tombstone \subseteq marker
    /\ \A s \in Stages : "sealed" \in root[s] => "journal" \in root[s]

LEMMA SafeIsCalm == TypeInv /\ Safe => Calm
  <1> SUFFICES ASSUME TypeInv, Safe PROVE Calm
    OBVIOUS
  <1>1. \A s \in Stages \ {stage} : ~Busy(s) /\ ~Open(s)
    BY DEF Safe, Others, Busy, Open
  <1> QED
    BY <1>1 DEF Safe, Local, Marks, Calm, TypeInv, DiskOK, ImagesOK

LEMMA StartSafe ==
  ASSUME TypeInv, alias, Calm, ~OutOfOrder, NEW s \in Stages, Start(s)
  PROVE  Safe'
  <1>1. UNCHANGED <<tree, receipt, root, backup, marker, tombstone, settled>> /\ stage' = s /\ pc' = "sweep"
    BY DEF Start
  <1>2. Others'
    BY <1>1 DEF Start, Others
  <1>3. Marks' /\ Position'
    BY <1>1 DEF Calm, Marks, Position, BeginPoints, ExecutePoints, Undoing
  <1>4. ~Open(s) => Clean
    BY <1>1, <1>2 DEF Calm, Others, Open
  <1>5. Local'
    BY <1>1, <1>4 DEF Calm, Local, Open, Busy, Held, Clean, Published
  <1> QED
    BY <1>2, <1>3, <1>5 DEF Safe

(* Without the alias there is neither a durable transaction nor a marker.   *)
Plain ==
    /\ pc \in {"idle", "plan", "patch", "unlink", "ninja", "check", "link", "linked", "validate",
              "retract", "undo"}
    /\ marker = {}

LEMMA PlainStep ==
  ASSUME ~alias, Plain, Next PROVE Plain'
  <1>1. CASE pc = "idle"
    BY <1>1 DEF Plain, Next, Step, Start, SweepDone, SweepRename, SweepRemove, SweepUnlink, Authorize,
           Inspect, AcceptReceipt, RejectReceipt, RestoreItem, RestoreDone, Plan, PlanRefused, BeginRoot,
           BeginBackup, BeginJournal, BeginSeal, PatchSource, Patched, UnlinkPackage, Unlinked,
           NinjaCopies, NinjaRecords, WriteReceiptTemp, LinkReceipt, ReceiptReturned, Commit,
           Retract, RefuseRollback, UndoItem, UndoHistoryTemp, UndoHistory, CheckFails,
           CommitRefused, Fault, Crash
  <1>2. CASE Plan \/ PlanRefused \/ PatchSource \/ Patched \/ UnlinkPackage \/ Unlinked
    BY <1>2 DEF Plain, Plan, PlanRefused, PatchSource, Patched, UnlinkPackage, Unlinked, Loop, Leave
  <1>3. CASE NinjaCopies \/ NinjaRecords \/ WriteReceiptTemp \/ LinkReceipt \/ ReceiptReturned \/ Commit
    BY <1>3 DEF Plain, NinjaCopies, NinjaRecords, WriteReceiptTemp, LinkReceipt, ReceiptReturned, Commit,
                Goto, Leave
  <1>4. CASE Retract \/ RefuseRollback \/ UndoItem \/ UndoHistoryTemp
    BY <1>4 DEF Plain, Retract, RefuseRollback, UndoItem, UndoHistoryTemp, Loop, Leave
  <1>5. CASE Fault \/ CheckFails \/ CommitRefused \/ Crash
    BY <1>5 DEF Plain, Fault, CheckFails, CommitRefused, Crash, Raise, BeginPoints, Goto, Leave
  <1> QED
    BY <1>1, <1>2, <1>3, <1>4, <1>5
       DEF Plain, Next, Step, Start, SweepDone, SweepRename, SweepRemove, SweepUnlink, Authorize, Inspect,
           AcceptReceipt, RejectReceipt, RestoreItem, RestoreDone, BeginRoot, BeginBackup,
           BeginJournal, BeginSeal, UndoHistory

LEMMA AliasStays == Next => UNCHANGED alias
  BY DEF Next, Step, Start, SweepDone, SweepRename, SweepRemove, SweepUnlink, Authorize, Inspect,
         AcceptReceipt, RejectReceipt, RestoreItem, RestoreDone, Plan, PlanRefused, BeginRoot,
         BeginBackup, BeginJournal, BeginSeal, PatchSource, Patched, UnlinkPackage, Unlinked,
         NinjaCopies, NinjaRecords, WriteReceiptTemp, LinkReceipt, ReceiptReturned, Commit,
         Retract, RefuseRollback, UndoItem, UndoHistoryTemp, UndoHistory, CheckFails,
         CommitRefused, Fault, Crash

LEMMA IdleRests == pc = "idle" => ~(Step \/ Fault \/ Crash)
  BY DEF Step, SweepDone, SweepRename, SweepRemove, SweepUnlink, Authorize, Inspect,
         AcceptReceipt, RejectReceipt, RestoreItem, RestoreDone, Plan, PlanRefused, BeginRoot,
         BeginBackup, BeginJournal, BeginSeal, PatchSource, Patched, UnlinkPackage, Unlinked,
         NinjaCopies, NinjaRecords, WriteReceiptTemp, LinkReceipt, ReceiptReturned, Commit,
         Retract, RefuseRollback, UndoItem, UndoHistoryTemp, UndoHistory, CheckFails,
         CommitRefused, Fault, Crash

Recoverable ==
    /\ TypeInv
    /\ alias => Calm /\ (pc # "idle" => Safe)
    /\ ~alias => Plain

LEMMA RecoverableInit == Init => Recoverable
  <1> SUFFICES ASSUME Init PROVE Recoverable
    OBVIOUS
  <1>1. TypeInv
    BY TypeInit
  <1>2. Calm
    BY DEF Init, Calm, Busy, Open, Clean
  <1>3. Plain /\ pc = "idle"
    BY DEF Init, Plain
  <1> QED
    BY <1>1, <1>2, <1>3 DEF Recoverable

LEMMA RecoverableNext == ~OutOfOrder /\ Recoverable /\ [Next]_vars => Recoverable'
  <1> SUFFICES ASSUME ~OutOfOrder, Recoverable, [Next]_vars PROVE Recoverable'
    OBVIOUS
  <1>1. TypeInv /\ TypeInv'
    BY TypeNext DEF Recoverable
  <1>2. CASE UNCHANGED vars
    BY <1>1, <1>2 DEF vars, Recoverable, Calm, Safe, Plain, Local, Others, Marks, Position, Open, Busy,
       Clean, Held, Copied, PutBack, Published
  <1>3. CASE Next /\ ~alias
    BY <1>1, <1>3, PlainStep, AliasStays DEF Recoverable
  <1>4. CASE Next /\ alias
    <2>1. Safe'
      <3>1. CASE \E s \in Stages : Start(s)
        BY <1>1, <1>4, <3>1, StartSafe DEF Recoverable
      <3>2. CASE Step \/ Fault \/ Crash
        <4>1. Safe
          BY <1>4, <3>2, IdleRests DEF Recoverable
        <4>2. Running
          BY <1>1, <1>4, <4>1 DEF Safe, Running
        <4> QED
          BY <3>2, <4>2, RunningSafe
      <3> QED
        BY <1>4, <3>1, <3>2 DEF Next
    <2>2. Calm'
      BY <1>1, <2>1, SafeIsCalm, PTL
    <2> QED
      BY <1>1, <1>4, <2>1, <2>2, AliasStays DEF Recoverable
  <1> QED
    BY <1>2, <1>3, <1>4

(* On an aliased build whatever differs from the last receipted state can   *)
(* be put back from a sealed journal, after any crashes and failures, as    *)
(* long as a stage is recovered before the other is started.                *)
THEOREM PreimagesJournaled ==
  ASSUME ~OutOfOrder PROVE Spec => []PreimageJournaled
  <1>1. Recoverable => PreimageJournaled
    <2> SUFFICES ASSUME Recoverable, alias, NEW f \in Files, tree[f] # settled[f]
                 PROVE  \E s \in Stages : /\ "sealed" \in root[s] /\ ~Published(s)
                                         /\ f \in Targets(s) /\ backup[s][f] = settled[f]
      BY DEF PreimageJournaled
    <2>1. ~Clean
      BY DEF Clean
    <2>2. PICK s \in Stages : Open(s) /\ Held(s)
      BY <2>1 DEF Recoverable, Calm
    <2> QED
      BY <2>2 DEF Open, Held
  <1> QED
    BY <1>1, RecoverableInit, RecoverableNext, PTL DEF Spec

(* What a cleanup authorization condemns is needed by nobody.               *)
THEOREM CleanupsSafe ==
  ASSUME ~OutOfOrder PROVE Spec => []CleanupIsSafe
  <1>1. Recoverable => CleanupIsSafe
    BY DEF Recoverable, Calm, Plain, Busy, Clean, CleanupIsSafe
  <1> QED
    BY <1>1, RecoverableInit, RecoverableNext, PTL DEF Spec

-----------------------------------------------------------------------------
(* What the receipts are worth.                                             *)

(* From the plan to the handler's decision about the receipt.               *)
Planned == {"mkdir"} \cup BeginPoints \cup ExecutePoints \cup {"retract"}

(* The receipts are a stack.  A stage that has planned found the one below  *)
(* published and the one above not.                                         *)
Stack ==
    /\ Published("adhoc") => Published("swiftshader")
    /\ alias /\ root["swiftshader"] # {} => ~Published("adhoc")
    /\ pc \in Planned => IF stage = "swiftshader" THEN ~Published("adhoc")
                         ELSE Published("swiftshader")

(* What the ad-hoc stage rests on: files that the first receipt certifies.  *)
Base(t) ==
    /\ Published("swiftshader")
    /\ t["parts"] \in {"swiftshader", "adhoc"} /\ t["partsCopy"] \in {"swiftshader", "adhoc"}
    /\ receipt["swiftshader"].before = BuildHistory
    /\ receipt["swiftshader"].after = t["history"]

(* The last settled state is what the receipts say.                         *)
Certified ==
    /\ Published("swiftshader") /\ ~Published("adhoc") => Base(settled)
    /\ Published("adhoc") =>
         /\ receipt["swiftshader"].before = BuildHistory
         /\ receipt["adhoc"].before = receipt["swiftshader"].after
         /\ receipt["adhoc"].after = settled["history"]
         /\ \A f \in Scripts \cup Copies : settled[f] = "adhoc"

(* The files are the stage's, as MayPublish has found them.                 *)
Ready ==
    IF stage = "swiftshader"
    THEN tree["parts"] \in {"swiftshader", "adhoc"} /\ tree["partsCopy"] \in {"swiftshader", "adhoc"}
    ELSE \A f \in Scripts \cup Copies : tree[f] = "adhoc"

Worth ==
    /\ Certified
    /\ "sealed" \in root["adhoc"] => Base(backup["adhoc"])
    /\ pc \in Planned => IF stage = "swiftshader" THEN memory["history"] = BuildHistory
                         ELSE Base(memory)
    /\ pc = "link" => Ready

-----------------------------------------------------------------------------
(* A step that publishes and withdraws nothing and begins no transaction.   *)
Onwards ==
    pc' \in Planned => pc \in Planned /\ stage' = stage

LEMMA StackFrame ==
    ASSUME Stack, UNCHANGED <<receipt, alias>>, Onwards,
           root'["swiftshader"] # {} => root["swiftshader"] # {}
    PROVE  Stack'
BY DEF Stack, Onwards, Published

(* The labels outside what a plan has begun.                                *)
LEMMA NotPlanned ==
    /\ {"idle", "sweep", "authorize", "inspect", "accept", "restore", "plan", "undo",
        "undoHistory"} \cap Planned = {}
    /\ Planned = {"mkdir", "backup", "journal", "seal", "patch", "unlink", "ninja", "check", "link",
                  "linked", "validate", "retract"}
BY DEF Planned, BeginPoints, ExecutePoints

LEMMA RaiseOnwards ==
    ASSUME Raise
    PROVE  Onwards /\ UNCHANGED stage /\ (pc' \in Planned => UNCHANGED memory) /\ pc' # "link"
BY NotPlanned DEF Raise, Onwards, Leave, Goto, Discard, ExecutePoints

LEMMA StackStep ==
    ASSUME TypeInv, Stack, alias => Others, ~alias => Plain, Step \/ Fault \/ Crash
    PROVE  Stack'
<1> USE NotPlanned
<1>t. stage \in Stages /\ root \in [Stages -> Holdings] /\ receipt \in [Stages -> Receipts]
      /\ Stages = {"swiftshader", "adhoc"}
  BY DEF TypeInv, ImagesOK, DiskOK, Stages
<1>1. CASE SweepDone \/ SweepRemove \/ SweepUnlink \/ Inspect \/ AcceptReceipt
           \/ RestoreItem \/ RestoreDone \/ PlanRefused
  <2>1. UNCHANGED <<receipt, alias, root>> /\ pc' \notin Planned
    BY <1>1 DEF SweepDone, SweepRemove, SweepUnlink, Inspect, AcceptReceipt, RestoreItem,
                RestoreDone, PlanRefused, Continue, Leave, Goto, Discard, Restore, TypeInv, ImagesOK
  <2> QED BY <2>1, StackFrame DEF Onwards
<1>2. CASE SweepRename
  <2>1. UNCHANGED <<receipt, alias, pc>> /\ pc \notin Planned /\ root'["swiftshader"] \in {root["swiftshader"], {}}
    BY <1>2, <1>t DEF SweepRename
  <2> QED BY <2>1, StackFrame DEF Onwards
<1>3. CASE Authorize
  <2>1. UNCHANGED <<receipt, alias, root>> /\ pc' \notin Planned
    BY <1>3 DEF Authorize, Goto
  <2> QED BY <2>1, StackFrame DEF Onwards
<1>4. CASE RejectReceipt
  <2>1. /\ receipt' = [receipt EXCEPT ![stage] = NoReceipt] /\ pc' = "restore"
        /\ root[stage] # {} /\ UNCHANGED <<alias, root, stage>> /\ alias
    BY <1>4 DEF RejectReceipt, Restore, Plain
  <2>2. CASE stage = "swiftshader"
    <3>1. receipt'["adhoc"] = receipt["adhoc"] /\ ~Published("adhoc")
      BY <1>t, <2>1, <2>2 DEF Stack
    <3> QED BY <2>1, <3>1 DEF Stack, Published
  <2>3. CASE stage = "adhoc"
    <3>1. receipt'["adhoc"] = NoReceipt
      BY <1>t, <2>1, <2>3
    <3> QED BY <2>1, <3>1 DEF Stack, Published
  <2> QED BY <1>t, <2>2, <2>3
<1>5. CASE Plan
  <2>1. UNCHANGED <<receipt, alias, root, stage>> /\ PlanHolds(stage)
    BY <1>5 DEF Plan
  <2>2. stage = "swiftshader" => ~Published("adhoc")
    BY <2>1 DEF PlanHolds, Stack
  <2>3. stage # "swiftshader" => Published("swiftshader")
    BY <2>1 DEF PlanHolds, SwiftShaderValid
  <2> QED BY <2>1, <2>2, <2>3 DEF Stack, Published
<1>6. CASE BeginRoot \/ BeginBackup \/ BeginJournal \/ BeginSeal
  <2>1. UNCHANGED <<receipt, alias, stage>> /\ pc \in Planned /\ pc' \in Planned
    BY <1>6 DEF BeginRoot, BeginBackup, BeginJournal, BeginSeal, Goto, Loop
  <2>2. stage # "swiftshader" => root'["swiftshader"] = root["swiftshader"]
    BY <1>6, <1>t DEF BeginRoot, BeginBackup, BeginJournal, BeginSeal
  <2> QED BY <2>1, <2>2 DEF Stack, Published
<1>7. CASE PatchSource \/ Patched \/ UnlinkPackage \/ Unlinked \/ NinjaCopies \/ NinjaRecords
           \/ WriteReceiptTemp \/ ReceiptReturned
  <2>1. UNCHANGED <<receipt, alias, root, stage>> /\ pc \in Planned
    BY <1>7 DEF PatchSource, Patched, UnlinkPackage, Unlinked, NinjaCopies, NinjaRecords,
                WriteReceiptTemp, ReceiptReturned, Goto, Loop
  <2> QED BY <2>1, StackFrame DEF Onwards
<1>8. CASE LinkReceipt
  <2>1. /\ UNCHANGED <<alias, root, stage>> /\ pc' = "linked" /\ pc \in Planned
        /\ \A s \in Stages \ {stage} : receipt'[s] = receipt[s]
    BY <1>8, <1>t DEF LinkReceipt, Goto
  <2>2. CASE stage = "swiftshader"
    <3>1. ~Published("adhoc")'
      BY <1>t, <2>1, <2>2 DEF Stack, Published
    <3> QED BY <2>1, <2>2, <3>1 DEF Stack
  <2>3. CASE stage = "adhoc"
    <3>1. Published("swiftshader")'
      BY <1>t, <2>1, <2>3 DEF Stack, Published
    <3>2. alias => root["swiftshader"] = {}
      BY <1>t, <2>3 DEF Others
    <3> QED BY <2>1, <2>3, <3>1, <3>2 DEF Stack
  <2> QED BY <1>t, <2>2, <2>3
<1>9. CASE Commit \/ RefuseRollback \/ UndoItem \/ UndoHistoryTemp \/ UndoHistory
  <2>1. UNCHANGED <<receipt, alias, root>> /\ pc' \notin Planned
    BY <1>9 DEF Commit, RefuseRollback, UndoItem, UndoHistoryTemp, UndoHistory, Leave, Goto,
                Discard, Restore
  <2> QED BY <2>1, StackFrame DEF Onwards
<1>10. CASE Retract
  <2>1. /\ UNCHANGED <<alias, root, stage>> /\ pc' = "undo" /\ pc \in Planned
        /\ receipt' = receipt \/ receipt' = [receipt EXCEPT ![stage] = NoReceipt]
    BY <1>10 DEF Retract, Loop
  <2>2. CASE stage = "swiftshader"
    <3>1. ~Published("adhoc") /\ receipt'["adhoc"] = receipt["adhoc"]
      BY <1>t, <2>1, <2>2 DEF Stack
    <3> QED BY <2>1, <3>1 DEF Stack, Published
  <2>3. CASE stage = "adhoc"
    <3>1. receipt'["adhoc"] \in {receipt["adhoc"], NoReceipt}
          /\ receipt'["swiftshader"] = receipt["swiftshader"]
      BY <1>t, <2>1, <2>3
    <3> QED BY <2>1, <3>1 DEF Stack, Published
  <2> QED BY <1>t, <2>2, <2>3
<1>11. CASE Fault \/ CheckFails \/ CommitRefused
  <2>1. Raise /\ UNCHANGED <<receipt, alias, root>>
    BY <1>11 DEF Fault, CheckFails, CommitRefused
  <2> QED BY <2>1, RaiseOnwards, StackFrame
<1>12. CASE Crash
  <2>1. UNCHANGED <<receipt, alias, root>> /\ pc' \notin Planned
    BY <1>12 DEF Crash, Leave
  <2> QED BY <2>1, StackFrame DEF Onwards
<1> QED BY <1>1, <1>2, <1>3, <1>4, <1>5, <1>6, <1>7, <1>8, <1>9, <1>10, <1>11, <1>12 DEF Step

LEMMA StackNext ==
    ASSUME ~OutOfOrder, Recoverable, Stack, [Next]_vars
    PROVE  Stack'
<1>1. CASE \E s \in Stages : Start(s)
  <2>1. UNCHANGED <<receipt, alias, root>> /\ pc' \notin Planned
    BY <1>1, NotPlanned DEF Start
  <2> QED BY <2>1, StackFrame DEF Onwards
<1>2. CASE Step \/ Fault \/ Crash
  <2>1. alias => Others
    BY <1>2, IdleRests DEF Recoverable, Safe
  <2> QED BY <1>2, <2>1, StackStep DEF Recoverable
<1>3. CASE UNCHANGED vars
  BY <1>3, StackFrame DEF vars, Onwards
<1> QED BY <1>1, <1>2, <1>3 DEF Next

-----------------------------------------------------------------------------
(* A step that changes neither receipts nor the settled state.              *)
BackupStays == "sealed" \in root'["adhoc"] => "sealed" \in root["adhoc"] /\ backup'["adhoc"] = backup["adhoc"]

MemoryStays == pc' \in Planned => pc \in Planned /\ stage' = stage /\ memory' = memory

LEMMA WorthFrame ==
    ASSUME Worth, UNCHANGED <<receipt, settled>>, BackupStays, MemoryStays,
           pc' = "link" => Ready'
    PROVE  Worth'
<1>1. Certified'
  BY DEF Worth, Certified, Base, Published
<1>2. "sealed" \in root'["adhoc"] => Base(backup["adhoc"])'
  BY DEF Worth, Base, BackupStays, Published
<1>3. pc' \in Planned => (IF stage = "swiftshader" THEN memory["history"] = BuildHistory
                         ELSE Base(memory))'
  BY DEF Worth, Base, MemoryStays, Published
<1> QED BY <1>1, <1>2, <1>3 DEF Worth

LEMMA ReadyIs ==
    ASSUME MayPublish, stage \in Stages
    PROVE  Ready
<1>1. CASE stage = "swiftshader"
  BY <1>1 DEF MayPublish, Ready, StateOf, Sources, Packages, PostImage
<1>2. CASE stage = "adhoc"
  BY <1>2 DEF MayPublish, Ready, StateOf, Sources, Packages, PostImage
<1> QED BY <1>1, <1>2 DEF Stages

LEMMA WorthStep ==
    ASSUME Running, Stack, Worth, Step \/ Fault \/ Crash
    PROVE  Worth'
<1> USE NotPlanned
<1>t. /\ stage \in Stages /\ root \in [Stages -> Holdings] /\ receipt \in [Stages -> Receipts]
      /\ backup \in [Stages -> Trees] /\ Stages = {"swiftshader", "adhoc"}
  BY DEF Running, TypeInv, ImagesOK, DiskOK, Stages
<1>o. stage = "swiftshader" => root["adhoc"] = {}
  BY <1>t DEF Running, Others
<1>s. stage = "adhoc" => root["swiftshader"] = {}
  BY <1>t DEF Running, Others
<1>1. CASE SweepDone \/ SweepRemove \/ SweepUnlink \/ Authorize \/ Inspect \/ AcceptReceipt
           \/ RestoreItem \/ RestoreDone \/ PlanRefused
  <2>1. UNCHANGED <<receipt, settled, root, backup>> /\ pc' \notin Planned
    BY <1>1 DEF SweepDone, SweepRemove, SweepUnlink, Authorize, Inspect, AcceptReceipt, RestoreItem,
                RestoreDone, PlanRefused, Continue, Leave, Goto, Discard, Restore, Running, TypeInv,
                ImagesOK
  <2> QED BY <2>1, WorthFrame DEF BackupStays, MemoryStays
<1>2. CASE SweepRename
  <2>1. /\ UNCHANGED <<receipt, settled, pc>> /\ pc \notin Planned
        /\ "sealed" \in root'["adhoc"] => "sealed" \in root["adhoc"] /\ backup'["adhoc"] = backup["adhoc"]
    BY <1>2, <1>t DEF SweepRename
  <2> QED BY <2>1, WorthFrame DEF BackupStays, MemoryStays
<1>3. CASE RejectReceipt
  <2>1. /\ receipt' = [receipt EXCEPT ![stage] = NoReceipt] /\ pc' = "restore"
        /\ "sealed" \in root[stage] /\ UNCHANGED <<root, stage, backup>>
        /\ settled' = [f \in Files |-> IF f \in Targets(stage) THEN backup[stage][f] ELSE tree[f]]
    BY <1>3 DEF RejectReceipt, Restore
  <2>2. CASE stage = "swiftshader"
    <3>1. ~Published("adhoc")' /\ ~Published("swiftshader")'
      BY <1>t, <2>1, <2>2 DEF Stack, Published, Running
    <3> QED BY <1>o, <2>1, <2>2, <3>1 DEF Worth, Certified
  <2>3. CASE stage = "adhoc"
    <3>1. ~Published("adhoc")' /\ receipt'["swiftshader"] = receipt["swiftshader"]
      BY <1>t, <2>1, <2>3 DEF Published
    <3>2. Base(backup["adhoc"])
      BY <2>1, <2>3 DEF Worth
    <3>3. /\ settled'["parts"] = backup["adhoc"]["parts"]
          /\ settled'["partsCopy"] = backup["adhoc"]["partsCopy"]
          /\ settled'["history"] = backup["adhoc"]["history"]
      BY <2>1, <2>3 DEF Files, Scripts, Copies, Targets, Sources, Packages
    <3>4. Base(settled)'
      BY <3>1, <3>2, <3>3 DEF Base, Published
    <3>5. Base(backup["adhoc"])'
      BY <2>1, <3>1, <3>2 DEF Base, Published
    <3> QED BY <2>1, <3>1, <3>4, <3>5 DEF Worth, Certified
  <2> QED BY <1>t, <2>2, <2>3
<1>4. CASE Plan
  <2>1. UNCHANGED <<receipt, root, backup, stage, settled>> /\ PlanHolds(stage) /\ memory' = tree
        /\ pc' # "link"
    BY <1>4 DEF Plan
  <2>2. alias
    BY DEF Running
  <2>3. stage = "swiftshader" => tree["history"] = BuildHistory
    BY <2>1, <2>2 DEF PlanHolds
  <2>4. stage # "swiftshader" => Base(tree)
    BY <2>1, <2>2, <1>t DEF PlanHolds, SwiftShaderValid, Base, Published
  <2>5. Base(backup["adhoc"])' <=> Base(backup["adhoc"])
    BY <2>1 DEF Base, Published
  <2>6. Base(memory)' <=> Base(tree)
    BY <2>1 DEF Base, Published
  <2>7. Certified'
    BY <2>1 DEF Worth, Certified, Base, Published
  <2> QED BY <2>1, <2>3, <2>4, <2>5, <2>6, <2>7 DEF Worth
<1>5. CASE BeginRoot \/ BeginBackup \/ BeginJournal
  <2>1. /\ UNCHANGED <<receipt, settled, memory, stage>> /\ pc \in Planned /\ pc' # "link"
    BY <1>5 DEF BeginRoot, BeginBackup, BeginJournal, Goto
  <2>2. stage = "adhoc" => "sealed" \notin root'["adhoc"]
    <3> SUFFICES ASSUME stage = "adhoc" PROVE "sealed" \notin root'["adhoc"]
      OBVIOUS
    <3>1. CASE BeginRoot
      BY <1>t, <3>1 DEF BeginRoot
    <3>2. CASE BeginBackup
      <4>1. root["adhoc"] = {"root"}
        BY <3>2 DEF BeginBackup, Running, Position
      <4> QED BY <1>t, <3>2, <4>1 DEF BeginBackup
    <3>3. CASE BeginJournal
      <4>1. root["adhoc"] = {"root", "backups"}
        BY <3>3 DEF BeginJournal, Running, Position
      <4> QED BY <1>t, <3>3, <4>1 DEF BeginJournal
    <3> QED BY <1>5, <3>1, <3>2, <3>3
  <2>3. stage = "swiftshader" => root'["adhoc"] = root["adhoc"] /\ backup'["adhoc"] = backup["adhoc"]
    BY <1>5, <1>t DEF BeginRoot, BeginBackup, BeginJournal
  <2> QED BY <1>t, <2>1, <2>2, <2>3, WorthFrame DEF BackupStays, MemoryStays
<1>6. CASE BeginSeal
  <2>1. /\ UNCHANGED <<receipt, settled, memory, stage, backup>> /\ pc = "seal" /\ pc' = "patch"
    BY <1>6 DEF BeginSeal, Loop
  <2>2. backup[stage] = memory
    BY <2>1 DEF Running, Position, BeginPoints
  <2>3. CASE stage = "adhoc"
    <3>1. Base(backup["adhoc"])
      BY <2>1, <2>2, <2>3 DEF Worth
    <3> QED BY <2>1, <2>3, <3>1 DEF Worth, Certified, Base, Published
  <2>4. CASE stage = "swiftshader"
    <3>1. root'["adhoc"] = root["adhoc"]
      BY <1>6, <1>t, <2>4 DEF BeginSeal
    <3> QED BY <2>1, <3>1, WorthFrame DEF BackupStays, MemoryStays
  <2> QED BY <1>t, <2>3, <2>4
<1>7. CASE PatchSource \/ Patched \/ UnlinkPackage \/ Unlinked \/ NinjaCopies \/ NinjaRecords
           \/ ReceiptReturned
  <2>1. UNCHANGED <<receipt, settled, root, backup, stage, memory>> /\ pc \in Planned /\ pc' # "link"
    BY <1>7 DEF PatchSource, Patched, UnlinkPackage, Unlinked, NinjaCopies, NinjaRecords,
                ReceiptReturned, Goto, Loop
  <2> QED BY <2>1, WorthFrame DEF BackupStays, MemoryStays
<1>8. CASE WriteReceiptTemp
  <2>1. UNCHANGED <<receipt, settled, root, backup, stage, memory, tree>> /\ pc \in Planned
    BY <1>8 DEF WriteReceiptTemp, Goto
  <2>2. Ready
    BY <1>8, <1>t, ReadyIs DEF WriteReceiptTemp
  <2>3. Ready'
    BY <2>1, <2>2 DEF Ready
  <2> QED BY <2>1, <2>3, WorthFrame DEF BackupStays, MemoryStays
<1>9. CASE LinkReceipt
  <2>1. /\ UNCHANGED <<root, backup, stage, memory>> /\ pc' = "linked" /\ pc = "link"
        /\ settled' = tree /\ pc \in Planned
        /\ receipt' = [receipt EXCEPT ![stage] =
                         [found |-> found.source, before |-> memory["history"],
                          after |-> tree["history"]]]
    BY <1>9, <1>t DEF LinkReceipt, Goto
  <2>2. CASE stage = "swiftshader"
    <3>1. ~Published("adhoc")' /\ "sealed" \notin root'["adhoc"]
      BY <1>t, <1>o, <2>1, <2>2 DEF Stack, Published
    <3>2. memory["history"] = BuildHistory
      BY <2>1, <2>2 DEF Worth
    <3>3. /\ receipt'["swiftshader"].before = BuildHistory
          /\ receipt'["swiftshader"].after = settled'["history"]
      BY <1>t, <2>1, <2>2, <3>2
    <3>4. Base(settled)' \/ ~Published("swiftshader")'
      BY <2>1, <2>2, <3>3 DEF Worth, Ready, Base
    <3> QED BY <2>1, <2>2, <3>1, <3>2, <3>4 DEF Worth, Certified
  <2>3. CASE stage = "adhoc"
    <3>1. /\ receipt'["swiftshader"] = receipt["swiftshader"]
          /\ receipt'["adhoc"].before = memory["history"]
          /\ receipt'["adhoc"].after = settled'["history"]
      BY <1>t, <2>1, <2>3
    <3>2. Base(memory) /\ Base(memory)'
      BY <2>1, <2>3, <3>1 DEF Worth, Base, Published
    <3>3. "sealed" \in root'["adhoc"] => Base(backup["adhoc"])'
      BY <2>1, <3>1 DEF Worth, Base, Published
    <3>4. \A f \in Scripts \cup Copies : settled'[f] = "adhoc"
      BY <2>1, <2>3 DEF Worth, Ready
    <3>5. Certified'
      <4>1. Published("adhoc")'
        <5>1. receipt'["adhoc"].found \in FileStates
          BY <1>t, <2>1, <2>3 DEF Running, TypeInv, FoundOK
        <5> QED BY <5>1 DEF Published, NoReceipt, FileStates
      <4> QED BY <2>1, <3>1, <3>2, <3>4, <4>1 DEF Certified, Base
    <3> QED BY <2>1, <2>3, <3>2, <3>3, <3>5 DEF Worth
  <2> QED BY <1>t, <2>2, <2>3
<1>10. CASE Commit \/ RefuseRollback \/ UndoItem \/ UndoHistoryTemp \/ UndoHistory
  <2>1. UNCHANGED <<receipt, settled, root, backup>> /\ pc' \notin Planned
    BY <1>10 DEF Commit, RefuseRollback, UndoItem, UndoHistoryTemp, UndoHistory, Leave, Goto,
                Discard, Restore
  <2> QED BY <2>1, WorthFrame DEF BackupStays, MemoryStays
<1>11. CASE Retract
  <2>1. /\ UNCHANGED <<root, backup, stage, memory>> /\ pc' = "undo" /\ pc \in Planned
    BY <1>11 DEF Retract, Loop
  <2>2. CASE UNCHANGED <<receipt, settled>>
    BY <2>1, <2>2, WorthFrame DEF BackupStays, MemoryStays
  <2>3. CASE receipt' = [receipt EXCEPT ![stage] = NoReceipt] /\ settled' = memory
    <3>1. CASE stage = "swiftshader"
      <4>1. ~Published("adhoc")' /\ ~Published("swiftshader")'
        BY <1>t, <2>1, <2>3, <3>1 DEF Stack, Published
      <4> QED BY <1>o, <2>1, <3>1, <4>1 DEF Worth, Certified
    <3>2. CASE stage = "adhoc"
      <4>1. ~Published("adhoc")' /\ receipt'["swiftshader"] = receipt["swiftshader"]
        BY <1>t, <2>3, <3>2 DEF Published
      <4>2. Base(memory) /\ Base(settled)'
        BY <2>1, <2>3, <3>2, <4>1 DEF Worth, Base, Published
      <4>3. "sealed" \in root'["adhoc"] => Base(backup["adhoc"])'
        BY <2>1, <4>1 DEF Worth, Base, Published
      <4> QED BY <2>1, <4>1, <4>2, <4>3 DEF Worth, Certified
    <3> QED BY <1>t, <3>1, <3>2
  <2> QED BY <1>11, <2>2, <2>3 DEF Retract
<1>12. CASE Fault \/ CheckFails \/ CommitRefused
  <2>1. Raise /\ UNCHANGED <<receipt, settled, root, backup>>
    BY <1>12 DEF Fault, CheckFails, CommitRefused
  <2> QED BY <2>1, RaiseOnwards, WorthFrame DEF BackupStays, MemoryStays, Onwards
<1>13. CASE Crash
  <2>1. UNCHANGED <<receipt, settled, root, backup>> /\ pc' \notin Planned
    BY <1>13 DEF Crash, Leave
  <2> QED BY <2>1, WorthFrame DEF BackupStays, MemoryStays
<1> QED BY <1>1, <1>2, <1>3, <1>4, <1>5, <1>6, <1>7, <1>8, <1>9, <1>10, <1>11, <1>12, <1>13 DEF Step

LEMMA WorthNext ==
    ASSUME ~OutOfOrder, Recoverable, alias, Stack, Worth, [Next]_vars
    PROVE  Worth'
<1>1. CASE \E s \in Stages : Start(s)
  <2>1. UNCHANGED <<receipt, settled, root, backup>> /\ pc' \notin Planned
    BY <1>1, NotPlanned DEF Start
  <2> QED BY <2>1, NotPlanned, WorthFrame DEF BackupStays, MemoryStays
<1>2. CASE Step \/ Fault \/ Crash
  <2>1. Safe
    BY <1>2, IdleRests DEF Recoverable
  <2>2. Running
    BY <2>1 DEF Recoverable, Safe, Running
  <2> QED BY <1>2, <2>2, WorthStep
<1>3. CASE UNCHANGED vars
  <2>1. Ready' <=> Ready
    BY <1>3 DEF vars, Ready
  <2> QED BY <1>3, <2>1, WorthFrame DEF vars, BackupStays, MemoryStays, Worth
<1> QED BY <1>1, <1>2, <1>3 DEF Next

Trusted == Recoverable /\ Stack /\ (alias => Worth)

LEMMA TrustedInit == Init => Trusted
<1> SUFFICES ASSUME Init PROVE Trusted
  OBVIOUS
<1>1. ~Published("swiftshader") /\ ~Published("adhoc")
  BY DEF Init, Published, Stages
<1>2. root["swiftshader"] = {} /\ root["adhoc"] = {} /\ pc = "idle"
  BY DEF Init, Stages
<1> QED BY <1>1, <1>2, RecoverableInit, NotPlanned DEF Trusted, Stack, Worth, Certified

LEMMA TrustedNext == ~OutOfOrder /\ Trusted /\ [Next]_vars => Trusted'
<1> SUFFICES ASSUME ~OutOfOrder, Trusted, [Next]_vars PROVE Trusted'
  OBVIOUS
<1>1. Recoverable'
  BY RecoverableNext DEF Trusted
<1>2. Stack'
  BY StackNext DEF Trusted
<1>3. alias' = alias
  BY AliasStays DEF vars
<1>4. alias => Worth'
  BY WorthNext DEF Trusted
<1> QED BY <1>1, <1>2, <1>3, <1>4 DEF Trusted

(* When no transaction is open on an aliased build each receipt still holds *)
(* for the files on disk.                                                   *)
THEOREM ReceiptsStayTrue ==
    ASSUME ~OutOfOrder PROVE Spec => []ReceiptsCertify
<1>1. Trusted => ReceiptsCertify
  <2> SUFFICES ASSUME Trusted, alias, \A s \in Stages : root[s] = {}
               PROVE  /\ Published("swiftshader") => SwiftShaderValid(TRUE)
                      /\ Published("adhoc") => AdhocValid
    BY DEF ReceiptsCertify
  <2>1. tree = settled
    BY DEF Trusted, Recoverable, Calm, Open, Clean
  <2>2. Certified /\ Stack
    BY DEF Trusted, Worth
  <2>3. Published("swiftshader") => SwiftShaderValid(TRUE)
    BY <2>1, <2>2 DEF Certified, Base, SwiftShaderValid, Scripts, Copies
  <2>4. Published("adhoc") => AdhocValid
    BY <2>1, <2>2, <2>3 DEF Certified, AdhocValid, StateOf, PreImage, PostImage, Scripts, Copies, Stack
  <2> QED BY <2>3, <2>4
<1> QED BY <1>1, TrustedInit, TrustedNext, PTL DEF Spec

-----------------------------------------------------------------------------
(* The stages as a stack: SigningTransaction implements SigningChain.       *)
Committed == {s \in Stages : Published(s)}

ChainStep == Chain!Publish \/ Chain!Withdraw

LEMMA ReceiptUnchanged ==
    ASSUME Next
    PROVE  UNCHANGED receipt \/ LinkReceipt \/ RejectReceipt \/ Retract
BY DEF Next, Step, Start, SweepDone, SweepRename, SweepRemove, SweepUnlink, Authorize, Inspect,
       AcceptReceipt, RestoreItem, RestoreDone, Plan, PlanRefused, BeginRoot,
       BeginBackup, BeginJournal, BeginSeal, PatchSource, Patched, UnlinkPackage, Unlinked,
       NinjaCopies, NinjaRecords, WriteReceiptTemp, ReceiptReturned, Commit,
       RefuseRollback, UndoItem, UndoHistoryTemp, UndoHistory, CheckFails,
       CommitRefused, Fault, Crash

LEMMA WithdrawStep ==
    ASSUME TypeInv, Stack, receipt' = [receipt EXCEPT ![stage] = NoReceipt],
           stage = "swiftshader" => ~Published("adhoc")
    PROVE  ChainStep \/ Committed' = Committed
<1>t. /\ stage \in Stages /\ receipt \in [Stages -> Receipts] /\ Stages = {"swiftshader", "adhoc"}
  BY DEF TypeInv, ImagesOK, DiskOK, Stages
<1>1. Committed' = Committed \ {stage}
  BY <1>t DEF Committed, Published
<1>2. CASE ~Published(stage)
  BY <1>1, <1>2 DEF Committed
<1>3. CASE Published(stage) /\ stage = "swiftshader"
  <2>1. Committed = {"swiftshader"}
    BY <1>t, <1>3 DEF Committed
  <2>2. Chain!Withdraw
    BY <1>1, <1>3, <2>1 DEF Chain!Withdraw, Committed
  <2> QED BY <2>2 DEF ChainStep
<1>4. CASE Published(stage) /\ stage = "adhoc"
  <2>1. Committed = {"swiftshader", "adhoc"}
    BY <1>t, <1>4 DEF Committed, Stack
  <2>2. Chain!Withdraw
    BY <1>1, <1>4, <2>1 DEF Chain!Withdraw, Committed
  <2> QED BY <2>2 DEF ChainStep
<1> QED BY <1>t, <1>2, <1>3, <1>4

(* The receipts are published and withdrawn as a stack, by any processes,   *)
(* crashes and failures.                                                    *)
THEOREM StagesStack ==
    ASSUME ~OutOfOrder PROVE Spec => StageOrder
<1>1. Init => Chain!ChainInit
  BY DEF Init, Chain!ChainInit, Published
<1>2. ASSUME Trusted, [Next]_vars PROVE ChainStep \/ Committed' = Committed
  <2>t. /\ stage \in Stages /\ receipt \in [Stages -> Receipts] /\ TypeInv
        /\ Stages = {"swiftshader", "adhoc"} /\ Stack
    BY <1>2 DEF Trusted, Recoverable, TypeInv, ImagesOK, DiskOK, Stages
  <2>1. CASE UNCHANGED receipt
    BY <2>1 DEF Committed, Published
  <2>2. CASE LinkReceipt
    <3>1. /\ ~Published(stage) /\ pc \in Planned
          /\ receipt' = [receipt EXCEPT ![stage] =
                           [found |-> found.source, before |-> memory["history"],
                            after |-> tree["history"]]]
      BY <2>2, NotPlanned DEF LinkReceipt
    <3>2. Published(stage)' \/ stage' # stage
      <4>1. receipt'[stage].found \in FileStates
        BY <2>t, <3>1 DEF TypeInv, FoundOK
      <4> QED BY <4>1 DEF Published, NoReceipt, FileStates
    <3>3. stage' = stage
      BY <2>2 DEF LinkReceipt, Goto
    <3>4. Committed' = Committed \cup {stage}
      BY <2>t, <3>1, <3>2, <3>3 DEF Committed, Published
    <3>5. CASE stage = "swiftshader"
      <4>1. Committed = {}
        BY <2>t, <3>1, <3>5 DEF Committed, Stack
      <4>2. Chain!Publish
        BY <3>4, <3>5, <4>1 DEF Chain!Publish, Chain!NextStage, Committed
      <4> QED BY <4>2 DEF ChainStep
    <3>6. CASE stage = "adhoc"
      <4>1. Committed = {"swiftshader"}
        BY <2>t, <3>1, <3>6 DEF Committed, Stack
      <4>2. Chain!Publish
        BY <3>4, <3>6, <4>1 DEF Chain!Publish, Chain!NextStage, Committed
      <4> QED BY <4>2 DEF ChainStep
    <3> QED BY <2>t, <3>5, <3>6
  <2>3. CASE RejectReceipt
    <3>1. alias
      BY <1>2, <2>3 DEF RejectReceipt, Trusted, Recoverable, Plain
    <3>2. stage = "swiftshader" => ~Published("adhoc")
      BY <2>3, <2>t, <3>1 DEF RejectReceipt, Stack
    <3> QED BY <2>3, <2>t, <3>2, WithdrawStep DEF RejectReceipt
  <2>4. CASE Retract
    <3>1. stage = "swiftshader" => ~Published("adhoc")
      BY <2>4, <2>t, NotPlanned DEF Retract, Stack
    <3> QED BY <2>1, <2>4, <2>t, <3>1, WithdrawStep DEF Retract
  <2> QED BY <1>2, <2>1, <2>2, <2>3, <2>4, ReceiptUnchanged DEF vars
<1>3. Trusted /\ [Next]_vars => [Chain!Publish \/ Chain!Withdraw]_Committed
  BY <1>2 DEF ChainStep
<1> QED BY <1>1, <1>3, TrustedInit, TrustedNext, PTL DEF Spec, StageOrder, Chain!ChainSpec, Committed

-----------------------------------------------------------------------------
(* One failure at most, without the alias: the in-memory copies.            *)
Texts == Scripts \cup Copies
Same == \A f \in Texts : tree[f] = settled[f]
Mine(s) == Sources(s) \cup Packages(s)
Patching == {"patch", "unlink", "ninja", "check", "link"}

(* What the files are when the stage ends.                                  *)
IsFinal(files) == StateOf(stage, files) = IF found.source = "post-adhoc" THEN "post-adhoc" ELSE "post"

Kept ==
    /\ \A f \in Mine(stage) : memory[f] = settled[f]
    /\ \A f \in Texts \ Mine(stage) : tree[f] = settled[f]
    /\ ~Published(stage)

(* How far the files are, before anything has failed.                       *)
PlanAgrees ==
    /\ found.source \in {"pre", "post", "post-adhoc"}
    /\ found.source = "pre" => found.package = "pre"
    /\ found.source = "post-adhoc" => found.package = "post-adhoc" /\ stage = "swiftshader"

Onward ==
    /\ pc = "patch" =>
         /\ PlanAgrees
         /\ found.source = "pre" => \A f \in Sources(stage) \ todo : tree[f] = stage
         /\ found.source # "pre" => IsFinal(Sources(stage))
         /\ stage = "swiftshader" /\ found.package # "pre" => IsFinal(Packages(stage))
    /\ pc \in {"unlink", "ninja"} =>
         found.source # "post-adhoc" /\ \A f \in Sources(stage) : tree[f] = stage
    /\ pc = "ninja" => \A f \in Packages(stage) \ todo : tree[f] = stage
    /\ pc = "check" => IsFinal(Sources(stage)) /\ IsFinal(Packages(stage))
    /\ leftover = IF pc \in {"link", "linked"} THEN {stage} ELSE {}

Undone ==
    /\ todo \subseteq Mine(stage)
    /\ \A f \in todo : memory[f] = settled[f]
    /\ \A f \in Texts \ todo : tree[f] = settled[f]

Lone ==
    /\ pc \in {"idle", "plan", "linked", "validate"} => Same
    /\ pc \in Patching => Kept
    /\ pc = "patch" => todo \subseteq Sources(stage)
    /\ pc \in {"unlink", "ninja"} => todo \subseteq Packages(stage)
    /\ faults = 0 => Onward
    /\ pc = "link" => IsFinal(Sources(stage)) /\ IsFinal(Packages(stage))
    /\ pc \in {"linked", "validate"} => Valid(stage)
    /\ pc \in {"retract", "undo"} => faults = 1
    /\ pc = "retract" => Kept \/ (Same /\ Valid(stage))
    /\ pc = "undo" => Undone

LEMMA LoneFiles ==
    ASSUME stage \in Stages
    PROVE  /\ Mine(stage) \subseteq Texts /\ "history" \notin Texts
           /\ Sources(stage) \subseteq Scripts /\ Packages(stage) \subseteq Copies
           /\ Scripts \cap Copies = {}
           /\ Sources(stage) # {} /\ Packages(stage) # {}
           /\ \A f \in Packages(stage) : ScriptOf[f] \in Sources(stage)
BY DEF Mine, Texts, Sources, Packages, Scripts, Copies, Stages, ScriptOf

LEMMA PostIs ==
    ASSUME NEW s \in Stages, NEW S, S = Sources(s) \/ S = Packages(s)
    PROVE  StateOf(s, S) = "post" <=> \A f \in S : tree[f] = s
<1>1. \A f \in S : PreImage(s, f) # s
  BY DEF PreImage, Stages
<1>2. S # {}
  BY DEF Sources, Packages, Scripts, Copies, Stages
<1>3. (\A f \in S : tree[f] = s) => ~(\A f \in S : tree[f] = PreImage(s, f))
  BY <1>1, <1>2
<1> QED BY <1>3 DEF StateOf, PostImage

LEMMA PostForms ==
    \A s \in Stages :
        /\ StateOf(s, Sources(s)) = "post" <=> \A f \in Sources(s) : tree[f] = s
        /\ StateOf(s, Packages(s)) = "post" <=> \A f \in Packages(s) : tree[f] = s
BY PostIs

LEMMA PostNext ==
    (\A s \in Stages :
        /\ StateOf(s, Sources(s)) = "post" <=> \A f \in Sources(s) : tree[f] = s
        /\ StateOf(s, Packages(s)) = "post" <=> \A f \in Packages(s) : tree[f] = s)'
BY PostForms, PTL

LEMMA AdhocIs ==
    ASSUME NEW s \in Stages, NEW S, StateOf(s, S) = "post-adhoc"
    PROVE  s = "swiftshader" /\ \A f \in S : tree[f] = "adhoc"
BY DEF StateOf

(* What a published receipt of a finished stage is worth.                   *)
LEMMA FinalValid ==
    ASSUME ~alias, stage \in Stages, Published(stage), receipt[stage].found = found.source,
           stage = "adhoc" => Published("swiftshader"),
           IsFinal(Sources(stage)), IsFinal(Packages(stage))
    PROVE  Valid(stage)
<1>1. CASE stage = "swiftshader" /\ found.source # "post-adhoc"
  <2>1. tree["parts"] = "swiftshader" /\ tree["partsCopy"] = "swiftshader"
    BY <1>1, PostIs DEF IsFinal, Sources, Packages, Stages
  <2> QED BY <1>1, <2>1 DEF Valid, SwiftShaderValid
<1>2. CASE stage = "swiftshader" /\ found.source = "post-adhoc"
  <2>1. tree["parts"] = "adhoc" /\ tree["partsCopy"] = "adhoc"
    BY <1>2, AdhocIs DEF IsFinal, Sources, Packages, Stages
  <2> QED BY <1>2, <2>1 DEF Valid, SwiftShaderValid
<1>3. CASE stage = "adhoc"
  <2>1. found.source # "post-adhoc"
    BY <1>3, AdhocIs DEF IsFinal
  <2>2. StateOf("adhoc", Scripts) = "post" /\ StateOf("adhoc", Copies) = "post"
    BY <1>3, <2>1 DEF IsFinal, Sources, Packages
  <2>3. \A f \in Scripts : tree[f] = "adhoc"
    BY <1>3, <2>2, PostIs DEF Sources
  <2>4. \A f \in Copies : tree[f] = "adhoc"
    BY <1>3, <2>2, PostIs DEF Packages
  <2> QED BY <1>3, <2>2, <2>3, <2>4 DEF Valid, AdhocValid, SwiftShaderValid, Scripts, Copies
<1> QED BY <1>1, <1>2, <1>3 DEF Stages

LEMMA FinalForms ==
    ~alias /\ stage \in Stages /\ Published(stage) /\ receipt[stage].found = found.source
    /\ (stage = "adhoc" => Published("swiftshader"))
    /\ IsFinal(Sources(stage)) /\ IsFinal(Packages(stage))
    => Valid(stage)
BY FinalValid

LEMMA FinalValidNext ==
    (~alias /\ stage \in Stages /\ Published(stage) /\ receipt[stage].found = found.source
     /\ (stage = "adhoc" => Published("swiftshader"))
     /\ IsFinal(Sources(stage)) /\ IsFinal(Packages(stage))
     => Valid(stage))'
BY FinalForms, PTL

LEMMA FinalMayPublish ==
    ASSUME IsFinal(Sources(stage)), IsFinal(Packages(stage)), stage \notin leftover
    PROVE  MayPublish
BY DEF IsFinal, MayPublish

LEMMA PublishFinal ==
    ASSUME MayPublish
    PROVE  IsFinal(Sources(stage)) /\ IsFinal(Packages(stage))
BY DEF IsFinal, MayPublish

-----------------------------------------------------------------------------
LonePoints == {"idle", "plan", "patch", "unlink", "ninja", "check", "link", "linked", "validate",
               "retract", "undo"}

(* The process ends, and the files are settled.                             *)
LEMMA LoneLeave ==
    ASSUME Lone, Leave, Same, UNCHANGED <<tree, settled, leftover>>,
           faults' = 0 => faults = 0 /\ pc \notin {"link", "linked"}
    PROVE  Lone'
<1>1. pc' = "idle"
  BY DEF Leave
<1>2. Same'
  BY DEF Same
<1>3. faults' = 0 => leftover' = {}
  BY DEF Lone, Onward
<1> QED BY <1>1, <1>2, <1>3 DEF Lone, Onward, Patching

(* Something fails while the stage executes.                                *)
LEMMA LoneRaise ==
    ASSUME Lone, pc \in LonePoints, Raise, UNCHANGED <<tree, settled, receipt, leftover, alias>>,
           faults' = 1, pc \notin {"retract", "undo"}, stage \in Stages
    PROVE  Lone'
<1>1. CASE pc \in {"patch", "unlink", "ninja", "check", "link"}
  <2>1. pc' = "retract" /\ UNCHANGED <<stage, memory>>
    BY <1>1 DEF Raise, ExecutePoints, Goto
  <2>2. Kept'
    BY <1>1, <2>1 DEF Lone, Patching, Kept, Published
  <2> QED BY <2>1, <2>2 DEF Lone, Patching
<1>2. CASE pc \in {"linked", "validate"}
  <2>1. pc' = "retract" /\ UNCHANGED <<stage, memory>>
    BY <1>2 DEF Raise, ExecutePoints, Goto
  <2>2. Same' /\ Valid(stage)'
    BY <1>2, <2>1 DEF Lone, Same, Valid, SwiftShaderValid, AdhocValid, StateOf, Published
  <2> QED BY <2>1, <2>2 DEF Lone, Patching
<1>3. CASE pc \in {"idle", "plan"}
  <2>1. Leave
    BY <1>3 DEF Raise, ExecutePoints, BeginPoints
  <2> QED BY <1>3, <2>1, LoneLeave DEF Lone
<1> QED BY <1>1, <1>2, <1>3 DEF LonePoints

LEMMA LonePatchStep ==
    ASSUME TypeInv, ~alias, Lone, UNCHANGED <<alias, faults>>,
           PatchSource \/ Patched \/ UnlinkPackage \/ Unlinked \/ NinjaCopies \/ NinjaRecords
    PROVE  Lone'
<1>t. /\ stage \in Stages /\ tree \in Trees /\ Texts \subseteq Files
      /\ DOMAIN tree = Files
  BY FileSets DEF TypeInv, ImagesOK, Trees, Texts
<1> USE LoneFiles
<1>1. CASE PatchSource
  <2>1. PICK f \in todo : tree' = [tree EXCEPT ![f] = stage] /\ todo' = todo \ {f}
    BY <1>1 DEF PatchSource, PostImage
  <2>2. /\ pc = "patch" /\ found.source = "pre"
        /\ UNCHANGED <<receipt, stage, pc, found, memory, settled, leftover>>
    BY <1>1 DEF PatchSource
  <2>3. f \in Sources(stage) /\ f \in Mine(stage) /\ f \in Files
    BY <1>t, <2>2 DEF Lone, Mine
  <2>4. tree'[f] = stage /\ \A g \in Files \ {f} : tree'[g] = tree[g]
    BY <1>t, <2>1, <2>3
  <2>5. Kept'
    BY <1>t, <2>2, <2>3, <2>4 DEF Lone, Kept, Patching, Published
  <2>6. faults' = 0 => Onward'
    <3> SUFFICES ASSUME faults' = 0 PROVE Onward'
      OBVIOUS
    <3>1. Onward
      BY DEF Lone
    <3>2. PlanAgrees' /\ found'.source = "pre" /\ leftover' = {} /\ found'.package = "pre"
      BY <2>2, <3>1 DEF Onward, PlanAgrees
    <3>3. \A g \in Sources(stage) \ todo' : tree'[g] = stage
      BY <1>t, <2>1, <2>2, <2>4, <3>1 DEF Onward, Texts
    <3> QED BY <2>2, <3>2, <3>3 DEF Onward
  <2> QED BY <2>1, <2>2, <2>5, <2>6 DEF Lone, Patching
<1>2. CASE Patched
  <2>1. /\ UNCHANGED <<tree, receipt, stage, found, memory, settled, leftover>>
        /\ pc = "patch" /\ (found.source # "pre" \/ todo = {})
        /\ pc' \in {"unlink", "ninja", "check"}
        /\ pc' \in {"unlink", "ninja"} => todo' = Packages(stage)
        /\ pc' = "ninja" => stage = "swiftshader" /\ found.package = "pre"
        /\ pc' = "unlink" <=> stage = "adhoc"
        /\ pc' = "check" => stage # "adhoc" /\ found.package # "pre"
    BY <1>2, <1>t DEF Patched, Loop, Stages
  <2>2. Kept'
    BY <2>1 DEF Lone, Kept, Patching, Published
  <2>3. faults' = 0 => Onward'
    <3> SUFFICES ASSUME faults' = 0 PROVE Onward'
      OBVIOUS
    <3>1. Onward
      BY DEF Lone
    <3>2. PlanAgrees /\ leftover' = {}
      BY <2>1, <3>1 DEF Onward
    <3>3. found.source # "post-adhoc" => \A f \in Sources(stage) : tree[f] = stage
      BY <1>t, <2>1, <3>1, PostIs DEF Onward, IsFinal
    <3>4. pc' \in {"unlink", "ninja"} => found.source # "post-adhoc"
      BY <2>1, <3>2 DEF PlanAgrees, Stages
    <3>5. pc' = "check" => IsFinal(Sources(stage)) /\ IsFinal(Packages(stage))
      BY <1>t, <2>1, <3>1, <3>2 DEF Onward, PlanAgrees, Stages
    <3>6. pc' = "check" => (IsFinal(Sources(stage)) /\ IsFinal(Packages(stage)))'
      BY <2>1, <3>5 DEF IsFinal, StateOf
    <3> QED BY <2>1, <3>2, <3>3, <3>4, <3>6 DEF Onward
  <2> QED BY <2>1, <2>2, <2>3 DEF Lone, Patching
<1>3. CASE UnlinkPackage
  <2>1. PICK f \in todo : tree' = [tree EXCEPT ![f] = "absent"] /\ todo' = todo \ {f}
    BY <1>3 DEF UnlinkPackage
  <2>2. pc = "unlink" /\ UNCHANGED <<receipt, stage, pc, found, memory, settled, leftover>>
    BY <1>3 DEF UnlinkPackage
  <2>3. f \in Packages(stage) /\ f \in Mine(stage) /\ f \in Files
    BY <1>t, <2>2 DEF Lone, Mine
  <2>4. \A g \in Files \ {f} : tree'[g] = tree[g]
    BY <1>t, <2>1, <2>3
  <2>5. Kept'
    BY <1>t, <2>2, <2>3, <2>4 DEF Lone, Kept, Patching, Published
  <2>6. \A g \in Sources(stage) : tree'[g] = tree[g]
    BY <1>t, <2>3, <2>4 DEF Texts
  <2>7. faults' = 0 => Onward'
    BY <2>2, <2>6 DEF Lone, Onward
  <2> QED BY <2>1, <2>2, <2>5, <2>7 DEF Lone, Patching
<1>4. CASE Unlinked
  <2>1. /\ UNCHANGED <<tree, receipt, stage, found, memory, settled, leftover>>
        /\ pc = "unlink" /\ pc' = "ninja" /\ todo' = Packages(stage)
    BY <1>4 DEF Unlinked, Loop
  <2>2. Kept'
    BY <2>1 DEF Lone, Kept, Patching, Published
  <2>3. faults' = 0 => Onward'
    BY <2>1 DEF Lone, Onward
  <2> QED BY <2>1, <2>2, <2>3 DEF Lone, Patching
<1>5. CASE NinjaCopies
  <2>1. PICK f \in todo : tree' = [tree EXCEPT ![f] = tree[ScriptOf[f]]] /\ todo' = todo \ {f}
    BY <1>5 DEF NinjaCopies
  <2>2. pc = "ninja" /\ UNCHANGED <<receipt, stage, pc, found, memory, settled, leftover>>
    BY <1>5 DEF NinjaCopies
  <2>3. f \in Packages(stage) /\ f \in Mine(stage) /\ f \in Files /\ ScriptOf[f] \in Sources(stage)
    BY <1>t, <2>2 DEF Lone, Mine
  <2>4. tree'[f] = tree[ScriptOf[f]] /\ \A g \in Files \ {f} : tree'[g] = tree[g]
    BY <1>t, <2>1, <2>3
  <2>5. Kept'
    BY <1>t, <2>2, <2>3, <2>4 DEF Lone, Kept, Patching, Published
  <2>6. \A g \in Sources(stage) : tree'[g] = tree[g]
    BY <1>t, <2>3, <2>4 DEF Texts
  <2>7. faults' = 0 => Onward'
    <3> SUFFICES ASSUME faults' = 0 PROVE Onward'
      OBVIOUS
    <3>1. Onward
      BY DEF Lone
    <3>2. tree'[f] = stage
      BY <2>2, <2>3, <2>4, <3>1 DEF Onward
    <3>3. \A g \in Packages(stage) \ todo' : tree'[g] = stage
      BY <1>t, <2>1, <2>2, <2>4, <3>1, <3>2 DEF Onward, Texts
    <3> QED BY <2>2, <2>6, <3>1, <3>3 DEF Onward
  <2> QED BY <2>1, <2>2, <2>5, <2>7 DEF Lone, Patching
<1>6. CASE NinjaRecords
  <2>1. /\ UNCHANGED <<receipt, stage, found, memory, settled, leftover>> /\ todo = {}
        /\ pc = "ninja" /\ pc' = "check"
        /\ \E h : tree' = [tree EXCEPT !["history"] = h]
    BY <1>6 DEF NinjaRecords, Goto
  <2>2. \A g \in Texts : tree'[g] = tree[g]
    BY <1>t, <2>1
  <2>3. Kept'
    BY <1>t, <2>1, <2>2 DEF Lone, Kept, Patching, Published
  <2>4. faults' = 0 => Onward'
    <3> SUFFICES ASSUME faults' = 0 PROVE Onward'
      OBVIOUS
    <3>1. Onward
      BY DEF Lone
    <3>2. /\ \A f \in Sources(stage) : tree'[f] = stage
          /\ \A f \in Packages(stage) : tree'[f] = stage
          /\ found.source # "post-adhoc"
      BY <1>t, <2>1, <2>2, <3>1 DEF Onward, Texts
    <3>3. (StateOf(stage, Sources(stage)) = "post")' /\ (StateOf(stage, Packages(stage)) = "post")'
      BY <1>t, <2>1, <3>2, PostNext
    <3> QED BY <2>1, <3>1, <3>2, <3>3 DEF Onward, IsFinal
  <2> QED BY <2>1, <2>3, <2>4 DEF Lone, Patching
<1> QED BY <1>1, <1>2, <1>3, <1>4, <1>5, <1>6

-----------------------------------------------------------------------------
LEMMA LonePlanned ==
    ASSUME TypeInv, ~alias, Lone, Plan
    PROVE  Lone'
<1>t. stage \in Stages
  BY DEF TypeInv, ImagesOK
<1> USE LoneFiles, <1>t
<1>1. /\ pc = "plan" /\ pc' = "patch" /\ todo' = Sources(stage) /\ memory' = tree
      /\ found' = [source |-> StateOf(stage, Sources(stage)),
                   package |-> StateOf(stage, Packages(stage))]
      /\ UNCHANGED <<tree, receipt, stage, settled, leftover, faults, alias>>
      /\ PlanHolds(stage)
  BY DEF Plan
<1>2. Same
  BY <1>1 DEF Lone
<1>3. Kept'
  BY <1>1, <1>2 DEF Same, Kept, Published, PlanHolds, Texts
<1>4. StatesAgree(StateOf(stage, Sources(stage)), StateOf(stage, Packages(stage)))
  BY <1>1 DEF PlanHolds
<1>5. faults' = 0 => Onward'
  <2> SUFFICES ASSUME faults' = 0 PROVE Onward'
    OBVIOUS
  <2>1. leftover' = {}
    BY <1>1 DEF Lone, Onward
  <2>2. found'.source = StateOf(stage, Sources(stage)) /\ found'.package = StateOf(stage, Packages(stage))
    BY <1>1
  <2>3. StateOf(stage, Sources(stage))' = StateOf(stage, Sources(stage))
        /\ StateOf(stage, Packages(stage))' = StateOf(stage, Packages(stage))
    BY <1>1 DEF StateOf
  <2>4. PlanAgrees'
    BY <1>1, <1>4, <2>2, AdhocIs DEF StatesAgree, PlanAgrees
  <2>5. found'.source # "pre" => IsFinal(Sources(stage))'
    BY <1>1, <1>4, <2>2, <2>3 DEF StatesAgree, IsFinal
  <2>6. found'.package # "pre" => IsFinal(Packages(stage))'
    BY <1>1, <1>4, <2>2, <2>3 DEF StatesAgree, IsFinal
  <2> QED BY <1>1, <2>1, <2>4, <2>5, <2>6 DEF Onward
<1> QED BY <1>1, <1>3, <1>5 DEF Lone, Patching

LEMMA LonePublish ==
    ASSUME TypeInv, Stack, ~alias, Lone, faults' \in 0 .. 1,
           WriteReceiptTemp \/ LinkReceipt \/ ReceiptReturned \/ Commit
    PROVE  Lone'
<1>t. /\ stage \in Stages /\ found.source \in FileStates /\ receipt \in [Stages -> Receipts]
      /\ faults \in Nat
  BY DEF TypeInv, ImagesOK, FoundOK, DiskOK, BoundsOK
<1> USE LoneFiles, <1>t
<1>1. CASE WriteReceiptTemp
  <2>1. /\ pc = "check" /\ pc' = "link" /\ MayPublish /\ leftover' = leftover \cup {stage}
        /\ UNCHANGED <<tree, receipt, stage, found, memory, settled, faults>>
    BY <1>1 DEF WriteReceiptTemp, Goto
  <2>2. Kept'
    BY <2>1 DEF Lone, Kept, Patching, Published
  <2>3. (IsFinal(Sources(stage)) /\ IsFinal(Packages(stage)))'
    BY <2>1, PublishFinal DEF IsFinal, StateOf
  <2>4. faults' = 0 => Onward'
    BY <2>1 DEF Lone, Onward
  <2> QED BY <2>1, <2>2, <2>3, <2>4 DEF Lone, Patching
<1>2. CASE LinkReceipt
  <2>1. /\ pc = "link" /\ pc' = "linked" /\ settled' = tree
        /\ receipt' = [receipt EXCEPT ![stage] =
                         [found |-> found.source, before |-> memory["history"],
                          after |-> tree["history"]]]
        /\ UNCHANGED <<tree, stage, found, leftover, faults, alias>>
    BY <1>2 DEF LinkReceipt, Goto
  <2>2. receipt'[stage].found = found.source /\ Published(stage)'
    <3>1. receipt'[stage].found = found.source
      BY <2>1
    <3> QED BY <2>1, <3>1 DEF Published, NoReceipt, FileStates
  <2>3. stage = "adhoc" => Published("swiftshader")'
    BY <2>1, NotPlanned DEF Stack, Published, Stages
  <2>4. (IsFinal(Sources(stage)) /\ IsFinal(Packages(stage)))'
    BY <2>1 DEF Lone, IsFinal, StateOf
  <2>5. Valid(stage)'
    BY <2>1, <2>2, <2>3, <2>4, FinalValidNext
  <2>6. Same'
    BY <2>1 DEF Same
  <2>7. faults' = 0 => Onward'
    BY <2>1 DEF Lone, Onward
  <2> QED BY <2>1, <2>5, <2>6, <2>7 DEF Lone, Patching
<1>3. CASE ReceiptReturned
  <2>1. /\ pc = "linked" /\ pc' = "validate"
        /\ UNCHANGED <<tree, receipt, stage, settled, alias>>
        /\ (leftover' = leftover \ {stage} /\ UNCHANGED faults) \/ faults' = faults + 1
    BY <1>3 DEF ReceiptReturned, SpendFault
  <2>2. Valid(stage)' /\ Same'
    BY <2>1 DEF Lone, Same, Valid, SwiftShaderValid, AdhocValid, StateOf, Published
  <2>3. faults' = 0 => Onward'
    BY <2>1 DEF Lone, Onward
  <2> QED BY <2>1, <2>2, <2>3 DEF Lone, Patching
<1>4. CASE Commit
  <2>1. pc = "validate" /\ Leave /\ UNCHANGED <<tree, settled, leftover, faults>>
    BY <1>4 DEF Commit, Passes
  <2> QED BY <2>1, LoneLeave DEF Lone
<1> QED BY <1>1, <1>2, <1>3, <1>4

LEMMA LoneUndo ==
    ASSUME TypeInv, ~alias, Lone, faults' \in 0 .. 1,
           Retract \/ RefuseRollback \/ UndoItem \/ UndoHistoryTemp
    PROVE  Lone'
<1>t. /\ stage \in Stages /\ tree \in Trees /\ Texts \subseteq Files /\ faults \in Nat
  BY FileSets DEF TypeInv, ImagesOK, Texts, BoundsOK
<1> USE LoneFiles, <1>t
<1>v. Valid(stage) => Published(stage)
  BY DEF Valid, SwiftShaderValid, AdhocValid, Stages
<1>f. faults = 1
  BY DEF Lone, Retract, RefuseRollback, UndoItem, UndoHistoryTemp
<1>1. CASE Retract
  <2>0. pc = "retract"
    BY <1>1 DEF Retract
  <2>1. ~(Published(stage) /\ owned /\ Fails(Valid(stage)))
    <3> SUFFICES ASSUME Published(stage), Fails(Valid(stage)) PROVE FALSE
      OBVIOUS
    <3>1. Valid(stage)
      BY <2>0 DEF Lone, Kept
    <3> QED BY <3>1, <1>f DEF Fails, SpendFault
  <2>2. /\ ~Published(stage) /\ UNCHANGED <<tree, receipt, settled, faults, stage, memory>>
        /\ pc' = "undo" /\ todo' = Mine(stage)
    BY <1>1, <2>1 DEF Retract, Loop, Mine
  <2>3. Kept
    BY <2>0, <2>2, <1>v DEF Lone
  <2>4. Undone'
    BY <2>2, <2>3 DEF Kept, Undone
  <2> QED BY <2>2, <2>4, <1>f DEF Lone, Patching
<1>2. CASE RefuseRollback
  <2>1. Published(stage) /\ pc = "retract" /\ Leave /\ UNCHANGED <<tree, settled, leftover>>
    BY <1>2 DEF RefuseRollback
  <2>2. Same
    BY <2>1 DEF Lone, Kept
  <2>3. faults' # 0
    BY <1>2, <1>f DEF RefuseRollback, Passes, Fails, SpendFault
  <2> QED BY <2>1, <2>2, <2>3, LoneLeave
<1>3. CASE UndoItem
  <2>1. PICK f \in todo : tree' = [tree EXCEPT ![f] = memory[f]] /\ todo' = todo \ {f}
    BY <1>3 DEF UndoItem
  <2>2. pc = "undo" /\ UNCHANGED <<receipt, stage, pc, found, memory, settled, leftover, faults>>
    BY <1>3 DEF UndoItem
  <2>3. f \in Texts /\ memory[f] = settled[f]
    BY <2>1, <2>2 DEF Lone, Undone
  <2>4. tree'[f] = memory[f] /\ \A g \in Files \ {f} : tree'[g] = tree[g]
    BY <1>t, <2>1, <2>3 DEF Trees
  <2>5. Undone'
    BY <1>t, <2>1, <2>2, <2>3, <2>4 DEF Lone, Undone
  <2> QED BY <2>2, <2>5, <1>f DEF Lone, Patching
<1>4. CASE UndoHistoryTemp
  <2>1. pc = "undo" /\ todo = {} /\ Leave /\ UNCHANGED <<tree, settled, leftover, faults>>
    BY <1>4 DEF UndoHistoryTemp
  <2>2. Same
    BY <2>1 DEF Lone, Undone, Same
  <2> QED BY <2>1, <2>2, <1>f, LoneLeave
<1> QED BY <1>1, <1>2, <1>3, <1>4

LEMMA LoneStep ==
    ASSUME TypeInv, Stack, ~alias, Plain, Lone, faults' \in 0 .. 1, Next, ~Crash
    PROVE  Lone'
<1>t. stage \in Stages /\ faults \in Nat
  BY DEF TypeInv, ImagesOK, BoundsOK
<1>a. alias' = alias
  BY AliasStays
<1>p. pc \in LonePoints
  BY DEF Plain, LonePoints
<1>1. CASE \E s \in Stages : Start(s)
  <2>1. pc = "idle" /\ pc' = "plan" /\ UNCHANGED <<tree, settled, leftover, faults>>
    BY <1>1 DEF Start
  <2>2. Same'
    BY <2>1 DEF Lone, Same
  <2> QED BY <2>1, <2>2 DEF Lone, Onward, Patching
<1>2. CASE Plan
  BY <1>2, LonePlanned
<1>3. CASE PlanRefused
  BY <1>3, LoneLeave DEF PlanRefused, Lone
<1>4. CASE PatchSource \/ Patched \/ UnlinkPackage \/ Unlinked \/ NinjaCopies \/ NinjaRecords
  <2>1. UNCHANGED faults
    BY <1>4 DEF PatchSource, Patched, UnlinkPackage, Unlinked, NinjaCopies, NinjaRecords
  <2> QED BY <1>4, <1>a, <2>1, LonePatchStep
<1>5. CASE WriteReceiptTemp \/ LinkReceipt \/ ReceiptReturned \/ Commit
  BY <1>5, LonePublish
<1>6. CASE Retract \/ RefuseRollback \/ UndoItem \/ UndoHistoryTemp
  BY <1>6, LoneUndo
<1>7. CASE Fault
  <2>1. faults = 0 /\ faults' = 1 /\ Raise /\ UNCHANGED <<tree, settled, receipt, leftover>>
    BY <1>7, <1>t DEF Fault, SpendFault
  <2> QED BY <1>p, <1>a, <1>t, <2>1, LoneRaise DEF Lone
<1>8. CASE CheckFails
  <2>1. /\ pc = "check" /\ ~MayPublish /\ Raise
        /\ UNCHANGED <<tree, settled, receipt, leftover, faults>>
    BY <1>8 DEF CheckFails
  <2>2. faults # 0
    BY <2>1, FinalMayPublish DEF Lone, Onward
  <2> QED BY <1>p, <1>a, <1>t, <2>1, <2>2, LoneRaise
<1>9. CASE CommitRefused
  <2>1. pc = "validate" /\ Fails(Valid(stage)) /\ Raise /\ UNCHANGED <<tree, settled, receipt, leftover>>
    BY <1>9 DEF CommitRefused
  <2>2. faults' = 1
    BY <1>t, <2>1 DEF Lone, Fails, SpendFault
  <2> QED BY <1>p, <1>a, <1>t, <2>1, <2>2, LoneRaise
<1> QED BY <1>1, <1>2, <1>3, <1>4, <1>5, <1>6, <1>7, <1>8, <1>9
        DEF Next, Step, Plain, SweepDone, SweepRename, SweepRemove, SweepUnlink, Authorize, Inspect,
            AcceptReceipt, RejectReceipt, RestoreItem, RestoreDone, BeginRoot, BeginBackup,
            BeginJournal, BeginSeal, UndoHistory

LEMMA CountsGrow ==
    ASSUME TypeInv, Next, crashes' = 0
    PROVE  crashes = 0 /\ ~Crash /\ faults <= faults' /\ faults' \in Nat
<1>t. crashes \in Nat /\ faults \in Nat
  BY DEF TypeInv, BoundsOK
<1>1. crashes' = crashes \/ crashes' = crashes + 1
  BY DEF Next, Step, Start, SweepDone, SweepRename, SweepRemove, SweepUnlink, Authorize, Inspect,
         AcceptReceipt, RejectReceipt, RestoreItem, RestoreDone, Plan, PlanRefused, BeginRoot,
         BeginBackup, BeginJournal, BeginSeal, PatchSource, Patched, UnlinkPackage, Unlinked,
         NinjaCopies, NinjaRecords, WriteReceiptTemp, LinkReceipt, ReceiptReturned, Commit,
         Retract, RefuseRollback, UndoItem, UndoHistoryTemp, UndoHistory, CheckFails,
         CommitRefused, Fault, Crash
<1>2. faults' = faults \/ faults' = faults + 1
  BY DEF Next, Step, Start, SweepDone, SweepRename, SweepRemove, SweepUnlink, Authorize, Inspect,
         AcceptReceipt, RejectReceipt, RestoreItem, RestoreDone, Plan, PlanRefused, BeginRoot,
         BeginBackup, BeginJournal, BeginSeal, PatchSource, Patched, UnlinkPackage, Unlinked,
         NinjaCopies, NinjaRecords, WriteReceiptTemp, LinkReceipt, ReceiptReturned, Commit,
         Retract, RefuseRollback, UndoItem, UndoHistoryTemp, UndoHistory, CheckFails,
         CommitRefused, Fault, Crash, SpendFault, Passes, Fails
<1>3. ~Crash
  BY <1>t DEF Crash
<1> QED BY <1>t, <1>1, <1>2, <1>3

(* As long as nothing died and at most one thing failed.                    *)
LoneInv == ~alias /\ crashes = 0 /\ faults <= 1 => Lone

LEMMA LoneInit == Init => LoneInv
BY DEF Init, LoneInv, Lone, Same, Onward, Patching

LEMMA LoneNext ==
    ASSUME Trusted, LoneInv, [Next]_vars
    PROVE  LoneInv'
<1> SUFFICES ASSUME ~alias', crashes' = 0, faults' <= 1 PROVE Lone'
  BY DEF LoneInv
<1>1. TypeInv /\ Stack /\ (~alias => Plain)
  BY DEF Trusted, Recoverable
<1>2. CASE Next
  <2>1. ~alias
    BY <1>2, AliasStays
  <2>2. crashes = 0 /\ ~Crash /\ faults <= faults' /\ faults' \in Nat
    BY <1>1, <1>2, CountsGrow
  <2>3. Lone
    BY <2>1, <2>2, <1>1 DEF LoneInv, TypeInv, BoundsOK
  <2> QED BY <1>1, <1>2, <2>1, <2>2, <2>3, LoneStep
<1>3. CASE UNCHANGED vars
  <2>1. Lone
    BY <1>3 DEF vars, LoneInv
  <2>2. /\ Same' <=> Same
        /\ Kept' <=> Kept
        /\ Onward' <=> Onward
        /\ Undone' <=> Undone
        /\ Valid(stage)' <=> Valid(stage)
    BY <1>3 DEF vars, Same, Kept, Onward, Undone, Valid, SwiftShaderValid, AdhocValid, StateOf,
                Published, PlanAgrees, IsFinal
  <2>3. IsFinal(Sources(stage))' <=> IsFinal(Sources(stage))
    BY <1>3 DEF vars, IsFinal, StateOf
  <2>4. IsFinal(Packages(stage))' <=> IsFinal(Packages(stage))
    BY <1>3 DEF vars, IsFinal, StateOf
  <2> QED BY <1>3, <2>1, <2>2, <2>3, <2>4 DEF vars, Lone
<1> QED BY <1>2, <1>3

(* Without the alias a single failure, whatever it hits, leaves every       *)
(* script as it was at the last receipt.                                    *)
THEOREM OneFailureUndone ==
    ASSUME ~OutOfOrder PROVE Spec => []SingleFailureUndone
<1>1. LoneInv => SingleFailureUndone
  BY DEF LoneInv, Lone, Same, Texts, SingleFailureUndone
<1>2. Trusted /\ LoneInv /\ [Next]_vars => LoneInv'
  BY LoneNext
<1> QED BY <1>1, <1>2, LoneInit, TrustedInit, TrustedNext, PTL DEF Spec
=============================================================================
