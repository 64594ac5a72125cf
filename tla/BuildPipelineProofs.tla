------------------------ MODULE BuildPipelineProofs -------------------------
(***************************************************************************)
(* Theorems about BuildPipeline, for any number of mishaps.                *)
(***************************************************************************)
EXTENDS BuildPipeline, TLAPS

USE DriverAssumption DEF driver, papers, children, downloads, tree, source, adoption,
                         outputs, staging, recovery, fresh, universal

-----------------------------------------------------------------------------
(* The choices the stages make. *)

LEMMA FirstOfFiles ==
  ASSUME NEW c \in Compats, NEW S \in SUBSET FilesOf(c), S # {}
  PROVE  First(S) \in S /\ \A g \in S : First(S)[2] <= g[2]
  <1>1. PICK g \in S : TRUE  OBVIOUS
  <1>2. \A h \in S : h = <<c, 1>> \/ h = <<c, 2>>  BY DEF FilesOf
  <1>3. \E f \in S : \A h \in S : f[2] <= h[2]
    <2>1. CASE <<c, 1>> \in S
      <3>1. \A h \in S : <<c, 1>>[2] <= h[2]  BY <1>2
      <3> QED BY <2>1, <3>1
    <2>2. CASE <<c, 1>> \notin S
      <3>1. \A h \in S : g[2] <= h[2]  BY <1>1, <1>2, <2>2
      <3> QED BY <1>1, <3>1
    <2> QED BY <2>1, <2>2
  <1> QED BY <1>3 DEF First

LEMMA Positions ==
  /\ Position("stagedApp") = 1 /\ Position("stage") = 2 /\ Position("reclaim") = 3
  /\ Position("x64App") = 4 /\ Position("x64") = 5 /\ Position("signing") = 6
  <1>1. DOMAIN Order = 1..6  BY DEF Order
  <1>2. /\ Order[1] = "stagedApp" /\ Order[2] = "stage" /\ Order[3] = "reclaim"
        /\ Order[4] = "x64App" /\ Order[5] = "x64" /\ Order[6] = "signing"
    BY DEF Order
  <1> QED BY <1>1, <1>2 DEF Position

LEMMA FirstArtifact ==
  ASSUME NEW S \in SUBSET Artifacts, S # {}
  PROVE  /\ \E a \in S : \A b \in S : Position(a) <= Position(b)
         /\ \E a \in S : \A b \in S : Position(b) <= Position(a)
  <1>1. S \subseteq {"stagedApp", "stage", "reclaim", "x64App", "x64", "signing"}
    BY DEF Artifacts
  <1>2. \E a \in S : \A b \in S : Position(a) <= Position(b)
    <2>1. CASE "stagedApp" \in S  BY <1>1, <2>1, Positions
    <2>2. CASE "stagedApp" \notin S /\ "stage" \in S  BY <1>1, <2>2, Positions
    <2>3. CASE S \cap {"stagedApp", "stage"} = {} /\ "reclaim" \in S  BY <1>1, <2>3, Positions
    <2>4. CASE S \cap {"stagedApp", "stage", "reclaim"} = {} /\ "x64App" \in S
      BY <1>1, <2>4, Positions
    <2>5. CASE S \subseteq {"x64", "signing"} /\ "x64" \in S  BY <2>5, Positions
    <2>6. CASE S \subseteq {"signing"}
      <3>1. S = {"signing"}
        BY <2>6
      <3> QED BY <3>1, Positions
    <2> QED BY <1>1, <2>1, <2>2, <2>3, <2>4, <2>5, <2>6
  <1>3. \E a \in S : \A b \in S : Position(b) <= Position(a)
    <2>1. CASE "signing" \in S  BY <1>1, <2>1, Positions
    <2>2. CASE "signing" \notin S /\ "x64" \in S  BY <1>1, <2>2, Positions
    <2>3. CASE S \cap {"signing", "x64"} = {} /\ "x64App" \in S  BY <1>1, <2>3, Positions
    <2>4. CASE S \cap {"signing", "x64", "x64App"} = {} /\ "reclaim" \in S
      BY <1>1, <2>4, Positions
    <2>5. CASE S \subseteq {"stagedApp", "stage"} /\ "stage" \in S  BY <2>5, Positions
    <2>6. CASE S \subseteq {"stagedApp"}
      <3>1. S = {"stagedApp"}
        BY <2>6
      <3> QED BY <3>1, Positions
    <2> QED BY <1>1, <2>1, <2>2, <2>3, <2>4, <2>5, <2>6
  <1> QED BY <1>2, <1>3

LEMMA NextArtifact ==
  ASSUME NEW S \in SUBSET Artifacts, S # {}
  PROVE  /\ (CHOOSE a \in S : \A b \in S : Position(a) <= Position(b)) \in S
         /\ (CHOOSE a \in S : \A b \in S : Position(b) <= Position(a)) \in S
  BY FirstArtifact

-----------------------------------------------------------------------------
(* Types. *)

LEMMA SpendTyped ==
  \A k \in Kinds : mishaps \in [Kinds -> Nat] /\ Spend(k) => mishaps' \in [Kinds -> Nat]
  BY DEF Spend

LEMMA PublishTyped ==
  ASSUME DriverTypeOK
  PROVE  \A p \in Papers : \A n, f : Publish(p, n, f) =>
           /\ task' = task
           /\ known' \subseteq {"receipt", "post", "container", "out", "changed"}
           /\ paper' \in [Papers -> {"none", "old", "new"}]
           /\ temps' \subseteq Papers
           /\ mishaps' \in [Kinds -> Nat]
  <1> SUFFICES ASSUME NEW p \in Papers, NEW n, NEW f, Publish(p, n, f)
               PROVE  /\ task' = task
                      /\ known' \subseteq {"receipt", "post", "container", "out", "changed"}
                      /\ paper' \in [Papers -> {"none", "old", "new"}]
                      /\ temps' \subseteq Papers
                      /\ mishaps' \in [Kinds -> Nat]
    OBVIOUS
  <1>1. CASE Spend("error") /\ Cut(p) /\ Goto(f)
    BY <1>1, SpendTyped DEF DriverTypeOK, Cut, Goto, Kinds
  <1>2. CASE UNCHANGED <<temps, mishaps>>
    BY <1>2 DEF DriverTypeOK, Goto, Publish, Cut, Spend
  <1> QED BY <1>1, <1>2 DEF Publish

LEMMA PapersAre ==
  /\ Compats \subseteq Papers /\ Slices \subseteq Papers
  /\ {"bootstrap", "home", "stage", "reclaim", "signing", "fresh"} \subseteq Papers
  /\ Papers \subseteq Tasks \cup {"reclaim", "signing"}
  /\ Compats \subseteq Tasks /\ Slices \subseteq Tasks
  BY DEF Papers, Tasks, Compats, Slices

(* The variables' types, with what keeps them: the count of the patches has  *)
(* room for the one that is under way, and no arm64 output is of the old     *)
(* graph.                                                                    *)
Typed == BuildTypeOK /\ (half => applied < Patches) /\ out["arm"] # "legacy"

LEMMA AcquireTypes ==
  ASSUME Typed, Acquire
  PROVE  DriverTypeOK' /\ SourceTypeOK'
  <1> USE DEF Typed, BuildTypeOK, DriverTypeOK, SourceTypeOK, Begin, Ended, Goto, At, Idle
  <1>0. UNCHANGED <<tree, prepared, snapshot, finalized>>
    BY DEF Acquire
  <1> USE <1>0
  <1>1. CASE StartAcquire
    BY <1>1 DEF StartAcquire, Tasks
  <1>2. CASE SyncCheckout
    BY <1>2 DEF SyncCheckout
  <1>3. CASE FinalizeDownloads
    BY <1>3 DEF FinalizeDownloads
  <1>4. CASE VerifyCheckout
    BY <1>4 DEF VerifyCheckout
  <1>5. CASE WriteMarker
    BY <1>5 DEF WriteMarker
  <1>6. CASE AcquireFails
    BY <1>6, SpendTyped DEF AcquireFails, Kinds
  <1>7. CASE DiscardCheckout
    BY <1>7 DEF DiscardCheckout
  <1>8. CASE StartBootstrap
    BY <1>8 DEF StartBootstrap, Tasks
  <1>9. CASE RunHooks
    BY <1>9 DEF RunHooks
  <1>10. CASE HooksFail
    BY <1>10, SpendTyped DEF HooksFail, PopenGap, Abandon, Tasks, Kinds
  <1>11. CASE PublishBootstrap
    BY <1>11, PublishTyped, PapersAre DEF PublishBootstrap
  <1>12. CASE StrayHooks
    BY <1>12 DEF StrayHooks
  <1> QED BY <1>1, <1>2, <1>3, <1>4, <1>5, <1>6, <1>7, <1>8, <1>9, <1>10, <1>11, <1>12 DEF Acquire

LEMMA WorkTypes ==
  ASSUME Typed
  PROVE  \A p \in Phases : \A n : Work(p, n) =>
           /\ task' = task /\ known' \in {known, {}}
           /\ phase' \in [Phases -> {"no", "some", "yes"}]
  BY DEF Typed, BuildTypeOK, SourceTypeOK, Work, Goto

LEMMA PhaseTypes ==
  ASSUME Typed, Phase, UNCHANGED <<downloads, finalized>>
  PROVE  DriverTypeOK' /\ SourceTypeOK' /\ (half => applied < Patches)'
  <1> USE DEF Typed, BuildTypeOK, DriverTypeOK, SourceTypeOK, Begin, Ended, Goto, At, Idle, Preparing
  <1>0. UNCHANGED <<downloads, finalized, prepared, snapshot, papers, children, mishaps>>
    BY DEF Phase
  <1> USE <1>0
  <1>1. CASE ExtractArchives
    BY <1>1 DEF ExtractArchives
  <1>2. CASE MergeDependencies
    BY <1>2, WorkTypes DEF MergeDependencies, WorkOn, Phases
  <1>3. CASE Prune
    BY <1>3, WorkTypes DEF Prune, WorkOn, Phases
  <1>4. CASE ApplyPatch
    <2>1. applied' \in 0 .. Patches /\ (half' => applied' < Patches) /\ half' \in BOOLEAN
      <3>1. CASE half /\ half' = FALSE /\ applied' = applied + 1
        <4>1. applied \in 0 .. 3 /\ applied < 3
          BY <3>1 DEF Patches
        <4>2. applied' \in 0 .. Patches
          BY <3>1, <4>1 DEF Patches
        <4>3. ~ half' /\ half' \in BOOLEAN
          BY <3>1
        <4> QED BY <4>2, <4>3
      <3>2. CASE ~ half /\ applied < Patches /\ half' = TRUE /\ UNCHANGED applied
        BY <3>2
      <3>3. CASE ~ half /\ UNCHANGED <<applied, half>>
        BY <3>3
      <3> QED BY <1>4, <3>1, <3>2, <3>3 DEF ApplyPatch
    <2>2. task' = task /\ known' \in {known, {}} /\ UNCHANGED <<phase, strings>>
      BY <1>4 DEF ApplyPatch
    <2> QED BY <2>1, <2>2
  <1>5. CASE Transform
    BY <1>5, WorkTypes DEF Transform, WorkOn, Phases
  <1>6. CASE ApplyOverlay
    BY <1>6, WorkTypes DEF ApplyOverlay, Phases
  <1>7. CASE AppendVersion
    BY <1>7 DEF AppendVersion, Phases
  <1>8. CASE CopyResources
    BY <1>8, WorkTypes DEF CopyResources, WorkOn, Phases
  <1>9. CASE InstallIcon
    BY <1>9 DEF InstallIcon, Phases
  <1>10. CASE WriteArgs
    BY <1>10, WorkTypes DEF WriteArgs, WorkOn, Phases
  <1>11. CASE GenerateStrings
    BY <1>11 DEF GenerateStrings
  <1> QED BY <1>1, <1>2, <1>3, <1>4, <1>5, <1>6, <1>7, <1>8, <1>9, <1>10, <1>11 DEF Phase

LEMMA PrepareTypes ==
  ASSUME Typed, Prepare
  PROVE  DriverTypeOK' /\ SourceTypeOK' /\ (half => applied < Patches)'
  <1> USE DEF Typed, BuildTypeOK, DriverTypeOK, SourceTypeOK, Begin, Ended, Goto, At, Idle, Preparing
  <1>0. UNCHANGED downloads
    BY DEF Prepare
  <1> USE <1>0
  <1>1. CASE StartPrepare /\ UNCHANGED <<tree, prepared>>
    BY <1>1 DEF StartPrepare, Tasks
  <1>2. CASE StartResumePatch /\ UNCHANGED <<tree, prepared>>
    BY <1>2 DEF StartResumePatch, Tasks
  <1>3. CASE StartFinalizer /\ UNCHANGED <<tree, prepared>>
    BY <1>3 DEF StartFinalizer, Tasks
  <1>4. CASE Phase /\ UNCHANGED finalized
    BY <1>4, PhaseTypes
  <1>5. CASE PublishPreparation /\ UNCHANGED finalized
    BY <1>5 DEF PublishPreparation
  <1>6. CASE PrepareFails /\ UNCHANGED finalized
    BY <1>6, SpendTyped DEF PrepareFails, Kinds
  <1>7. CASE PatchOutlives /\ UNCHANGED finalized
    <2>1. applied' \in 0 .. Patches /\ ~ half'
      BY <1>7 DEF PatchOutlives, Patches
    <2>2. mishaps' \in [Kinds -> Nat]
      BY <1>7, SpendTyped DEF PatchOutlives, Kinds
    <2> QED BY <1>7, <2>1, <2>2 DEF PatchOutlives
  <1>8. CASE TakeSnapshot /\ UNCHANGED finalized
    BY <1>8 DEF TakeSnapshot
  <1>9. CASE SnapshotFails /\ UNCHANGED finalized
    BY <1>9, SpendTyped DEF SnapshotFails, Kinds
  <1>10. CASE FinalizerFails /\ UNCHANGED finalized
    BY <1>10, SpendTyped DEF FinalizerFails, Kinds
  <1>11. CASE UndoPrepared /\ UNCHANGED finalized
    BY <1>11 DEF UndoPrepared
  <1>12. CASE UndoArgs /\ UNCHANGED finalized
    BY <1>12 DEF UndoArgs, Less, Phases
  <1>13. CASE UndoFiles /\ UNCHANGED finalized
    <2>1. phase' \in [Phases -> {"no", "some", "yes"}] /\ strings' \in {strings, "baseline"}
      <3>1. CASE phase["resources"] # "no"
        BY <1>13, <3>1 DEF UndoFiles, Less
      <3>2. CASE phase["resources"] = "no" /\ phase["icon"] # "no"
        BY <1>13, <3>2 DEF UndoFiles, Less
      <3>3. CASE phase["resources"] = "no" /\ phase["icon"] = "no"
        BY <1>13, <3>3 DEF UndoFiles, Less
      <3> QED BY <3>1, <3>2, <3>3
    <2>2. task' = task /\ known' \in {known, {}}
      <3>1. CASE phase["resources"] # "no"
        BY <1>13, <3>1 DEF UndoFiles
      <3>2. CASE phase["resources"] = "no" /\ phase["icon"] # "no"
        BY <1>13, <3>2 DEF UndoFiles
      <3>3. CASE phase["resources"] = "no" /\ phase["icon"] = "no"
        BY <1>13, <3>3 DEF UndoFiles
      <3> QED BY <3>1, <3>2, <3>3
    <2> QED BY <1>13, <2>1, <2>2 DEF UndoFiles
  <1>14. CASE UndoFinalizerFails /\ UNCHANGED finalized
    BY <1>14, SpendTyped DEF UndoFinalizerFails, Kinds
  <1>15. CASE DropSnapshot /\ UNCHANGED finalized
    BY <1>15, SpendTyped DEF DropSnapshot, Kinds
  <1> QED BY <1>1, <1>2, <1>3, <1>4, <1>5, <1>6, <1>7, <1>8, <1>9, <1>10, <1>11, <1>12, <1>13, <1>14, <1>15 DEF Prepare

-----------------------------------------------------------------------------
LEMMA LinkTyped ==
  ASSUME BuildTypeOK
  PROVE  \A at, n, f : \A m \in Marks : Link(at, m, n, f) =>
           /\ marks' \subseteq Marks /\ mishaps' \in [Kinds -> Nat]
           /\ task' = task /\ known' = known
           /\ UNCHANGED <<config, vite, litter, papers, children>>
  BY SpendTyped DEF BuildTypeOK, DriverTypeOK, AdoptionTypeOK, Link, Goto, Kinds

LEMMA ReplaceTyped ==
  ASSUME BuildTypeOK
  PROVE  \A at, n : \A new \in {"original", "pre", "post"} :
           Replace(at, new, n) \/ ReplaceFails(at, new) =>
             /\ config' \in {"original", "pre", "post"} /\ litter' \in BOOLEAN
             /\ mishaps' \in [Kinds -> Nat]
             /\ task' = task /\ known' \subseteq {"receipt", "post", "container", "out", "changed"}
             /\ UNCHANGED <<vite, marks, papers, children>>
  <1> SUFFICES ASSUME NEW at, NEW n, NEW new \in {"original", "pre", "post"}
               PROVE  Replace(at, new, n) \/ ReplaceFails(at, new) =>
             /\ config' \in {"original", "pre", "post"} /\ litter' \in BOOLEAN
             /\ mishaps' \in [Kinds -> Nat]
             /\ task' = task /\ known' \subseteq {"receipt", "post", "container", "out", "changed"}
             /\ UNCHANGED <<vite, marks, papers, children>>
    OBVIOUS
  <1>1. CASE Replace(at, new, n)
    BY <1>1 DEF BuildTypeOK, DriverTypeOK, AdoptionTypeOK, Replace
  <1>2. CASE ReplaceFails(at, new)
    BY <1>2, SpendTyped DEF BuildTypeOK, DriverTypeOK, AdoptionTypeOK, ReplaceFails, Goto, Kinds
  <1> QED BY <1>1, <1>2

LEMMA WritePartTyped ==
  ASSUME BuildTypeOK
  PROVE  \A at, n : WritePart(at, n) \/ Fails(at) =>
           /\ litter' \in BOOLEAN /\ mishaps' \in [Kinds -> Nat]
           /\ task' = task /\ known' = known
           /\ UNCHANGED <<config, vite, marks, papers, children>>
  BY SpendTyped DEF BuildTypeOK, DriverTypeOK, AdoptionTypeOK, WritePart, Fails, Goto, Kinds

LEMMA TransitionTypes ==
  ASSUME BuildTypeOK, UNCHANGED alias, Transition
  PROVE  DriverTypeOK' /\ AdoptionTypeOK'
  <1> USE DEF BuildTypeOK, DriverTypeOK, Begin, Ended, Goto, At, Idle, AdoptionTypeOK
  <1>1. CASE Link("journal", "transition", "part", "done")
    BY <1>1, LinkTyped DEF Marks
  <1>2. CASE WritePart("part", "replace") \/ Fails("part")
    BY <1>2, WritePartTyped
  <1>3. CASE Replace("replace", "pre", "directory") \/ ReplaceFails("replace", "pre")
    BY <1>3, ReplaceTyped
  <1>4. CASE RemoveDirectory
    BY <1>4 DEF RemoveDirectory, Marks
  <1>5. CASE TransitionDone
    BY <1>5 DEF TransitionDone, Marks
  <1>6. CASE TransitionFails
    BY <1>6, SpendTyped DEF TransitionFails, Kinds, Marks
  <1>7. CASE MarkRollback
    BY <1>7, LinkTyped DEF MarkRollback, Marks
  <1>8. CASE WritePart("backPart", "back") \/ Fails("backPart")
    BY <1>8, WritePartTyped
  <1>9. CASE Replace("back", "post", "done") \/ ReplaceFails("back", "post")
    BY <1>9, ReplaceTyped
  <1> QED BY <1>1, <1>2, <1>3, <1>4, <1>5, <1>6, <1>7, <1>8, <1>9 DEF Transition

LEMMA RootTypes ==
  ASSUME BuildTypeOK, UNCHANGED alias, Root
  PROVE  DriverTypeOK' /\ AdoptionTypeOK'
  <1> USE DEF BuildTypeOK, DriverTypeOK, Begin, Ended, Goto, At, Idle, AdoptionTypeOK
  <1>1. CASE Consume
    BY <1>1, LinkTyped DEF Consume, Marks
  <1>2. CASE WritePart("apply", "patch") \/ Fails("apply")
    BY <1>2, WritePartTyped
  <1>3. CASE Replace("patch", "post", "recheck") \/ ReplaceFails("patch", "post")
    BY <1>3, ReplaceTyped
  <1>4. CASE Recheck
    BY <1>4 DEF Recheck, Marks
  <1>5. CASE PublishRoot
    BY <1>5 DEF PublishRoot, Marks
  <1>6. CASE VerifyRoot
    BY <1>6 DEF VerifyRoot, Marks
  <1>7. CASE RootFails
    BY <1>7, SpendTyped DEF RootFails, Kinds, Marks
  <1>8. CASE WritePart("backPart", "back") \/ Fails("backPart")
    BY <1>8, WritePartTyped
  <1>9. CASE Replace("back", "pre", "done") \/ ReplaceFails("back", "pre")
    BY <1>9, ReplaceTyped
  <1> QED BY <1>1, <1>2, <1>3, <1>4, <1>5, <1>6, <1>7, <1>8, <1>9 DEF Root

LEMMA AdoptionTypes ==
  ASSUME BuildTypeOK, Adoption
  PROVE  DriverTypeOK' /\ AdoptionTypeOK'
  <1> USE DEF BuildTypeOK, DriverTypeOK, Begin, Ended, Goto, At, Idle, AdoptionTypeOK
  <1>0. UNCHANGED alias
    BY DEF Adoption
  <1> USE <1>0
  <1>1. CASE StartTransition
    BY <1>1 DEF StartTransition, Tasks
  <1>2. CASE Transition
    BY <1>2, TransitionTypes
  <1>3. CASE StartAdopt
    BY <1>3 DEF StartAdopt, Tasks
  <1>4. CASE Adopt
    BY <1>4, PublishTyped, PapersAre DEF Adopt
  <1>5. CASE StartRoot
    BY <1>5 DEF StartRoot, Tasks
  <1>6. CASE Root
    BY <1>6, RootTypes
  <1> QED BY <1>1, <1>2, <1>3, <1>4, <1>5, <1>6 DEF Adoption

LEMMA FilesAre == \A c \in Compats : FilesOf(c) # {} /\ FilesOf(c) \subseteq AllFiles
  BY DEF FilesOf, AllFiles

LEMMA CompatStepTypes ==
  ASSUME BuildTypeOK
  PROVE  \A c \in Compats : CompatStep(c) => DriverTypeOK' /\ patched' \subseteq AllFiles
  <1> SUFFICES ASSUME NEW c \in Compats, CompatStep(c)
               PROVE  DriverTypeOK' /\ patched' \subseteq AllFiles
    OBVIOUS
  <1> USE DEF BuildTypeOK, DriverTypeOK, Begin, Ended, Goto, At, Idle
  <1>1. CASE PatchFile(c)
    <2>1. FilesOf(c) \ patched # {} => First(FilesOf(c) \ patched) \in AllFiles
      BY FirstOfFiles, FilesAre
    <2> QED BY <1>1, <2>1 DEF PatchFile
  <1>2. CASE PatchFails(c)
    BY <1>2, SpendTyped, PapersAre DEF PatchFails, PopenGap, Abandon, Kinds
  <1>3. CASE PublishCompat(c)
    BY <1>3, PublishTyped, PapersAre DEF PublishCompat
  <1>4. CASE ConfirmCompat(c)
    BY <1>4, SpendTyped DEF ConfirmCompat, Kinds
  <1>5. CASE RetractNothing(c)
    BY <1>5, SpendTyped DEF RetractNothing, Kinds
  <1>6. CASE RetractRefused(c)
    BY <1>6, SpendTyped DEF RetractRefused, Kinds
  <1>7. CASE Retract(c)
    BY <1>7, SpendTyped DEF Retract, Kinds
  <1>8. CASE Restore(c)
    BY <1>8, SpendTyped DEF Restore
  <1>9. CASE RestoreFails(c)
    BY <1>9, SpendTyped DEF RestoreFails, Kinds
  <1>10. CASE StrayPatch(c)
    BY <1>10, FirstOfFiles, FilesAre DEF StrayPatch
  <1> QED BY <1>1, <1>2, <1>3, <1>4, <1>5, <1>6, <1>7, <1>8, <1>9, <1>10 DEF CompatStep

LEMMA CompatSteps ==
  ASSUME Compat
  PROVE  \E c \in Compats : StartCompat(c, ArmArgs(c = "linkedit")) \/ CompatStep(c)
  BY DEF Compat, Compats, ExecuteGnCompat, ExecuteXcode27Compat, ExecuteXcode27Seatbelt,
         ExecuteScreenAIDisabled, ExecuteXcode27LinkeditStrip

LEMMA CompatTypes ==
  ASSUME BuildTypeOK, Compat
  PROVE  DriverTypeOK' /\ patched' \subseteq AllFiles
  <1>1. PICK c \in Compats : StartCompat(c, ArmArgs(c = "linkedit")) \/ CompatStep(c)
    BY CompatSteps
  <1>2. CASE StartCompat(c, ArmArgs(c = "linkedit"))
    BY <1>2, PapersAre DEF StartCompat, BuildTypeOK, DriverTypeOK
  <1> QED BY <1>1, <1>2, CompatStepTypes

LEMMA BuildTypes ==
  ASSUME BuildTypeOK, Build
  PROVE  DriverTypeOK' /\ app' \in [Slices -> Apps] /\ resumed' \subseteq Slices /\ UNCHANGED out
  <1>0. PICK s \in Slices :
           \/ StartBuild(s) \/ BuildGraph(s) \/ Ninja(s) \/ BuildFails(s)
           \/ ExecuteResumedSlice(s) \/ ResumeBuild(s) \/ StrayNinja(s)
    BY DEF Build
  <1> USE DEF BuildTypeOK, DriverTypeOK, Begin, Ended, Goto, At, Idle, Apps
  <1>1. CASE StartBuild(s)
    BY <1>1, PapersAre DEF StartBuild, BuildPlan, Tasks
  <1>2. CASE BuildGraph(s)
    BY <1>2 DEF BuildGraph
  <1>3. CASE Ninja(s)
    BY <1>3 DEF Ninja
  <1>4. CASE BuildFails(s)
    BY <1>4, SpendTyped, PapersAre DEF BuildFails, PopenGap, Abandon, Kinds
  <1>5. CASE StartFinalize(s)
    BY <1>5, PapersAre DEF StartFinalize, Tasks
  <1>6. CASE NoWork(s)
    BY <1>6, SpendTyped DEF NoWork, Kinds
  <1>7. CASE PublishSlice(s)
    BY <1>7, PublishTyped, PapersAre DEF PublishSlice
  <1>8. CASE ResumeBuild(s)
    BY <1>8 DEF ResumeBuild
  <1>9. CASE StrayNinja(s)
    BY <1>9 DEF StrayNinja
  <1> QED BY <1>0, <1>1, <1>2, <1>3, <1>4, <1>5, <1>6, <1>7, <1>8, <1>9 DEF ExecuteResumedSlice

LEMMA StageTypes ==
  ASSUME BuildTypeOK, Stage
  PROVE  /\ DriverTypeOK' /\ UNCHANGED resumed
         /\ out' \in [Slices -> {"none", "empty", "littered", "tree", "legacy"}]
         /\ app' \in [Slices -> Apps]
         /\ part' \in Apps \cup {"empty"} /\ staged' \in Apps
  <1> USE DEF BuildTypeOK, DriverTypeOK, Begin, Ended, Goto, At, Idle, Apps, Slices
  <1>1. CASE StartStage
    BY <1>1 DEF StartStage, Tasks
  <1>2. CASE Ditto
    BY <1>2 DEF Ditto
  <1>3. CASE SwapIn
    BY <1>3 DEF SwapIn
  <1>4. CASE StageFails
    BY <1>4, SpendTyped DEF StageFails, Kinds
  <1>5. CASE PublishStage
    BY <1>5, PublishTyped, SpendTyped, PapersAre DEF PublishStage, Kinds
  <1>6. CASE ReclaimOut
    BY <1>6, PapersAre DEF ReclaimOut
  <1>7. CASE ReclaimBreaks
    <2>1. /\ mishaps' \in [Kinds -> Nat] /\ task' \in Tasks \cup {"none"} /\ known' \in {known, {}}
      BY <1>7, SpendTyped DEF ReclaimBreaks, Kinds
    <2>2. /\ out' \in [Slices -> {"none", "empty", "littered", "tree", "legacy"}]
          /\ app' \in [Slices -> Apps]
      BY <1>7 DEF ReclaimBreaks
    <2>3. paper' \in [Papers -> {"none", "old", "new"}]
      BY <1>7, PapersAre DEF ReclaimBreaks
    <2> QED BY <1>7, <2>1, <2>2, <2>3 DEF ReclaimBreaks
  <1>8. CASE PublishReclaim
    BY <1>8, PublishTyped, PapersAre DEF PublishReclaim
  <1> QED BY <1>1, <1>2, <1>3, <1>4, <1>5, <1>6, <1>7, <1>8 DEF Stage

LEMMA PutTyped ==
  ASSUME BuildTypeOK
  PROVE  \A a \in Artifacts : \A v \in Apps : \A r \in {"none", "old", "new"} : Put(a, v, r) =>
           /\ staged' \in Apps /\ app' \in [Slices -> Apps]
           /\ paper' \in [Papers -> {"none", "old", "new"}]
  <1> SUFFICES ASSUME NEW a \in Artifacts, NEW v \in Apps, NEW r \in {"none", "old", "new"},
                      Put(a, v, r)
               PROVE  /\ staged' \in Apps /\ app' \in [Slices -> Apps]
                      /\ paper' \in [Papers -> {"none", "old", "new"}]
    OBVIOUS
  <1>1. staged' \in Apps
    BY DEF Put, BuildTypeOK
  <1>2. app' \in [Slices -> Apps]
    BY DEF Put, BuildTypeOK
  <1>3. paper' \in [Papers -> {"none", "old", "new"}]
    BY DEF Put, BuildTypeOK, DriverTypeOK
  <1> QED BY <1>1, <1>2, <1>3

LEMMA RecoverTypes ==
  ASSUME Typed, Recover
  PROVE  /\ DriverTypeOK' /\ UNCHANGED <<resumed, part>>
         /\ out' \in [Slices -> {"none", "empty", "littered", "tree", "legacy"}]
         /\ app' \in [Slices -> Apps] /\ staged' \in Apps
         /\ archive' \in {"none", "part", "final"} /\ archived' \subseteq Artifacts
  <1> USE DEF Typed, BuildTypeOK, DriverTypeOK, Begin, Ended, Goto, At, Idle
  <1>1. CASE StartRecovery
    BY <1>1 DEF StartRecovery, Tasks
  <1>2. CASE MoveArtifact
    <2> DEFINE a == CHOOSE a \in Artifacts \ archived :
                      \A b \in Artifacts \ archived : Position(a) <= Position(b)
    <2>1. a \in Artifacts
      <3>1. Artifacts \ archived \in SUBSET Artifacts /\ Artifacts \ archived # {}
        BY <1>2 DEF MoveArtifact
      <3> QED BY <3>1, NextArtifact
    <2>2. Put(a, "none", "none") /\ archived' = archived \cup {a}
      BY <1>2 DEF MoveArtifact
    <2> HIDE DEF a
    <2>3. archived' \subseteq Artifacts
      BY <2>1, <2>2
    <2>4. /\ staged' \in Apps /\ app' \in [Slices -> Apps]
          /\ paper' \in [Papers -> {"none", "old", "new"}]
      BY <2>1, <2>2, PutTyped DEF Apps
    <2> QED BY <1>2, <2>3, <2>4 DEF MoveArtifact
  <1>3. CASE RestoreArmOut
    BY <1>3 DEF RestoreArmOut, Slices
  <1>4. CASE PublishArchive
    BY <1>4 DEF PublishArchive
  <1>5. CASE RecoveryFails
    BY <1>5, SpendTyped DEF RecoveryFails, Kinds, Slices
  <1>6. CASE Normalize
    BY <1>6 DEF Normalize
  <1>7. CASE UndoArmOut
    <2>1. CASE out["arm"] = "none"
      BY <1>7, <2>1 DEF UndoArmOut
    <2>2. CASE out["arm"] = "littered"
      BY <1>7, <2>2 DEF UndoArmOut
    <2>3. CASE out["arm"] = "empty"
      BY <1>7, <2>3 DEF UndoArmOut
    <2>4. CASE out["arm"] = "tree"
      BY <1>7, <2>4 DEF UndoArmOut
    <2> QED BY <2>1, <2>2, <2>3, <2>4 DEF Slices
  <1>8. CASE MoveBack
    BY <1>8, NextArtifact, PutTyped DEF MoveBack, Apps
  <1>9. CASE Reconcile
    BY <1>9 DEF Reconcile
  <1>10. CASE UndoFails
    BY <1>10, SpendTyped DEF UndoFails, Kinds
  <1> QED BY <1>1, <1>2, <1>3, <1>4, <1>5, <1>6, <1>7, <1>8, <1>9, <1>10 DEF Recover

LEMMA RefreshTypes ==
  ASSUME BuildTypeOK, Refresh
  PROVE  /\ DriverTypeOK' /\ UNCHANGED <<app, resumed>>
         /\ out' \in [Slices -> {"none", "empty", "littered", "tree", "legacy"}]
         /\ container' \in {"none", "transaction", "legacy", "failed"}
         /\ held' \in BOOLEAN /\ spoiled' \in BOOLEAN /\ failed' \subseteq {"receipt", "out"}
  <1> USE DEF BuildTypeOK, DriverTypeOK, Begin, Ended, Goto, At, Idle
  <1>1. CASE StartFresh
    BY <1>1 DEF StartFresh, Tasks
  <1>2. CASE MakeContainer
    BY <1>2 DEF MakeContainer
  <1>3. CASE MoveLegacy
    BY <1>3 DEF MoveLegacy, Slices
  <1>4. CASE MakeOut
    BY <1>4 DEF MakeOut, Slices
  <1>5. CASE FreshGraph
    BY <1>5 DEF FreshGraph, Slices
  <1>6. CASE SealContainer
    BY <1>6 DEF SealContainer
  <1>7. CASE PublishFresh
    BY <1>7, PublishTyped, PapersAre DEF PublishFresh
  <1>8. CASE ConfirmFresh
    BY <1>8 DEF ConfirmFresh
  <1>9. CASE FreshFails
    BY <1>9, SpendTyped DEF FreshFails, Kinds, Abandon, Slices, Tasks
  <1>10. CASE UndoReceipt
    BY <1>10, PapersAre DEF UndoReceipt
  <1>11. CASE UndoOut
    BY <1>11 DEF UndoOut, Slices
  <1>12. CASE UndoLegacy
    BY <1>12 DEF UndoLegacy, Slices
  <1>13. CASE UndoContainer
    BY <1>13 DEF UndoContainer
  <1>14. CASE AttemptFails
    BY <1>14, SpendTyped DEF AttemptFails, Kinds
  <1>15. CASE StrayGraph
    BY <1>15 DEF StrayGraph, Slices
  <1> QED BY <1>1, <1>2, <1>3, <1>4, <1>5, <1>6, <1>7, <1>8, <1>9, <1>10, <1>11, <1>12, <1>13, <1>14, <1>15 DEF Refresh

LEMMA MergeTypes ==
  ASSUME BuildTypeOK, Merge
  PROVE  /\ DriverTypeOK'
         /\ roots' \subseteq {"unsigned", "signed"} /\ merged' \in Apps /\ dmg' \in Apps
  <1> USE DEF BuildTypeOK, DriverTypeOK, Begin, Ended, Goto, At, Idle, Apps
  <1>1. CASE Sign /\ UNCHANGED universal
    BY <1>1, PapersAre DEF Sign
  <1>2. CASE StartMerge
    BY <1>2 DEF StartMerge, Tasks
  <1>3. CASE Universalize
    BY <1>3 DEF Universalize
  <1>4. CASE SignMerged
    BY <1>4 DEF SignMerged
  <1>5. CASE PublishMerged
    BY <1>5 DEF PublishMerged
  <1>6. CASE MergeFails
    BY <1>6, SpendTyped DEF MergeFails, Kinds
  <1> QED BY <1>1, <1>2, <1>3, <1>4, <1>5, <1>6 DEF Merge

LEMMA OtherTypes ==
  ASSUME BuildTypeOK, Other
  PROVE  /\ DriverTypeOK' /\ app' \in [Slices -> Apps] /\ UNCHANGED <<out, resumed, config, vite, marks>>
         /\ litter' \in BOOLEAN /\ part' \in Apps \cup {"empty"}
         /\ roots' \subseteq {"unsigned", "signed"} /\ merged' \in Apps
  <1> USE DEF BuildTypeOK, DriverTypeOK, AdoptionTypeOK, Goto, At, Idle, Apps
  <1>1. CASE Finish /\ UNCHANGED <<papers, children, mishaps, outputs, adoption, part, roots, merged>>
    BY <1>1 DEF Finish, Ended
  <1>2. CASE Dies /\ UNCHANGED <<outputs, adoption, part, roots, merged>>
    <2>1. mishaps' \in [Kinds -> Nat]
      BY <1>2, SpendTyped DEF Dies, Kinds
    <2>2. paper' \in [Papers -> {"none", "old", "new"}] /\ temps' \subseteq Papers
      BY <1>2 DEF Dies, Cut
    <2>3. strays' \subseteq Tasks /\ strayed' \in BOOLEAN
      BY <1>2 DEF Dies, Abandon
    <2> QED BY <1>2, <2>1, <2>2, <2>3 DEF Dies, Ended
  <1>3. CASE \E t \in Tasks : StrayEnds(t) /\ UNCHANGED <<outputs, adoption, part, roots, merged>>
    BY <1>3 DEF StrayEnds
  <1>4. CASE Clear
    BY <1>4 DEF Clear
  <1> QED BY <1>1, <1>2, <1>3, <1>4 DEF Other

LEMMA TypedInit == Init => Typed
  <1> SUFFICES ASSUME Init PROVE Typed
    OBVIOUS
  <1>1. task = "none" /\ known = {} /\ temps = {} /\ strays = {} /\ strayed = FALSE
        /\ mishaps \in [Kinds -> Nat]
    BY DEF Init
  <1>2. paper \in [Papers -> {"none", "old", "new"}]
    BY DEF Init, Nothing, Recorded, Aliased, Papered
  <1>3. SourceTypeOK /\ ~ half
    <2>1. CASE EmptyDisk
      <3>1. applied \in 0 .. Patches
        BY <2>1 DEF EmptyDisk, Patches
      <3> QED BY <2>1, <3>1 DEF EmptyDisk, SourceTypeOK, Untouched
    <2>2. CASE PreparedDisk
      <3>1. applied \in 0 .. Patches
        BY <2>2 DEF PreparedDisk, Patches
      <3> QED BY <2>2, <3>1 DEF PreparedDisk, SourceTypeOK
    <2> QED BY <2>1, <2>2 DEF Init, Nothing, Recorded, Aliased
  <1>4. AdoptionTypeOK
    BY DEF Init, Unadopted, AdoptionTypeOK
  <1>5. patched \subseteq AllFiles
    BY DEF Init, Nothing, Recorded, Aliased, AllFiles
  <1>6. /\ out \in [Slices -> {"none", "empty", "littered", "tree", "legacy"}]
        /\ app \in [Slices -> Apps] /\ staged \in Apps /\ out["arm"] # "legacy"
    <2>1. CASE Nothing
      BY <2>1 DEF Nothing, Slices, Apps
    <2>2. CASE Recorded
      BY <2>2 DEF Recorded, Slices, Apps
    <2>3. CASE Aliased
      BY <2>3 DEF Aliased, Slices, Apps
    <2> QED BY <2>1, <2>2, <2>3 DEF Init
  <1> QED
    BY <1>1, <1>2, <1>3, <1>4, <1>5, <1>6 DEF Init, Typed, BuildTypeOK, DriverTypeOK, Apps

LEMMA TypedNext == Typed /\ [Next]_vars => Typed'
  <1> SUFFICES ASSUME Typed, [Next]_vars PROVE Typed'
    OBVIOUS
  <1>0. BuildTypeOK
    BY DEF Typed
  <1>1. CASE Source
    <2>1. DriverTypeOK' /\ SourceTypeOK' /\ (half' => applied' < Patches)
      <3>1. CASE Acquire /\ UNCHANGED out
        BY <3>1, AcquireTypes DEF Acquire, Typed
      <3>2. CASE Prepare
        BY <3>2, PrepareTypes
      <3> QED BY <1>1, <3>1, <3>2 DEF Source
    <2>2. out' \in [Slices -> {"none", "empty", "littered", "tree", "legacy"}] /\ out'["arm"] # "legacy"
      BY <1>1 DEF Source, Typed, BuildTypeOK, Slices
    <2> QED BY <1>1, <2>1, <2>2 DEF Source, Typed, BuildTypeOK, AdoptionTypeOK
  <1>2. CASE Adopting
    BY <1>2, <1>0, AdoptionTypes DEF Adopting, Typed, BuildTypeOK, SourceTypeOK
  <1>3. CASE Compat
    BY <1>3, <1>0, CompatTypes DEF Compat, Typed, BuildTypeOK, SourceTypeOK, AdoptionTypeOK
  <1>4. CASE Build
    <2>1. UNCHANGED <<source, alias, adoption, patched, staging, recovery, fresh, universal>>
      BY <1>4 DEF Build
    <2> QED BY <1>4, <1>0, <2>1, BuildTypes DEF Typed, BuildTypeOK, SourceTypeOK, AdoptionTypeOK
  <1>5. CASE Stage
    <2>1. UNCHANGED <<source, alias, adoption, patched, recovery, fresh, universal>>
      BY <1>5 DEF Stage
    <2>2. out'["arm"] # "legacy"
      <3>1. CASE out' = out
        BY <3>1 DEF Typed
      <3>2. CASE ReclaimOut
        BY <3>2 DEF ReclaimOut, Slices, Typed, BuildTypeOK
      <3>3. CASE ReclaimBreaks
        BY <3>3 DEF ReclaimBreaks, Slices, Typed, BuildTypeOK
      <3> QED BY <1>5, <3>1, <3>2, <3>3 DEF Stage, StartStage, Ditto, SwapIn, StageFails, PublishStage, PublishReclaim
    <2> QED BY <1>5, <1>0, <2>1, <2>2, StageTypes DEF Typed, BuildTypeOK, SourceTypeOK, AdoptionTypeOK
  <1>6. CASE Recover
    <2>1. UNCHANGED <<source, alias, adoption, patched, fresh, universal>>
      BY <1>6 DEF Recover
    <2>2. out'["arm"] # "legacy"
      <3> USE DEF Typed, BuildTypeOK, Slices
      <3>1. CASE RestoreArmOut
        BY <3>1 DEF RestoreArmOut
      <3>2. CASE RecoveryFails
        BY <3>2 DEF RecoveryFails
      <3>3. CASE UndoArmOut
        <4>1. out' \in {out, [out EXCEPT !["arm"] = "none"], [out EXCEPT !["arm"] = "empty"]}
          <5>1. CASE out["arm"] = "none"
            BY <3>3, <5>1 DEF UndoArmOut
          <5>2. CASE out["arm"] = "littered"
            BY <3>3, <5>2 DEF UndoArmOut
          <5>3. CASE out["arm"] = "empty"
            BY <3>3, <5>3 DEF UndoArmOut
          <5>4. CASE out["arm"] = "tree"
            BY <3>3, <5>4 DEF UndoArmOut
          <5> QED BY <5>1, <5>2, <5>3, <5>4
        <4> QED BY <4>1
      <3>4. CASE out' = out
        BY <3>4
      <3> QED BY <1>6, <3>1, <3>2, <3>3, <3>4 DEF Recover, StartRecovery, MoveArtifact, PublishArchive, Normalize, MoveBack, Reconcile, UndoFails
    <2> QED BY <1>6, <2>1, <2>2, RecoverTypes DEF Typed, BuildTypeOK, SourceTypeOK, AdoptionTypeOK
  <1>7. CASE Refresh
    <2>1. UNCHANGED <<source, alias, adoption, patched, staging, recovery, universal>>
      BY <1>7 DEF Refresh
    <2>2. out'["arm"] = out["arm"]
      <3> USE DEF Typed, BuildTypeOK, Slices
      <3>1. CASE out' = out
        BY <3>1
      <3>2. CASE MoveLegacy \/ MakeOut \/ FreshGraph
        BY <3>2 DEF MoveLegacy, MakeOut, FreshGraph
      <3>3. CASE FreshFails \/ UndoOut
        BY <3>3 DEF FreshFails, UndoOut
      <3>4. CASE UndoLegacy \/ StrayGraph
        BY <3>4 DEF UndoLegacy, StrayGraph
      <3> QED BY <1>7, <3>1, <3>2, <3>3, <3>4 DEF Refresh, StartFresh, MakeContainer, SealContainer, PublishFresh, ConfirmFresh, UndoReceipt, UndoContainer, AttemptFails
    <2> QED BY <1>7, <1>0, <2>1, <2>2, RefreshTypes DEF Typed, BuildTypeOK, SourceTypeOK, AdoptionTypeOK
  <1>8. CASE Merge
    <2>1. UNCHANGED <<source, alias, adoption, patched, outputs, staging, recovery, fresh>>
      BY <1>8 DEF Merge
    <2> QED BY <1>8, <1>0, <2>1, MergeTypes DEF Typed, BuildTypeOK, SourceTypeOK, AdoptionTypeOK
  <1>9. CASE Other
    <2>1. UNCHANGED <<source, alias, patched, staged, recovery, fresh, dmg>>
      BY <1>9 DEF Other
    <2> QED BY <1>9, <1>0, <2>1, OtherTypes DEF Typed, BuildTypeOK, SourceTypeOK, AdoptionTypeOK
  <1>10. CASE UNCHANGED vars
    BY <1>10 DEF vars, Typed, BuildTypeOK, SourceTypeOK, AdoptionTypeOK, DriverTypeOK
  <1> QED
    BY <1>1, <1>2, <1>3, <1>4, <1>5, <1>6, <1>7, <1>8, <1>9, <1>10 DEF Next

(* Every variable keeps its type, for any number of mishaps.                *)
THEOREM BuildKeepsTypes == Spec => []BuildTypeOK
  <1>1. Typed => BuildTypeOK
    BY DEF Typed
  <1> QED
    BY <1>1, TypedInit, TypedNext, PTL DEF Spec

-----------------------------------------------------------------------------
(* What the mishaps leave, and who writes a receipt. *)
Quiet ==
  /\ strays # {} => strayed
  /\ strayed => mishaps["gap"] > 0 \/ mishaps["kill"] > 0
  /\ temps # {} => mishaps["error"] > 0 \/ mishaps["kill"] > 0
  /\ pc \in Papers => task = pc \/ (task = "stage" /\ pc = "reclaim")
  /\ Idle => known = {} /\ pc = "idle"

(* What no step takes back. *)
Grown == \A k \in Kinds : mishaps[k] \in Nat /\ mishaps'[k] \in Nat /\ mishaps[k] <= mishaps'[k]
Onward == Grown /\ (strayed => strayed')

LEMMA SpendOnward ==
  ASSUME Typed
  PROVE  \A k \in Kinds : Spend(k) =>
           /\ Grown
           /\ mishaps'[k] > 0 /\ mishaps'[k] = mishaps[k] + 1
  BY DEF Grown, Typed, BuildTypeOK, DriverTypeOK, Spend

LEMMA Stutters ==
  ASSUME Typed, UNCHANGED mishaps
  PROVE  Grown
  BY DEF Grown, Typed, BuildTypeOK, DriverTypeOK

LEMMA PublishOnward ==
  ASSUME Typed
  PROVE  \A p \in Papers : \A n, f : Publish(p, n, f) =>
           /\ Grown
           /\ temps' = temps \/ mishaps'["error"] > 0
           /\ task' = task /\ pc' \in {n, f}
           /\ \A q \in Papers : q # p => paper'[q] = paper[q]
           /\ paper' = paper \/ (paper[p] = "none" /\ paper'[p] = "new")
           /\ pc' # f => pc' = n /\ paper'[p] = "new" /\ "receipt" \in known' /\ known \subseteq known'
           /\ mishaps' = mishaps /\ pc' # n => Refused(p)
  <1> SUFFICES ASSUME NEW p \in Papers, NEW n, NEW f, Publish(p, n, f)
               PROVE  /\ Grown
                      /\ temps' = temps \/ mishaps'["error"] > 0
                      /\ task' = task /\ pc' \in {n, f}
                      /\ \A q \in Papers : q # p => paper'[q] = paper[q]
                      /\ paper' = paper \/ (paper[p] = "none" /\ paper'[p] = "new")
                      /\ pc' # f => pc' = n /\ paper'[p] = "new" /\ "receipt" \in known' /\ known \subseteq known'
                      /\ mishaps' = mishaps /\ pc' # n => Refused(p)
    OBVIOUS
  <1>0. paper \in [Papers -> {"none", "old", "new"}]
    BY DEF Typed, BuildTypeOK, DriverTypeOK
  <1>1. CASE Spend("error") /\ Cut(p) /\ Goto(f)
    <2>1. mishaps' # mishaps /\ mishaps'["error"] > 0 /\ Grown
      BY <1>1, SpendOnward DEF Kinds, Grown, Typed, BuildTypeOK, DriverTypeOK
    <2> QED BY <1>0, <1>1, <2>1 DEF Cut, Goto, Refused
  <1>2. CASE /\ IF Refused(p)
                  THEN Goto(f) /\ UNCHANGED paper
                  ELSE /\ paper' = [paper EXCEPT ![p] = "new"]
                       /\ known' = known \cup {"receipt"}
                       /\ pc' = n
                       /\ UNCHANGED task
             /\ UNCHANGED <<temps, mishaps>>
    <2>1. CASE Refused(p)
      BY <1>2, <2>1, Stutters DEF Goto
    <2>2. CASE ~ Refused(p)
      BY <1>0, <1>2, <2>2, Stutters DEF Refused
    <2> QED BY <2>1, <2>2
  <1> QED BY <1>1, <1>2 DEF Publish

LEMMA Receipts == Typed => paper \in [Papers -> {"none", "old", "new"}]
  BY DEF Typed, BuildTypeOK, DriverTypeOK

LEMMA NoTask == "none" \notin Tasks
  BY DEF Tasks, Compats, Slices

(* The steps that are told by cases, and the choices of the recovery.       *)
LEMMA UndoArmOutCases ==
  ASSUME Typed, UndoArmOut
  PROVE  /\ At("recovery", "undo") /\ archive # "final"
         /\ \/ out["arm"] = "none" /\ Goto("back") /\ UNCHANGED out
            \/ out["arm"] = "littered" /\ Goto("done") /\ UNCHANGED out
            \/ out["arm"] = "empty" /\ out' = [out EXCEPT !["arm"] = "none"] /\ UNCHANGED driver
            \/ out["arm"] = "tree" /\ out' = [out EXCEPT !["arm"] = "empty"] /\ UNCHANGED driver
         /\ UNCHANGED <<app, resumed, staging, recovery, papers, children, mishaps>>
  <1>1. out["arm"] \in {"none", "littered", "empty", "tree"}
    BY DEF Typed, BuildTypeOK, Slices
  <1>2. CASE out["arm"] = "none"
    BY <1>2 DEF UndoArmOut
  <1>3. CASE out["arm"] = "littered"
    BY <1>3 DEF UndoArmOut
  <1>4. CASE out["arm"] = "empty"
    BY <1>4 DEF UndoArmOut
  <1>5. CASE out["arm"] = "tree"
    BY <1>5 DEF UndoArmOut
  <1> QED BY <1>1, <1>2, <1>3, <1>4, <1>5

LEMMA MoveArtifactChoice ==
  ASSUME Typed, MoveArtifact
  PROVE  \E a \in Artifacts \ archived : Put(a, "none", "none") /\ archived' = archived \cup {a}
  <1> DEFINE a == CHOOSE a \in Artifacts \ archived :
                    \A b \in Artifacts \ archived : Position(a) <= Position(b)
  <1>1. Artifacts \ archived \in SUBSET Artifacts /\ Artifacts \ archived # {}
    BY DEF MoveArtifact, Typed, BuildTypeOK
  <1>2. a \in Artifacts \ archived
    BY <1>1, NextArtifact
  <1>3. Put(a, "none", "none") /\ archived' = archived \cup {a}
    BY DEF MoveArtifact
  <1> HIDE DEF a
  <1> QED BY <1>2, <1>3

LEMMA MoveBackChoice ==
  ASSUME Typed, MoveBack
  PROVE  \E a \in archived : Put(a, "legacy", "old") /\ archived' = archived \ {a}
  <1> DEFINE a == CHOOSE a \in archived : \A b \in archived : Position(b) <= Position(a)
  <1>1. archived \in SUBSET Artifacts /\ archived # {}
    BY DEF MoveBack, Typed, BuildTypeOK
  <1>2. a \in archived
    BY <1>1, NextArtifact
  <1>3. Put(a, "legacy", "old") /\ archived' = archived \ {a}
    BY DEF MoveBack
  <1> HIDE DEF a
  <1> QED BY <1>2, <1>3

LEMMA PutFrame ==
  ASSUME Typed
  PROVE  \A a, v, r : Put(a, v, r) =>
           \A q \in Papers : q # a => paper'[q] = paper[q]
  BY Receipts DEF Put

LEMMA Plain ==
  Papers \cap {"done", "idle", "sync", "download", "verify", "mark", "hooks", "extract", "deps",
    "prune", "patches", "transform", "overlay", "version", "resources", "icon", "args", "strings",
    "publish", "snapshot", "undoReceipt", "undoArgs", "undoFiles", "drop", "journal", "part",
    "replace", "directory", "complete", "backPart", "back", "consume", "apply", "patch", "recheck",
    "retract", "restore", "confirm", "graph", "ninja", "probe", "copy", "swap", "reclaimOut",
    "move", "archive", "published", "undo", "container", "out", "seal", "undoOut", "undoLegacy",
    "undoContainer", "universalize", "sign", "committed", "stagedApp", "x64App"} = {}
  BY DEF Papers, Compats, Slices

LEMMA AcquireFrame ==
  ASSUME Typed, Quiet, Acquire
  PROVE  /\ Onward /\ Quiet'
         /\ {task, task'} \subseteq {"none", "acquire", "bootstrap"} \/ UNCHANGED driver
         /\ \A q \in Papers : q \notin {"bootstrap"} => paper'[q] = paper[q]
  <1> USE DEF Quiet, Onward, Grown, Kinds, Begin, Ended, Goto, At, Idle
  <1>1. CASE StartAcquire
    BY Plain, Stutters, <1>1 DEF StartAcquire
  <1>2. CASE SyncCheckout
    BY Plain, Stutters, <1>2 DEF SyncCheckout
  <1>3. CASE FinalizeDownloads
    BY Plain, Stutters, <1>3 DEF FinalizeDownloads
  <1>4. CASE VerifyCheckout
    BY Plain, Stutters, <1>4 DEF VerifyCheckout
  <1>5. CASE WriteMarker
    BY Plain, Stutters, <1>5 DEF WriteMarker
  <1>6. CASE AcquireFails
    BY Plain, Stutters, <1>6, SpendOnward DEF AcquireFails
  <1>7. CASE DiscardCheckout
    BY Plain, Stutters, <1>7 DEF DiscardCheckout
  <1>8. CASE StartBootstrap
    BY Plain, Stutters, <1>8 DEF StartBootstrap
  <1>9. CASE RunHooks
    BY Plain, Stutters, <1>9 DEF RunHooks
  <1>10. CASE HooksFail
    BY Plain, Stutters, <1>10, SpendOnward DEF HooksFail, PopenGap, Abandon
  <1>11. CASE PublishBootstrap
    BY Plain, Stutters, <1>11, PublishOnward, PapersAre DEF PublishBootstrap
  <1>12. CASE StrayHooks
    BY Plain, Stutters, <1>12 DEF StrayHooks
  <1> QED BY <1>1, <1>2, <1>3, <1>4, <1>5, <1>6, <1>7, <1>8, <1>9, <1>10, <1>11, <1>12 DEF Acquire

LEMMA PhaseFrame ==
  ASSUME Phase
  PROVE  /\ Preparing /\ UNCHANGED <<task, papers, children, mishaps, prepared, snapshot>>
         /\ known' \in {known, {}}
         /\ pc' = pc \/ pc' \notin Papers
  <1> USE DEF Goto
  <1>0. UNCHANGED <<prepared, snapshot, papers, children, mishaps>>
    BY DEF Phase
  <1> USE <1>0
  <1>1. CASE ExtractArchives
    BY Plain, <1>1 DEF ExtractArchives, At, Preparing
  <1>2. CASE MergeDependencies
    BY Plain, <1>2 DEF MergeDependencies, WorkOn, Work, Preparing
  <1>3. CASE Prune
    BY Plain, <1>3 DEF Prune, WorkOn, Work, Preparing
  <1>4. CASE ApplyPatch
    BY Plain, <1>4 DEF ApplyPatch, Preparing
  <1>5. CASE Transform
    BY Plain, <1>5 DEF Transform, WorkOn, Work, Preparing
  <1>6. CASE ApplyOverlay
    BY Plain, <1>6 DEF ApplyOverlay, Work, Preparing
  <1>7. CASE AppendVersion
    BY Plain, <1>7 DEF AppendVersion, Preparing
  <1>8. CASE CopyResources
    BY Plain, <1>8 DEF CopyResources, WorkOn, Work, Preparing
  <1>9. CASE InstallIcon
    BY Plain, <1>9 DEF InstallIcon, Preparing
  <1>10. CASE WriteArgs
    BY Plain, <1>10 DEF WriteArgs, WorkOn, Work, Preparing
  <1>11. CASE GenerateStrings
    BY Plain, <1>11 DEF GenerateStrings, Preparing
  <1> QED BY <1>1, <1>2, <1>3, <1>4, <1>5, <1>6, <1>7, <1>8, <1>9, <1>10, <1>11 DEF Phase

LEMMA PrepareFrame ==
  ASSUME Typed, Quiet, Prepare
  PROVE  /\ Onward /\ Quiet'
         /\ {task, task'} \subseteq {"none", "prepare", "resumePatch", "finalizer"} \/ UNCHANGED driver
         /\ UNCHANGED paper
  <1> USE DEF Quiet, Onward, Grown, Kinds, Begin, Ended, Goto, At, Idle
  <1>1. CASE StartPrepare
    BY Plain, Stutters, <1>1 DEF StartPrepare
  <1>2. CASE StartResumePatch
    BY Plain, Stutters, <1>2 DEF StartResumePatch
  <1>3. CASE StartFinalizer
    BY Plain, Stutters, <1>3 DEF StartFinalizer
  <1>4. CASE Phase
    BY Plain, Stutters, <1>4, PhaseFrame, Stutters DEF Preparing
  <1>5. CASE PublishPreparation
    BY Plain, Stutters, <1>5 DEF PublishPreparation, Preparing
  <1>6. CASE PrepareFails
    BY Plain, Stutters, <1>6, SpendOnward DEF PrepareFails
  <1>7. CASE PatchOutlives
    BY Plain, Stutters, <1>7, SpendOnward DEF PatchOutlives, Preparing
  <1>8. CASE TakeSnapshot
    BY Plain, Stutters, <1>8 DEF TakeSnapshot
  <1>9. CASE SnapshotFails
    BY Plain, Stutters, <1>9, SpendOnward DEF SnapshotFails
  <1>10. CASE FinalizerFails
    BY Plain, Stutters, <1>10, SpendOnward DEF FinalizerFails
  <1>11. CASE UndoPrepared
    BY Plain, Stutters, <1>11 DEF UndoPrepared
  <1>12. CASE UndoArgs
    BY Plain, Stutters, <1>12 DEF UndoArgs
  <1>13. CASE UndoFiles
    BY Plain, Stutters, <1>13 DEF UndoFiles
  <1>14. CASE UndoFinalizerFails
    BY Plain, Stutters, <1>14, SpendOnward DEF UndoFinalizerFails
  <1>15. CASE DropSnapshot
    BY Plain, Stutters, <1>15, SpendOnward DEF DropSnapshot
  <1> QED BY <1>1, <1>2, <1>3, <1>4, <1>5, <1>6, <1>7, <1>8, <1>9, <1>10, <1>11, <1>12, <1>13, <1>14, <1>15 DEF Prepare

LEMMA TransitionFrame ==
  ASSUME Typed, Quiet, Transition
  PROVE  /\ Onward /\ Quiet'
         /\ {task, task'} \subseteq {"none", "transition", "home", "root"} \/ UNCHANGED driver
         /\ UNCHANGED paper
  <1> USE DEF Quiet, Onward, Grown, Kinds, Begin, Ended, Goto, At, Idle
  <1>0. task = "transition"
    BY DEF Transition
  <1> USE <1>0
  <1>1. CASE Link("journal", "transition", "part", "done")
    BY Plain, Stutters, <1>1, SpendOnward DEF Link
  <1>2. CASE WritePart("part", "replace")
    BY Plain, Stutters, <1>2 DEF WritePart
  <1>3. CASE Fails("part")
    BY Plain, Stutters, <1>3, SpendOnward DEF Fails
  <1>4. CASE Replace("replace", "pre", "directory")
    BY Plain, Stutters, <1>4 DEF Replace
  <1>5. CASE ReplaceFails("replace", "pre")
    BY Plain, Stutters, <1>5, SpendOnward DEF ReplaceFails
  <1>6. CASE RemoveDirectory
    BY Plain, Stutters, <1>6 DEF RemoveDirectory
  <1>7. CASE TransitionDone
    BY Plain, Stutters, <1>7 DEF TransitionDone
  <1>8. CASE TransitionFails
    BY Plain, Stutters, <1>8, SpendOnward DEF TransitionFails
  <1>9. CASE MarkRollback
    BY Plain, Stutters, <1>9, SpendOnward DEF MarkRollback, Link
  <1>10. CASE WritePart("backPart", "back")
    BY Plain, Stutters, <1>10 DEF WritePart
  <1>11. CASE Fails("backPart")
    BY Plain, Stutters, <1>11, SpendOnward DEF Fails
  <1>12. CASE Replace("back", "post", "done")
    BY Plain, Stutters, <1>12 DEF Replace
  <1>13. CASE ReplaceFails("back", "post")
    BY Plain, Stutters, <1>13, SpendOnward DEF ReplaceFails
  <1> QED BY <1>1, <1>2, <1>3, <1>4, <1>5, <1>6, <1>7, <1>8, <1>9, <1>10, <1>11, <1>12, <1>13 DEF Transition

LEMMA RootFrame ==
  ASSUME Typed, Quiet, Root
  PROVE  /\ Onward /\ Quiet'
         /\ {task, task'} \subseteq {"none", "transition", "home", "root"} \/ UNCHANGED driver
         /\ UNCHANGED paper
  <1> USE DEF Quiet, Onward, Grown, Kinds, Begin, Ended, Goto, At, Idle
  <1>0. task = "root"
    BY DEF Root
  <1> USE <1>0
  <1>1. CASE Consume
    BY Plain, Stutters, <1>1, SpendOnward DEF Consume, Link
  <1>2. CASE WritePart("apply", "patch")
    BY Plain, Stutters, <1>2 DEF WritePart
  <1>3. CASE Fails("apply")
    BY Plain, Stutters, <1>3, SpendOnward DEF Fails
  <1>4. CASE Replace("patch", "post", "recheck")
    BY Plain, Stutters, <1>4 DEF Replace
  <1>5. CASE ReplaceFails("patch", "post")
    BY Plain, Stutters, <1>5, SpendOnward DEF ReplaceFails
  <1>6. CASE Recheck
    BY Plain, Stutters, <1>6 DEF Recheck
  <1>7. CASE PublishRoot
    BY Plain, Stutters, <1>7 DEF PublishRoot
  <1>8. CASE VerifyRoot
    BY Plain, Stutters, <1>8 DEF VerifyRoot
  <1>9. CASE RootFails
    BY Plain, Stutters, <1>9, SpendOnward DEF RootFails
  <1>10. CASE WritePart("backPart", "back")
    BY Plain, Stutters, <1>10 DEF WritePart
  <1>11. CASE Fails("backPart")
    BY Plain, Stutters, <1>11, SpendOnward DEF Fails
  <1>12. CASE Replace("back", "pre", "done")
    BY Plain, Stutters, <1>12 DEF Replace
  <1>13. CASE ReplaceFails("back", "pre")
    BY Plain, Stutters, <1>13, SpendOnward DEF ReplaceFails
  <1> QED BY <1>1, <1>2, <1>3, <1>4, <1>5, <1>6, <1>7, <1>8, <1>9, <1>10, <1>11, <1>12, <1>13 DEF Root

LEMMA AdoptionFrame ==
  ASSUME Typed, Quiet, Adoption
  PROVE  /\ Onward /\ Quiet'
         /\ {task, task'} \subseteq {"none", "transition", "home", "root"} \/ UNCHANGED driver
         /\ \A q \in Papers : q \notin {"home"} => paper'[q] = paper[q]
  <1> USE DEF Quiet, Onward, Grown, Kinds, Begin, Ended, Goto, At, Idle
  <1>1. CASE StartTransition
    BY Plain, Stutters, <1>1 DEF StartTransition
  <1>2. CASE Transition
    BY Plain, Stutters, <1>2, TransitionFrame
  <1>3. CASE StartAdopt
    BY Plain, Stutters, <1>3 DEF StartAdopt
  <1>4. CASE Adopt
    BY Plain, Stutters, <1>4, PublishOnward, PapersAre DEF Adopt
  <1>5. CASE StartRoot
    BY Plain, Stutters, <1>5 DEF StartRoot
  <1>6. CASE Root
    BY Plain, Stutters, <1>6, RootFrame
  <1> QED BY <1>1, <1>2, <1>3, <1>4, <1>5, <1>6 DEF Adoption

LEMMA CompatStepFrame ==
  ASSUME Typed, Quiet, NEW c \in Compats, StartCompat(c, ArmArgs(c = "linkedit")) \/ CompatStep(c)
  PROVE  /\ Onward /\ Quiet'
         /\ {task, task'} \subseteq {"none", c} \/ UNCHANGED driver
         /\ \A q \in Papers : q # c => paper'[q] = paper[q]
  <1> USE DEF Quiet, Onward, Grown, Kinds, Begin, Ended, Goto, At, Idle
  <1>0. CASE StartCompat(c, ArmArgs(c = "linkedit"))
    BY Plain, Stutters, <1>0, PapersAre, NoTask DEF StartCompat
  <1>1. CASE PatchFile(c)
    BY Plain, Stutters, <1>1 DEF PatchFile
  <1>2. CASE PatchFails(c)
    BY Plain, Stutters, <1>2, SpendOnward DEF PatchFails, PopenGap, Abandon
  <1>3. CASE PublishCompat(c)
    <2>1. Publish(c, "confirm", "retract") /\ task = c /\ c \in Papers /\ UNCHANGED children
      BY <1>3, PapersAre DEF PublishCompat
    <2>2. /\ Grown /\ (temps' = temps \/ mishaps'["error"] > 0)
          /\ task' = task /\ pc' \in {"confirm", "retract"}
          /\ \A q \in Papers : q # c => paper'[q] = paper[q]
      BY <2>1, PublishOnward
    <2> QED BY Plain, <2>1, <2>2, NoTask, PapersAre
  <1>4. CASE ConfirmCompat(c)
    BY Plain, Stutters, <1>4, SpendOnward DEF ConfirmCompat
  <1>5. CASE RetractNothing(c)
    BY Plain, Stutters, <1>5 DEF RetractNothing
  <1>6. CASE RetractRefused(c)
    BY Plain, Stutters, <1>6, SpendOnward DEF RetractRefused
  <1>7. CASE Retract(c)
    BY Plain, Stutters, <1>7, SpendOnward, PapersAre DEF Retract
  <1>8. CASE Restore(c)
    BY Plain, Stutters, <1>8 DEF Restore
  <1>9. CASE RestoreFails(c)
    BY Plain, Stutters, <1>9, SpendOnward DEF RestoreFails
  <1>10. CASE StrayPatch(c)
    BY Plain, Stutters, <1>10 DEF StrayPatch
  <1> QED BY <1>0, <1>1, <1>2, <1>3, <1>4, <1>5, <1>6, <1>7, <1>8, <1>9, <1>10 DEF CompatStep

LEMMA BuildFrame ==
  ASSUME Typed, Quiet, Build
  PROVE  /\ Onward /\ Quiet'
         /\ {task, task'} \subseteq {"none", "arm", "x64"} \/ UNCHANGED driver
         /\ \A q \in Papers : q \notin {"arm", "x64"} => paper'[q] = paper[q]
  <1>0. PICK s \in Slices :
           \/ StartBuild(s) \/ BuildGraph(s) \/ Ninja(s) \/ BuildFails(s)
           \/ ExecuteResumedSlice(s) \/ ResumeBuild(s) \/ StrayNinja(s)
    BY DEF Build
  <1> USE DEF Quiet, Onward, Grown, Kinds, Begin, Ended, Goto, At, Idle
  <1>1. CASE StartBuild(s)
    BY Plain, Stutters, <1>1 DEF StartBuild, BuildPlan, Slices
  <1>2. CASE BuildGraph(s)
    BY Plain, Stutters, <1>2 DEF BuildGraph, Slices
  <1>3. CASE Ninja(s)
    BY Plain, Stutters, <1>3 DEF Ninja, Slices
  <1>4. CASE BuildFails(s)
    BY Plain, Stutters, <1>4, SpendOnward DEF BuildFails, PopenGap, Abandon, Slices
  <1>5. CASE StartFinalize(s)
    BY Plain, Stutters, <1>5 DEF StartFinalize, Slices
  <1>6. CASE NoWork(s)
    BY Plain, Stutters, <1>6, SpendOnward DEF NoWork, Slices
  <1>7. CASE PublishSlice(s)
    BY Plain, Stutters, <1>7, PublishOnward, PapersAre DEF PublishSlice, Slices
  <1>8. CASE ResumeBuild(s)
    BY Plain, Stutters, <1>8 DEF ResumeBuild, Slices
  <1>9. CASE StrayNinja(s)
    BY Plain, Stutters, <1>9 DEF StrayNinja, Slices
  <1> QED BY <1>0, <1>1, <1>2, <1>3, <1>4, <1>5, <1>6, <1>7, <1>8, <1>9 DEF ExecuteResumedSlice

LEMMA StageFrame ==
  ASSUME Typed, Quiet, Stage
  PROVE  /\ Onward /\ Quiet'
         /\ {task, task'} \subseteq {"none", "stage"} \/ UNCHANGED driver
         /\ \A q \in Papers : q \notin {"arm", "stage", "reclaim"} => paper'[q] = paper[q]
  <1> USE DEF Quiet, Onward, Grown, Kinds, Begin, Ended, Goto, At, Idle
  <1>1. CASE StartStage
    BY Plain, Stutters, <1>1 DEF StartStage
  <1>2. CASE Ditto
    BY Plain, Stutters, <1>2 DEF Ditto
  <1>3. CASE SwapIn
    BY Plain, Stutters, <1>3 DEF SwapIn
  <1>4. CASE StageFails
    BY Plain, Stutters, <1>4, SpendOnward DEF StageFails
  <1>5. CASE PublishStage
    BY Plain, Stutters, <1>5, SpendOnward, PublishOnward, PapersAre DEF PublishStage
  <1>6. CASE ReclaimOut
    BY Plain, Stutters, <1>6 DEF ReclaimOut
  <1>7. CASE ReclaimBreaks
    <2>1. Grown /\ UNCHANGED children /\ temps' = temps
      BY <1>7, SpendOnward DEF ReclaimBreaks
    <2>2. \A q \in Papers : q # "arm" => paper'[q] = paper[q]
      BY <1>7, Receipts DEF ReclaimBreaks
    <2>3. /\ task = "stage" /\ task' \in {"none", "stage"} /\ pc' \notin Papers
          /\ task' = "none" => known' = {} /\ pc' = "idle"
      BY <1>7, Plain DEF ReclaimBreaks
    <2> QED BY <2>1, <2>2, <2>3
  <1>8. CASE PublishReclaim
    BY Plain, Stutters, <1>8, PublishOnward, PapersAre DEF PublishReclaim
  <1> QED BY <1>1, <1>2, <1>3, <1>4, <1>5, <1>6, <1>7, <1>8 DEF Stage

LEMMA RecoverFrame ==
  ASSUME Typed, Quiet, Recover
  PROVE  /\ Onward /\ Quiet'
         /\ {task, task'} \subseteq {"none", "recovery"} \/ UNCHANGED driver
         /\ \A q \in Papers : q \notin {"stage", "reclaim", "x64", "signing"} => paper'[q] = paper[q]
  <1> USE DEF Quiet, Onward, Grown, Kinds, Begin, Ended, Goto, At, Idle
  <1>1. CASE StartRecovery
    BY Plain, Stutters, <1>1 DEF StartRecovery
  <1>2. CASE MoveArtifact
    <2>1. PICK a \in Artifacts \ archived : Put(a, "none", "none")
      BY <1>2, MoveArtifactChoice
    <2> QED BY Plain, <1>2, <2>1, PutFrame, Stutters DEF MoveArtifact, Artifacts
  <1>3. CASE RestoreArmOut
    BY Plain, Stutters, <1>3 DEF RestoreArmOut
  <1>4. CASE PublishArchive
    BY Plain, Stutters, <1>4 DEF PublishArchive
  <1>5. CASE RecoveryFails
    BY Plain, Stutters, <1>5, SpendOnward DEF RecoveryFails
  <1>6. CASE Normalize
    BY Plain, Stutters, <1>6 DEF Normalize
  <1>7. CASE UndoArmOut
    BY Plain, Stutters, <1>7, UndoArmOutCases
  <1>8. CASE MoveBack
    <2>1. PICK a \in archived : Put(a, "legacy", "old")
      BY <1>8, MoveBackChoice
    <2>2. a \in Artifacts
      BY DEF Typed, BuildTypeOK
    <2> QED BY Plain, <1>8, <2>1, <2>2, PutFrame, Stutters DEF MoveBack, Artifacts
  <1>9. CASE Reconcile
    BY Plain, Stutters, <1>9 DEF Reconcile
  <1>10. CASE UndoFails
    BY Plain, Stutters, <1>10, SpendOnward DEF UndoFails
  <1> QED BY <1>1, <1>2, <1>3, <1>4, <1>5, <1>6, <1>7, <1>8, <1>9, <1>10 DEF Recover

LEMMA RefreshFrame ==
  ASSUME Typed, Quiet, Refresh
  PROVE  /\ Onward /\ Quiet'
         /\ {task, task'} \subseteq {"none", "fresh"} \/ UNCHANGED driver
         /\ \A q \in Papers : q \notin {"fresh"} => paper'[q] = paper[q]
  <1> USE DEF Quiet, Onward, Grown, Kinds, Begin, Ended, Goto, At, Idle
  <1>1. CASE StartFresh
    BY Plain, Stutters, <1>1 DEF StartFresh
  <1>2. CASE MakeContainer
    BY Plain, Stutters, <1>2 DEF MakeContainer
  <1>3. CASE MoveLegacy
    BY Plain, Stutters, <1>3 DEF MoveLegacy
  <1>4. CASE MakeOut
    BY Plain, Stutters, <1>4 DEF MakeOut
  <1>5. CASE FreshGraph
    BY Plain, Stutters, <1>5 DEF FreshGraph
  <1>6. CASE SealContainer
    BY Plain, Stutters, <1>6 DEF SealContainer
  <1>7. CASE PublishFresh
    BY Plain, Stutters, <1>7, PublishOnward, PapersAre DEF PublishFresh
  <1>8. CASE ConfirmFresh
    BY Plain, Stutters, <1>8 DEF ConfirmFresh
  <1>9. CASE FreshFails
    BY Plain, Stutters, <1>9, SpendOnward DEF FreshFails, Abandon
  <1>10. CASE UndoReceipt
    BY Plain, Stutters, Receipts, <1>10 DEF UndoReceipt
  <1>11. CASE UndoOut
    BY Plain, Stutters, <1>11 DEF UndoOut
  <1>12. CASE UndoLegacy
    BY Plain, Stutters, <1>12 DEF UndoLegacy
  <1>13. CASE UndoContainer
    BY Plain, Stutters, <1>13 DEF UndoContainer
  <1>14. CASE AttemptFails
    BY Plain, Stutters, <1>14, SpendOnward DEF AttemptFails, Undoing
  <1>15. CASE StrayGraph
    BY Plain, Stutters, <1>15 DEF StrayGraph
  <1> QED BY <1>1, <1>2, <1>3, <1>4, <1>5, <1>6, <1>7, <1>8, <1>9, <1>10, <1>11, <1>12, <1>13, <1>14, <1>15 DEF Refresh

LEMMA MergeFrame ==
  ASSUME Typed, Quiet, Merge
  PROVE  /\ Onward /\ Quiet'
         /\ {task, task'} \subseteq {"none", "merge"} \/ UNCHANGED driver
         /\ \A q \in Papers : q \notin {"signing"} => paper'[q] = paper[q]
  <1> USE DEF Quiet, Onward, Grown, Kinds, Begin, Ended, Goto, At, Idle
  <1>1. CASE Sign /\ UNCHANGED universal
    BY Plain, Stutters, <1>1 DEF Sign
  <1>2. CASE StartMerge
    BY Plain, Stutters, <1>2 DEF StartMerge
  <1>3. CASE Universalize
    BY Plain, Stutters, <1>3 DEF Universalize
  <1>4. CASE SignMerged
    BY Plain, Stutters, <1>4 DEF SignMerged
  <1>5. CASE PublishMerged
    BY Plain, Stutters, <1>5 DEF PublishMerged
  <1>6. CASE MergeFails
    BY Plain, Stutters, <1>6, SpendOnward DEF MergeFails
  <1> QED BY <1>1, <1>2, <1>3, <1>4, <1>5, <1>6 DEF Merge

(* A process that ends, or the death of one, publishes what it was about to. *)
LEMMA OtherFrame ==
  ASSUME Typed, Quiet, Other
  PROVE  /\ Onward /\ Quiet'
         /\ UNCHANGED driver \/ (task' = "none" /\ task # "none")
         /\ \A q \in Papers : paper'[q] = paper[q] \/
              (q = pc /\ paper[q] = "none" /\ paper'[q] = "new" /\ mishaps'["kill"] > 0)
  <1> USE DEF Quiet, Onward, Grown, Kinds, Goto, At, Idle
  <1>1. CASE Finish /\ UNCHANGED <<papers, children, mishaps, outputs, adoption, part, roots, merged>>
    BY <1>1, Plain, Stutters DEF Finish, Ended
  <1>2. CASE Dies /\ UNCHANGED <<outputs, adoption, part, roots, merged>>
    <2>1. Grown /\ mishaps'["kill"] > 0 /\ Ended /\ task # "none"
      BY <1>2, SpendOnward DEF Dies
    <2>2. strayed => strayed'
      BY <1>2 DEF Dies, Abandon
    <2>3. strays' # {} => strayed'
      BY <1>2 DEF Dies, Abandon
    <2>4. \A q \in Papers : paper'[q] = paper[q] \/
            (q = pc /\ paper[q] = "none" /\ paper'[q] = "new")
      BY <1>2, Receipts DEF Dies, Cut, Refused
    <2> QED BY Plain, <2>1, <2>2, <2>3, <2>4 DEF Ended
  <1>3. CASE \E t \in Tasks : StrayEnds(t) /\ UNCHANGED <<outputs, adoption, part, roots, merged>>
    BY <1>3, Plain, Stutters DEF StrayEnds
  <1>4. CASE Clear
    BY <1>4, Plain, Stutters DEF Clear
  <1> QED BY <1>1, <1>2, <1>3, <1>4 DEF Other

LEMMA QuietInit == Init => Quiet
  BY Plain DEF Init, Quiet, Idle

LEMMA QuietNext == Typed /\ Quiet /\ [Next]_vars => Quiet'
  <1> SUFFICES ASSUME Typed, Quiet, [Next]_vars PROVE Quiet'
    OBVIOUS
  <1>1. CASE Source
    BY <1>1, AcquireFrame, PrepareFrame DEF Source
  <1>2. CASE Adopting
    BY <1>2, AdoptionFrame DEF Adopting
  <1>3. CASE Compat
    BY <1>3, CompatSteps, CompatStepFrame
  <1>4. CASE Build
    BY <1>4, BuildFrame
  <1>5. CASE Stage
    BY <1>5, StageFrame
  <1>6. CASE Recover
    BY <1>6, RecoverFrame
  <1>7. CASE Refresh
    BY <1>7, RefreshFrame
  <1>8. CASE Merge
    BY <1>8, MergeFrame
  <1>9. CASE Other
    BY <1>9, OtherFrame
  <1>10. CASE UNCHANGED vars
    BY <1>10 DEF vars, Quiet, Idle
  <1> QED
    BY <1>1, <1>2, <1>3, <1>4, <1>5, <1>6, <1>7, <1>8, <1>9, <1>10 DEF Next

-----------------------------------------------------------------------------
(* The source patches: an order of receipts, each over the files of its own. *)

(* A patch and all before it. *)
Upto == [gn |-> {"gn"},
         xcode27 |-> {"gn", "xcode27"},
         seatbelt |-> {"gn", "xcode27", "seatbelt"},
         screenAI |-> {"gn", "xcode27", "seatbelt", "screenAI"},
         linkedit |-> Compats]

Unpatched(c) == paper[c] = "none" /\ AllPre(c)
Patched(c) == \A d \in Upto[c] : paper[d] # "none" /\ AllPost(d)

(* A receipt stands on all receipts before it, and the transaction of a      *)
(* patch leaves its own only over its files.                                 *)
Layers ==
  /\ \A c \in Compats : paper[c] # "none" => Patched(c)
  /\ task \in Compats =>
       /\ pc \in {"patch", "confirm", "retract", "restore", "done"} \cup {task}
       /\ \A d \in Upto[task] \ {task} : paper[d] # "none"
       /\ \A d \in Compats : d \notin Upto[task] => paper[d] = "none"
       /\ pc \in {"patch", task, "restore"} => paper[task] = "none"
       /\ pc \in {task, "confirm"} => AllPost(task)
       /\ pc = "confirm" => paper[task] # "none"

(* With one exception at most, a patch is applied or not, but for the one    *)
(* whose transaction runs.                                                   *)
Steady ==
  Undisturbed =>
    /\ \A c \in Compats : c # task => Unpatched(c) \/ Patched(c)
    /\ task \in Compats =>
         /\ pc \in {"retract", "restore"} => mishaps["error"] > 0
         /\ "post" \notin known
         /\ pc = "done" => Unpatched(task) \/ Patched(task)

LEMMA UptoIs ==
  /\ \A c \in Compats : c \in Upto[c] /\ Upto[c] \subseteq Compats
  /\ \A c, d \in Compats : d \in Upto[c] => Upto[d] \subseteq Upto[c]
  /\ \A c, d \in Compats : d \notin Upto[c] => c \in Upto[d]
  /\ \A c, d \in Compats : c \in Upto[d] /\ d \in Upto[c] => c = d
  BY DEF Upto, Compats

LEMMA FilesApart ==
  \A c, d \in Compats : c # d => FilesOf(c) \cap FilesOf(d) = {}
  BY DEF FilesOf

LEMMA ContractIs == \A c \in Compats : CompatHolds(c) <=> Patched(c)
  <1> USE DEF CompatHolds, Patched, Upto, GnHolds, Xcode27Holds, SeatbeltHolds, ScreenAIHolds,
              LinkeditHolds
  <1>1. CompatHolds("gn") <=> Patched("gn")
    OBVIOUS
  <1>2. CompatHolds("xcode27") <=> Patched("xcode27")
    OBVIOUS
  <1>3. CompatHolds("seatbelt") <=> Patched("seatbelt")
    OBVIOUS
  <1>4. CompatHolds("screenAI") <=> Patched("screenAI")
    OBVIOUS
  <1>5. CompatHolds("linkedit") <=> Patched("linkedit")
    BY DEF Compats
  <1> QED BY <1>1, <1>2, <1>3, <1>4, <1>5 DEF Compats

LEMMA PlanIs ==
  ASSUME NEW c \in Compats, NEW armArgs, CompatPlan(c, armArgs)
  PROVE  /\ armArgs /\ paper[c] = "none"
         /\ \A d \in Upto[c] \ {c} : paper[d] # "none" /\ AllPost(d)
         /\ AllPre(c) \/ AllPost(c)
  <1> USE DEF CompatPlan, Upto, GnHolds, Xcode27Holds, SeatbeltHolds, ScreenAIHolds,
              LinkeditHolds
  <1>1. CASE c = "gn"
    BY <1>1 DEF GnPlan
  <1>2. CASE c = "xcode27"
    BY <1>2 DEF Xcode27Plan
  <1>3. CASE c = "seatbelt"
    BY <1>3 DEF SeatbeltPlan
  <1>4. CASE c = "screenAI"
    BY <1>4 DEF ScreenAIPlan
  <1>5. CASE c = "linkedit"
    BY <1>5 DEF LinkeditPlan, Compats
  <1> QED BY <1>1, <1>2, <1>3, <1>4, <1>5 DEF Compats

(* What a step in one patch's files leaves of the others. *)
LEMMA OtherFiles ==
  ASSUME NEW c \in Compats, patched' \ FilesOf(c) = patched \ FilesOf(c)
  PROVE  \A d \in Compats : d # c => (AllPost(d)' <=> AllPost(d)) /\ (AllPre(d)' <=> AllPre(d))
  <1> TAKE d \in Compats
  <1> HAVE d # c
  <1>1. FilesOf(c) \cap FilesOf(d) = {}
    BY FilesApart
  <1> QED BY <1>1 DEF AllPost, AllPre

LEMMA MoreFiles ==
  ASSUME patched \subseteq patched'
  PROVE  \A d \in Compats : AllPost(d) => AllPost(d)'
  BY DEF AllPost

(* A step that touches no patch but its own, and no receipt of a patch.      *)
LEMMA SamePapers ==
  ASSUME Layers, UNCHANGED paper, patched \subseteq patched'
  PROVE  \A c \in Compats : paper'[c] # "none" => Patched(c)'
  BY MoreFiles, UptoIs DEF Layers, Patched

LEMMA CompatStepLayers ==
  ASSUME Typed, Quiet, Layers, NEW c \in Compats, CompatStep(c)
  PROVE  Layers'
  <1> DEFINE Own == \A e \in Compats : paper'[e] # "none" => Patched(e)'
  <1> USE DEF At, Goto
  <1>0. /\ c \in Papers /\ paper \in [Papers -> {"none", "old", "new"}]
        /\ c \notin {"patch", "confirm", "retract", "restore", "done"}
    BY PapersAre, Receipts DEF Compats
  <1>1. CASE PatchFile(c)
    <2>1. task = c /\ task' = c /\ patched \subseteq patched' /\ UNCHANGED paper
      BY <1>1 DEF PatchFile
    <2>2. Own
      BY <2>1, SamePapers
    <2>3. pc' = "patch" \/ (pc' = c /\ AllPost(c)')
      BY <1>1 DEF PatchFile, AllPost
    <2> QED BY <1>0, <1>1, <2>1, <2>2, <2>3 DEF Layers, PatchFile
  <1>2. CASE PatchFails(c)
    <2>1. task = c /\ task' = c /\ pc' = "retract" /\ UNCHANGED <<paper, patched>>
      BY <1>2 DEF PatchFails, PopenGap
    <2>2. Own
      BY <2>1, SamePapers
    <2> QED BY <1>0, <2>1, <2>2 DEF Layers
  <1>3. CASE PublishCompat(c)
    <2>1. /\ task = c /\ pc = c /\ UNCHANGED patched /\ task' = task /\ pc' \in {"confirm", "retract"}
          /\ \A q \in Papers : q # c => paper'[q] = paper[q]
          /\ pc' = "confirm" => paper'[c] = "new"
      BY <1>0, <1>3, PublishOnward DEF PublishCompat
    <2>2. \A d \in Compats : paper[d] # "none" => paper'[d] # "none"
      BY <1>0, <1>3, <2>1, PapersAre, PublishOnward DEF PublishCompat
    <2>3. \A d \in Compats : AllPost(d)' <=> AllPost(d)
      BY <2>1 DEF AllPost
    <2>4. \A d \in Upto[c] \ {c} : paper[d] # "none" /\ AllPost(d)
      BY <2>1, UptoIs DEF Layers, Patched
    <2>5. AllPost(c)
      BY <2>1 DEF Layers
    <2>6. Own
      <3> SUFFICES ASSUME NEW e \in Compats, paper'[e] # "none", NEW d \in Upto[e]
                   PROVE  paper'[d] # "none" /\ AllPost(d)'
        BY DEF Patched
      <3>1. CASE e = c
        BY <3>1, <2>2, <2>3, <2>4, <2>5, UptoIs
      <3>2. CASE e # c
        <4>1. paper[e] # "none"
          BY <3>2, <2>1, PapersAre
        <4> QED BY <4>1, <2>2, <2>3, UptoIs DEF Layers, Patched
      <3> QED BY <3>1, <3>2
    <2> QED BY <1>0, <2>1, <2>2, <2>3, <2>5, <2>6, UptoIs, PapersAre DEF Layers
  <1>4. CASE ConfirmCompat(c)
    <2>1. task = c /\ task' = c /\ pc' \in {"done", "retract"} /\ UNCHANGED <<paper, patched>>
      BY <1>4 DEF ConfirmCompat
    <2>2. Own
      BY <2>1, SamePapers
    <2> QED BY <1>0, <2>1, <2>2 DEF Layers
  <1>5. CASE RetractNothing(c)
    <2>1. /\ task = c /\ task' = c /\ pc' = "restore" /\ paper[c] = "none"
          /\ UNCHANGED <<paper, patched>>
      BY <1>5 DEF RetractNothing
    <2>2. Own
      BY <2>1, SamePapers
    <2> QED BY <1>0, <2>1, <2>2 DEF Layers
  <1>6. CASE RetractRefused(c)
    <2>1. task = c /\ task' = c /\ pc' = "done" /\ UNCHANGED <<paper, patched>>
      BY <1>6 DEF RetractRefused
    <2>2. Own
      BY <2>1, SamePapers
    <2> QED BY <1>0, <2>1, <2>2 DEF Layers
  <1>7. CASE Retract(c)
    <2>1. /\ task = c /\ task' = c /\ pc' = "restore" /\ paper'[c] = "none" /\ UNCHANGED patched
          /\ \A q \in Papers : q # c => paper'[q] = paper[q]
      BY <1>0, <1>7 DEF Retract
    <2>2. \A d \in Compats : d \notin Upto[c] => paper[d] = "none"
      BY <2>1 DEF Layers
    <2>3. Own
      <3> SUFFICES ASSUME NEW e \in Compats, paper'[e] # "none", NEW d \in Upto[e]
                   PROVE  paper'[d] # "none" /\ AllPost(d)'
        BY DEF Patched
      <3>1. e # c /\ paper[e] # "none" /\ e \in Upto[c]
        BY <2>1, <2>2, PapersAre
      <3>2. d \in Compats /\ d # c
        BY <3>1, UptoIs
      <3>3. paper[d] # "none" /\ AllPost(d)
        BY <3>1 DEF Layers, Patched
      <3> QED BY <2>1, <3>2, <3>3, PapersAre DEF AllPost
    <2> QED BY <1>0, <2>1, <2>3, UptoIs, PapersAre DEF Layers
  <1>8. CASE Restore(c)
    <2>1. task = c /\ task' = c /\ pc' \in {"restore", "done"} /\ pc = "restore" /\ UNCHANGED paper
      BY <1>8 DEF Restore
    <2>2. patched' \ FilesOf(c) = patched \ FilesOf(c)
      <3> DEFINE left == IF "post" \in known THEN {} ELSE FilesOf(c) \cap patched
      <3>1. left # {} => First(left) \in FilesOf(c)
        BY FirstOfFiles
      <3>2. patched' = patched \/ (left # {} /\ patched' = patched \ {First(left)})
        BY <1>8 DEF Restore
      <3> QED BY <3>1, <3>2
    <2>3. Own
      <3> SUFFICES ASSUME NEW e \in Compats, paper'[e] # "none", NEW d \in Upto[e]
                   PROVE  paper'[d] # "none" /\ AllPost(d)'
        BY DEF Patched
      <3>1. paper[d] # "none" /\ AllPost(d) /\ d \in Compats
        BY <2>1, UptoIs DEF Layers, Patched
      <3>2. d # c
        BY <2>1, <3>1 DEF Layers
      <3> QED BY <2>1, <2>2, <3>1, <3>2, OtherFiles
    <2> QED BY <1>0, <2>1, <2>3 DEF Layers
  <1>9. CASE RestoreFails(c)
    <2>1. task = c /\ task' = c /\ pc' = "done" /\ UNCHANGED <<paper, patched>>
      BY <1>9 DEF RestoreFails
    <2>2. Own
      BY <2>1, SamePapers
    <2> QED BY <1>0, <2>1, <2>2 DEF Layers
  <1>10. CASE StrayPatch(c)
    <2>1. UNCHANGED <<task, pc, paper>> /\ patched \subseteq patched'
      BY <1>10 DEF StrayPatch
    <2>2. Own
      BY <2>1, SamePapers
    <2> QED BY <2>1, <2>2, MoreFiles DEF Layers
  <1> QED BY <1>1, <1>2, <1>3, <1>4, <1>5, <1>6, <1>7, <1>8, <1>9, <1>10 DEF CompatStep

LEMMA StartCompatLayers ==
  ASSUME Typed, Layers, NEW c \in Compats, NEW armArgs, StartCompat(c, armArgs)
  PROVE  Layers'
  <1>1. /\ paper[c] = "none" /\ \A d \in Upto[c] \ {c} : paper[d] # "none"
        /\ AllPre(c) \/ AllPost(c)
    BY PlanIs DEF StartCompat
  <1>2. task' = c /\ (pc' = "patch" \/ (pc' = c /\ AllPost(c))) /\ UNCHANGED <<patched, paper>>
    BY <1>1 DEF StartCompat
  <1>3. \A d \in Compats : d \notin Upto[c] => paper[d] = "none"
    BY <1>1, UptoIs DEF Layers, Patched
  <1>4. \A e \in Compats : paper'[e] # "none" => Patched(e)'
    BY <1>2, SamePapers
  <1>5. c \notin {"patch", "confirm", "retract", "restore", "done"} /\ (AllPost(c)' <=> AllPost(c))
    BY <1>2 DEF Compats, AllPost
  <1> QED BY <1>1, <1>2, <1>3, <1>4, <1>5 DEF Layers

(* Other stages leave the receipts of the patches and their files alone.     *)
LEMMA OtherStepsLayers ==
  ASSUME Layers, UNCHANGED patched, \A c \in Compats : paper'[c] = paper[c],
         task' \notin Compats \/ UNCHANGED driver
  PROVE  Layers'
  <1>1. \A c \in Compats : AllPost(c)' <=> AllPost(c)
    BY DEF AllPost
  <1>2. \A c \in Compats : paper'[c] # "none" => Patched(c)'
    BY <1>1, UptoIs DEF Layers, Patched
  <1> QED BY <1>1, <1>2, UptoIs DEF Layers

LEMMA DiesLayers ==
  ASSUME Typed, Quiet, Layers, Other
  PROVE  Layers'
  <1>1. UNCHANGED patched
    BY DEF Other
  <1>2. CASE \A c \in Compats : paper'[c] = paper[c]
    <2>1. task' \notin Compats \/ UNCHANGED driver
      BY OtherFrame DEF Compats
    <2> QED BY <1>1, <1>2, <2>1, OtherStepsLayers
  <1>3. CASE \E c \in Compats : paper'[c] # paper[c]
    <2>1. PICK c \in Compats : paper'[c] # paper[c]
      BY <1>3
    <2>2. /\ c = pc /\ paper'[c] = "new" /\ \A d \in Compats : d # c => paper'[d] = paper[d]
          /\ UNCHANGED driver \/ task' = "none"
      BY <2>1, OtherFrame, PapersAre
    <2>3. task = c
      BY <2>2, PapersAre DEF Quiet, Compats
    <2>4. AllPost(c) /\ \A d \in Upto[c] \ {c} : paper[d] # "none" /\ AllPost(d)
      BY <2>2, <2>3, UptoIs DEF Layers, Patched
    <2>5. task' = "none"
      <3> SUFFICES ASSUME UNCHANGED driver PROVE FALSE
        BY <2>2
      <3>1. CASE Dies
        BY <2>3, <3>1 DEF Dies, Ended, Compats
      <3>2. CASE ~ Dies
        BY <2>1, <3>2 DEF Other, Clear, StrayEnds
      <3> QED BY <3>1, <3>2
    <2>6. \A e \in Compats : paper'[e] # "none" => Patched(e)'
      <3> SUFFICES ASSUME NEW e \in Compats, paper'[e] # "none", NEW d \in Upto[e]
                   PROVE  paper'[d] # "none" /\ AllPost(d)'
        BY DEF Patched
      <3>1. CASE e = c
        BY <3>1, <1>1, <2>2, <2>4, UptoIs DEF AllPost
      <3>2. CASE e # c
        BY <3>2, <1>1, <2>2, UptoIs DEF Layers, Patched, AllPost
      <3> QED BY <3>1, <3>2
    <2> QED BY <2>5, <2>6 DEF Layers, Compats
  <1> QED BY <1>2, <1>3

-----------------------------------------------------------------------------
LEMMA ContractIsNext == (\A c \in Compats : CompatHolds(c) <=> Patched(c))'
  BY ContractIs, PTL

LEMMA CompatsAre ==
  /\ Compats \cap {"none", "acquire", "bootstrap", "prepare", "resumePatch", "finalizer",
       "transition", "home", "root", "arm", "x64", "stage", "reclaim", "recovery", "signing",
       "fresh", "merge", "done", "published", "committed", "patch", "confirm", "retract",
       "restore"} = {}
  /\ Compats \subseteq Papers
  BY DEF Compats, Papers

(* What the stages other than the patches do to them: nothing.               *)
LEMMA OtherStages ==
  ASSUME Typed, Quiet, Source \/ Adopting \/ Build \/ Stage \/ Recover \/ Refresh \/ Merge
  PROVE  /\ Onward /\ UNCHANGED patched
         /\ \A c \in Compats : paper'[c] = paper[c]
         /\ UNCHANGED driver \/ (task \notin Compats /\ task' \notin Compats)
  <1>1. CASE Source
    BY <1>1, AcquireFrame, PrepareFrame, CompatsAre DEF Source
  <1>2. CASE Adopting
    BY <1>2, AdoptionFrame, CompatsAre DEF Adopting
  <1>3. CASE Build
    BY <1>3, BuildFrame, CompatsAre DEF Build
  <1>4. CASE Stage
    BY <1>4, StageFrame, CompatsAre DEF Stage
  <1>5. CASE Recover
    BY <1>5, RecoverFrame, CompatsAre DEF Recover
  <1>6. CASE Refresh
    BY <1>6, RefreshFrame, CompatsAre DEF Refresh
  <1>7. CASE Merge
    BY <1>7, MergeFrame, CompatsAre DEF Merge
  <1> QED BY <1>1, <1>2, <1>3, <1>4, <1>5, <1>6, <1>7

LEMMA LayersInit == Init => Layers
  <1> SUFFICES ASSUME Init PROVE Layers
    OBVIOUS
  <1>1. task = "none"
    BY DEF Init
  <1>2. \A c \in Compats : paper[c] # "none" => Patched(c)
    <2>1. CASE Nothing
      BY <2>1, CompatsAre DEF Nothing, Papered
    <2>2. CASE Recorded
      <3>1. paper["linkedit"] = "none"
        BY <2>2, CompatsAre DEF Recorded, Papered, Compats
      <3>2. \A c \in Compats \ {"linkedit"} : paper[c] # "none" /\ AllPost(c) /\ "linkedit" \notin Upto[c]
        BY <2>2, CompatsAre DEF Recorded, Papered, AllPost, Upto, Compats
      <3> QED BY <3>1, <3>2, UptoIs DEF Patched
    <2>3. CASE Aliased
      BY <2>3, CompatsAre, FilesAre, UptoIs DEF Aliased, Papered, AllPost, Patched
    <2> QED BY <2>1, <2>2, <2>3 DEF Init
  <1> QED BY <1>1, <1>2, CompatsAre DEF Layers

LEMMA LayersNext == Typed /\ Quiet /\ Layers /\ [Next]_vars => Layers'
  <1> SUFFICES ASSUME Typed, Quiet, Layers, [Next]_vars PROVE Layers'
    OBVIOUS
  <1>1. CASE Source \/ Adopting \/ Build \/ Stage \/ Recover \/ Refresh \/ Merge
    BY <1>1, OtherStages, OtherStepsLayers
  <1>2. CASE Compat
    BY <1>2, CompatSteps, CompatStepLayers, StartCompatLayers
  <1>3. CASE Other
    BY <1>3, DiesLayers
  <1>4. CASE UNCHANGED vars
    BY <1>4, OtherStepsLayers DEF vars
  <1> QED BY <1>1, <1>2, <1>3, <1>4 DEF Next

-----------------------------------------------------------------------------
(* One exception at most. *)

LEMMA StillUndisturbed ==
  ASSUME Onward, Undisturbed'
  PROVE  /\ Undisturbed
         /\ mishaps["error"] > 0 => mishaps'["error"] > 0 /\ UNCHANGED mishaps["error"]
         /\ mishaps'["kill"] = 0 /\ mishaps'["gap"] = 0
  BY DEF Onward, Grown, Undisturbed, Kinds

(* A second exception.                                                       *)
LEMMA SecondError ==
  ASSUME Typed, mishaps["error"] > 0, Spend("error")
  PROVE  ~ Undisturbed'
  BY DEF Typed, BuildTypeOK, DriverTypeOK, Spend, Undisturbed, Kinds

LEMMA FirstError ==
  ASSUME Typed, Spend("error")
  PROVE  mishaps'["error"] > 0
  BY SpendOnward DEF Kinds

LEMMA GapOrKill ==
  ASSUME Typed, Spend("gap") \/ Spend("kill")
  PROVE  ~ Undisturbed'
  BY DEF Typed, BuildTypeOK, DriverTypeOK, Spend, Undisturbed, Kinds

LEMMA Littered ==
  ASSUME Typed, Quiet, Undisturbed
  PROVE  /\ strays = {} /\ ~ strayed
         /\ temps # {} => mishaps["error"] > 0
  BY DEF Quiet, Undisturbed, Typed, BuildTypeOK, DriverTypeOK, Kinds

(* What the step of one patch leaves of the state of the others.             *)
LEMMA OthersSteady ==
  ASSUME NEW c \in Compats,
         \A d \in Compats : d # c => paper'[d] = paper[d]
                              /\ (AllPost(d)' <=> AllPost(d)) /\ (AllPre(d)' <=> AllPre(d)),
         \A d \in Compats : d # c /\ c \in Upto[d] /\ Patched(d) => paper'[c] # "none" /\ AllPost(c)'
  PROVE  \A d \in Compats : d # c /\ (Unpatched(d) \/ Patched(d)) => Unpatched(d)' \/ Patched(d)'
  <1> SUFFICES ASSUME NEW d \in Compats, d # c, Unpatched(d) \/ Patched(d)
               PROVE  Unpatched(d)' \/ Patched(d)'
    OBVIOUS
  <1>1. CASE Unpatched(d)
    BY <1>1 DEF Unpatched
  <1>2. CASE Patched(d)
    BY <1>2, UptoIs DEF Patched
  <1> QED BY <1>1, <1>2

LEMMA CompatStepSteady ==
  ASSUME Typed, Quiet, Layers, Steady, NEW c \in Compats, CompatStep(c)
  PROVE  Steady'
  <1> SUFFICES ASSUME Undisturbed' PROVE Steady'
    BY DEF Steady
  <1>0. Onward /\ \A q \in Papers : q # c => paper'[q] = paper[q]
    BY CompatStepFrame
  <1>1. Undisturbed /\ (mishaps["error"] > 0 => mishaps'["error"] > 0) /\ strays = {}
    BY <1>0, StillUndisturbed, Littered
  <1>2. ~ StrayPatch(c)
    BY <1>1 DEF StrayPatch
  <1>3. task = c /\ task' = c
    BY <1>2 DEF CompatStep, At, Goto, PatchFile, PatchFails, PopenGap, PublishCompat, Publish,
                ConfirmCompat, RetractNothing, RetractRefused, Retract, Restore, RestoreFails
  <1>4. /\ \A d \in Compats : d # c => Unpatched(d) \/ Patched(d)
        /\ "post" \notin known
        /\ pc \in {"retract", "restore"} => mishaps["error"] > 0
    BY <1>1, <1>3 DEF Steady
  <1>5. paper \in [Papers -> {"none", "old", "new"}] /\ c \in Papers
    BY Receipts, CompatsAre
  <1>6. patched' \ FilesOf(c) = patched \ FilesOf(c)
    <2>1. CASE PatchFile(c)
      BY <2>1, FirstOfFiles DEF PatchFile
    <2>2. CASE Restore(c)
      BY <2>2, <1>4, FirstOfFiles DEF Restore
    <2>3. CASE UNCHANGED patched
      BY <2>3
    <2> QED BY <1>2, <2>1, <2>2, <2>3 DEF CompatStep, PatchFails, PublishCompat, ConfirmCompat,
               RetractNothing, RetractRefused, Retract, RestoreFails
  <1>7. ~ Retract(c) /\ ~ RestoreFails(c)
    BY <1>4, SecondError DEF Retract, RestoreFails, At
  <1>8. \A d \in Compats : d # c /\ c \in Upto[d] /\ Patched(d) => paper'[c] # "none" /\ AllPost(c)'
    <2> SUFFICES ASSUME paper[c] # "none", AllPost(c)
                 PROVE  paper'[c] # "none" /\ AllPost(c)'
      BY DEF Patched
    <2>1. pc \notin {"patch", c, "restore"}
      BY <1>3 DEF Layers
    <2>2. UNCHANGED <<paper, patched>>
      BY <1>2, <1>7, <2>1 DEF CompatStep, At, PatchFile, PatchFails, PublishCompat, ConfirmCompat,
               RetractNothing, RetractRefused, Restore
    <2> QED BY <2>2 DEF AllPost
  <1>9. \A d \in Compats : d # c => Unpatched(d)' \/ Patched(d)'
    BY <1>0, <1>4, <1>6, <1>8, OtherFiles, OthersSteady, CompatsAre
  <1>10. "post" \notin known'
    BY <1>2, <1>4, <1>7 DEF CompatStep, Goto, PatchFile, PatchFails, PopenGap, PublishCompat,
                Publish, ConfirmCompat, RetractNothing, RetractRefused, Restore
  <1>11. pc' \in {"retract", "restore"} => mishaps'["error"] > 0
    <2>1. CASE PatchFile(c)
      BY <2>1, <1>3 DEF PatchFile, At, Goto, Compats
    <2>2. CASE PatchFails(c)
      BY <2>2, FirstError, GapOrKill DEF PatchFails, PopenGap
    <2>3. CASE PublishCompat(c)
      <3>1. Publish(c, "confirm", "retract") /\ pc = c
        BY <2>3 DEF PublishCompat, At
      <3>2. CASE Spend("error")
        BY <3>2, FirstError
      <3>3. CASE UNCHANGED mishaps /\ Refused(c)
        <4>1. c \in temps
          BY <1>3, <3>1, <3>3 DEF Refused, Layers
        <4> QED BY <4>1, <1>1, Littered
      <3>4. CASE pc' = "confirm"
        BY <3>4
      <3> QED BY <3>1, <3>2, <3>3, <3>4 DEF Publish
    <2>4. CASE ConfirmCompat(c)
      BY <2>4, FirstError DEF ConfirmCompat, Goto
    <2>5. CASE RetractNothing(c)
      BY <2>5, <1>1, <1>4 DEF RetractNothing, At
    <2>6. CASE RetractRefused(c)
      BY <2>6 DEF RetractRefused, Goto
    <2>7. CASE Restore(c)
      BY <2>7, <1>1, <1>4 DEF Restore, At
    <2> QED BY <1>2, <1>7, <2>1, <2>2, <2>3, <2>4, <2>5, <2>6, <2>7 DEF CompatStep
  <1>12. pc' = "done" => Unpatched(c)' \/ Patched(c)'
    <2>1. CASE ConfirmCompat(c) \/ RetractRefused(c)
      <3>1. pc' = "done" => Patched(c)
        BY <2>1, <1>4, ContractIs, SecondError DEF ConfirmCompat, RetractRefused, At, Goto
      <3>2. UNCHANGED <<paper, patched>>
        BY <2>1 DEF ConfirmCompat, RetractRefused
      <3> QED BY <3>1, <3>2 DEF Patched, AllPost
    <2>2. CASE Restore(c)
      <3>1. paper[c] = "none" /\ UNCHANGED paper
        BY <2>2, <1>3 DEF Restore, At, Layers
      <3>2. pc' = "done" => FilesOf(c) \cap patched = {} /\ UNCHANGED patched
        BY <2>2, <1>4 DEF Restore, At
      <3> QED BY <3>1, <3>2 DEF Unpatched, AllPre
    <2>3. CASE PublishCompat(c)
      <3>1. pc' \in {"confirm", "retract"}
        BY <2>3, PublishOnward, CompatsAre DEF PublishCompat
      <3> QED BY <3>1
    <2>4. CASE PatchFile(c) \/ PatchFails(c) \/ RetractNothing(c)
      BY <2>4, CompatsAre DEF PatchFile, PatchFails, PopenGap, RetractNothing, At, Goto
    <2> QED BY <1>2, <1>7, <2>1, <2>2, <2>3, <2>4 DEF CompatStep
  <1> QED BY <1>3, <1>9, <1>10, <1>11, <1>12 DEF Steady

LEMMA StartCompatSteady ==
  ASSUME Typed, Quiet, Steady, NEW c \in Compats, NEW armArgs, StartCompat(c, armArgs)
  PROVE  Steady'
  <1> SUFFICES ASSUME Undisturbed' PROVE Steady'
    BY DEF Steady
  <1>1. /\ task = "none" /\ task' = c /\ UNCHANGED <<patched, paper, mishaps>>
        /\ pc' \in {"patch", c} /\ (known' = {} \/ ~ AllPre(c))
    BY DEF StartCompat, Idle
  <1>2. paper[c] = "none"
    BY PlanIs DEF StartCompat
  <1>3. Undisturbed
    BY <1>1 DEF Undisturbed
  <1>4. \A d \in Compats : Unpatched(d) \/ Patched(d)
    BY <1>1, <1>3, CompatsAre DEF Steady
  <1>5. known' = {}
    BY <1>1, <1>2, <1>4, UptoIs DEF Unpatched, Patched
  <1>6. \A d \in Compats : Unpatched(d)' \/ Patched(d)'
    BY <1>1, <1>4 DEF Unpatched, Patched, AllPre, AllPost
  <1> QED BY <1>1, <1>5, <1>6, CompatsAre DEF Steady

LEMMA OtherStepsSteady ==
  ASSUME Typed, Layers, Steady, Onward, UNCHANGED patched,
         \A c \in Compats : paper'[c] = paper[c],
         \/ UNCHANGED driver
         \/ task \notin Compats /\ task' \notin Compats
         \/ pc = "done" /\ task' \notin Compats
  PROVE  Steady'
  <1> SUFFICES ASSUME Undisturbed' PROVE Steady'
    BY DEF Steady
  <1>1. Undisturbed /\ (mishaps["error"] > 0 => mishaps'["error"] > 0)
    BY StillUndisturbed
  <1>2. \A c \in Compats : (Unpatched(c)' <=> Unpatched(c)) /\ (Patched(c)' <=> Patched(c))
    BY UptoIs DEF Unpatched, Patched, AllPre, AllPost
  <1>3. CASE UNCHANGED driver
    BY <1>1, <1>2, <1>3 DEF Steady
  <1>4. CASE task \notin Compats /\ task' \notin Compats
    BY <1>1, <1>2, <1>4 DEF Steady
  <1>5. CASE pc = "done" /\ task' \notin Compats
    BY <1>1, <1>2, <1>5 DEF Steady
  <1> QED BY <1>3, <1>4, <1>5

LEMMA SteadyInit == Init => Steady
  <1> SUFFICES ASSUME Init PROVE Steady
    OBVIOUS
  <1>1. task = "none"
    BY DEF Init
  <1>2. \A c \in Compats : Unpatched(c) \/ Patched(c)
    <2>1. CASE Nothing
      BY <2>1, CompatsAre DEF Nothing, Papered, Unpatched, AllPre
    <2>2. CASE Recorded
      <3>1. paper["linkedit"] = "none"
        BY <2>2 DEF Recorded, Papered, Papers, Compats
      <3>2. FilesOf("linkedit") \cap patched = {}
        BY <2>2, FilesApart DEF Recorded, Compats
      <3>3. \A c \in Compats \ {"linkedit"} : paper[c] # "none"
        BY <2>2, CompatsAre DEF Recorded, Papered
      <3> QED BY <3>1, <3>2, <3>3, LayersInit DEF Unpatched, AllPre, Layers
    <2>3. CASE Aliased
      <3>1. \A c \in Compats : paper[c] # "none"
        BY <2>3, CompatsAre DEF Aliased, Papered
      <3> QED BY <3>1, LayersInit DEF Layers
    <2> QED BY <2>1, <2>2, <2>3 DEF Init
  <1> QED BY <1>1, <1>2, CompatsAre DEF Steady

LEMMA SteadyNext == Typed /\ Quiet /\ Layers /\ Steady /\ [Next]_vars => Steady'
  <1> SUFFICES ASSUME Typed, Quiet, Layers, Steady, [Next]_vars PROVE Steady'
    OBVIOUS
  <1>1. CASE Source \/ Adopting \/ Build \/ Stage \/ Recover \/ Refresh \/ Merge
    BY <1>1, OtherStages, OtherStepsSteady
  <1>2. CASE Compat
    BY <1>2, CompatSteps, CompatStepSteady, StartCompatSteady
  <1>3. CASE Other
    <2>1. Onward /\ UNCHANGED patched
      BY <1>3, OtherFrame DEF Other
    <2>2. CASE Dies
      <3>1. ~ Undisturbed'
        BY <2>2, GapOrKill DEF Dies
      <3> QED BY <3>1 DEF Steady
    <2>3. CASE Finish /\ UNCHANGED papers
      <3>1. task' \notin Compats /\ (task \in Compats => pc = "done")
        BY <2>3, CompatsAre DEF Finish, Ended, Layers
      <3> QED BY <2>1, <2>3, <3>1, OtherStepsSteady
    <2>4. CASE UNCHANGED <<driver, paper>>
      BY <2>1, <2>4, OtherStepsSteady
    <2> QED BY <1>3, <2>2, <2>3, <2>4 DEF Other, StrayEnds, Clear
  <1>4. CASE UNCHANGED vars
    BY <1>4, OtherStepsSteady, Stutters DEF vars, Onward
  <1> QED BY <1>1, <1>2, <1>3, <1>4 DEF Next

(* The receipt of a source patch stands for that patch and all before it at  *)
(* every instant, and one exception leaves a patch applied with its receipt  *)
(* or not at all, for any number of mishaps.                                 *)
THEOREM PatchesAllOrNothing == Spec => []CompatAllOrNothing
  <1> DEFINE I == Typed /\ Quiet /\ Layers /\ Steady
  <1>1. Init => I
    BY TypedInit, QuietInit, LayersInit, SteadyInit
  <1>2. I /\ [Next]_vars => I'
    BY TypedNext, QuietNext, LayersNext, SteadyNext
  <1>3. I => CompatAllOrNothing
    BY ContractIs, CompatsAre DEF CompatAllOrNothing, Layers, Steady, Unpatched, Idle
  <1> QED
    BY <1>1, <1>2, <1>3, PTL DEF Spec

-----------------------------------------------------------------------------
(* The preparation: each phase over those before it. *)

Before == [extract |-> {}, deps |-> {}, prune |-> {"deps"}, patches |-> {"deps", "prune"},
           transform |-> {"deps", "prune"},
           overlay |-> {"deps", "prune", "transform"},
           version |-> {"deps", "prune", "transform", "overlay"},
           snapshot |-> {"deps", "prune", "transform", "overlay", "version"},
           resources |-> {"deps", "prune", "transform", "overlay", "version"},
           icon |-> {"deps", "prune", "transform", "overlay", "version", "resources"},
           args |-> Phases \ {"args"}, strings |-> Phases, publish |-> Phases]
AllPatched == applied = Patches /\ ~ half
Whole(P) == \A p \in P : phase[p] = "yes"
Undo == {"undoReceipt", "undoArgs", "undoFiles"}
Rolling == {"resources", "icon", "args", "strings", "publish"} \cup Undo

Certified ==
  /\ acquired => checkout = "whole" /\ cache = "whole"
  /\ task = "acquire" =>
       /\ pc \in {"sync", "download", "verify", "mark", "done"}
       /\ pc # "done" => ~ acquired
       /\ pc \in {"download", "verify", "mark"} => checkout = "whole"
       /\ pc \in {"verify", "mark"} => cache = "whole"
  /\ paper["bootstrap"] # "none" => acquired /\ (~ strayed => tools = "whole")
  /\ task = "bootstrap" =>
       /\ pc \in {"hooks", "bootstrap", "done"}
       /\ acquired /\ ~ prepared
       /\ pc = "hooks" => paper["bootstrap"] = "none"
       /\ pc = "bootstrap" => strayed \/ tools = "whole"
  /\ prepared => Bootstrapped /\ Whole(Phases) /\ AllPatched /\ strings = "baseline"
  /\ Preparing =>
       /\ Bootstrapped
       /\ pc \in DOMAIN Before => /\ ~ prepared
                                  /\ Whole(Before[pc])
                                  /\ pc \in {"extract", "deps", "prune", "patches"} \/ AllPatched
       /\ pc = "publish" => strings = "baseline"
       /\ pc \in {"undoArgs", "undoFiles"} => ~ prepared
       /\ pc \in DOMAIN Before \cup Undo \cup {"drop", "done"}

Retained ==
  /\ task = "finalizer" => finalized
  /\ finalized =>
       /\ Bootstrapped /\ AllPatched
       /\ Whole(Phases \ {"resources", "icon", "args"})
       /\ task \notin {"prepare", "resumePatch"}
       /\ prepared \/ AfterVersion \/ snapshot = "full"
       /\ Undisturbed /\ (task = "finalizer" => pc = "done") => prepared \/ AfterVersion
       /\ task = "finalizer" =>
            /\ pc \in {"snapshot", "drop", "done"} \cup Rolling
            /\ pc = "snapshot" => AfterVersion
            /\ pc \in Rolling => snapshot = "full"
            /\ pc \in Undo => mishaps["error"] > 0
            /\ pc = "undoFiles" => phase["args"] = "no"
            /\ pc = "drop" => prepared \/ AfterVersion

LEMMA CertifiedOther ==
  ASSUME Certified, Onward, UNCHANGED source, paper'["bootstrap"] = paper["bootstrap"],
         \/ UNCHANGED driver
         \/ task' \notin {"acquire", "bootstrap", "prepare", "resumePatch", "finalizer"}
  PROVE  Certified'
  BY DEF Certified, Onward, Bootstrapped, MarkerHolds, Preparing, Whole, AllPatched

LEMMA AcquireCertified ==
  ASSUME Typed, Quiet, Certified, Acquire
  PROVE  Certified'
  <1>0. Onward /\ UNCHANGED <<tree, prepared>> /\ paper \in [Papers -> {"none", "old", "new"}] /\ "bootstrap" \in Papers
    BY AcquireFrame, Receipts DEF Acquire, Papers
  <1> USE <1>0 DEF Certified, Quiet, Onward, Bootstrapped, MarkerHolds, Preparing, Whole, AllPatched, At, Goto, Begin, Ended, Idle
  <1>1. CASE StartAcquire
    BY <1>1 DEF StartAcquire, AcquirePlan
  <1>2. CASE SyncCheckout
    BY <1>2 DEF SyncCheckout
  <1>3. CASE FinalizeDownloads
    BY <1>3 DEF FinalizeDownloads
  <1>4. CASE VerifyCheckout
    BY <1>4 DEF VerifyCheckout
  <1>5. CASE WriteMarker
    BY <1>5 DEF WriteMarker
  <1>6. CASE AcquireFails
    BY <1>6 DEF AcquireFails
  <1>7. CASE DiscardCheckout
    BY <1>7 DEF DiscardCheckout
  <1>8. CASE StartBootstrap
    BY <1>8 DEF StartBootstrap, BootstrapPlan
  <1>9. CASE RunHooks
    BY <1>9 DEF RunHooks
  <1>10. CASE HooksFail
    BY <1>10 DEF HooksFail, PopenGap, Abandon
  <1>11. CASE PublishBootstrap
    BY <1>11, PublishOnward DEF PublishBootstrap
  <1>12. CASE StrayHooks
    BY <1>12 DEF StrayHooks
  <1> QED BY <1>1, <1>2, <1>3, <1>4, <1>5, <1>6, <1>7, <1>8, <1>9, <1>10, <1>11, <1>12 DEF Acquire

LEMMA BeforeIs ==
  /\ DOMAIN Before = {"extract", "deps", "prune", "patches", "transform", "overlay", "version", "snapshot",
                      "resources", "icon", "args", "strings", "publish"}
  /\ Before["extract"] = {} /\ Before["deps"] = {} /\ Before["prune"] = {"deps"}
  /\ Before["patches"] = {"deps", "prune"} /\ Before["transform"] = {"deps", "prune"}
  /\ Before["overlay"] = {"deps", "prune", "transform"}
  /\ Before["version"] = {"deps", "prune", "transform", "overlay"}
  /\ Before["resources"] = {"deps", "prune", "transform", "overlay", "version"}
  /\ Before["snapshot"] = {"deps", "prune", "transform", "overlay", "version"}
  /\ Before["icon"] = {"deps", "prune", "transform", "overlay", "version", "resources"}
  /\ Before["args"] = Phases \ {"args"}
  /\ Before["strings"] = Phases /\ Before["publish"] = Phases
  BY DEF Before

LEMMA NextPhase ==
  ASSUME NEW p \in Phases
  PROVE  /\ p \in DOMAIN Before /\ Before[p] \subseteq Phases \ {p}
         /\ \A n \in DOMAIN Before :
              <<p, n>> \in {<<"deps", "prune">>, <<"prune", "patches">>, <<"transform", "overlay">>,
                            <<"overlay", "version">>, <<"version", "resources">>,
                            <<"resources", "icon">>, <<"icon", "args">>, <<"args", "strings">>} =>
                /\ Before[n] \subseteq Before[p] \cup {p}
                /\ n \in {"prune", "patches"} => p \in {"deps", "prune"}
                /\ p \in {"deps", "prune"} => n \in {"prune", "patches"}
  BY BeforeIs DEF Phases

LEMMA StepsOfPhases ==
  ASSUME Phase
  PROVE  \/ ExtractArchives \/ ApplyPatch \/ GenerateStrings
         \/ /\ UNCHANGED <<applied, half>> /\ (strings' = strings \/ strings' = "baseline")
            /\ \E p \in Phases, n \in DOMAIN Before :
                 /\ <<p, n>> \in {<<"deps", "prune">>, <<"prune", "patches">>, <<"transform", "overlay">>,
                               <<"overlay", "version">>, <<"version", "resources">>,
                               <<"resources", "icon">>, <<"icon", "args">>, <<"args", "strings">>}
                 /\ Preparing /\ pc = p
                 /\ \/ phase' = [phase EXCEPT ![p] = "some"] /\ UNCHANGED driver
                    \/ phase' = [phase EXCEPT ![p] = "yes"] /\ Goto(n)
  <1> USE BeforeIs DEF Phases
  <1>1. CASE MergeDependencies
    <2>1. CASE phase["deps"] = "no"
      BY <1>1, <2>1 DEF MergeDependencies, WorkOn, Work
    <2>2. CASE phase["deps"] # "no"
      BY <1>1, <2>2 DEF MergeDependencies, WorkOn, Work
    <2> QED BY <2>1, <2>2
  <1>2. CASE Prune
    <2>1. CASE phase["prune"] = "no"
      BY <1>2, <2>1 DEF Prune, WorkOn, Work
    <2>2. CASE phase["prune"] # "no"
      BY <1>2, <2>2 DEF Prune, WorkOn, Work
    <2> QED BY <2>1, <2>2
  <1>3. CASE Transform
    <2>1. CASE phase["transform"] = "no"
      BY <1>3, <2>1 DEF Transform, WorkOn, Work
    <2>2. CASE phase["transform"] # "no"
      BY <1>3, <2>2 DEF Transform, WorkOn, Work
    <2> QED BY <2>1, <2>2
  <1>4. CASE CopyResources
    <2>1. CASE phase["resources"] = "no"
      BY <1>4, <2>1 DEF CopyResources, WorkOn, Work
    <2>2. CASE phase["resources"] # "no"
      BY <1>4, <2>2 DEF CopyResources, WorkOn, Work
    <2> QED BY <2>1, <2>2
  <1>5. CASE WriteArgs
    <2>1. CASE phase["args"] = "no"
      BY <1>5, <2>1 DEF WriteArgs, WorkOn, Work
    <2>2. CASE phase["args"] # "no"
      BY <1>5, <2>2 DEF WriteArgs, WorkOn, Work
    <2> QED BY <2>1, <2>2
  <1>6. CASE ApplyOverlay
    <2>1. CASE phase["overlay"] = "no"
      BY <1>6, <2>1 DEF ApplyOverlay, Work
    <2>2. CASE phase["overlay"] # "no"
      BY <1>6, <2>2 DEF ApplyOverlay, Work
    <2> QED BY <2>1, <2>2
  <1>7. CASE AppendVersion
    BY <1>7 DEF AppendVersion
  <1>8. CASE InstallIcon
    BY <1>8 DEF InstallIcon
  <1> QED BY <1>1, <1>2, <1>3, <1>4, <1>5, <1>6, <1>7, <1>8 DEF Phase

LEMMA PhaseCertified ==
  ASSUME Typed, Certified, Phase, UNCHANGED <<downloads, finalized>>
  PROVE  Certified'
  <1>0. /\ Preparing /\ UNCHANGED <<task, papers, children, mishaps, prepared, downloads>>
        /\ phase \in [Phases -> {"no", "some", "yes"}]
    BY PhaseFrame DEF Typed, BuildTypeOK, SourceTypeOK
  <1> USE <1>0, BeforeIs DEF Certified, Bootstrapped, MarkerHolds, Preparing, Whole, AllPatched, Goto
  <1>1. CASE ExtractArchives
    BY <1>1 DEF ExtractArchives, At
  <1>2. CASE ApplyPatch
    BY <1>2 DEF ApplyPatch
  <1>3. CASE GenerateStrings
    BY <1>3 DEF GenerateStrings
  <1>4. CASE /\ UNCHANGED <<applied, half>>
             /\ \E p \in Phases, n \in DOMAIN Before :
                  /\ <<p, n>> \in {<<"deps", "prune">>, <<"prune", "patches">>, <<"transform", "overlay">>,
                                   <<"overlay", "version">>, <<"version", "resources">>,
                                   <<"resources", "icon">>, <<"icon", "args">>, <<"args", "strings">>}
                  /\ Preparing /\ pc = p
                  /\ \/ phase' = [phase EXCEPT ![p] = "some"] /\ UNCHANGED driver
                     \/ phase' = [phase EXCEPT ![p] = "yes"] /\ Goto(n)
    <2>1. PICK p \in Phases, n \in DOMAIN Before :
                  /\ <<p, n>> \in {<<"deps", "prune">>, <<"prune", "patches">>, <<"transform", "overlay">>,
                                   <<"overlay", "version">>, <<"version", "resources">>,
                                   <<"resources", "icon">>, <<"icon", "args">>, <<"args", "strings">>}
                  /\ pc = p
                  /\ \/ phase' = [phase EXCEPT ![p] = "some"] /\ UNCHANGED driver
                     \/ phase' = [phase EXCEPT ![p] = "yes"] /\ Goto(n)
      BY <1>4
    <2>2. /\ ~ prepared /\ Whole(Before[p]) /\ p \in DOMAIN Before
          /\ p \in {"deps", "prune"} \/ AllPatched
      BY <2>1, NextPhase DEF Phases
    <2>3. \A q \in Before[p] : phase'[q] = "yes"
      BY <2>1, <2>2, NextPhase
    <2>4. CASE UNCHANGED driver
      <3>1. p \notin {"done", "publish", "undoArgs", "undoFiles"}
        BY DEF Phases
      <3> HIDE BeforeIs
      <3> QED BY <1>4, <2>1, <2>2, <2>3, <2>4, <3>1
    <2>5. CASE phase' = [phase EXCEPT ![p] = "yes"] /\ Goto(n)
      <3>1. \A q \in Before[n] : phase'[q] = "yes"
        BY <2>1, <2>3, <2>5, NextPhase
      <3>2. n \in {"prune", "patches"} \/ AllPatched
        BY <2>1, <2>2, NextPhase
      <3>3. n \notin {"done", "publish", "undoArgs", "undoFiles"}
        BY <2>1
      <3> HIDE BeforeIs
      <3> QED BY <1>4, <2>2, <2>5, <3>1, <3>2, <3>3
    <2> QED BY <2>1, <2>4, <2>5
  <1> QED BY <1>1, <1>2, <1>3, <1>4, StepsOfPhases

LEMMA PlanTree ==
  ASSUME Typed
  PROVE  /\ \A n : AfterPatches(n) => Whole({"deps", "prune"})
         /\ AfterVersion <=> /\ \A p \in Phases \ {"resources", "icon", "args"} : phase[p] = "yes"
                             /\ \A p \in {"resources", "icon", "args"} : phase[p] = "no"
                             /\ AllPatched /\ strings = "baseline"
  <1>1. phase \in [Phases -> {"no", "some", "yes"}]
    BY DEF Typed, BuildTypeOK, SourceTypeOK
  <1> QED BY <1>1 DEF AfterPatches, AfterVersion, TreeIs, Whole, AllPatched, Phases

LEMMA UndoFilesCases ==
  ASSUME UndoFiles
  PROVE  /\ At("finalizer", "undoFiles") /\ UNCHANGED <<applied, half, prepared, snapshot, papers, children, mishaps>>
         /\ \/ /\ phase["resources"] # "no" /\ phase' = [phase EXCEPT !["resources"] = Less(@)]
               /\ UNCHANGED <<driver, strings>>
            \/ /\ phase["icon"] # "no" /\ phase' = [phase EXCEPT !["icon"] = "no"]
               /\ UNCHANGED <<driver, strings>>
            \/ /\ phase["resources"] = "no" /\ phase["icon"] = "no"
               /\ strings' = "baseline" /\ Goto("drop") /\ UNCHANGED phase
  <1>1. CASE phase["resources"] # "no"
    BY <1>1 DEF UndoFiles
  <1>2. CASE phase["resources"] = "no" /\ phase["icon"] # "no"
    BY <1>2 DEF UndoFiles
  <1>3. CASE phase["resources"] = "no" /\ phase["icon"] = "no"
    BY <1>3 DEF UndoFiles
  <1> QED BY <1>1, <1>2, <1>3

LEMMA PrepareCertified ==
  ASSUME Typed, Certified, Prepare
  PROVE  Certified'
  <1>0. UNCHANGED downloads /\ phase \in [Phases -> {"no", "some", "yes"}] /\ Patches = 3
    BY DEF Prepare, Typed, BuildTypeOK, SourceTypeOK, Patches
  <1> USE <1>0, BeforeIs DEF Certified, Bootstrapped, MarkerHolds, Preparing, Whole, AllPatched, Undo, Goto, At, Begin, Ended, Idle
  <1>1. CASE StartPrepare /\ UNCHANGED <<tree, prepared>>
    BY <1>1 DEF StartPrepare, PreparePlan
  <1>2. CASE StartResumePatch /\ UNCHANGED <<tree, prepared>>
    BY <1>2, PlanTree DEF StartResumePatch, ResumePatchPlan
  <1>3. CASE StartFinalizer /\ UNCHANGED <<tree, prepared>>
    BY <1>3, PlanTree DEF StartFinalizer, FinalizerPlan, Phases
  <1>4. CASE Phase /\ UNCHANGED finalized
    BY <1>4, PhaseCertified
  <1>5. CASE PublishPreparation /\ UNCHANGED finalized
    BY <1>5 DEF PublishPreparation, Preparing
  <1>6. CASE PrepareFails /\ UNCHANGED finalized
    BY <1>6 DEF PrepareFails
  <1>7. CASE PatchOutlives /\ UNCHANGED finalized
    BY <1>7 DEF PatchOutlives, Preparing
  <1>8. CASE TakeSnapshot /\ UNCHANGED finalized
    BY <1>8 DEF TakeSnapshot
  <1>9. CASE SnapshotFails /\ UNCHANGED finalized
    BY <1>9 DEF SnapshotFails
  <1>10. CASE FinalizerFails /\ UNCHANGED finalized
    BY <1>10 DEF FinalizerFails
  <1>11. CASE UndoPrepared /\ UNCHANGED finalized
    BY <1>11 DEF UndoPrepared
  <1>12. CASE UndoArgs /\ UNCHANGED finalized
    BY <1>12 DEF UndoArgs
  <1>13. CASE UndoFiles /\ UNCHANGED finalized
    BY <1>13, UndoFilesCases
  <1>14. CASE UndoFinalizerFails /\ UNCHANGED finalized
    BY <1>14 DEF UndoFinalizerFails
  <1>15. CASE DropSnapshot /\ UNCHANGED finalized
    BY <1>15 DEF DropSnapshot
  <1> QED BY <1>1, <1>2, <1>3, <1>4, <1>5, <1>6, <1>7, <1>8, <1>9, <1>10, <1>11, <1>12, <1>13, <1>14, <1>15 DEF Prepare

LEMMA SourceTasks ==
  ASSUME Typed, Quiet, Adopting \/ Compat \/ Build \/ Stage \/ Recover \/ Refresh \/ Merge
  PROVE  /\ Onward /\ UNCHANGED source /\ paper'["bootstrap"] = paper["bootstrap"]
         /\ \/ UNCHANGED driver
            \/ /\ task' \notin {"acquire", "bootstrap", "prepare", "resumePatch", "finalizer"}
               /\ task \notin {"acquire", "bootstrap", "prepare", "resumePatch", "finalizer"}
  <1>0. "bootstrap" \in Papers /\ "bootstrap" \notin Compats
    BY DEF Papers, Compats
  <1>1. CASE Adopting
    BY <1>0, <1>1, AdoptionFrame DEF Adopting
  <1>2. CASE Compat
    BY <1>0, <1>2, CompatSteps, CompatStepFrame, CompatsAre DEF Compat
  <1>3. CASE Build
    BY <1>0, <1>3, BuildFrame DEF Build
  <1>4. CASE Stage
    BY <1>0, <1>4, StageFrame DEF Stage
  <1>5. CASE Recover
    BY <1>0, <1>5, RecoverFrame DEF Recover
  <1>6. CASE Refresh
    BY <1>0, <1>6, RefreshFrame DEF Refresh
  <1>7. CASE Merge
    BY <1>0, <1>7, MergeFrame DEF Merge
  <1> QED BY <1>1, <1>2, <1>3, <1>4, <1>5, <1>6, <1>7

LEMMA CertifiedInit == Init => Certified
  <1> SUFFICES ASSUME Init PROVE Certified
    OBVIOUS
  <1>1. CASE Nothing
    BY <1>1 DEF Nothing, EmptyDisk, Papered, Papers, Init, Certified, Preparing
  <1>2. CASE Recorded \/ Aliased
    BY <1>2 DEF Recorded, Aliased, PreparedDisk, Papered, Papers, Init, Certified, Preparing,
                Bootstrapped, MarkerHolds, Whole, AllPatched
  <1> QED BY <1>1, <1>2 DEF Init

LEMMA CertifiedNext == Typed /\ Quiet /\ Certified /\ [Next]_vars => Certified'
  <1> SUFFICES ASSUME Typed, Quiet, Certified, [Next]_vars PROVE Certified'
    OBVIOUS
  <1>1. CASE Source
    BY <1>1, AcquireCertified, PrepareCertified DEF Source
  <1>2. CASE Adopting \/ Compat \/ Build \/ Stage \/ Recover \/ Refresh \/ Merge
    BY <1>2, SourceTasks, CertifiedOther
  <1>3. CASE Other
    <2>0. UNCHANGED source /\ "bootstrap" \in Papers /\ Onward /\ task' \in {task, "none"}
      BY <1>3, OtherFrame DEF Other, Papers
    <2>1. CASE paper'["bootstrap"] = paper["bootstrap"]
      BY <1>3, <2>0, <2>1, OtherFrame, CertifiedOther
    <2>2. CASE paper'["bootstrap"] # paper["bootstrap"]
      <3>1. pc = "bootstrap" /\ task = "bootstrap"
        BY <1>3, <2>0, <2>2, OtherFrame DEF Quiet
      <3>2. task' = "none"
        <4>1. CASE Dies
          BY <4>1 DEF Dies, Ended
        <4>2. CASE ~ Dies
          BY <1>3, <2>2, <4>2 DEF Other, StrayEnds, Clear
        <4> QED BY <4>1, <4>2
      <3> QED BY <2>0, <3>1, <3>2 DEF Certified, Onward, Bootstrapped, MarkerHolds, Preparing, Whole, AllPatched
    <2> QED BY <2>1, <2>2
  <1>4. CASE UNCHANGED vars
    BY <1>4, Stutters, CertifiedOther DEF vars, Onward
  <1> QED BY <1>1, <1>2, <1>3, <1>4 DEF Next

(* The three receipts of the preparation stand for all that was done before  *)
(* them at every instant, for any number of mishaps; only hooks that have    *)
(* outlived their driver can change what they stand for.                     *)
THEOREM PreparationIsWhole == Spec => []PreparedIsWhole
  <1> DEFINE I == Typed /\ Quiet /\ Certified
  <1>1. Init => I
    BY TypedInit, QuietInit, CertifiedInit
  <1>2. I /\ [Next]_vars => I'
    BY TypedNext, QuietNext, CertifiedNext
  <1>3. I => PreparedIsWhole
    BY DEF PreparedIsWhole, Certified, Whole, AllPatched, Typed, BuildTypeOK, SourceTypeOK
  <1> QED
    BY <1>1, <1>2, <1>3, PTL DEF Spec

-----------------------------------------------------------------------------
(* The finalizer. *)

LEMMA RetainedOther ==
  ASSUME Typed, Certified, Retained, Onward, UNCHANGED <<tree, prepared, snapshot, finalized>>,
         acquired => acquired', paper["bootstrap"] # "none" => paper'["bootstrap"] # "none",
         \/ UNCHANGED driver
         \/ task \notin {"prepare", "resumePatch", "finalizer"} /\ task' \notin {"prepare", "resumePatch", "finalizer"}
         \/ task' = "none" /\ (pc = "done" \/ ~ Undisturbed')
  PROVE  Retained'
  <1>1. AfterVersion' <=> AfterVersion
    BY DEF AfterVersion, TreeIs
  <1>2. Undisturbed' => Undisturbed /\ (mishaps["error"] > 0 => mishaps'["error"] > 0)
    BY StillUndisturbed
  <1>3. mishaps["error"] > 0 => mishaps'["error"] > 0
    BY DEF Onward, Grown, Kinds
  <1> QED BY <1>1, <1>2, <1>3 DEF Retained, Bootstrapped, MarkerHolds, AllPatched, Whole

-----------------------------------------------------------------------------
Finalized ==
  /\ \A p \in Phases \ {"resources", "icon", "args"} : phase[p] = "yes"
  /\ \A p \in {"resources", "icon", "args"} : phase[p] = "no"
  /\ AllPatched /\ strings = "baseline"

LEMMA AfterVersionIs == Typed => (AfterVersion <=> Finalized)
  BY PlanTree DEF Finalized

LEMMA AfterVersionIsNext == (Typed => (AfterVersion <=> Finalized))'
  BY AfterVersionIs, PTL

LEMMA AcquireRetained ==
  ASSUME Typed, Quiet, Certified, Retained, Acquire
  PROVE  Retained'
  <1>0. /\ Onward /\ UNCHANGED <<tree, prepared, snapshot, finalized>>
        /\ {task, task'} \subseteq {"none", "acquire", "bootstrap"} \/ UNCHANGED driver
    BY AcquireFrame DEF Acquire
  <1>1. acquired => acquired'
    BY DEF Acquire, StartAcquire, SyncCheckout, FinalizeDownloads, VerifyCheckout, WriteMarker, AcquireFails,
           DiscardCheckout, StartBootstrap, RunHooks, HooksFail, PublishBootstrap, StrayHooks
  <1>2. paper["bootstrap"] # "none" => paper'["bootstrap"] # "none"
    <2>1. CASE PublishBootstrap
      BY <2>1, PublishOnward DEF PublishBootstrap, Papers
    <2>2. CASE ~ PublishBootstrap
      BY <2>2 DEF Acquire, StartAcquire, SyncCheckout, FinalizeDownloads, VerifyCheckout, WriteMarker, AcquireFails,
             DiscardCheckout, StartBootstrap, RunHooks, HooksFail, StrayHooks
    <2> QED BY <2>1, <2>2
  <1> QED BY <1>0, <1>1, <1>2, RetainedOther

(* The phases a finalizer goes through change only what it has copied. *)
LEMMA FinalizerPhase ==
  ASSUME Typed, Certified, Retained, Phase, task = "finalizer"
  PROVE  /\ snapshot = "full" /\ pc \in Rolling \ Undo
         /\ pc' \in Rolling \ Undo
         /\ UNCHANGED <<applied, half>>
         /\ \A p \in Phases \ {"resources", "icon", "args"} : phase'[p] = phase[p]
  <1>0. /\ pc \in {"snapshot", "drop", "done"} \cup Rolling
        /\ pc \in Rolling => snapshot = "full"
        /\ phase \in [Phases -> {"no", "some", "yes"}]
    BY DEF Retained, Typed, BuildTypeOK, SourceTypeOK
  <1> USE <1>0 DEF Rolling, Undo, Goto
  <1>1. CASE ExtractArchives
    BY <1>1 DEF ExtractArchives, At
  <1>2. CASE MergeDependencies \/ Prune \/ Transform
    BY <1>2 DEF MergeDependencies, Prune, Transform, WorkOn, Work
  <1>3. CASE ApplyPatch
    BY <1>3 DEF ApplyPatch
  <1>4. CASE ApplyOverlay
    BY <1>4 DEF ApplyOverlay, Work
  <1>5. CASE AppendVersion
    BY <1>5 DEF AppendVersion
  <1>6. CASE CopyResources
    BY <1>6 DEF CopyResources, WorkOn, Work
  <1>7. CASE InstallIcon
    BY <1>7 DEF InstallIcon
  <1>8. CASE WriteArgs
    BY <1>8 DEF WriteArgs, WorkOn, Work
  <1>9. CASE GenerateStrings
    BY <1>9 DEF GenerateStrings
  <1> QED BY <1>1, <1>2, <1>3, <1>4, <1>5, <1>6, <1>7, <1>8, <1>9 DEF Phase

LEMMA PrepareRetained ==
  ASSUME Typed, Typed', Quiet, Certified, Certified', Retained, Prepare
  PROVE  Retained'
  <1>0. /\ UNCHANGED <<downloads, paper>> /\ phase \in [Phases -> {"no", "some", "yes"}]
        /\ Patches = 3 /\ Onward
    BY PrepareFrame DEF Prepare, Typed, BuildTypeOK, SourceTypeOK, Patches
  <1>1. /\ AfterVersion <=> Finalized
        /\ AfterVersion' <=> Finalized'
    BY AfterVersionIs, AfterVersionIsNext
  <1>2. UNCHANGED tree => (AfterVersion' <=> AfterVersion) /\ AllPatched' = AllPatched /\ (Bootstrapped' <=> Bootstrapped)
                          /\ (Whole(Phases \ {"resources", "icon", "args"})' <=> Whole(Phases \ {"resources", "icon", "args"}))
    BY <1>0 DEF AfterVersion, TreeIs, AllPatched, Bootstrapped, MarkerHolds, Whole
  <1>3. Bootstrapped' <=> Bootstrapped
    BY <1>0 DEF Bootstrapped, MarkerHolds
  <1>4. Undisturbed' => Undisturbed /\ (mishaps["error"] > 0 => mishaps'["error"] > 0)
    BY <1>0, StillUndisturbed
  <1> USE DEF Goto, At, Begin, Ended, Idle
  <1>5. CASE StartPrepare /\ UNCHANGED <<tree, prepared>>
    <2>1. ~ finalized /\ UNCHANGED finalized
      BY <1>5 DEF StartPrepare, PreparePlan, Retained, Whole, Phases
    <2> QED BY <2>1, <1>5 DEF StartPrepare, Retained
  <1>6. CASE StartResumePatch /\ UNCHANGED <<tree, prepared>>
    <2>1. ~ finalized /\ UNCHANGED finalized
      BY <1>6 DEF StartResumePatch, ResumePatchPlan, AfterPatches, TreeIs, Retained, Whole, Phases
    <2> QED BY <2>1, <1>6 DEF StartResumePatch, Retained
  <1>7. CASE StartFinalizer /\ UNCHANGED <<tree, prepared>>
    <2>1. AfterVersion /\ AfterVersion' /\ Bootstrapped' /\ AllPatched' /\ Whole(Phases \ {"resources", "icon", "args"})'
      BY <1>1, <1>2, <1>3, <1>7 DEF StartFinalizer, FinalizerPlan, Finalized, Whole, AllPatched
    <2> QED BY <2>1, <1>7 DEF StartFinalizer, Retained, Rolling, Undo
  <1>8. CASE Phase /\ UNCHANGED finalized
    <2>0. Preparing /\ UNCHANGED <<task, mishaps, prepared, snapshot>>
      BY <1>8, PhaseFrame
    <2>1. CASE ~ finalized
      BY <1>8, <2>0, <2>1 DEF Retained
    <2>2. CASE finalized
      <3>1. task = "finalizer"
        BY <2>0, <2>2 DEF Preparing, Retained
      <3>2. /\ snapshot = "full" /\ pc \in Rolling \ Undo
            /\ pc' \in Rolling \ Undo
            /\ UNCHANGED <<applied, half>>
            /\ \A p \in Phases \ {"resources", "icon", "args"} : phase'[p] = phase[p]
        BY <1>8, <3>1, FinalizerPhase
      <3>3. AllPatched' /\ Whole(Phases \ {"resources", "icon", "args"})'
        BY <2>2, <3>2 DEF Retained, AllPatched, Whole
      <3> QED BY <1>3, <1>8, <2>0, <2>2, <3>1, <3>2, <3>3 DEF Retained, Rolling, Undo
    <2> QED BY <2>1, <2>2
  <1>9. CASE PublishPreparation /\ UNCHANGED finalized
    BY <1>2, <1>3, <1>4, <1>9 DEF PublishPreparation, Preparing, Retained, Rolling, Undo
  <1>10. CASE PrepareFails /\ UNCHANGED finalized
    BY <1>10 DEF PrepareFails, Retained
  <1>11. CASE PatchOutlives /\ UNCHANGED finalized
    BY <1>11 DEF PatchOutlives, Retained, AllPatched
  <1>12. CASE TakeSnapshot /\ UNCHANGED finalized
    BY <1>2, <1>3, <1>4, <1>12 DEF TakeSnapshot, Retained, Rolling, Undo
  <1>13. CASE SnapshotFails /\ UNCHANGED finalized
    BY <1>2, <1>3, <1>4, <1>13 DEF SnapshotFails, Retained, Rolling, Undo
  <1>14. CASE FinalizerFails /\ UNCHANGED finalized
    BY <1>2, <1>3, <1>4, <1>14, FirstError DEF FinalizerFails, Retained, Rolling, Undo
  <1>15. CASE UndoPrepared /\ UNCHANGED finalized
    BY <1>2, <1>3, <1>4, <1>15 DEF UndoPrepared, Retained, Rolling, Undo
  <1>16. CASE UndoArgs /\ UNCHANGED finalized
    <2>1. task = "finalizer" /\ finalized /\ snapshot = "full"
      BY <1>16 DEF UndoArgs, Retained, Rolling, Undo
    <2>2. AllPatched' /\ Whole(Phases \ {"resources", "icon", "args"})'
      BY <1>0, <1>16, <2>1 DEF UndoArgs, Retained, AllPatched, Whole
    <2>3. phase[ "args"] # "yes" => phase'["args"] = "no"
      BY <1>0, <1>16 DEF UndoArgs, Less, Phases
    <2>4. pc' \in {"undoArgs", "undoFiles"} /\ (pc' = "undoFiles" => phase'["args"] = "no") /\ UNCHANGED <<task, mishaps, snapshot>>
      BY <1>16, <2>3 DEF UndoArgs
    <2> QED BY <1>3, <1>4, <1>16, <2>1, <2>2, <2>4 DEF UndoArgs, Retained, Rolling, Undo
  <1>17. CASE UndoFiles /\ UNCHANGED finalized
    <2>1. task = "finalizer" /\ finalized /\ snapshot = "full" /\ phase["args"] = "no"
      BY <1>17 DEF UndoFiles, Retained, Rolling, Undo
    <2>2. AllPatched' /\ Whole(Phases \ {"resources", "icon", "args"})' /\ phase'["args"] = "no"
      BY <1>0, <1>17, <2>1, UndoFilesCases DEF Retained, AllPatched, Whole, Phases
    <2>3. CASE UNCHANGED driver
      BY <1>3, <1>4, <1>17, <2>1, <2>2, <2>3, UndoFilesCases DEF Retained, Rolling, Undo
    <2>4. CASE phase["resources"] = "no" /\ phase["icon"] = "no" /\ strings' = "baseline" /\ Goto("drop") /\ UNCHANGED phase
      <3>1. AfterVersion'
        BY <1>1, <2>1, <2>2, <2>4 DEF Finalized, Whole
      <3> QED BY <1>3, <1>4, <1>17, <2>1, <2>2, <2>4, <3>1, UndoFilesCases DEF Retained, Rolling, Undo
    <2> QED BY <1>17, <2>3, <2>4, UndoFilesCases
  <1>18. CASE UndoFinalizerFails /\ UNCHANGED finalized
    <2>1. ~ Undisturbed'
      BY <1>18, SecondError DEF UndoFinalizerFails, Retained, Undo
    <2> QED BY <1>2, <1>3, <1>18, <2>1 DEF UndoFinalizerFails, Retained, Rolling, Undo
  <1>19. CASE DropSnapshot /\ UNCHANGED finalized
    BY <1>2, <1>3, <1>4, <1>19 DEF DropSnapshot, Retained, Rolling, Undo
  <1> QED BY <1>5, <1>6, <1>7, <1>8, <1>9, <1>10, <1>11, <1>12, <1>13, <1>14, <1>15, <1>16, <1>17, <1>18, <1>19 DEF Prepare

LEMMA RetainedInit == Init => Retained
  <1> SUFFICES ASSUME Init PROVE Retained
    OBVIOUS
  <1>1. ~ finalized /\ task = "none"
    BY DEF Init, Nothing, Recorded, Aliased, EmptyDisk, PreparedDisk
  <1> QED BY <1>1 DEF Retained

LEMMA RetainedNext ==
  Typed /\ Typed' /\ Quiet /\ Certified /\ Certified' /\ Retained /\ [Next]_vars => Retained'
  <1> SUFFICES ASSUME Typed, Typed', Quiet, Certified, Certified', Retained, [Next]_vars PROVE Retained'
    OBVIOUS
  <1>1. CASE Source
    BY <1>1, AcquireRetained, PrepareRetained DEF Source
  <1>2. CASE Adopting \/ Compat \/ Build \/ Stage \/ Recover \/ Refresh \/ Merge
    <2>1. UNCHANGED <<tree, prepared, snapshot, finalized, acquired>> /\ Onward
      BY <1>2, SourceTasks
    <2> QED BY <1>2, <2>1, SourceTasks, RetainedOther
  <1>3. CASE Other
    <2>0. UNCHANGED <<tree, prepared, snapshot, finalized, acquired>> /\ "bootstrap" \in Papers /\ Onward
      BY <1>3, OtherFrame DEF Other, Papers
    <2>1. paper["bootstrap"] # "none" => paper'["bootstrap"] # "none"
      BY <1>3, <2>0, OtherFrame
    <2>2. CASE Dies
      <3>1. ~ Undisturbed' /\ task' = "none"
        BY <2>2, GapOrKill DEF Dies, Ended
      <3> QED BY <2>0, <2>1, <3>1, RetainedOther
    <2>3. CASE Finish
      <3>1. task' = "none" /\ (Preparing => pc = "done")
        BY <2>3, BeforeIs DEF Finish, Ended, Certified, Undo
      <3>2. task \in {"prepare", "resumePatch", "finalizer"} => pc = "done"
        BY <3>1 DEF Preparing
      <3> QED BY <2>0, <2>1, <3>1, <3>2, RetainedOther
    <2>4. CASE UNCHANGED driver
      BY <2>0, <2>1, <2>4, RetainedOther
    <2> QED BY <1>3, <2>2, <2>3, <2>4 DEF Other, StrayEnds, Clear
  <1>4. CASE UNCHANGED vars
    BY <1>4, Stutters, RetainedOther DEF vars, Onward
  <1> QED BY <1>1, <1>2, <1>3, <1>4 DEF Next

(* A finalizer never loses the tree it began with, whatever meets it and      *)
(* whatever its own rollback meets; and after one exception its receipt is    *)
(* there, or exactly the tree that the next finalizer accepts.                *)
THEOREM FinalizerKeepsTheTree == Spec => []FinalizerLosesNothing
  <1> DEFINE I == Typed /\ Quiet /\ Certified /\ Retained
  <1>1. Init => I
    BY TypedInit, QuietInit, CertifiedInit, RetainedInit
  <1>2. I /\ [Next]_vars => I'
    BY TypedNext, QuietNext, CertifiedNext, RetainedNext
  <1>3. I => FinalizerLosesNothing
    BY DEF FinalizerLosesNothing, Retained, Certified, Idle, FinalizerPlan, CacheHolds, Bootstrapped, MarkerHolds
  <1> QED
    BY <1>1, <1>2, <1>3, PTL DEF Spec

-----------------------------------------------------------------------------
(* The adoption of the home alias. *)

Adopters == {"transition", "home", "root"}

Adopted ==
  /\ ~ alias => /\ config = "pre" /\ vite = "gone" /\ ~ litter /\ marks = {}
                /\ paper["home"] = "none" /\ task \notin {"transition", "home", "root"}
  /\ config = "original" => vite = "there" /\ marks \subseteq {"transition"}
  /\ alias /\ "transition" \notin marks => config = "original" /\ vite = "there" /\ marks = {}
  /\ config = "post" => \/ vite = "there" /\ "rollback" \in marks
                        \/ vite = "gone" /\ "consumed" \in marks
  /\ paper["home"] # "none" => TransitionHolds
  /\ "consumed" \in marks => paper["home"] # "none"
  /\ "root" \in marks => RootHolds /\ "consumed" \in marks
  /\ task = "transition" =>
       /\ paper["home"] = "none"
       /\ pc \in {"journal", "part", "replace", "directory", "complete", "mark", "backPart", "back", "done"}
       /\ pc # "journal" /\ pc # "done" => "transition" \in marks
       /\ pc \in {"journal", "part", "replace"} => vite = "there" /\ config # "pre"
       /\ pc \in {"directory", "complete", "mark", "backPart", "back"} => config = "pre"
       /\ pc = "complete" => vite = "gone"
       /\ pc \in {"mark", "backPart", "back"} => vite = "there"
       /\ pc \in {"backPart", "back"} => "rollback" \in marks
  /\ task = "home" => /\ pc \in {"home", "done"}
                      /\ pc = "home" => TreeHolds /\ paper["home"] = "none"
  /\ task = "root" =>
       /\ paper["home"] # "none"
       /\ pc \in {"consume", "apply", "patch", "recheck", "publish", "verify", "backPart", "back", "done"}
       /\ pc \notin {"verify", "done"} => "root" \notin marks
       /\ pc \notin {"consume", "done"} => "consumed" \in marks
       /\ pc \in {"consume", "apply", "recheck", "publish"} => ~ litter
       /\ pc \in {"recheck", "publish"} => config = "post"
  /\ litter => \/ mishaps["kill"] > 0
               \/ task = "transition" /\ pc \in {"replace", "back"}
               \/ task = "root" /\ pc \in {"patch", "back"}

LEMMA AdoptedOther ==
  ASSUME Adopted, Onward, UNCHANGED <<alias, config, vite, marks>>, paper'["home"] = paper["home"],
         litter' => litter,
         \/ UNCHANGED driver
         \/ task \notin Adopters /\ task' \notin Adopters
         \/ task' = "none" /\ (pc = "done" \/ mishaps'["kill"] > 0)
  PROVE  Adopted'
  <1>1. mishaps["kill"] > 0 => mishaps'["kill"] > 0
    BY DEF Onward, Grown, Kinds
  <1>2. /\ RootHolds /\ ~ litter' => RootHolds'
        /\ TransitionHolds' <=> TransitionHolds
        /\ TreeHolds => TreeHolds'
        /\ RootHolds => RootHolds'
    BY DEF RootHolds, HomeHolds, TransitionHolds, TreeHolds, ProjectionHolds
  <1> QED BY <1>1, <1>2 DEF Adopted, Adopters

LEMMA AdoptedStep ==
  ASSUME Typed, Quiet, Adopted, Adoption
  PROVE  Adopted'
  <1>0. /\ Onward /\ UNCHANGED alias /\ "home" \in Papers
        /\ mishaps["kill"] > 0 => mishaps'["kill"] > 0
        /\ config \in {"original", "pre", "post"} /\ vite \in {"there", "quarantined", "gone"}
    BY AdoptionFrame DEF Adoption, Papers, Onward, Grown, Kinds, Typed, BuildTypeOK, AdoptionTypeOK
  <1> USE <1>0 DEF Adopted, Quiet, RootHolds, HomeHolds, TransitionHolds, TreeHolds, ProjectionHolds, At, Goto, Begin, Ended, Idle
  <1>1. CASE StartTransition
    BY <1>1 DEF StartTransition, TransitionPlan
  <1>2. CASE StartAdopt
    BY <1>2 DEF StartAdopt, AdoptPlan
  <1>3. CASE Adopt
    BY <1>3, PublishOnward DEF Adopt
  <1>4. CASE StartRoot
    BY <1>4 DEF StartRoot, RootPlan
  <1>5. CASE Transition
    <2>0. task = "transition" /\ UNCHANGED paper
      BY <1>5, TransitionFrame DEF Transition
    <2> USE <2>0
    <2>1. CASE Link("journal", "transition", "part", "done")
      BY <2>1 DEF Link
    <2>2. CASE WritePart("part", "replace")
      BY <2>2 DEF WritePart
    <2>3. CASE Fails("part")
      BY <2>3 DEF Fails
    <2>4. CASE Replace("replace", "pre", "directory")
      BY <2>4 DEF Replace
    <2>5. CASE ReplaceFails("replace", "pre")
      BY <2>5 DEF ReplaceFails
    <2>6. CASE RemoveDirectory
      BY <2>6 DEF RemoveDirectory
    <2>7. CASE TransitionDone
      BY <2>7 DEF TransitionDone
    <2>8. CASE TransitionFails
      BY <2>8 DEF TransitionFails
    <2>9. CASE MarkRollback
      BY <2>9 DEF MarkRollback, Link
    <2>10. CASE WritePart("backPart", "back")
      BY <2>10 DEF WritePart
    <2>11. CASE Fails("backPart")
      BY <2>11 DEF Fails
    <2>12. CASE Replace("back", "post", "done")
      BY <2>12 DEF Replace
    <2>13. CASE ReplaceFails("back", "post")
      BY <2>13 DEF ReplaceFails
    <2> QED BY <1>5, <2>1, <2>2, <2>3, <2>4, <2>5, <2>6, <2>7, <2>8, <2>9, <2>10, <2>11, <2>12, <2>13 DEF Transition
  <1>6. CASE Root
    <2>0. task = "root" /\ UNCHANGED paper
      BY <1>6, RootFrame DEF Root
    <2> USE <2>0
    <2>1. CASE Consume
      BY <2>1 DEF Consume, Link
    <2>2. CASE WritePart("apply", "patch")
      BY <2>2 DEF WritePart
    <2>3. CASE Fails("apply")
      BY <2>3 DEF Fails
    <2>4. CASE Replace("patch", "post", "recheck")
      BY <2>4 DEF Replace
    <2>5. CASE ReplaceFails("patch", "post")
      BY <2>5 DEF ReplaceFails
    <2>6. CASE Recheck
      BY <2>6 DEF Recheck
    <2>7. CASE PublishRoot
      BY <2>7 DEF PublishRoot
    <2>8. CASE VerifyRoot
      BY <2>8 DEF VerifyRoot
    <2>9. CASE RootFails
      BY <2>9 DEF RootFails
    <2>10. CASE WritePart("backPart", "back")
      BY <2>10 DEF WritePart
    <2>11. CASE Fails("backPart")
      BY <2>11 DEF Fails
    <2>12. CASE Replace("back", "pre", "done")
      BY <2>12 DEF Replace
    <2>13. CASE ReplaceFails("back", "pre")
      BY <2>13 DEF ReplaceFails
    <2> QED BY <1>6, <2>1, <2>2, <2>3, <2>4, <2>5, <2>6, <2>7, <2>8, <2>9, <2>10, <2>11, <2>12, <2>13 DEF Root
  <1> QED BY <1>1, <1>2, <1>3, <1>4, <1>5, <1>6 DEF Adoption

LEMMA AdoptedInit == Init => Adopted
  <1> SUFFICES ASSUME Init PROVE Adopted
    OBVIOUS
  <1>1. paper["home"] = "none"
    BY DEF Init, Nothing, Recorded, Aliased, Papered, Papers, Compats
  <1> QED BY <1>1 DEF Init, Unadopted, Adopted

(* The other stages leave the adoption to itself. *)
LEMMA AdoptionApart ==
  ASSUME Typed, Quiet, Source \/ Compat \/ Build \/ Stage \/ Recover \/ Refresh \/ Merge
  PROVE  /\ Onward /\ UNCHANGED <<alias, adoption>> /\ paper'["home"] = paper["home"]
         /\ UNCHANGED driver \/ (task \notin Adopters /\ task' \notin Adopters)
  <1>0. "home" \in Papers /\ "home" \notin Compats /\ Compats \cap Adopters = {} /\ "none" \notin Adopters
    BY DEF Papers, Compats, Adopters
  <1>1. CASE Source
    BY <1>0, <1>1, AcquireFrame, PrepareFrame DEF Source, Adopters
  <1>2. CASE Compat
    BY <1>0, <1>2, CompatSteps, CompatStepFrame DEF Compat
  <1>3. CASE Build
    BY <1>0, <1>3, BuildFrame DEF Build, Adopters
  <1>4. CASE Stage
    BY <1>0, <1>4, StageFrame DEF Stage, Adopters
  <1>5. CASE Recover
    BY <1>0, <1>5, RecoverFrame DEF Recover, Adopters
  <1>6. CASE Refresh
    BY <1>0, <1>6, RefreshFrame DEF Refresh, Adopters
  <1>7. CASE Merge
    BY <1>0, <1>7, MergeFrame DEF Merge, Adopters
  <1> QED BY <1>1, <1>2, <1>3, <1>4, <1>5, <1>6, <1>7

LEMMA AdoptedNext == Typed /\ Quiet /\ Adopted /\ [Next]_vars => Adopted'
  <1> SUFFICES ASSUME Typed, Quiet, Adopted, [Next]_vars PROVE Adopted'
    OBVIOUS
  <1>1. CASE Source \/ Compat \/ Build \/ Stage \/ Recover \/ Refresh \/ Merge
    BY <1>1, AdoptionApart, AdoptedOther
  <1>2. CASE Adopting
    BY <1>2, AdoptedStep DEF Adopting
  <1>3. CASE Other
    <2>0. /\ "home" \in Papers /\ Onward /\ UNCHANGED <<alias, config, vite, marks>>
          /\ mishaps["kill"] > 0 => mishaps'["kill"] > 0
          /\ litter' => litter
      <3>1. Onward /\ "home" \in Papers
        BY <1>3, OtherFrame DEF Papers
      <3>2. UNCHANGED <<alias, config, vite, marks>>
        BY <1>3 DEF Other, Clear
      <3>3. litter' => litter
        BY <1>3 DEF Other, Clear
      <3> QED BY <3>1, <3>2, <3>3 DEF Onward, Grown, Kinds
    <2>1. CASE Dies
      <3>1. mishaps'["kill"] > 0 /\ task' = "none"
        BY <2>1, SpendOnward DEF Dies, Ended, Kinds
      <3>2. CASE paper'["home"] = paper["home"]
        BY <2>0, <3>1, <3>2, AdoptedOther
      <3>3. CASE paper'["home"] # paper["home"]
        <4>1. pc = "home" /\ task = "home" /\ paper'["home"] = "new"
          BY <1>3, <2>0, <3>3, OtherFrame DEF Quiet
        <4> QED BY <2>0, <3>1, <4>1 DEF Adopted, RootHolds, HomeHolds, TransitionHolds, TreeHolds, ProjectionHolds
      <3> QED BY <3>2, <3>3
    <2>2. CASE Finish /\ UNCHANGED papers
      <3>1. task' = "none" /\ (task \in Adopters => pc = "done")
        BY <2>2 DEF Finish, Ended, Adopted, Adopters
      <3>2. task' \notin Adopters
        BY <3>1 DEF Adopters
      <3> QED BY <2>0, <2>2, <3>1, <3>2, AdoptedOther
    <2>3. CASE UNCHANGED <<driver, paper>>
      BY <2>0, <2>3, AdoptedOther
    <2> QED BY <1>3, <2>1, <2>2, <2>3 DEF Other, StrayEnds, Clear
  <1>4. CASE UNCHANGED vars
    BY <1>4, Stutters, AdoptedOther DEF vars, Onward
  <1> QED BY <1>1, <1>2, <1>3, <1>4 DEF Next

(* The receipt of the home alias and that of its patch stay true of the       *)
(* checkout, through every rollback, kill and repetition of the adoption.     *)
THEOREM AdoptionStaysTrue == Spec => []AdoptionIsTrue
  <1> DEFINE I == Typed /\ Quiet /\ Adopted
  <1>1. Init => I
    BY TypedInit, QuietInit, AdoptedInit
  <1>2. I /\ [Next]_vars => I'
    BY TypedNext, QuietNext, AdoptedNext
  <1>3. I => AdoptionIsTrue
    BY DEF AdoptionIsTrue, Adopted, RootHolds, HomeHolds, TransitionHolds, Typed, BuildTypeOK, AdoptionTypeOK
  <1> QED
    BY <1>1, <1>2, <1>3, PTL DEF Spec

(* Wherever an adoption was cut short the transition can go on, and one       *)
(* exception leaves nothing behind that the contracts refuse.                 *)
THEOREM AdoptionNeverStuck == Spec => []AdoptionGoesOn
  <1> DEFINE I == Typed /\ Quiet /\ Adopted
  <1>1. Init => I
    BY TypedInit, QuietInit, AdoptedInit
  <1>2. I /\ [Next]_vars => I'
    BY TypedNext, QuietNext, AdoptedNext
  <1>3. I => AdoptionGoesOn
    BY DEF AdoptionGoesOn, Adopted, Idle, TransitionPlan, Undisturbed, Typed, BuildTypeOK, AdoptionTypeOK
  <1> QED
    BY <1>1, <1>2, <1>3, PTL DEF Spec

-----------------------------------------------------------------------------
(* Before the preparation is whole nothing that comes after it exists. *)

Early == ~ prepared \/ Preparing
Pristine ==
  Early =>
    /\ ~ alias
    /\ \A p \in Papers \ {"bootstrap"} : paper[p] = "none"
    /\ \A s \in Slices : app[s] = "none"
    /\ part = "none" /\ staged = "none" /\ resumed = {}
    /\ archive = "none" /\ archived = {}
    /\ container = "none" /\ ~ held /\ ~ spoiled /\ failed = {}
    /\ roots = {} /\ dmg = "none"
    /\ task \in {"none", "acquire", "bootstrap", "prepare", "resumePatch", "finalizer"}
    /\ strays \subseteq {"bootstrap"}

LEMMA EarlyBefore ==
  ASSUME Typed, Quiet, [Next]_vars, Early'
  PROVE  Early
  <1>1. CASE Acquire /\ Source
    BY <1>1, AcquireFrame DEF Acquire, Early, Preparing
  <1>2. CASE Prepare
    BY <1>2, PhaseFrame DEF Prepare, Early, StartPrepare, PreparePlan, StartResumePatch, ResumePatchPlan, StartFinalizer,
           FinalizerPlan, PublishPreparation, PrepareFails, PatchOutlives, TakeSnapshot, SnapshotFails, FinalizerFails,
           UndoPrepared, UndoArgs, UndoFiles, UndoFinalizerFails, DropSnapshot, At, Preparing
  <1>3. CASE Adopting \/ Compat \/ Build \/ Stage \/ Recover \/ Refresh \/ Merge
    BY <1>3, SourceTasks DEF Early, Preparing
  <1>4. CASE Other
    BY <1>4, OtherFrame DEF Other, Early, Preparing
  <1>5. CASE UNCHANGED vars
    BY <1>5 DEF vars, Early, Preparing
  <1> QED BY <1>1, <1>2, <1>3, <1>4, <1>5 DEF Next, Source

(* The finalizer and the two other ways to prepare are all before that. *)
LEMMA PrepareEarly ==
  ASSUME Typed, Typed', Quiet, Certified, Prepare
  PROVE  Early /\ Early'
  <1>1. Preparing \/ Preparing'
    BY PhaseFrame DEF Prepare, StartPrepare, StartResumePatch, StartFinalizer, Begin, PublishPreparation, PrepareFails,
           PatchOutlives, TakeSnapshot, SnapshotFails, FinalizerFails, UndoPrepared, UndoArgs, UndoFiles,
           UndoFinalizerFails, DropSnapshot, At, Preparing
  <1>2. CASE PatchOutlives
    BY <1>2 DEF PatchOutlives, Certified, AllPatched, Early
  <1>3. CASE StartPrepare \/ StartResumePatch \/ StartFinalizer
    BY <1>3 DEF StartPrepare, StartResumePatch, StartFinalizer, Begin, PreparePlan, ResumePatchPlan, FinalizerPlan, Early, Preparing
  <1>4. CASE ~ PatchOutlives /\ ~ (StartPrepare \/ StartResumePatch \/ StartFinalizer)
    BY <1>4, PhaseFrame DEF Prepare, PublishPreparation, PrepareFails,
           TakeSnapshot, SnapshotFails, FinalizerFails, UndoPrepared, UndoArgs, UndoFiles,
           UndoFinalizerFails, DropSnapshot, At, Goto, Preparing, Early
  <1> QED BY <1>2, <1>3, <1>4

LEMMA SourceChildren ==
  ASSUME Typed, Quiet, Acquire \/ Prepare
  PROVE  strays' \subseteq strays \cup {"bootstrap"}
  <1>1. CASE Acquire
    BY <1>1 DEF Acquire, StartAcquire, SyncCheckout, FinalizeDownloads, VerifyCheckout, WriteMarker, AcquireFails,
             DiscardCheckout, StartBootstrap, RunHooks, HooksFail, PublishBootstrap, StrayHooks, PopenGap, Abandon, At
  <1>2. CASE Prepare
    BY <1>2, PhaseFrame DEF Prepare, StartPrepare, StartResumePatch, StartFinalizer, PublishPreparation, PrepareFails,
             PatchOutlives, TakeSnapshot, SnapshotFails, FinalizerFails, UndoPrepared, UndoArgs, UndoFiles,
             UndoFinalizerFails, DropSnapshot
  <1> QED BY <1>1, <1>2

LEMMA NothingAfterEarly ==
  ASSUME Typed, Quiet, Certified, Adopted, Pristine, Early,
         Adopting \/ Compat \/ Build \/ Stage \/ Recover \/ Refresh \/ Merge
  PROVE  FALSE
  <1>0. /\ ~ alias /\ marks = {} /\ config = "pre"
        /\ \A p \in Papers \ {"bootstrap"} : paper[p] = "none"
        /\ \A x \in Slices : app[x] = "none"
        /\ task \in {"none", "acquire", "bootstrap", "prepare", "resumePatch", "finalizer"}
        /\ strays \subseteq {"bootstrap"}
        /\ Idle => ~ prepared
    BY DEF Pristine, Adopted, Early, Preparing, Idle
  <1>1. ~ RootHolds
    BY <1>0 DEF RootHolds
  <1>2. ~ Adopting
    BY <1>0 DEF Adopting, Adoption, StartTransition, TransitionPlan, Transition, StartAdopt, AdoptPlan, Adopt,
             StartRoot, RootPlan, TransitionHolds, Root, At
  <1>3. ~ Compat
    <2>1. SUFFICES ASSUME NEW c \in Compats, StartCompat(c, ArmArgs(c = "linkedit")) \/ CompatStep(c) PROVE FALSE
      BY CompatSteps
    <2>2. ~ StartCompat(c, ArmArgs(c = "linkedit"))
      BY <1>0 DEF StartCompat, CompatPlan, ArmArgs
    <2>3. task # c /\ c \notin strays
      BY <1>0, CompatsAre
    <2> QED BY <2>1, <2>2, <2>3 DEF CompatStep, PatchFile, PatchFails, PublishCompat, ConfirmCompat, RetractNothing,
             RetractRefused, Retract, Restore, RestoreFails, StrayPatch, At
  <1>4. ~ Build
    BY <1>0, <1>1 DEF Build, StartBuild, BuildPlan, AllCompats, ArmArgs, BuildGraph, Ninja, BuildFails, ExecuteResumedSlice,
             StartFinalize, ResumedPlan, NoWork, PublishSlice, ResumeBuild, StrayNinja, At, Begin, Slices
  <1>5. ~ Stage
    BY <1>0 DEF Stage, StartStage, StagePlan, ArmArgs, Begin, Ditto, SwapIn, StageFails, PublishStage, ReclaimOut,
             ReclaimBreaks, PublishReclaim, At
  <1>6. ~ Recover
    BY <1>0 DEF Recover, StartRecovery, RecoveryPlan, AllCompats, ArmArgs, Begin, MoveArtifact, RestoreArmOut,
             PublishArchive, RecoveryFails, Normalize, UndoArmOut, MoveBack, Reconcile, UndoFails, At
  <1>7. ~ Refresh
    BY <1>0, <1>1 DEF Refresh, StartFresh, FreshPlan, MakeContainer, MoveLegacy, MakeOut, FreshGraph, SealContainer,
             PublishFresh, ConfirmFresh, FreshFails, UndoReceipt, UndoOut, UndoLegacy, UndoContainer, AttemptFails,
             StrayGraph, At
  <1>8. ~ Merge
    BY <1>0 DEF Merge, Sign, SliceHolds, AllCompats, ArmArgs, StartMerge, MergePlan, Begin, Universalize, SignMerged, PublishMerged,
             MergeFails, At
  <1> QED BY <1>2, <1>3, <1>4, <1>5, <1>6, <1>7, <1>8

LEMMA PristineInit == Init => Pristine
  <1> SUFFICES ASSUME Init PROVE Pristine
    OBVIOUS
  <1>1. CASE Nothing
    BY <1>1 DEF Nothing, Init, Pristine, Papered
  <1>2. CASE Recorded \/ Aliased
    BY <1>2 DEF Recorded, Aliased, PreparedDisk, Init, Pristine, Early, Preparing
  <1> QED BY <1>1, <1>2 DEF Init

LEMMA PristineNext ==
  Typed /\ Quiet /\ Certified /\ Adopted /\ Pristine /\ [Next]_vars => Pristine'
  <1> SUFFICES ASSUME Typed, Quiet, Certified, Adopted, Pristine, [Next]_vars, Early' PROVE Pristine'
    BY DEF Pristine
  <1>0. Early
    BY EarlyBefore
  <1>1. CASE Source
    <2>1. /\ \A p \in Papers \ {"bootstrap"} : paper'[p] = paper[p]
          /\ task' \in {"none", "acquire", "bootstrap", "prepare", "resumePatch", "finalizer"}
      BY <1>0, <1>1, AcquireFrame, PrepareFrame DEF Source, Pristine
    <2>2. strays' \subseteq {"bootstrap"}
      BY <1>0, <1>1, SourceChildren DEF Source, Pristine
    <2> QED BY <1>0, <1>1, <2>1, <2>2 DEF Source, Pristine
  <1>2. CASE Adopting \/ Compat \/ Build \/ Stage \/ Recover \/ Refresh \/ Merge
    BY <1>0, <1>2, NothingAfterEarly
  <1>3. CASE Other
    <2>1. \A p \in Papers \ {"bootstrap"} : paper'[p] = paper[p]
      <3>1. {"none", "acquire", "prepare", "resumePatch", "finalizer"} \cap Papers = {}
        BY DEF Papers, Compats, Slices
      <3>2. pc \in Papers => pc = "bootstrap"
        BY <1>0, <3>1 DEF Pristine, Quiet
      <3> QED BY <1>3, <3>2, OtherFrame
    <2>2. task' \in {"none", task}
      BY <1>3, OtherFrame
    <2>3. strays' \subseteq {"bootstrap"}
      <3>1. CASE Dies
        <4>1. task \in {"acquire", "prepare", "resumePatch", "finalizer"} => ~ ChildAt
          BY BeforeIs DEF Certified, ChildAt, Preparing, Undo
        <4> QED BY <1>0, <3>1, <4>1 DEF Dies, Abandon, Pristine, Idle
      <3>2. CASE ~ Dies
        BY <1>0, <1>3, <3>2 DEF Other, StrayEnds, Clear, Pristine
      <3> QED BY <3>1, <3>2
    <2>4. /\ app' = app /\ part' = part /\ roots' = roots
      BY <1>0, <1>3 DEF Other, Clear, Pristine
    <2>5. UNCHANGED <<alias, staged, resumed, archive, archived, container, held, spoiled, failed, dmg>>
      BY <1>3 DEF Other, Clear
    <2> QED BY <1>0, <2>1, <2>2, <2>3, <2>4, <2>5 DEF Pristine
  <1>4. CASE UNCHANGED vars
    BY <1>0, <1>4 DEF vars, Pristine
  <1> QED BY <1>1, <1>2, <1>3, <1>4 DEF Next

-----------------------------------------------------------------------------
(* The apps, the evidence of the misaligned build, and where they are. *)

(* What a certified x64 slice of an aliased checkout is bound to. *)
Bound == alias => FreshBound /\ RootHolds

(* The app of a slice is where its receipt says, whatever stage has it. *)
Slots ==
  /\ ~ strayed /\ paper["arm"] = "new" =>
       app["arm"] = "sound" \/ (paper["stage"] = "new" /\ staged = "sound")
  /\ ~ strayed /\ paper["x64"] = "new" => app["x64"] = "sound"
  /\ ~ strayed /\ paper["stage"] = "new" => staged = "sound"
  /\ paper["reclaim"] = "new" => out["arm"] = "none" /\ paper["stage"] = "new"
  /\ \A s \in Slices : paper[s] = "new" /\ alias => s \in resumed
  /\ paper["x64"] = "new" => Bound /\ task # "fresh"
  /\ task \in Slices =>
       /\ pc \in {"graph", "ninja", "probe", "done"} \cup {task}
       /\ pc \in {"graph", "ninja"} => ~ alias
       /\ pc \in {"graph", "ninja", "probe"} => paper[task] = "none"
       /\ pc = task => /\ ~ strayed => app[task] = "sound"
                       /\ alias => task \in resumed
                       /\ task = "x64" => Bound
  /\ task = "stage" =>
       /\ pc \in {"copy", "swap", "stage", "reclaimOut", "reclaim", "done"}
       /\ pc \in {"copy", "swap", "stage"} => paper["arm"] = "new" /\ paper["stage"] = "none"
       /\ pc \in {"copy", "swap"} => staged = "none"
       /\ pc \in {"copy", "swap", "stage", "reclaimOut", "reclaim"} => paper["reclaim"] = "none"
       /\ pc = "stage" => (~ strayed => staged = "sound")
       /\ pc \in {"reclaimOut", "reclaim"} => paper["stage"] = "new"
       /\ pc = "reclaim" => out["arm"] = "none"

(* The misaligned build is not there; or every piece of it is in its place   *)
(* or in the archive, and no other stage can run; or all of it is archived.  *)
Gone(a) == CASE a = "stagedApp" -> staged = "none"
             [] a = "x64App" -> app["x64"] = "none"
             [] OTHER -> paper[a] = "none"

NoLegacy == (\A a \in Artifacts : ~ Home(a)) /\ task # "recovery"
Legacy ==
  /\ ~ alias
  /\ \A a \in Artifacts : IF a \in archived THEN Gone(a) ELSE Home(a)
  /\ archived # {} => archive # "none"
  /\ out["arm"] # "none" => archived = Artifacts
  /\ app["arm"] = "none" /\ paper["arm"] = "none" /\ resumed = {} /\ roots = {} /\ part = "none" /\ dmg = "none"
  /\ task \notin Slices \cup {"stage", "fresh", "merge"}
  /\ strays \cap Slices = {}
Evidence ==
  \/ NoLegacy /\ archived = {} /\ archive = "none"
  \/ Legacy
  \/ NoLegacy /\ archived = Artifacts /\ archive # "none"

(* How far the recovery and its undoing are. *)
Moved ==
  /\ task = "recovery" =>
       /\ pc \in {"move", "archive", "published", "undo", "back", "done"}
       /\ pc \in {"move", "archive", "back"} => archive = "part"
       /\ pc = "move" => out["arm"] \in {"none", "empty"}
       /\ pc \in {"archive", "published"} => archived = Artifacts
       /\ pc = "published" => archive = "final"
       /\ pc \in {"archive", "published"} => out["arm"] = "tree"
       /\ pc = "undo" => archive # "none"
       /\ pc = "back" => out["arm"] = "none"
       /\ pc \in {"undo", "back"} /\ Undisturbed => mishaps["error"] > 0 /\ out["arm"] # "littered"
  /\ Undisturbed /\ (task = "recovery" => pc = "done") =>
       \/ archive = "final" /\ archived = Artifacts
       \/ archive = "none" /\ archived = {} /\ (staged = "legacy" => out["arm"] = "none")

FreshUndo == {"undoReceipt", "undoOut", "undoLegacy", "undoContainer"}
(* Where the legacy x64 tree is, and how far the fresh graph and its four    *)
(* attempts to undo it are.                                                  *)
Held ==
  /\ alias => (out["x64"] = "legacy") # held
  /\ ~ alias => ~ held
  /\ held => container # "none"
  /\ spoiled => strayed
  /\ paper["fresh"] # "old"
  /\ task = "fresh" =>
       /\ alias
       /\ pc \in {"container", "move", "out", "graph", "seal", "fresh", "confirm", "done"} \cup FreshUndo
       /\ pc \in {"container", "move"} => ~ held /\ "out" \notin known
       /\ pc \in {"out", "graph", "seal", "fresh", "confirm"} => held
       /\ pc = "move" => container # "none"
       /\ pc = "container" => container = "none"
       /\ pc \in {"container", "move", "out", "graph", "seal", "fresh"} => paper["fresh"] = "none"
       /\ pc \in {"graph", "seal", "fresh", "confirm", "undoReceipt", "undoOut"} =>
            ("out" \in known => held)
       /\ pc = "confirm" => paper["fresh"] = "new" /\ container = "legacy"
       /\ pc = "fresh" => container = "legacy" /\ out["x64"] = "tree"

(* What they leave if one exception at most has met them. *)
FreshSteady ==
  Undisturbed /\ alias =>
    /\ task # "fresh" \/ pc = "done" =>
         IF paper["fresh"] = "new" THEN FreshBound /\ GraphHolds
         ELSE out["x64"] = "legacy" /\ container \in {"none", "failed"}
    /\ task = "fresh" =>
         /\ pc \in FreshUndo => mishaps["error"] > 0
         /\ pc # "done" => container = "none" \/ "container" \in known
         /\ pc \in {"graph", "seal", "fresh", "confirm"} => "out" \in known
         /\ pc \in {"undoReceipt", "undoOut"} /\ held => out["x64"] = "none" \/ "out" \in known
         /\ pc = "out" => out["x64"] = "none"
         /\ pc \in {"undoOut", "undoLegacy", "undoContainer"} => paper["fresh"] = "none"
         /\ pc = "undoLegacy" /\ held => out["x64"] = "none"
         /\ pc = "undoContainer" => ~ held

(* What the merge finds, and what no later step takes back. *)
Sealed == /\ \A p \in {"x64", "stage", "reclaim", "signing"} : paper[p] = "new"
          /\ Patched("linkedit")
          /\ Bound

Published ==
  /\ task = "merge" =>
       /\ pc \in {"universalize", "sign", "publish", "committed", "done"}
       /\ roots # {}
       /\ Sealed
       /\ pc \in {"sign", "publish"} => (~ strayed => merged = "sound")
       /\ pc = "publish" => merged # "legacy"
  /\ dmg # "none" => /\ roots # {} /\ Sealed /\ task \notin Compats
                     /\ dmg # "legacy" /\ (~ strayed => dmg = "sound")

LEMMA HomeIs ==
  /\ Home("stagedApp") <=> staged = "legacy"
  /\ Home("x64App") <=> app["x64"] = "legacy"
  /\ \A a \in {"stage", "reclaim", "x64", "signing"} : Home(a) <=> paper[a] = "old"
  /\ Gone("stagedApp") <=> staged = "none"
  /\ Gone("x64App") <=> app["x64"] = "none"
  /\ \A a \in {"stage", "reclaim", "x64", "signing"} : Gone(a) <=> paper[a] = "none"
  /\ \A a \in Artifacts : Gone(a) => ~ Home(a)
  BY DEF Home, Gone, Misaligned, Artifacts

LEMMA HomeIsNext ==
 (/\ Home("stagedApp") <=> staged = "legacy"
  /\ Home("x64App") <=> app["x64"] = "legacy"
  /\ \A a \in {"stage", "reclaim", "x64", "signing"} : Home(a) <=> paper[a] = "old"
  /\ Gone("stagedApp") <=> staged = "none"
  /\ Gone("x64App") <=> app["x64"] = "none"
  /\ \A a \in {"stage", "reclaim", "x64", "signing"} : Gone(a) <=> paper[a] = "none"
  /\ \A a \in Artifacts : Gone(a) => ~ Home(a))'
  BY HomeIs, PTL

LEMMA EarlyIsEasy == Typed /\ Pristine /\ Early => Slots /\ Evidence /\ Moved /\ Held /\ FreshSteady /\ Published
  <1> SUFFICES ASSUME Typed, Pristine, Early PROVE Slots /\ Evidence /\ Moved /\ Held /\ FreshSteady /\ Published
    OBVIOUS
  <1>0. /\ \A p \in {"arm", "x64", "stage", "reclaim", "signing", "fresh"} : paper[p] = "none"
        /\ \A x \in {"arm", "x64"} : app[x] = "none"
    BY DEF Pristine, Papers, Slices
  <1>1. \A a \in Artifacts : ~ Home(a)
    BY <1>0, HomeIs DEF Artifacts, Pristine
  <1> USE <1>0 DEF Pristine
  <1>2. Slots
    BY DEF Slots, Slices
  <1>3. Evidence
    BY <1>1 DEF Evidence, NoLegacy
  <1>4. Moved
    BY DEF Moved
  <1>5. Held
    BY DEF Held
  <1>6. FreshSteady
    BY DEF FreshSteady
  <1>7. Published
    BY DEF Published
  <1> QED BY <1>2, <1>3, <1>4, <1>5, <1>6, <1>7

LEMMA EarlyIsEasyNext == (Typed /\ Pristine /\ Early => Slots /\ Evidence /\ Moved /\ Held /\ FreshSteady /\ Published)'
  BY EarlyIsEasy, PTL

LEMMA StraysNext ==
  ASSUME Typed, Quiet, [Next]_vars
  PROVE  strays' \subseteq strays \cup {task, "bootstrap"}
  <1>1. CASE Source
    BY <1>1, SourceChildren DEF Source
  <1>2. CASE Adopting
    BY <1>2 DEF Adopting, Adoption, StartTransition, Transition, StartAdopt, Adopt, StartRoot, Root, Link, WritePart,
           Fails, Replace, ReplaceFails, RemoveDirectory, TransitionDone, TransitionFails, MarkRollback, Consume, Recheck,
           PublishRoot, VerifyRoot, RootFails
  <1>3. CASE Compat
    <2>1. PICK c \in Compats : StartCompat(c, ArmArgs(c = "linkedit")) \/ CompatStep(c)
      BY <1>3, CompatSteps
    <2> QED BY <2>1 DEF StartCompat, CompatStep, PatchFile, PatchFails, PublishCompat, ConfirmCompat, RetractNothing,
             RetractRefused, Retract, Restore, RestoreFails, StrayPatch, PopenGap, Abandon
  <1>4. CASE Build
    BY <1>4 DEF Build, StartBuild, BuildGraph, Ninja, BuildFails, ExecuteResumedSlice,
             StartFinalize, NoWork, PublishSlice, ResumeBuild, StrayNinja, PopenGap, Abandon
  <1>5. CASE Stage
    BY <1>5 DEF Stage, StartStage, Ditto, SwapIn, StageFails, PublishStage, ReclaimOut,
             ReclaimBreaks, PublishReclaim
  <1>6. CASE Recover
    BY <1>6 DEF Recover, StartRecovery, MoveArtifact, RestoreArmOut,
             PublishArchive, RecoveryFails, Normalize, UndoArmOut, MoveBack, Reconcile, UndoFails
  <1>7. CASE Refresh
    BY <1>7 DEF Refresh, StartFresh, MakeContainer, MoveLegacy, MakeOut, FreshGraph, SealContainer,
             PublishFresh, ConfirmFresh, FreshFails, UndoReceipt, UndoOut, UndoLegacy, UndoContainer, AttemptFails,
             StrayGraph, Abandon
  <1>8. CASE Merge
    BY <1>8 DEF Merge, Sign, StartMerge, Universalize, SignMerged, PublishMerged, MergeFails
  <1>9. CASE Other
    BY <1>9 DEF Other, Dies, Abandon, StrayEnds, Clear
  <1>10. CASE UNCHANGED vars
    BY <1>10 DEF vars
  <1> QED BY <1>1, <1>2, <1>3, <1>4, <1>5, <1>6, <1>7, <1>8, <1>9, <1>10 DEF Next

(* Nothing but the recovery makes evidence. *)
LEMMA NoNewLegacy ==
  ASSUME Typed, Quiet, [Next]_vars, ~ Recover
  PROVE  /\ staged' = "legacy" => staged = "legacy"
         /\ app'["x64"] = "legacy" => app["x64"] = "legacy"
         /\ \A a \in {"stage", "reclaim", "x64", "signing"} : paper'[a] = "old" => paper[a] = "old"
         /\ \A a \in Artifacts : Home(a)' => Home(a)
  <1>0. /\ paper \in [Papers -> {"none", "old", "new"}] /\ app \in [Slices -> Apps]
        /\ {"stage", "reclaim", "x64", "signing", "arm"} \subseteq Papers
        /\ {"stage", "reclaim", "x64", "signing", "arm"} \cap (Compats \cup {"home", "bootstrap", "fresh"}) = {}
        /\ Slices = {"arm", "x64"}
    BY DEF Typed, BuildTypeOK, DriverTypeOK, Papers, Compats, Slices
  <1>1. staged' = "legacy" => staged = "legacy"
    <2>1. CASE Stage
      BY <2>1 DEF Stage, StartStage, Ditto, SwapIn, StageFails, PublishStage, ReclaimOut,
             ReclaimBreaks, PublishReclaim, AppReport, Misaligned
    <2>2. CASE ~ Stage
      BY <2>2 DEF Next, Source, Adopting, Compat, Build, Refresh, Merge, Other, vars
    <2> QED BY <2>1, <2>2
  <1>2. app'["x64"] = "legacy" => app["x64"] = "legacy"
    <2>1. CASE Stage
      BY <1>0, <2>1 DEF Stage, StartStage, Ditto, SwapIn, StageFails, PublishStage, ReclaimOut,
             ReclaimBreaks, PublishReclaim
    <2>2. CASE Build
      BY <1>0, <2>2 DEF Build, StartBuild, BuildGraph, Ninja, BuildFails, ExecuteResumedSlice,
             StartFinalize, NoWork, PublishSlice, ResumeBuild, StrayNinja
    <2>3. CASE Refresh
      BY <2>3 DEF Refresh, StartFresh, MakeContainer, MoveLegacy, MakeOut, FreshGraph, SealContainer,
             PublishFresh, ConfirmFresh, FreshFails, UndoReceipt, UndoOut, UndoLegacy, UndoContainer, AttemptFails,
             StrayGraph
    <2>4. CASE Other
      BY <1>0, <2>4 DEF Other, Clear
    <2>5. CASE ~ Stage /\ ~ Build /\ ~ Refresh /\ ~ Other
      BY <2>5 DEF Next, Source, Adopting, Compat, Merge, vars
    <2> QED BY <2>1, <2>2, <2>3, <2>4, <2>5
  <1>3. \A a \in {"stage", "reclaim", "x64", "signing"} : paper'[a] = "old" => paper[a] = "old"
    <2>1. CASE Source
      BY <1>0, <2>1, AcquireFrame, PrepareFrame DEF Source
    <2>2. CASE Adopting
      BY <1>0, <2>2, AdoptionFrame DEF Adopting
    <2>3. CASE Compat
      BY <1>0, <2>3, CompatSteps, CompatStepFrame
    <2>4. CASE Refresh
      BY <1>0, <2>4, RefreshFrame
    <2>5. CASE Build
      BY <1>0, <2>5, PublishOnward DEF Build, StartBuild, BuildGraph, Ninja, BuildFails, ExecuteResumedSlice,
             StartFinalize, NoWork, PublishSlice, ResumeBuild, StrayNinja
    <2>6. CASE Stage
      BY <1>0, <2>6, PublishOnward DEF Stage, StartStage, Ditto, SwapIn, StageFails, PublishStage, ReclaimOut,
             ReclaimBreaks, PublishReclaim
    <2>7. CASE Merge
      BY <1>0, <2>7 DEF Merge, Sign, StartMerge, Universalize, SignMerged, PublishMerged, MergeFails
    <2>8. CASE Other
      BY <1>0, <2>8, OtherFrame
    <2>9. CASE UNCHANGED vars
      BY <2>9 DEF vars
    <2> QED BY <2>1, <2>2, <2>3, <2>4, <2>5, <2>6, <2>7, <2>8, <2>9 DEF Next
  <1> QED BY <1>1, <1>2, <1>3, HomeIs, HomeIsNext DEF Artifacts

-----------------------------------------------------------------------------
(* The recovery moves one artifact after the other, and back. *)

LEMMA PutHome ==
  ASSUME Typed, NEW a \in Artifacts
  PROVE  \A v, r : Put(a, v, r) =>
           /\ \A b \in Artifacts \ {a} : (Home(b)' <=> Home(b)) /\ (Gone(b)' <=> Gone(b))
           /\ v = "none" /\ r = "none" => Gone(a)'
           /\ v = "legacy" /\ r = "old" => Home(a)'
           /\ app'["arm"] = app["arm"]
           /\ \A q \in Papers : q \notin {"stage", "reclaim", "x64", "signing"} => paper'[q] = paper[q]
  <1> SUFFICES ASSUME NEW v, NEW r, Put(a, v, r)
               PROVE  /\ \A b \in Artifacts \ {a} : (Home(b)' <=> Home(b)) /\ (Gone(b)' <=> Gone(b))
                      /\ v = "none" /\ r = "none" => Gone(a)'
                      /\ v = "legacy" /\ r = "old" => Home(a)'
                      /\ app'["arm"] = app["arm"]
                      /\ \A q \in Papers : q \notin {"stage", "reclaim", "x64", "signing"} => paper'[q] = paper[q]
    OBVIOUS
  <1>0. /\ paper \in [Papers -> {"none", "old", "new"}] /\ app \in [{"arm", "x64"} -> Apps]
        /\ {"stage", "reclaim", "x64", "signing"} \subseteq Papers
        /\ {"stagedApp", "x64App"} \cap Papers = {}
    BY DEF Typed, BuildTypeOK, DriverTypeOK, Papers, Compats, Slices
  <1>1. CASE a = "stagedApp"
    BY <1>0, <1>1, HomeIs, HomeIsNext DEF Put, Artifacts
  <1>2. CASE a = "x64App"
    BY <1>0, <1>2, HomeIs, HomeIsNext DEF Put, Artifacts
  <1>3. CASE a \in {"stage", "reclaim", "x64", "signing"}
    <2>1. /\ UNCHANGED <<staged, app>> /\ paper' = [paper EXCEPT ![a] = r]
      BY <1>0, <1>3 DEF Put
    <2>2. paper'[a] = r /\ \A q \in Papers : q # a => paper'[q] = paper[q]
      BY <1>0, <1>3, <2>1
    <2>3. \A b \in Artifacts \ {a} : (Home(b)' <=> Home(b)) /\ (Gone(b)' <=> Gone(b))
      BY <1>0, <2>1, <2>2, HomeIs, HomeIsNext DEF Artifacts
    <2>4. (r = "none" => Gone(a)') /\ (r = "old" => Home(a)')
      BY <1>3, <2>2, HomeIsNext
    <2> QED BY <1>3, <2>1, <2>2, <2>3, <2>4
  <1> QED BY <1>1, <1>2, <1>3 DEF Artifacts

LEMMA SameHome ==
  ASSUME UNCHANGED staged, app'["x64"] = app["x64"],
         \A a \in {"stage", "reclaim", "x64", "signing"} : paper'[a] = paper[a]
  PROVE  \A a \in Artifacts : (Home(a)' <=> Home(a)) /\ (Gone(a)' <=> Gone(a))
  BY HomeIs, HomeIsNext DEF Artifacts

LEMMA RecoverIsLegacy ==
  ASSUME Typed, Quiet, Evidence, Recover
  PROVE  /\ Legacy
         /\ StartRecovery => archived = {}
  <1>1. CASE StartRecovery
    <2>1. \A a \in Artifacts : Home(a)
      BY <1>1 DEF StartRecovery, RecoveryPlan
    <2>2. "x64" \in Artifacts
      BY DEF Artifacts
    <2>3. Legacy
      BY <2>1, <2>2 DEF Evidence, NoLegacy
    <2>4. archived \subseteq Artifacts
      BY DEF Typed, BuildTypeOK
    <2> QED BY <2>1, <2>3, <2>4, HomeIs DEF Legacy
  <1>2. CASE ~ StartRecovery
    <2>1. task = "recovery"
      BY <1>2 DEF Recover, MoveArtifact, RestoreArmOut,
             PublishArchive, RecoveryFails, Normalize, UndoArmOut, MoveBack, Reconcile, UndoFails, At
    <2> QED BY <1>2, <2>1 DEF Evidence, NoLegacy
  <1> QED BY <1>1, <1>2

LEMMA RecoverEvidence ==
  ASSUME Typed, Quiet, Evidence, Moved, Recover
  PROVE  Evidence'
  <1>0. /\ Legacy /\ (StartRecovery => archived = {})
        /\ UNCHANGED <<alias, roots, dmg, resumed, part, children>>
        /\ {task, task'} \subseteq {"none", "recovery"} \/ UNCHANGED driver
        /\ archived \subseteq Artifacts
        /\ paper'["arm"] = paper["arm"]
        /\ out \in [Slices -> {"none", "empty", "littered", "tree", "legacy"}]
    <2>1. "arm" \in Papers
      BY DEF Papers, Slices
    <2>2. UNCHANGED <<alias, roots, dmg>>
      BY DEF Recover
    <2>3. UNCHANGED <<resumed, part, children>>
      BY DEF Recover, StartRecovery, MoveArtifact, RestoreArmOut,
             PublishArchive, RecoveryFails, Normalize, UndoArmOut, MoveBack, Reconcile, UndoFails
    <2> QED BY <2>1, <2>2, <2>3, RecoverIsLegacy, RecoverFrame DEF Typed, BuildTypeOK
  <1>1. task' \notin Slices \cup {"stage", "fresh", "merge"} /\ strays' \cap Slices = {}
    BY <1>0 DEF Legacy, Slices
  <1>2. SUFFICES /\ \A a \in Artifacts : IF a \in archived' THEN Gone(a)' ELSE Home(a)'
                 /\ archived' # {} => archive' # "none"
                 /\ out'["arm"] # "none" => archived' = Artifacts
                 /\ app'["arm"] = app["arm"]
    BY <1>0, <1>1 DEF Legacy, Evidence
  <1>3. CASE StartRecovery
    <2>1. UNCHANGED <<archived, out, app, staged, paper>>
      BY <1>3 DEF StartRecovery
    <2> QED BY <1>0, <1>3, <2>1, SameHome DEF StartRecovery, Legacy
  <1>4. CASE MoveArtifact
    <2>1. PICK a \in Artifacts \ archived : Put(a, "none", "none") /\ archived' = archived \cup {a}
      BY <1>4, MoveArtifactChoice
    <2>2. /\ \A b \in Artifacts \ {a} : (Home(b)' <=> Home(b)) /\ (Gone(b)' <=> Gone(b))
          /\ Gone(a)' /\ app'["arm"] = app["arm"]
      BY <2>1, PutHome
    <2>3. archive' # "none" /\ UNCHANGED out
      BY <1>4 DEF MoveArtifact, Moved, At
    <2>4. out["arm"] = "none"
      BY <1>0, <2>1 DEF Legacy
    <2> QED BY <1>0, <2>1, <2>2, <2>3, <2>4 DEF Legacy
  <1>5. CASE MoveBack
    <2>1. PICK a \in archived : Put(a, "legacy", "old") /\ archived' = archived \ {a}
      BY <1>5, MoveBackChoice
    <2>2. /\ \A b \in Artifacts \ {a} : (Home(b)' <=> Home(b)) /\ (Gone(b)' <=> Gone(b))
          /\ Home(a)' /\ app'["arm"] = app["arm"]
      BY <1>0, <2>1, PutHome
    <2>3. UNCHANGED <<archive, out>> /\ out["arm"] = "none"
      BY <1>5 DEF MoveBack, Moved, At
    <2> QED BY <1>0, <2>1, <2>2, <2>3 DEF Legacy
  <1>6. CASE RestoreArmOut
    <2>1. UNCHANGED <<recovery, app, staged, paper>> /\ archived = Artifacts
      BY <1>6 DEF RestoreArmOut
    <2> QED BY <1>0, <2>1, SameHome DEF Legacy
  <1>7. CASE PublishArchive
    <2>1. UNCHANGED <<archived, out, app, staged, paper>> /\ archive' = "final"
      BY <1>7 DEF PublishArchive
    <2> QED BY <1>0, <2>1, SameHome DEF Legacy
  <1>8. CASE RecoveryFails
    <2>1. UNCHANGED <<recovery, app, staged, paper>> /\ (out' = out \/ out["arm"] = "empty")
      BY <1>8 DEF RecoveryFails
    <2> QED BY <1>0, <2>1, SameHome DEF Legacy
  <1>9. CASE Normalize
    <2>1. UNCHANGED <<archived, out, app, staged, paper>> /\ archive' = "part"
      BY <1>9 DEF Normalize
    <2> QED BY <1>0, <2>1, SameHome DEF Legacy
  <1>10. CASE UndoArmOut
    <2>1. UNCHANGED <<recovery, app, staged, paper>> /\ (out' = out \/ out["arm"] # "none")
      BY <1>10, UndoArmOutCases
    <2> QED BY <1>0, <2>1, SameHome DEF Legacy
  <1>11. CASE Reconcile
    <2>1. UNCHANGED <<archived, out, app, staged, paper>> /\ \A a \in Artifacts : Home(a)
      BY <1>11 DEF Reconcile
    <2>2. archived = {}
      BY <1>0, <2>1, HomeIs DEF Legacy
    <2> QED BY <1>0, <2>1, <2>2, SameHome DEF Legacy
  <1>12. CASE UndoFails
    <2>1. UNCHANGED <<recovery, out, app, staged, paper>>
      BY <1>12 DEF UndoFails
    <2> QED BY <1>0, <2>1, SameHome DEF Legacy
  <1> QED BY <1>3, <1>4, <1>5, <1>6, <1>7, <1>8, <1>9, <1>10, <1>11, <1>12 DEF Recover

(* While the evidence is on its way the build of its slices stands still.     *)
LEMMA LegacyHolds ==
  ASSUME Typed, Quiet, Certified, Adopted, Legacy, archived # Artifacts \/ task = "recovery", [Next]_vars, ~ Recover, ~ Prepare
  PROVE  Legacy'
  <1>0. /\ ~ alias /\ archived \subseteq Artifacts
        /\ \A a \in Artifacts : IF a \in archived THEN Gone(a) ELSE Home(a)
        /\ app["arm"] = "none" /\ paper["arm"] = "none" /\ resumed = {} /\ roots = {} /\ part = "none" /\ dmg = "none"
        /\ task \notin Slices \cup {"stage", "fresh", "merge"}
        /\ strays \cap Slices = {}
        /\ Idle => out["arm"] = "none"
        /\ staged \in {"none", "legacy"} /\ app["x64"] \in {"none", "legacy"}
        /\ \A a \in {"stage", "reclaim", "x64", "signing"} : paper[a] \in {"none", "old"}
        /\ Slices = {"arm", "x64"}
        /\ {"arm", "stage", "reclaim", "x64", "signing"} \subseteq Papers
    BY HomeIs DEF Legacy, Typed, BuildTypeOK, Idle, Slices, Artifacts, Papers
  <1>1. ~ RootHolds
    BY <1>0 DEF RootHolds, Adopted
  <1>2. ~ ReclaimHolds /\ \A x \in Slices : ~ SliceHolds(x)
    BY <1>0 DEF ReclaimHolds, AppReport, Misaligned, SliceHolds
  <1>3. strays' \cap Slices = {}
    BY <1>0, StraysNext
  <1>4. SUFFICES /\ UNCHANGED <<alias, recovery, staged, resumed, roots, dmg, part, app>> /\ out'["arm"] = out["arm"]
                 /\ \A a \in {"stage", "reclaim", "x64", "signing", "arm"} : paper'[a] = paper[a]
                 /\ task' \notin Slices \cup {"stage", "fresh", "merge"}
    BY <1>3, SameHome DEF Legacy
  <1>5. CASE Source
    <2>1. Acquire /\ UNCHANGED out
      BY <1>5 DEF Source
    <2> QED BY <1>0, <1>5, <2>1, AcquireFrame DEF Source
  <1>6. CASE Adopting
    <2>2. \A a \in {"stage", "reclaim", "x64", "signing", "arm"} : paper'[a] = paper[a]
      BY <1>0, <1>6, AdoptionFrame DEF Adopting
    <2>3. task' \in {"none", "transition", "home", "root"} \/ UNCHANGED driver
      BY <1>6, AdoptionFrame DEF Adopting
    <2>4. UNCHANGED <<alias, recovery, staged, resumed, roots, dmg, part, app, out>>
      BY <1>6 DEF Adopting, Adoption
    <2> QED BY <1>0, <2>2, <2>3, <2>4
  <1>7. CASE Compat
    <2>1. PICK c \in Compats : StartCompat(c, ArmArgs(c = "linkedit")) \/ CompatStep(c)
      BY <1>7, CompatSteps
    <2>2. \A a \in {"stage", "reclaim", "x64", "signing", "arm"} : paper'[a] = paper[a]
      BY <1>0, <2>1, CompatStepFrame DEF Compats
    <2>3. task' \in {c, "none"} \/ UNCHANGED driver
      BY <2>1, CompatStepFrame
    <2> QED BY <1>0, <1>7, <2>2, <2>3, CompatsAre DEF Compat
  <1>8. CASE Build
    <2>1. PICK s \in Slices :
             \/ StartBuild(s) \/ BuildGraph(s) \/ Ninja(s) \/ BuildFails(s)
             \/ ExecuteResumedSlice(s) \/ ResumeBuild(s) \/ StrayNinja(s)
      BY <1>8 DEF Build
    <2>2. ~ StartBuild(s)
      <3>1. CASE s = "arm"
        BY <1>0, <3>1 DEF StartBuild, BuildPlan, Begin
      <3>2. CASE s = "x64"
        BY <1>2, <3>2 DEF StartBuild, BuildPlan
      <3> QED BY <1>0, <3>1, <3>2
    <2> QED BY <1>0, <1>1, <2>1, <2>2 DEF BuildGraph, Ninja, BuildFails, ExecuteResumedSlice,
             StartFinalize, ResumedPlan, NoWork, PublishSlice, ResumeBuild, StrayNinja, At
  <1>9. CASE Stage
    BY <1>0, <1>2, <1>9 DEF Stage, StartStage, StagePlan, Ditto, SwapIn, StageFails, PublishStage, ReclaimOut,
             ReclaimBreaks, PublishReclaim, At
  <1>10. CASE Refresh
    <2>1. StrayGraph
      BY <1>0, <1>1, <1>10 DEF Refresh, StartFresh, FreshPlan, MakeContainer, MoveLegacy, MakeOut, FreshGraph, SealContainer,
             PublishFresh, ConfirmFresh, FreshFails, UndoReceipt, UndoOut, UndoLegacy, UndoContainer, AttemptFails, At
    <2> QED BY <1>0, <1>10, <2>1 DEF Refresh, StrayGraph
  <1>11. CASE Merge
    BY <1>0, <1>2, <1>11 DEF Merge, Sign, StartMerge, MergePlan, Universalize, SignMerged, PublishMerged, MergeFails, At
  <1>12. CASE Other
    <2>1. \A a \in {"stage", "reclaim", "x64", "signing", "arm"} : paper'[a] = paper[a]
      <3>1. task \notin {"signing", "reclaim"}
        BY DEF Typed, BuildTypeOK, DriverTypeOK, Tasks, Compats, Slices
      <3>2. pc \in Papers => pc \notin {"stage", "reclaim", "x64", "signing", "arm"}
        BY <1>0, <3>1 DEF Quiet
      <3> QED BY <1>0, <1>12, <3>2, OtherFrame
    <2>2. UNCHANGED <<alias, recovery, staged, resumed, dmg, out>>
      BY <1>12 DEF Other, Clear
    <2>3. UNCHANGED <<roots, part>>
      BY <1>0, <1>12 DEF Other, Clear
    <2>4. UNCHANGED app
      BY <1>0, <1>12 DEF Other, Clear
    <2>5. task' \in {"none", task}
      BY <1>12, OtherFrame
    <2> QED BY <1>0, <2>1, <2>2, <2>3, <2>4, <2>5
  <1>13. CASE UNCHANGED vars
    BY <1>0, <1>13 DEF vars
  <1> QED BY <1>5, <1>6, <1>7, <1>8, <1>9, <1>10, <1>11, <1>12, <1>13 DEF Next

LEMMA ArchiveStays ==
  ASSUME [Next]_vars, ~ Recover
  PROVE  UNCHANGED recovery
  BY DEF Next, Source, Adopting, Compat, Build, Stage, Refresh, Merge, Other, vars

LEMMA OnlyRecover ==
  ASSUME Typed, Quiet, [Next]_vars, ~ Recover, task' = "recovery"
  PROVE  task = "recovery" /\ UNCHANGED driver
  <1>1. CASE Source
    BY <1>1, AcquireFrame, PrepareFrame DEF Source
  <1>2. CASE Adopting
    BY <1>2, AdoptionFrame DEF Adopting
  <1>3. CASE Compat
    <2>1. PICK c \in Compats : StartCompat(c, ArmArgs(c = "linkedit")) \/ CompatStep(c)
      BY <1>3, CompatSteps
    <2> QED BY <2>1, CompatStepFrame, CompatsAre
  <1>4. CASE Build
    BY <1>4, BuildFrame
  <1>5. CASE Stage
    BY <1>5, StageFrame
  <1>6. CASE Refresh
    BY <1>6, RefreshFrame
  <1>7. CASE Merge
    BY <1>7, MergeFrame
  <1>8. CASE Other
    BY <1>8, OtherFrame
  <1> QED BY <1>1, <1>2, <1>3, <1>4, <1>5, <1>6, <1>7, <1>8 DEF Next, vars

LEMMA EvidenceInit == Init => Evidence
  <1> SUFFICES ASSUME Init PROVE Evidence
    OBVIOUS
  <1>1. CASE Nothing
    <2>1. \A a \in {"stage", "reclaim", "x64", "signing"} : paper[a] = "none"
      BY <1>1 DEF Nothing, Papered, Papers, Slices
    <2> QED BY <1>1, <2>1, HomeIs DEF Nothing, Init, Evidence, NoLegacy, Artifacts, Slices
  <1>2. CASE Aliased
    <2>1. \A a \in {"stage", "reclaim", "x64", "signing"} : paper[a] = "none"
      BY <1>2 DEF Aliased, Papered, Papers, Slices, Compats
    <2> QED BY <1>2, <2>1, HomeIs DEF Aliased, Init, Evidence, NoLegacy, Artifacts, Slices
  <1>3. CASE Recorded
    <2>1. /\ \A a \in {"stage", "reclaim", "x64", "signing"} : paper[a] = "old"
          /\ paper["arm"] = "none"
      BY <1>3 DEF Recorded, Papered, Papers, Slices, Compats
    <2> QED BY <1>3, <2>1, HomeIs DEF Recorded, Init, Evidence, Legacy, Artifacts, Slices
  <1> QED BY <1>1, <1>2, <1>3 DEF Init

LEMMA EvidenceNext ==
  Typed /\ Typed' /\ Quiet /\ Certified /\ Adopted /\ Pristine' /\ Evidence /\ Moved /\ [Next]_vars => Evidence'
  <1> SUFFICES ASSUME Typed, Typed', Quiet, Certified, Adopted, Pristine', Evidence, Moved, [Next]_vars PROVE Evidence'
    OBVIOUS
  <1>1. CASE Prepare
    BY <1>1, PrepareEarly, EarlyIsEasyNext
  <1>2. CASE Recover
    BY <1>2, RecoverEvidence
  <1>3. CASE ~ Prepare /\ ~ Recover
    <2>1. CASE Legacy /\ (archived # Artifacts \/ task = "recovery")
      BY <1>3, <2>1, LegacyHolds DEF Evidence
    <2>2. CASE ~ (Legacy /\ (archived # Artifacts \/ task = "recovery"))
      <3>1. NoLegacy
        <4>1. CASE Legacy
          BY <2>2, <4>1, HomeIs DEF Legacy, NoLegacy
        <4> QED BY <4>1 DEF Evidence
      <3>2. NoLegacy'
        BY <1>3, <3>1, NoNewLegacy, OnlyRecover DEF NoLegacy
      <3>3. (archived = {} /\ archive = "none") \/ (archived = Artifacts /\ archive # "none")
        BY <2>2 DEF Evidence, Legacy, Artifacts
      <3> QED BY <1>3, <3>2, <3>3, ArchiveStays DEF Evidence
    <2> QED BY <2>1, <2>2
  <1> QED BY <1>1, <1>2, <1>3

-----------------------------------------------------------------------------
LEMMA ArmOutStays ==
  ASSUME Typed, [Next]_vars, ~ Recover, ~ Prepare, task # "stage"
  PROVE  out'["arm"] = out["arm"]
  <1>0. out \in [{"arm", "x64"} -> {"none", "empty", "littered", "tree", "legacy"}]
    BY DEF Typed, BuildTypeOK, Slices
  <1>1. CASE Stage
    BY <1>1 DEF Stage, StartStage, Ditto, SwapIn, StageFails, PublishStage, ReclaimOut,
             ReclaimBreaks, PublishReclaim, At, Begin, Idle
  <1>2. CASE Build
    BY <1>2 DEF Build, StartBuild, BuildGraph, Ninja, BuildFails, ExecuteResumedSlice,
             StartFinalize, NoWork, PublishSlice, ResumeBuild, StrayNinja
  <1>3. CASE Refresh
    BY <1>0, <1>3 DEF Refresh, StartFresh, MakeContainer, MoveLegacy, MakeOut, FreshGraph, SealContainer,
             PublishFresh, ConfirmFresh, FreshFails, UndoReceipt, UndoOut, UndoLegacy, UndoContainer, AttemptFails,
             StrayGraph
  <1>4. CASE ~ Stage /\ ~ Build /\ ~ Refresh
    BY <1>4 DEF Next, Source, Adopting, Compat, Merge, Other, Clear, vars
  <1> QED BY <1>1, <1>2, <1>3, <1>4

LEMMA RecoverMoved ==
  ASSUME Typed, Quiet, Evidence, Evidence', Moved, Recover
  PROVE  Moved'
  <1>0. /\ Legacy /\ (StartRecovery => archived = {})
        /\ archived \subseteq Artifacts /\ Onward
        /\ out \in [{"arm", "x64"} -> {"none", "empty", "littered", "tree", "legacy"}]
        /\ staged' = "legacy" => out'["arm"] = "none" \/ task' = "recovery"
    <2>1. Legacy /\ (StartRecovery => archived = {}) /\ archived \subseteq Artifacts /\ Onward
      BY RecoverIsLegacy, RecoverFrame DEF Typed, BuildTypeOK
    <2>2. "stagedApp" \in Artifacts
      BY DEF Artifacts
    <2>3. staged' = "legacy" => out'["arm"] = "none" \/ task' = "recovery"
      BY <2>2, HomeIsNext DEF Evidence, NoLegacy, Legacy
    <2> QED BY <2>1, <2>3 DEF Typed, BuildTypeOK, Slices
  <1>1. Undisturbed' => Undisturbed /\ (mishaps["error"] > 0 => mishaps'["error"] > 0)
    BY <1>0, StillUndisturbed
  <1> USE DEF Moved, At, Goto, Begin, Idle
  <1>2. CASE StartRecovery
    BY <1>0, <1>1, <1>2 DEF StartRecovery, RecoveryPlan
  <1>3. CASE MoveArtifact
    BY <1>0, <1>1, <1>3 DEF MoveArtifact
  <1>4. CASE RestoreArmOut
    BY <1>0, <1>1, <1>4 DEF RestoreArmOut
  <1>5. CASE PublishArchive
    BY <1>0, <1>1, <1>5 DEF PublishArchive
  <1>6. CASE RecoveryFails
    <2>1. UNCHANGED <<archive, archived>> /\ task' = "recovery" /\ pc' = "undo" /\ archive # "none"
      BY <1>6 DEF RecoveryFails
    <2>2. Undisturbed' => mishaps'["error"] > 0 /\ out'["arm"] # "littered"
      BY <1>0, <1>6, FirstError, GapOrKill DEF RecoveryFails
    <2> QED BY <2>1, <2>2
  <1>7. CASE Normalize
    BY <1>0, <1>1, <1>7 DEF Normalize
  <1>8. CASE UndoArmOut
    <2>1. CASE out["arm"] = "littered"
      BY <1>0, <1>1, <1>8, <2>1, UndoArmOutCases
    <2>2. CASE out["arm"] # "littered"
      <3>1. archive = "part"
        BY <1>8 DEF UndoArmOut, Typed, BuildTypeOK
      <3>2. out'["arm"] # "littered"
        BY <1>0, <1>8, <2>2, UndoArmOutCases
      <3>3. pc' \in {"undo", "back"} /\ task' = "recovery" /\ UNCHANGED <<archive, archived, mishaps>>
        BY <1>8, <2>2, UndoArmOutCases
      <3>4. pc' = "back" => out'["arm"] = "none"
        BY <1>0, <1>8, <2>2, UndoArmOutCases
      <3> QED BY <1>1, <1>8, <3>1, <3>2, <3>3, <3>4 DEF UndoArmOut
    <2> QED BY <2>1, <2>2
  <1>9. CASE MoveBack
    BY <1>0, <1>1, <1>9 DEF MoveBack
  <1>10. CASE Reconcile
    <2>1. archived = {}
      BY <1>0, <1>10, HomeIs DEF Reconcile, Legacy
    <2> QED BY <1>0, <1>1, <1>10, <2>1 DEF Reconcile
  <1>11. CASE UndoFails
    <2>1. ~ Undisturbed'
      <3>1. CASE Undisturbed
        BY <1>11, <3>1, SecondError DEF UndoFails
      <3> QED BY <3>1, <1>1
    <2> QED BY <1>11, <2>1 DEF UndoFails
  <1> QED BY <1>2, <1>3, <1>4, <1>5, <1>6, <1>7, <1>8, <1>9, <1>10, <1>11 DEF Recover

LEMMA MovedInit == Init => Moved
  BY DEF Init, Moved, Nothing, Recorded, Aliased

LEMMA NextOnward ==
  ASSUME Typed, Quiet, [Next]_vars
  PROVE  Onward
  <1>1. CASE Source
    BY <1>1, AcquireFrame, PrepareFrame DEF Source
  <1>2. CASE Adopting \/ Compat \/ Build \/ Stage \/ Recover \/ Refresh \/ Merge
    BY <1>2, SourceTasks
  <1>3. CASE Other
    BY <1>3, OtherFrame
  <1>4. CASE UNCHANGED vars
    BY <1>4, Stutters DEF vars, Onward
  <1> QED BY <1>1, <1>2, <1>3, <1>4 DEF Next

(* How a stage ends without an action of its own. *)
LEMMA EndOfTask ==
  ASSUME Typed, Quiet, Other
  PROVE  \/ UNCHANGED driver
         \/ task' = "none" /\ pc \in {"done", "published", "committed"} /\ UNCHANGED <<papers, children, mishaps>>
         \/ task' = "none" /\ mishaps'["kill"] > 0 /\ ~ Undisturbed'
  <1>1. CASE Dies
    BY <1>1, GapOrKill, SpendOnward DEF Dies, Ended, Kinds
  <1> QED BY <1>1 DEF Other, Finish, Ended, StrayEnds, Clear

LEMMA MovedNext ==
  Typed /\ Typed' /\ Quiet /\ Certified /\ Pristine' /\ Evidence /\ Evidence' /\ Moved /\ [Next]_vars => Moved'
  <1> SUFFICES ASSUME Typed, Typed', Quiet, Certified, Pristine', Evidence, Evidence', Moved, [Next]_vars PROVE Moved'
    OBVIOUS
  <1>1. CASE Prepare
    BY <1>1, PrepareEarly, EarlyIsEasyNext
  <1>2. CASE Recover
    BY <1>2, RecoverMoved
  <1>3. CASE ~ Prepare /\ ~ Recover
    <2>0. UNCHANGED recovery /\ Onward
      BY <1>3, ArchiveStays, NextOnward
    <2>1. Undisturbed' => Undisturbed /\ (mishaps["error"] > 0 => mishaps'["error"] > 0)
      BY <2>0, StillUndisturbed
    <2>2. CASE task' = "recovery"
      <3>1. task = "recovery" /\ UNCHANGED driver
        BY <1>3, <2>2, OnlyRecover
      <3>2. out'["arm"] = out["arm"]
        BY <1>3, <3>1, ArmOutStays
      <3> QED BY <2>0, <2>1, <3>1, <3>2, HomeIsNext DEF Moved, Evidence, NoLegacy, Legacy, Artifacts
    <2>3. CASE task' # "recovery"
      <3>1. (staged' = "legacy" => out'["arm"] = "none") \/ archived' = Artifacts
        BY <2>3, HomeIsNext DEF Evidence, NoLegacy, Legacy, Artifacts
      <3>2. CASE task = "recovery"
        <4>1. Other
          BY <1>3, <2>3, <3>2, AcquireFrame, AdoptionFrame, CompatSteps, CompatStepFrame, CompatsAre, BuildFrame,
             StageFrame, RefreshFrame, MergeFrame DEF Next, Source, Adopting, vars
        <4>2. Undisturbed' => pc \in {"done", "published", "committed"}
          BY <2>3, <3>2, <4>1, EndOfTask
        <4>3. archived = Artifacts => staged' # "legacy"
          BY <2>0, <2>3, HomeIsNext DEF Evidence, NoLegacy, Legacy, Artifacts
        <4>4. CASE Undisturbed' /\ pc = "published"
          BY <2>0, <2>3, <3>2, <4>4 DEF Moved
        <4>5. CASE Undisturbed' /\ pc = "done"
          BY <2>0, <2>1, <2>3, <3>1, <3>2, <4>5 DEF Moved, Artifacts
        <4>6. pc # "committed"
          BY <3>2 DEF Moved
        <4> QED BY <2>3, <4>2, <4>4, <4>5, <4>6 DEF Moved
      <3>3. CASE task # "recovery"
        BY <2>0, <2>1, <2>3, <3>1, <3>3 DEF Moved, Artifacts
      <3> QED BY <3>2, <3>3
    <2> QED BY <2>2, <2>3
  <1> QED BY <1>1, <1>2, <1>3

-----------------------------------------------------------------------------
(* The legacy x64 tree. *)

LEMMA FreshStays ==
  ASSUME Typed, [Next]_vars, ~ Refresh, Prepare => Build \/ Stage
  PROVE  out'["x64"] = out["x64"] /\ UNCHANGED <<alias, fresh>>
  <1>0. out \in [{"arm", "x64"} -> {"none", "empty", "littered", "tree", "legacy"}]
    BY DEF Typed, BuildTypeOK, Slices
  <1>1. CASE Stage
    BY <1>0, <1>1 DEF Stage, StartStage, Ditto, SwapIn, StageFails, PublishStage, ReclaimOut,
             ReclaimBreaks, PublishReclaim
  <1>2. CASE Build
    BY <1>2 DEF Build, StartBuild, BuildGraph, Ninja, BuildFails, ExecuteResumedSlice,
             StartFinalize, NoWork, PublishSlice, ResumeBuild, StrayNinja
  <1>3. CASE Recover
    <2>1. UNCHANGED <<alias, fresh>>
      BY <1>3 DEF Recover
    <2>2. CASE UndoArmOut
      BY <1>0, <2>1, <2>2, UndoArmOutCases
    <2>3. CASE ~ UndoArmOut
      BY <1>0, <1>3, <2>1, <2>3 DEF Recover, StartRecovery, MoveArtifact, RestoreArmOut,
             PublishArchive, RecoveryFails, Normalize, MoveBack, Reconcile, UndoFails
    <2> QED BY <2>2, <2>3
  <1>4. CASE ~ Stage /\ ~ Build /\ ~ Recover
    BY <1>4 DEF Next, Source, Adopting, Adoption, Compat, Merge, Other, Clear, vars
  <1> QED BY <1>1, <1>2, <1>3, <1>4

LEMMA OnlyRefresh ==
  ASSUME Typed, Quiet, [Next]_vars, ~ Refresh
  PROVE  /\ UNCHANGED driver \/ (task # "fresh" /\ task' # "fresh") \/ task' = "none"
         /\ paper'["fresh"] = paper["fresh"] \/ (paper'["fresh"] = "new" /\ Other /\ task = "fresh" /\ pc = "fresh" /\ mishaps'["kill"] > 0)
  <1>0. "fresh" \in Papers /\ "fresh" \notin Compats
    BY DEF Papers, Compats
  <1>1. CASE Source
    BY <1>0, <1>1, AcquireFrame, PrepareFrame DEF Source
  <1>2. CASE Adopting
    BY <1>0, <1>2, AdoptionFrame DEF Adopting
  <1>3. CASE Compat
    <2>1. PICK c \in Compats : StartCompat(c, ArmArgs(c = "linkedit")) \/ CompatStep(c)
      BY <1>3, CompatSteps
    <2> QED BY <1>0, <2>1, CompatStepFrame
  <1>4. CASE Build
    BY <1>0, <1>4, BuildFrame
  <1>5. CASE Stage
    BY <1>0, <1>5, StageFrame
  <1>6. CASE Recover
    BY <1>0, <1>6, RecoverFrame
  <1>7. CASE Merge
    BY <1>0, <1>7, MergeFrame
  <1>8. CASE Other
    BY <1>0, <1>8, OtherFrame DEF Quiet
  <1>9. CASE UNCHANGED vars
    BY <1>9 DEF vars
  <1> QED BY <1>1, <1>2, <1>3, <1>4, <1>5, <1>6, <1>7, <1>8, <1>9 DEF Next

LEMMA RefreshHeld ==
  ASSUME Typed, Quiet, Adopted, Held, Refresh
  PROVE  Held'
  <1>0. /\ out \in [{"arm", "x64"} -> {"none", "empty", "littered", "tree", "legacy"}]
        /\ paper \in [Papers -> {"none", "old", "new"}] /\ "fresh" \in Papers
        /\ UNCHANGED alias /\ (strayed => strayed') /\ (RootHolds => alias)
        /\ {alias, held, spoiled} \subseteq BOOLEAN
    BY RefreshFrame, Receipts DEF Refresh, Typed, BuildTypeOK, AdoptionTypeOK, Slices, Papers, Onward, RootHolds, Adopted
  <1> USE <1>0 DEF Held, FreshUndo, At, Goto, Begin, Idle
  <1>1. CASE StartFresh
    BY <1>1 DEF StartFresh, FreshPlan
  <1>2. CASE MakeContainer
    BY <1>2 DEF MakeContainer
  <1>3. CASE MoveLegacy
    BY <1>3 DEF MoveLegacy
  <1>4. CASE MakeOut
    BY <1>4 DEF MakeOut
  <1>5. CASE FreshGraph
    BY <1>5 DEF FreshGraph
  <1>6. CASE SealContainer
    BY <1>6 DEF SealContainer, GraphHolds
  <1>7. CASE PublishFresh
    <2>1. /\ task = "fresh" /\ pc = "fresh" /\ task' = task /\ pc' \in {"confirm", "undoReceipt"}
          /\ paper' = paper \/ paper'["fresh"] = "new"
          /\ pc' = "confirm" => paper'["fresh"] = "new"
          /\ UNCHANGED <<outputs, fresh>>
      BY <1>7, PublishOnward DEF PublishFresh
    <2>2. held /\ container = "legacy" /\ paper["fresh"] = "none"
      BY <2>1
    <2> QED BY <2>1, <2>2
  <1>8. CASE ConfirmFresh
    BY <1>8 DEF ConfirmFresh
  <1>9. CASE FreshFails
    <2>1. /\ task = "fresh" /\ task' = task /\ pc' = "undoReceipt" /\ known' = known
          /\ UNCHANGED <<held, spoiled, paper>>
      BY <1>9 DEF FreshFails
    <2>2. CASE UNCHANGED <<out, container>>
      <3>1. pc \in {"container", "move", "out", "graph", "seal", "confirm"}
        BY <1>9 DEF FreshFails
      <3>2. "out" \in known => held
        BY <2>1, <3>1
      <3> QED BY <2>1, <2>2, <3>2
    <2>3. CASE pc = "container" /\ container' = "transaction" /\ UNCHANGED out
      BY <2>1, <2>3
    <2>4. CASE pc = "out" /\ out' = [out EXCEPT !["x64"] = "empty"] /\ UNCHANGED container
      BY <2>1, <2>4
    <2> QED BY <1>9, <2>2, <2>3, <2>4 DEF FreshFails
  <1>10. CASE UndoReceipt
    BY <1>10 DEF UndoReceipt
  <1>11. CASE UndoOut
    BY <1>11 DEF UndoOut
  <1>12. CASE UndoLegacy
    BY <1>12 DEF UndoLegacy
  <1>13. CASE UndoContainer
    BY <1>13 DEF UndoContainer
  <1>14. CASE AttemptFails
    BY <1>14 DEF AttemptFails, Undoing
  <1>15. CASE StrayGraph
    BY <1>15 DEF StrayGraph, Quiet
  <1> QED BY <1>1, <1>2, <1>3, <1>4, <1>5, <1>6, <1>7, <1>8, <1>9, <1>10, <1>11, <1>12, <1>13, <1>14, <1>15 DEF Refresh

LEMMA HeldInit == Init => Held
  <1> SUFFICES ASSUME Init PROVE Held
    OBVIOUS
  <1>1. paper["fresh"] = "none"
    BY DEF Init, Nothing, Recorded, Aliased, Papered, Papers, Compats
  <1> QED BY <1>1 DEF Init, Nothing, Recorded, Aliased, Held

LEMMA HeldNext ==
  Typed /\ Typed' /\ Quiet /\ Certified /\ Adopted /\ Pristine' /\ Held /\ [Next]_vars => Held'
  <1> SUFFICES ASSUME Typed, Typed', Quiet, Certified, Adopted, Pristine', Held, [Next]_vars PROVE Held'
    OBVIOUS
  <1>1. CASE Prepare
    BY <1>1, PrepareEarly, EarlyIsEasyNext
  <1>2. CASE Refresh
    BY <1>2, RefreshHeld
  <1>3. CASE ~ Prepare /\ ~ Refresh
    <2>1. out'["x64"] = out["x64"] /\ UNCHANGED <<alias, fresh>>
      BY <1>3, FreshStays
    <2>2. strayed => strayed'
      BY NextOnward DEF Onward
    <2>3. CASE paper'["fresh"] = paper["fresh"]
      BY <1>3, <2>1, <2>2, <2>3, OnlyRefresh DEF Held, FreshUndo
    <2>4. CASE paper'["fresh"] # paper["fresh"]
      <3>1. paper'["fresh"] = "new" /\ task' = "none"
        <4>1. paper'["fresh"] = "new" /\ Other
          BY <1>3, <2>4, OnlyRefresh
        <4>2. Dies
          BY <2>4, <4>1 DEF Other, Finish, StrayEnds, Clear
        <4> QED BY <4>1, <4>2 DEF Dies, Ended
      <3> QED BY <2>1, <2>2, <3>1 DEF Held
    <2> QED BY <2>3, <2>4
  <1> QED BY <1>1, <1>2, <1>3

-----------------------------------------------------------------------------
(* The apps of the slices. *)

LEMMA MarksStay ==
  ASSUME [Next]_vars
  PROVE  marks \subseteq marks' /\ UNCHANGED alias
  <1>1. CASE Adopting
    BY <1>1 DEF Adopting, Adoption, StartTransition, Transition, StartAdopt, Adopt, StartRoot, Root, Link, WritePart,
           Fails, Replace, ReplaceFails, RemoveDirectory, TransitionDone, TransitionFails, MarkRollback, Consume, Recheck,
           PublishRoot, VerifyRoot, RootFails
  <1>2. CASE ~ Adopting
    BY <1>2 DEF Next, Source, Compat, Build, Stage, Recover, Refresh, Merge, Other, Clear, vars
  <1> QED BY <1>1, <1>2

LEMMA BoundStays ==
  ASSUME Typed, Quiet, Adopted', Held, [Next]_vars, Prepare => Build \/ Stage, task # "fresh", Bound
  PROVE  Bound'
  <1>1. marks \subseteq marks' /\ UNCHANGED alias
    BY MarksStay
  <1>2. SUFFICES ASSUME alias PROVE FreshBound' /\ RootHolds'
    BY <1>1 DEF Bound
  <1>3. FreshBound /\ RootHolds
    BY <1>2 DEF Bound
  <1>4. RootHolds'
    BY <1>1, <1>3 DEF RootHolds, Adopted
  <1>5. FreshBound'
    <2>1. CASE Refresh
      <3>1. StartFresh \/ StrayGraph
        BY <2>1 DEF Refresh, MakeContainer, MoveLegacy, MakeOut, FreshGraph, SealContainer,
             PublishFresh, ConfirmFresh, FreshFails, UndoReceipt, UndoOut, UndoLegacy, UndoContainer, AttemptFails, At
      <3>2. CASE StartFresh
        BY <1>3, <3>2 DEF FreshBound, StartFresh
      <3>3. CASE StrayGraph
        <4>1. out["x64"] # "legacy" /\ spoiled \in BOOLEAN
          BY <1>2, <1>3, <1>1 DEF Held, FreshBound, Typed, BuildTypeOK
        <4> QED BY <1>3, <3>3, <4>1 DEF FreshBound, StrayGraph
      <3> QED BY <3>1, <3>2, <3>3
    <2>2. CASE ~ Refresh
      <3>1. UNCHANGED fresh
        BY <2>2, FreshStays
      <3>2. paper'["fresh"] = "new"
        BY <1>3, <2>2, OnlyRefresh DEF FreshBound
      <3> QED BY <1>3, <3>1, <3>2 DEF FreshBound
    <2> QED BY <2>1, <2>2
  <1> QED BY <1>4, <1>5

(* A step of another stage. *)
LEMMA SlotsOther ==
  ASSUME Slots, Typed, Quiet, Adopted', Held, [Next]_vars, ~ Prepare,
         UNCHANGED <<staged, resumed, app>>, out'["arm"] = out["arm"],
         \A p \in {"arm", "x64", "stage", "reclaim"} : paper'[p] = paper[p],
         UNCHANGED driver \/ task' \notin Slices \cup {"stage"},
         paper["x64"] = "new" /\ task' = "fresh" => task = "fresh"
  PROVE  Slots'
  <1>0. (strayed => strayed') /\ UNCHANGED alias
    BY NextOnward, MarksStay DEF Onward
  <1>1. paper["x64"] = "new" \/ (task = "x64" /\ pc = "x64") => Bound'
    BY BoundStays DEF Slots, Slices
  <1> QED BY <1>0, <1>1 DEF Slots, Slices

LEMMA LegacySlots == Typed /\ Legacy => Slots
  BY HomeIs DEF Legacy, Slots, Slices, Artifacts, Typed, BuildTypeOK

LEMMA LegacySlotsNext == (Typed /\ Legacy => Slots)'
  BY LegacySlots, PTL

LEMMA RecoverSlots ==
  ASSUME Typed, Typed', Quiet, Evidence, Evidence', Recover
  PROVE  Slots'
  <1>1. task' = "recovery"
    BY UndoArmOutCases DEF Recover, StartRecovery, MoveArtifact, RestoreArmOut,
             PublishArchive, RecoveryFails, Normalize, MoveBack, Reconcile, UndoFails, At, Goto, Begin
  <1>2. Legacy'
    BY <1>1 DEF Evidence, NoLegacy
  <1> QED BY <1>2, LegacySlotsNext

LEMMA BuildSlots ==
  ASSUME Typed, Quiet, Adopted, Adopted', Held, Slots, [Next]_vars, Build
  PROVE  Slots'
  <1>0. /\ app \in [{"arm", "x64"} -> Apps] /\ Slices = {"arm", "x64"}
        /\ UNCHANGED <<alias, staged, out>> /\ (strayed => strayed') /\ {"arm", "x64"} \subseteq Papers
        /\ paper'["stage"] = paper["stage"] /\ paper'["reclaim"] = paper["reclaim"]
        /\ RootHolds => alias
    <2>1. "stage" \in Papers /\ "reclaim" \in Papers /\ {"arm", "x64"} \subseteq Papers
      BY DEF Papers, Slices
    <2>2. UNCHANGED out
      BY DEF Build, StartBuild, BuildGraph, Ninja, BuildFails, ExecuteResumedSlice,
             StartFinalize, NoWork, PublishSlice, ResumeBuild, StrayNinja
    <2> QED BY <2>1, <2>2, BuildFrame DEF Typed, BuildTypeOK, Slices, Build, Onward, RootHolds, Adopted
  <1>1. PICK s \in {"arm", "x64"} :
           \/ StartBuild(s) \/ BuildGraph(s) \/ Ninja(s) \/ BuildFails(s)
           \/ ExecuteResumedSlice(s) \/ ResumeBuild(s) \/ StrayNinja(s)
    BY <1>0 DEF Build
  <1>3. task \in {"none", "arm", "x64"} \/ UNCHANGED driver
    BY BuildFrame
  <1>4. Bound /\ task # "fresh" => Bound'
    BY BoundStays
  <1>5. task' \in {"none", "arm", "x64"} \/ UNCHANGED driver
    BY BuildFrame
  <1> USE <1>0 DEF Slots, At, Goto, Begin, Idle
  <1>10. CASE StartBuild(s)
    BY <1>4, <1>10 DEF StartBuild, BuildPlan
  <1>11. CASE BuildGraph(s)
    BY <1>4, <1>11 DEF BuildGraph
  <1>12. CASE Ninja(s)
    BY <1>4, <1>12 DEF Ninja, Bound
  <1>13. CASE BuildFails(s)
    BY <1>4, <1>13 DEF BuildFails, PopenGap
  <1>14. CASE StartFinalize(s)
    BY <1>4, <1>14 DEF StartFinalize, ResumedPlan
  <1>15. CASE NoWork(s)
    BY <1>4, <1>15 DEF NoWork, ResumedPlan, ResumeRecord, Bound, FreshBound, RootHolds, HomeHolds, TreeHolds, ProjectionHolds, TransitionHolds
  <1>16. CASE PublishSlice(s)
    BY <1>4, <1>16, PublishOnward DEF PublishSlice
  <1>17. CASE ResumeBuild(s)
    BY <1>4, <1>17 DEF ResumeBuild
  <1>18. CASE StrayNinja(s)
    BY <1>4, <1>18 DEF StrayNinja, Quiet
  <1> QED BY <1>1, <1>10, <1>11, <1>12, <1>13, <1>14, <1>15, <1>16, <1>17, <1>18 DEF ExecuteResumedSlice

LEMMA StageSlots ==
  ASSUME Typed, Quiet, Adopted', Held, Slots, [Next]_vars, Stage
  PROVE  Slots'
  <1>0. /\ app \in [{"arm", "x64"} -> Apps] /\ Slices = {"arm", "x64"}
        /\ out \in [{"arm", "x64"} -> {"none", "empty", "littered", "tree", "legacy"}]
        /\ paper \in [Papers -> {"none", "old", "new"}]
        /\ UNCHANGED <<alias, resumed>> /\ (strayed => strayed') /\ {"arm", "x64", "stage", "reclaim"} \subseteq Papers
        /\ paper'["x64"] = paper["x64"]
        /\ task' \in {"none", "stage"}
    <2>1. {"arm", "x64", "stage", "reclaim"} \subseteq Papers
      BY DEF Papers, Slices
    <2>2. UNCHANGED resumed /\ task' \in {"none", "stage"}
      BY DEF Stage, StartStage, Ditto, SwapIn, StageFails, PublishStage, ReclaimOut,
             ReclaimBreaks, PublishReclaim, At, Goto, Begin, Ended, Publish
    <2> QED BY <2>1, <2>2, StageFrame, Receipts DEF Typed, BuildTypeOK, Slices, Stage, Onward
  <1>4. Bound /\ task # "fresh" => Bound'
    BY BoundStays
  <1> USE <1>0 DEF Slots, At, Goto, Begin, Idle
  <1>10. CASE StartStage
    BY <1>10, <1>4 DEF StartStage, StagePlan, SliceHolds
  <1>11. CASE Ditto
    BY <1>11, <1>4 DEF Ditto
  <1>12. CASE SwapIn
    BY <1>12, <1>4 DEF SwapIn
  <1>13. CASE StageFails
    BY <1>13, <1>4 DEF StageFails
  <1>14. CASE PublishStage
    BY <1>14, <1>4, PublishOnward DEF PublishStage
  <1>15. CASE ReclaimOut
    BY <1>15, <1>4 DEF ReclaimOut
  <1>16. CASE ReclaimBreaks
    BY <1>16, <1>4 DEF ReclaimBreaks, Ended
  <1>17. CASE PublishReclaim
    BY <1>17, <1>4, PublishOnward DEF PublishReclaim
  <1> QED BY <1>10, <1>11, <1>12, <1>13, <1>14, <1>15, <1>16, <1>17 DEF Stage

-----------------------------------------------------------------------------
LEMMA SlotsInit == Init => Slots
  <1> SUFFICES ASSUME Init PROVE Slots
    OBVIOUS
  <1>1. {"arm", "x64", "stage", "reclaim"} \subseteq Papers /\ Slices = {"arm", "x64"}
    BY DEF Papers, Slices
  <1>2. \A p \in {"arm", "x64", "stage", "reclaim"} : paper[p] # "new"
    BY <1>1 DEF Init, Nothing, Recorded, Aliased, Papered
  <1> QED BY <1>1, <1>2 DEF Init, Slots

LEMMA OtherSlots ==
  ASSUME Typed, Quiet, Adopted', Held, Slots, [Next]_vars, Other
  PROVE  Slots'
  <1>0. /\ app \in [{"arm", "x64"} -> Apps] /\ Slices = {"arm", "x64"}
        /\ UNCHANGED <<alias, staged, out, resumed>> /\ (strayed => strayed')
        /\ {"arm", "x64", "stage", "reclaim"} \subseteq Papers
        /\ paper \in [Papers -> {"none", "old", "new"}]
    BY OtherFrame, Receipts DEF Typed, BuildTypeOK, Slices, Other, Clear, Onward, Papers
  <1>2. Bound /\ task # "fresh" => Bound'
    <2>1. UNCHANGED fresh
      BY DEF Other
    <2>2. marks \subseteq marks' /\ UNCHANGED alias
      BY MarksStay
    <2>3. paper["fresh"] = "new" => paper'["fresh"] = "new"
      BY OtherFrame DEF Papers
    <2> QED BY <2>1, <2>2, <2>3 DEF Bound, FreshBound, RootHolds, Adopted
  <1>3. CASE Dies
    <2>1. task' = "none" /\ pc' = "idle" /\ UNCHANGED outputs
      BY <1>3, <1>0 DEF Dies, Ended, Other, Clear
    <2>2. \A q \in {"arm", "x64", "stage", "reclaim"} :
            paper'[q] = paper[q] \/ (q = pc /\ paper[q] = "none" /\ paper'[q] = "new")
      BY <1>0, OtherFrame
    <2>3. pc \in {"arm", "x64"} => task = pc
      BY DEF Quiet, Papers, Slices
    <2>4. pc \in {"stage", "reclaim"} => task = "stage"
      BY <1>0 DEF Quiet, Tasks, Slices, Compats, Typed, BuildTypeOK, DriverTypeOK
    <2> QED BY <1>0, <1>2, <2>1, <2>2, <2>3, <2>4 DEF Slots
  <1>4. CASE Clear
    BY <1>0, <1>2, <1>4 DEF Clear, Slots, Idle
  <1>5. CASE ~ Dies /\ ~ Clear
    <2>1. UNCHANGED <<app, paper>> /\ (UNCHANGED driver \/ task' = "none")
      BY <1>5 DEF Finish, Ended, StrayEnds, Other
    <2> QED BY <1>0, <1>2, <2>1 DEF Slots
  <1> QED BY <1>3, <1>4, <1>5 DEF Other

LEMMA SlotsNext ==
  Typed /\ Typed' /\ Quiet /\ Certified /\ Adopted /\ Adopted' /\ Pristine' /\ Evidence /\ Evidence' /\ Held /\ Slots
    /\ [Next]_vars => Slots'
  <1> SUFFICES ASSUME Typed, Typed', Quiet, Certified, Adopted, Adopted', Pristine', Evidence, Evidence', Held, Slots,
                      [Next]_vars
               PROVE  Slots'
    OBVIOUS
  <1>1. CASE Prepare
    BY <1>1, PrepareEarly, EarlyIsEasyNext
  <1>2. CASE Build
    BY <1>2, BuildSlots
  <1>3. CASE Stage
    BY <1>3, StageSlots
  <1>4. CASE Recover
    BY <1>4, RecoverSlots
  <1>5. CASE Other
    BY <1>5, OtherSlots
  <1>6. CASE ~ Prepare /\ ~ Build /\ ~ Stage /\ ~ Recover /\ ~ Other
    <2>0. /\ {"arm", "x64", "stage", "reclaim"} \subseteq Papers
          /\ {"arm", "x64", "stage", "reclaim"} \cap (Compats \cup {"home", "bootstrap", "fresh", "signing"}) = {}
      BY DEF Papers, Slices, Compats
    <2>1. UNCHANGED <<staged, resumed, app>> /\ out'["arm"] = out["arm"]
      <3>1. CASE Refresh
        BY <3>1 DEF Refresh, StartFresh, MakeContainer, MoveLegacy, MakeOut, FreshGraph, SealContainer,
             PublishFresh, ConfirmFresh, FreshFails, UndoReceipt, UndoOut, UndoLegacy, UndoContainer, AttemptFails,
             StrayGraph, Typed, BuildTypeOK, Slices
      <3> QED BY <1>6, <3>1 DEF Next, Source, Adopting, Compat, Merge, vars
    <2>2. /\ \A p \in {"arm", "x64", "stage", "reclaim"} : paper'[p] = paper[p]
          /\ UNCHANGED driver \/ task' \notin Slices \cup {"stage"}
          /\ paper["x64"] = "new" /\ task' = "fresh" => task = "fresh"
      <3>1. CASE Source
        BY <1>6, <2>0, <3>1, AcquireFrame DEF Source, Slices
      <3>2. CASE Adopting
        BY <2>0, <3>2, AdoptionFrame DEF Adopting, Slices
      <3>3. CASE Compat
        <4>1. PICK c \in Compats : StartCompat(c, ArmArgs(c = "linkedit")) \/ CompatStep(c)
          BY <3>3, CompatSteps
        <4> QED BY <2>0, <4>1, CompatStepFrame, CompatsAre DEF Slices
      <3>4. CASE Refresh
        <4>1. task = "fresh" \/ StartFresh \/ StrayGraph
          BY <3>4 DEF Refresh, MakeContainer, MoveLegacy, MakeOut, FreshGraph, SealContainer,
             PublishFresh, ConfirmFresh, FreshFails, UndoReceipt, UndoOut, UndoLegacy, UndoContainer, AttemptFails, At
        <4>2. StartFresh => paper["x64"] # "new"
          BY DEF StartFresh, FreshPlan, RootHolds, Adopted, Slots, Bound, FreshBound
        <4>3. StrayGraph => UNCHANGED driver
          BY DEF StrayGraph
        <4> QED BY <2>0, <3>4, <4>1, <4>2, <4>3, RefreshFrame DEF Slices
      <3>5. CASE Merge
        BY <2>0, <3>5, MergeFrame DEF Slices
      <3>6. CASE UNCHANGED vars
        BY <3>6 DEF vars
      <3> QED BY <1>6, <3>1, <3>2, <3>3, <3>4, <3>5, <3>6 DEF Next
    <2> QED BY <1>6, <2>1, <2>2, SlotsOther
  <1> QED BY <1>1, <1>2, <1>3, <1>4, <1>5, <1>6

-----------------------------------------------------------------------------
(* No stage and no handler loses the app of the slice or the evidence: the   *)
(* theorem for every bound on the mishaps.                                   *)
THEOREM NothingGetsLost == Spec => []NothingIsLost
  <1> DEFINE I == /\ Typed /\ Quiet /\ Certified /\ Adopted /\ Pristine
                  /\ Evidence /\ Moved /\ Held /\ Slots
  <1>1. Init => I
    BY TypedInit, QuietInit, CertifiedInit, AdoptedInit, PristineInit, EvidenceInit, MovedInit, HeldInit, SlotsInit
  <1>2. I /\ [Next]_vars => I'
    BY TypedNext, QuietNext, CertifiedNext, AdoptedNext, PristineNext, EvidenceNext, MovedNext, HeldNext, SlotsNext
  <1>3. I => NothingIsLost
    <2> SUFFICES ASSUME I PROVE NothingIsLost
      OBVIOUS
    <2>1. ArmKept
      BY DEF Slots, ArmKept
    <2>2. (\E a \in Artifacts : Home(a) \/ a \in archived) =>
            \A a \in Artifacts : Home(a) # (a \in archived)
      BY HomeIs DEF Evidence, NoLegacy, Legacy
    <2>3. archived # {} => archive # "none"
      BY DEF Evidence, Legacy, Artifacts
    <2> QED BY <2>1, <2>2, <2>3 DEF NothingIsLost, LegacyKept, Held
  <1> QED BY <1>1, <1>2, <1>3, PTL DEF Spec

-----------------------------------------------------------------------------
(* The fresh x64 graph under one exception at most. *)

LEMMA FreshSteadyInit == Init => FreshSteady
  <1> SUFFICES ASSUME Init PROVE FreshSteady
    OBVIOUS
  <1>1. paper["fresh"] = "none"
    BY DEF Init, Nothing, Recorded, Aliased, Papered, Papers, Compats
  <1> QED BY <1>1 DEF Init, Nothing, Recorded, Aliased, FreshSteady

LEMMA RefreshSteady ==
  ASSUME Typed, Quiet, Adopted, Held, FreshSteady, Refresh
  PROVE  FreshSteady'
  <1>0. /\ out \in [{"arm", "x64"} -> {"none", "empty", "littered", "tree", "legacy"}]
        /\ paper \in [Papers -> {"none", "old", "new"}] /\ "fresh" \in Papers
        /\ UNCHANGED alias /\ Onward
        /\ {alias, held, spoiled} \subseteq BOOLEAN
    BY RefreshFrame, Receipts DEF Refresh, Typed, BuildTypeOK, AdoptionTypeOK, Slices, Papers
  <1> SUFFICES ASSUME Undisturbed', alias' PROVE FreshSteady'
    BY DEF FreshSteady
  <1>a. /\ Undisturbed /\ alias
        /\ mishaps["error"] > 0 => mishaps'["error"] > 0
        /\ strays = {}
        /\ temps # {} => mishaps["error"] > 0
    BY <1>0, StillUndisturbed, Littered
  <1> USE <1>0, <1>a DEF Held, FreshSteady, FreshUndo, At, Goto, Begin, Idle
  <1>1. CASE StartFresh
    BY <1>1 DEF StartFresh, FreshPlan
  <1>2. CASE MakeContainer
    BY <1>2 DEF MakeContainer
  <1>3. CASE MoveLegacy
    BY <1>3 DEF MoveLegacy
  <1>4. CASE MakeOut
    BY <1>4 DEF MakeOut
  <1>5. CASE FreshGraph
    BY <1>5 DEF FreshGraph
  <1>6. CASE SealContainer
    BY <1>6 DEF SealContainer
  <1>7. CASE PublishFresh
    <2>1. /\ task = "fresh" /\ pc = "fresh" /\ task' = task /\ pc' \in {"confirm", "undoReceipt"}
          /\ known \subseteq known' /\ UNCHANGED <<outputs, fresh>>
      BY <1>7, PublishOnward DEF PublishFresh, Publish
    <2>2. pc' = "undoReceipt" => mishaps'["error"] > 0
      <3>1. CASE mishaps' = mishaps /\ pc' # "confirm"
        BY <1>7, <2>1, <3>1, PublishOnward DEF PublishFresh, Refused
      <3>2. CASE mishaps' # mishaps
        BY <1>7, <3>2, FirstError DEF PublishFresh, Publish
      <3> QED BY <2>1, <3>1, <3>2
    <2> QED BY <2>1, <2>2
  <1>8. CASE ConfirmFresh
    BY <1>8 DEF ConfirmFresh, FreshHolds, FreshBound, GraphHolds
  <1>9. CASE FreshFails
    <2>1. /\ task = "fresh" /\ task' = task /\ pc' = "undoReceipt" /\ known' = known
          /\ UNCHANGED <<held, spoiled, paper>>
      BY <1>9 DEF FreshFails
    <2>2. /\ Spend("error") /\ UNCHANGED <<out, container>>
          /\ pc \in {"container", "move", "out", "graph", "seal", "confirm"}
      BY <1>9, GapOrKill DEF FreshFails
    <2>3. mishaps'["error"] > 0
      BY <2>2, FirstError
    <2> QED BY <2>1, <2>2, <2>3
  <1>10. CASE UndoReceipt
    BY <1>10 DEF UndoReceipt
  <1>11. CASE UndoOut
    BY <1>11 DEF UndoOut
  <1>12. CASE UndoLegacy
    BY <1>12 DEF UndoLegacy
  <1>13. CASE UndoContainer
    BY <1>13 DEF UndoContainer
  <1>14. CASE AttemptFails
    <2>1. mishaps["error"] > 0 /\ Spend("error")
      BY <1>14 DEF AttemptFails, Undoing
    <2> QED BY <2>1, SecondError
  <1>15. CASE StrayGraph
    BY <1>15 DEF StrayGraph
  <1> QED BY <1>1, <1>2, <1>3, <1>4, <1>5, <1>6, <1>7, <1>8, <1>9, <1>10, <1>11, <1>12, <1>13, <1>14, <1>15 DEF Refresh

LEMMA FreshSteadyNext ==
  Typed /\ Typed' /\ Quiet /\ Certified /\ Adopted /\ Pristine' /\ Held /\ FreshSteady /\ [Next]_vars => FreshSteady'
  <1> SUFFICES ASSUME Typed, Typed', Quiet, Certified, Adopted, Pristine', Held, FreshSteady, [Next]_vars
               PROVE  FreshSteady'
    OBVIOUS
  <1>1. CASE Prepare
    BY <1>1, PrepareEarly, EarlyIsEasyNext
  <1>2. CASE Refresh
    BY <1>2, RefreshSteady
  <1>3. CASE ~ Prepare /\ ~ Refresh
    <2> SUFFICES ASSUME Undisturbed', alias' PROVE FreshSteady'
      BY DEF FreshSteady
    <2>1. out'["x64"] = out["x64"] /\ UNCHANGED <<alias, fresh>>
      BY <1>3, FreshStays
    <2>2. /\ Undisturbed
          /\ mishaps["error"] > 0 => mishaps'["error"] > 0
          /\ mishaps'["kill"] = 0
      BY NextOnward, StillUndisturbed
    <2>3. paper'["fresh"] = paper["fresh"]
      BY <1>3, <2>2, OnlyRefresh
    <2>4. CASE UNCHANGED driver
      BY <2>1, <2>2, <2>3, <2>4 DEF FreshSteady, FreshBound, GraphHolds
    <2>5. CASE task # "fresh" /\ task' # "fresh"
      BY <2>1, <2>2, <2>3, <2>5 DEF FreshSteady, FreshBound, GraphHolds
    <2>6. CASE task = "fresh" /\ task' = "none" /\ ~ UNCHANGED driver
      <3>1. Other
        BY <1>3, <2>6, AcquireFrame, AdoptionFrame, CompatSteps, CompatStepFrame, CompatsAre, BuildFrame,
             StageFrame, RecoverFrame, MergeFrame DEF Next, Source, Adopting, vars
      <3>2. pc = "done"
        BY <2>6, <3>1, EndOfTask DEF Held, FreshUndo
      <3> QED BY <2>1, <2>2, <2>3, <2>6, <3>2 DEF FreshSteady, FreshBound, GraphHolds
    <2> QED BY <1>3, <2>4, <2>5, <2>6, OnlyRefresh
  <1> QED BY <1>1, <1>2, <1>3

(* One exception leaves the recovery and the fresh graph done or undone, for *)
(* every bound on the mishaps.                                               *)
THEOREM MovesAreWhole == Spec => []MovesAllOrNothing
  <1> DEFINE I == /\ Typed /\ Quiet /\ Certified /\ Adopted /\ Pristine
                  /\ Evidence /\ Moved /\ Held /\ FreshSteady
  <1>1. Init => I
    BY TypedInit, QuietInit, CertifiedInit, AdoptedInit, PristineInit, EvidenceInit, MovedInit, HeldInit, FreshSteadyInit
  <1>2. I /\ [Next]_vars => I'
    BY TypedNext, QuietNext, CertifiedNext, AdoptedNext, PristineNext, EvidenceNext, MovedNext, HeldNext, FreshSteadyNext
  <1>3. I => MovesAllOrNothing
    BY DEF Moved, FreshSteady, MovesAllOrNothing, Idle
  <1> QED BY <1>1, <1>2, <1>3, PTL DEF Spec

-----------------------------------------------------------------------------
(* The published image. *)

LEMMA NewStays ==
  ASSUME Typed, Quiet, [Next]_vars, ~ Recover,
         NEW p \in {"x64", "stage", "reclaim", "signing"}, paper[p] = "new"
  PROVE  paper'[p] = "new"
  <1>0. /\ paper \in [Papers -> {"none", "old", "new"}] /\ p \in Papers
        /\ p \notin Compats \cup {"home", "bootstrap", "fresh", "arm"}
        /\ {"stage", "reclaim", "x64", "signing", "arm"} \subseteq Papers
    BY Receipts DEF Papers, Compats, Slices
  <1>1. CASE Source
    BY <1>0, <1>1, AcquireFrame, PrepareFrame DEF Source
  <1>2. CASE Adopting
    BY <1>0, <1>2, AdoptionFrame DEF Adopting
  <1>3. CASE Compat
    BY <1>0, <1>3, CompatSteps, CompatStepFrame
  <1>4. CASE Refresh
    BY <1>0, <1>4, RefreshFrame
  <1>5. CASE Build
    BY <1>0, <1>5, PublishOnward DEF Build, StartBuild, BuildGraph, Ninja, BuildFails, ExecuteResumedSlice,
             StartFinalize, NoWork, PublishSlice, ResumeBuild, StrayNinja, Slices
  <1>6. CASE Stage
    BY <1>0, <1>6, PublishOnward DEF Stage, StartStage, Ditto, SwapIn, StageFails, PublishStage, ReclaimOut,
             ReclaimBreaks, PublishReclaim
  <1>7. CASE Merge
    BY <1>0, <1>7 DEF Merge, Sign, StartMerge, Universalize, SignMerged, PublishMerged, MergeFails
  <1>8. CASE Other
    BY <1>0, <1>8, OtherFrame
  <1>9. CASE UNCHANGED vars
    BY <1>9 DEF vars
  <1> QED BY <1>1, <1>2, <1>3, <1>4, <1>5, <1>6, <1>7, <1>8, <1>9 DEF Next

LEMMA SealedStays ==
  ASSUME Typed, Quiet, Layers, Layers', Adopted', Evidence, Held, Slots, [Next]_vars, ~ Prepare, Sealed
  PROVE  /\ ~ Recover
         /\ task \notin Compats => Sealed' /\ task' \notin Compats
  <1>0. "x64" \in Artifacts /\ "linkedit" \in Compats /\ Compats \subseteq Papers /\ "linkedit" \in Upto["linkedit"]
    BY UptoIs, CompatsAre DEF Artifacts, Compats
  <1>1. ~ Recover
    BY <1>0, RecoverIsLegacy, HomeIs DEF Sealed, Legacy
  <1>2. ASSUME task \notin Compats PROVE Sealed' /\ task' \notin Compats
    <2>1. \A p \in {"x64", "stage", "reclaim", "signing"} : paper'[p] = "new"
      BY <1>1, NewStays DEF Sealed
    <2>2. Bound'
      BY BoundStays DEF Sealed, Slots
    <2>3. \A c \in Compats : paper[c] # "none"
      BY DEF Sealed, Patched, Upto
    <2>4. paper'["linkedit"] # "none" /\ task' \notin Compats
      <3>1. CASE Source \/ Adopting \/ Build \/ Stage \/ Recover \/ Refresh \/ Merge
        BY <1>0, <1>2, <2>3, <3>1, OtherStages
      <3>2. CASE Compat
        <4>1. PICK c \in Compats : StartCompat(c, ArmArgs(c = "linkedit")) \/ CompatStep(c)
          BY <3>2, CompatSteps
        <4>2. ~ StartCompat(c, ArmArgs(c = "linkedit"))
          BY <2>3, PlanIs DEF StartCompat
        <4>3. StrayPatch(c)
          BY <1>2, <4>1, <4>2 DEF CompatStep, PatchFile, PatchFails, PublishCompat, ConfirmCompat,
             RetractNothing, RetractRefused, Retract, Restore, RestoreFails, At
        <4> QED BY <1>0, <1>2, <2>3, <4>3 DEF StrayPatch
      <3>3. CASE Other
        BY <1>0, <1>2, <2>3, <3>3, OtherFrame, CompatsAre
      <3>4. CASE UNCHANGED vars
        BY <1>0, <1>2, <2>3, <3>4 DEF vars
      <3> QED BY <3>1, <3>2, <3>3, <3>4 DEF Next
    <2>5. Patched("linkedit")'
      BY <1>0, <2>4 DEF Layers
    <2> QED BY <2>1, <2>2, <2>4, <2>5 DEF Sealed
  <1> QED BY <1>1, <1>2

(* What the plan of the merge finds. *)
LEMMA MergeIsSealed ==
  ASSUME Typed, Evidence, Slots, MergePlan
  PROVE  Sealed
  <1>0. /\ paper \in [Papers -> {"none", "old", "new"}] /\ {"stage", "reclaim"} \subseteq Papers
        /\ "linkedit" \in Compats /\ {"x64", "stage", "reclaim"} \subseteq Artifacts
    BY Receipts DEF Papers, Compats, Artifacts
  <1>1. /\ paper["x64"] = "new" /\ paper["signing"] = "new"
        /\ paper["stage"] # "none" /\ paper["reclaim"] # "none"
    BY DEF MergePlan, SliceHolds, ReclaimHolds
  <1>2. ~ Legacy
    BY <1>0, <1>1, HomeIs DEF Legacy
  <1>3. paper["stage"] # "old" /\ paper["reclaim"] # "old"
    BY <1>0, <1>2, HomeIs DEF Evidence, NoLegacy
  <1>4. Patched("linkedit")
    BY <1>0, ContractIs DEF MergePlan, AllCompats
  <1>5. Bound
    BY <1>1 DEF Slots
  <1> QED BY <1>0, <1>1, <1>3, <1>4, <1>5 DEF Sealed

LEMMA MergePublished ==
  ASSUME Typed, Quiet, Layers, Layers', Adopted', Evidence, Held, Slots, Published, [Next]_vars, ~ Prepare, Merge
  PROVE  Published'
  <1>0. /\ strayed => strayed'
        /\ Sealed /\ task \notin Compats => Sealed' /\ task' \notin Compats
    BY SealedStays, NextOnward DEF Onward
  <1>1. "merge" \notin Compats /\ "none" \notin Compats
    BY DEF Compats
  <1> USE <1>0, <1>1 DEF Published, At, Goto, Begin, Idle
  <1>2. CASE Sign /\ UNCHANGED universal
    BY <1>2 DEF Sign
  <1>3. CASE StartMerge
    <2>1. Sealed' /\ task' = "merge" /\ pc' = "universalize" /\ roots' # {} /\ dmg' = "none"
      BY <1>3, MergeIsSealed DEF StartMerge, MergePlan
    <2> QED BY <2>1
  <1>4. CASE Universalize
    <2>1. ~ strayed => staged = "sound" /\ app["x64"] = "sound"
      BY <1>4 DEF Slots, Universalize, Sealed
    <2>2. /\ task = "merge" /\ task' = "merge" /\ pc' = "sign" /\ UNCHANGED <<roots, dmg, strayed>>
          /\ ~ strayed => merged' = "sound"
      BY <1>4, <2>1 DEF Universalize
    <2> QED BY <2>2
  <1>5. CASE SignMerged
    <2>1. merged # "legacy" /\ UNCHANGED <<merged, dmg>> /\ roots' # {} /\ task = "merge" /\ pc = "sign" /\ pc' = "publish" /\ task' = "merge"
      BY <1>5 DEF SignMerged, AppReport, Misaligned
    <2> QED BY <2>1
  <1>6. CASE PublishMerged
    BY <1>6 DEF PublishMerged
  <1>7. CASE MergeFails
    BY <1>7 DEF MergeFails
  <1> QED BY <1>2, <1>3, <1>4, <1>5, <1>6, <1>7 DEF Merge

LEMMA PublishedNext ==
  Typed /\ Typed' /\ Quiet /\ Layers /\ Layers' /\ Certified /\ Adopted' /\ Pristine' /\ Evidence /\ Held /\ Slots
    /\ Published /\ [Next]_vars => Published'
  <1> SUFFICES ASSUME Typed, Typed', Quiet, Layers, Layers', Certified, Adopted', Pristine', Evidence, Held, Slots,
                      Published, [Next]_vars
               PROVE  Published'
    OBVIOUS
  <1>1. CASE Prepare
    BY <1>1, PrepareEarly, EarlyIsEasyNext
  <1>2. CASE Merge /\ ~ Prepare
    BY <1>2, MergePublished
  <1>3. CASE ~ Merge /\ ~ Prepare
    <2>1. /\ strayed => strayed'
          /\ Sealed /\ task \notin Compats => Sealed' /\ task' \notin Compats
      BY <1>3, SealedStays, NextOnward DEF Onward
    <2>2. /\ dmg' = dmg
          /\ dmg # "none" => UNCHANGED roots
      BY <1>3 DEF Next, Source, Adopting, Compat, Build, Stage, Recover, Refresh, Other, Clear, vars
    <2>3. task' = "merge" => UNCHANGED <<driver, roots, merged>>
      <3>1. CASE Other
        BY <3>1, OtherFrame DEF Other, Clear, Idle
      <3>2. CASE ~ Other
        <4>1. UNCHANGED universal
          BY <1>3, <3>2 DEF Next, Source, Adopting, Compat, Build, Stage, Recover, Refresh, vars
        <4> QED BY <1>3, <3>2, <4>1, AcquireFrame, AdoptionFrame, CompatSteps, CompatStepFrame, CompatsAre, BuildFrame,
             StageFrame, RecoverFrame, RefreshFrame DEF Next, Source, Adopting, vars
      <3> QED BY <3>1, <3>2
    <2> QED BY <2>1, <2>2, <2>3, CompatsAre DEF Published
  <1> QED BY <1>1, <1>2, <1>3

(* A published image is whole, certified, patched and from the bound graph,  *)
(* for every bound on the mishaps.                                           *)
THEOREM ImagesAreSound == Spec => []PublishedIsSound
  <1> DEFINE I == /\ Typed /\ Quiet /\ Layers /\ Certified /\ Adopted /\ Pristine
                  /\ Evidence /\ Moved /\ Held /\ Slots /\ Published
  <1>1. Init => I
    <2>1. Init => Published
      BY DEF Init, Published
    <2> QED BY <2>1, TypedInit, QuietInit, LayersInit, CertifiedInit, AdoptedInit, PristineInit, EvidenceInit, MovedInit,
               HeldInit, SlotsInit
  <1>2. I /\ [Next]_vars => I'
    BY TypedNext, QuietNext, LayersNext, CertifiedNext, AdoptedNext, PristineNext, EvidenceNext, MovedNext,
       HeldNext, SlotsNext, PublishedNext
  <1>3. I => PublishedIsSound
    <2>1. "linkedit" \in Compats
      BY DEF Compats
    <2> QED BY <2>1, ContractIs DEF PublishedIsSound, Published, Sealed, Bound
  <1> QED BY <1>1, <1>2, <1>3, PTL DEF Spec
=============================================================================
