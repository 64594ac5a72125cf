------------------------- MODULE ReleaseChainProofs -------------------------
(***************************************************************************)
(* Proofs about ReleaseChain, for every set of operators, every number of  *)
(* edits and every number of mishaps: the types of the variables, that     *)
(* publication never overwrites (NothingReplaced), that no image stays     *)
(* attached over a private root that is gone (MountsAreKept), that what a  *)
(* stage reports is what it leaves (OutcomesAreTrue), and that a chain of  *)
(* receipts that validates was made from the present build                 *)
(* (ReceiptsAreTrue).                                                      *)
(***************************************************************************)
EXTENDS ReleaseChain, TLAPS

USE ReleaseAssumption

OwnNames == Addendum = 1 /\ Seal = 2 /\ Staging = 3 /\ Unsigned = 4 /\ Signed = 5
            /\ Acceptance = 6 /\ Dmg = 7 /\ Sidecar = 8

LEMMA Names == OwnNames /\ Outputs = 1 .. 8 /\ Stages = 1 .. 7
BY DEF OwnNames, Addendum, Seal, Staging, Unsigned, Signed, Acceptance, Dmg, Sidecar,
       Outputs, Stages

(* The types that no stage decides alone. *)
Labels ==
    {"idle", "check", "create", "work", "sealed", "staged", "attached", "packed", "running",
     "rebind", "written", "renamed", "linked", "committed"} \cup Results

ProcessTypes ==
    /\ at \in [Operators -> Outputs]
    /\ pc \in [Operators -> Labels]
    /\ planned \in [Operators -> Versions]
    /\ read \in [Operators -> Versions]
    /\ retain \in [Operators -> BOOLEAN]
    /\ mine \in [Operators -> SUBSET Outputs]

PartTypes == part \in [Outputs -> Operators \cup {"none", "left"}]

ImageTypes ==
    inspection \in {"none", "kept", "mounted"} /\ runtime \in {"none", "kept", "mounted"}

OutputTypes == output \in [Outputs -> [made : Versions, binds : Versions] \cup {Absent}]

-----------------------------------------------------------------------------
(* What the ways to end a stage do to the types.                            *)

LEMMA DropPartsTyped ==
    ASSUME PartTypes, NEW p \in Operators, NEW kept, DropParts(p, kept)
    PROVE  PartTypes'
BY DEF PartTypes, DropParts

LEMMA GotoTyped ==
    ASSUME ProcessTypes, NEW p \in Operators, NEW l \in Labels, Goto(p, l)
    PROVE  ProcessTypes'
BY DEF ProcessTypes, Goto

LEMMA EndTyped ==
    ASSUME ProcessTypes, PartTypes, NEW p \in Operators, NEW kept,
           NEW result \in Results, End(p, result, kept)
    PROVE  ProcessTypes' /\ PartTypes'
<1>1. result \in Labels
  BY DEF Labels
<1> QED BY <1>1, GotoTyped, DropPartsTyped DEF End

LEMMA ForgetTyped ==
    ASSUME ProcessTypes, NEW p \in Operators, Forget(p)
    PROVE  ProcessTypes'
BY Names DEF ProcessTypes, Forget, OwnNames, Labels, Versions

LEMMA ResultsTyped ==
    /\ {"published", "failed", "uncertain", "interrupted"} \subseteq Results
    /\ \A kind : Result(kind) \in Results /\ PublishedResults(kind) \subseteq Results
BY DEF Result, PublishedResults, Results

LEMMA CreatesAndLeavesTyped ==
    ASSUME ProcessTypes, PartTypes, NEW p \in Operators, NEW result \in Results,
           CreatesAndLeaves(p, result)
    PROVE  ProcessTypes' /\ PartTypes'
<1>1. ProcessTypes'
  BY GotoTyped DEF CreatesAndLeaves, Labels
<1>2. PartTypes'
  BY DEF CreatesAndLeaves, PartTypes
<1> QED BY <1>1, <1>2

(* Whatever is raised, and whatever the cleanup leaves, stays within the    *)
(* types.                                                                   *)
StageTypes == ProcessTypes /\ PartTypes /\ OutputTypes /\ ImageTypes

LEMMA EndingTyped ==
    ASSUME StageTypes, NEW p \in Operators, NEW result \in Results, NEW kept,
           End(p, result, kept) \/ CreatesAndLeaves(p, result), output' = output, ImageTypes'
    PROVE  StageTypes'
<1>1. ProcessTypes' /\ PartTypes'
  BY EndTyped, CreatesAndLeavesTyped DEF StageTypes
<1>2. OutputTypes'
  BY DEF StageTypes, OutputTypes, Absent
<1> QED BY <1>1, <1>2 DEF StageTypes

LEMMA RaiseTyped ==
    ASSUME StageTypes, NEW p \in Operators, NEW kind, NEW kept, Raise(p, kind, kept)
    PROVE  StageTypes'
<1> USE ResultsTyped
<1>i. UNCHANGED images => ImageTypes'
  BY DEF StageTypes, ImageTypes, images
<1>1. CASE RaiseChain(p, kind, kept)
  BY <1>1, <1>i, EndingTyped DEF RaiseChain
<1>2. CASE RaiseSealed(p)
  BY <1>2, <1>i, EndingTyped DEF RaiseSealed
<1>3. CASE RaiseDmg(p, kind, kept)
  <2>1. CASE RaiseHelper(p, kind, kept)
    <3>1. ImageTypes'
      BY <2>1, <1>i DEF RaiseHelper, HelperKilled, HelperFails, StageTypes, ImageTypes
    <3> QED BY <2>1, <3>1, EndingTyped DEF RaiseHelper
  <2>2. CASE RaiseRunning(p, kind, kept)
    <3>1. ImageTypes'
      BY <2>2 DEF RaiseRunning, DetachUnproven, RuntimeRootKept, StageTypes, ImageTypes
    <3> QED BY <2>2, <3>1, EndingTyped DEF RaiseRunning, DetachUnproven, RuntimeRootKept
  <2>3. CASE Withdraw(p, kind, kept)
    <3>1. PartTypes' /\ ImageTypes'
      BY <2>3, <1>i, DropPartsTyped DEF Withdraw, StageTypes
    <3>2. OutputTypes'
      BY <2>3 DEF Withdraw, StageTypes, OutputTypes, Absent
    <3>3. ProcessTypes'
      BY <2>3 DEF Withdraw, StageTypes, ProcessTypes, Labels
    <3> QED BY <3>1, <3>2, <3>3 DEF StageTypes
  <2>4. CASE /\ UNCHANGED <<output, images>>
             /\ \E k : \E result \in Results : End(p, result, k) \/ CreatesAndLeaves(p, result)
    BY <2>4, <1>i, EndingTyped
  <2>5. CASE RaiseLinked(p, kind, kept)
    BY <2>3, <2>4, <2>5 DEF RaiseLinked
  <2> QED BY <1>3, <2>1, <2>2, <2>4, <2>5 DEF RaiseDmg
<1>4. CASE RaiseCommitted(p, kind, kept)
  <2>1. UNCHANGED <<output, images>>
    BY <1>4 DEF RaiseCommitted
  <2>2. CASE /\ at' = [at EXCEPT ![p] = Sidecar] /\ pc' = [pc EXCEPT ![p] = "check"]
             /\ retain' = [retain EXCEPT ![p] = TRUE]
             /\ UNCHANGED <<planned, read, mine, part>>
    <3>1. ProcessTypes'
      BY <2>2, Names DEF StageTypes, ProcessTypes, OwnNames, Labels
    <3>2. PartTypes' /\ OutputTypes'
      BY <2>1, <2>2 DEF StageTypes, PartTypes, OutputTypes, Absent
    <3> QED BY <2>1, <1>i, <3>1, <3>2 DEF StageTypes
  <2>3. CASE \E result \in Results : \E k : End(p, result, k) \/ CreatesAndLeaves(p, result)
    BY <2>1, <1>i, <2>3, EndingTyped
  <2> QED BY <1>4, <2>2, <2>3 DEF RaiseCommitted
<1> QED BY <1>1, <1>2, <1>3, <1>4 DEF Raise

-----------------------------------------------------------------------------
LEMMA InitTyped == Init => ReleaseTypeOK
BY Names DEF Init, ReleaseTypeOK, OwnNames, Absent, Versions

LEMMA TypeParts ==
    ReleaseTypeOK <=> /\ StageTypes
                      /\ source \in Versions /\ build \in Versions
                      /\ mishaps \in 0 .. MaxMishaps
BY DEF ReleaseTypeOK, StageTypes, ProcessTypes, PartTypes, OutputTypes, ImageTypes, Labels

(* What a stage reads is there: Absent's app is -1, and every stage refuses *)
(* it.                                                                      *)
LEMMA AppTyped ==
    ASSUME OutputTypes, NEW o \in Outputs, AppOf(o) # -1
    PROVE  AppOf(o) \in Versions
BY DEF OutputTypes, AppOf, Absent

LEMMA PlaceTyped ==
    ASSUME StageTypes, NEW p \in Operators, Place(p)
    PROVE  StageTypes'
<1>1. ProcessTypes'
  <2>1. mine' \in [Operators -> SUBSET Outputs]
    BY DEF Place, StageTypes, ProcessTypes
  <2>2. pc' = [pc EXCEPT ![p] = "linked"] \/ pc' = [pc EXCEPT ![p] = "renamed"]
    BY DEF Place
  <2> QED BY <2>1, <2>2 DEF Place, StageTypes, ProcessTypes, Labels
<1>2. PartTypes'
  <2>1. part' = part \/ part' = [part EXCEPT ![at[p]] = "none"]
    BY DEF Place
  <2> QED BY <2>1 DEF StageTypes, PartTypes
<1>3. OutputTypes'
  <2>1. read[p] \in Versions /\ planned[p] \in Versions
    BY DEF StageTypes, ProcessTypes
  <2>2. [made |-> read[p], binds |-> planned[p]] \in [made : Versions, binds : Versions]
    BY <2>1
  <2> QED BY <2>2 DEF Place, StageTypes, OutputTypes
<1>4. ImageTypes'
  BY DEF Place, images, StageTypes, ImageTypes
<1> QED BY <1>1, <1>2, <1>3, <1>4 DEF StageTypes

LEMMA ReadsTyped ==
    ASSUME StageTypes, NEW p \in Operators, NEW v, v # -1 => v \in Versions, NEW compared,
           NEW next \in Labels, Reads(p, v, compared, next)
    PROVE  StageTypes'
<1>1. CASE /\ v # -1
           /\ read' = [read EXCEPT ![p] = v]
           /\ pc' = [pc EXCEPT ![p] = next]
           /\ UNCHANGED <<at, planned, retain, mine, output, part, images>>
  BY <1>1 DEF StageTypes, ProcessTypes, PartTypes, OutputTypes, ImageTypes, images, Absent
<1>2. CASE Raise(p, "error", {})
  BY <1>2, RaiseTyped
<1> QED BY <1>1, <1>2 DEF Reads

LEMMA DmgStepTyped ==
    ASSUME StageTypes, NEW p \in Operators, DmgStep(p)
    PROVE  StageTypes'
<1>r. ASSUME Raise(p, "error", {}) PROVE StageTypes'
  BY <1>r, RaiseTyped
<1>g. ASSUME NEW l \in Labels, Goto(p, l), UNCHANGED <<output, part>>, ImageTypes'
      PROVE  StageTypes'
  BY <1>g, GotoTyped DEF StageTypes, PartTypes, OutputTypes, Absent
<1>i. UNCHANGED images => ImageTypes'
  BY DEF StageTypes, ImageTypes, images
<1>1. CASE StageApp(p)
  <2>1. CASE /\ AppOf(Signed) # -1
             /\ read' = [read EXCEPT ![p] = AppOf(Signed)]
             /\ pc' = [pc EXCEPT ![p] = "staged"]
             /\ inspection' = "kept"
             /\ UNCHANGED <<at, planned, retain, mine, output, part, runtime>>
    <3>1. AppOf(Signed) \in Versions
      BY <2>1, AppTyped, Names DEF StageTypes, OwnNames
    <3>2. ProcessTypes' /\ ImageTypes'
      BY <2>1, <3>1 DEF StageTypes, ProcessTypes, Labels, ImageTypes
    <3>3. PartTypes' /\ OutputTypes'
      BY <2>1 DEF StageTypes, PartTypes, OutputTypes, Absent
    <3> QED BY <3>2, <3>3 DEF StageTypes
  <2> QED BY <1>1, <2>1, <1>r DEF StageApp
<1>2. CASE AttachImage(p) \/ InspectImage(p) \/ AttachFinal(p) \/ DetachFinal(p)
  <2>1. ImageTypes'
    BY <1>2 DEF AttachImage, InspectImage, AttachFinal, DetachFinal, StageTypes, ImageTypes
  <2>2. UNCHANGED <<output, part>>
    BY <1>2 DEF AttachImage, InspectImage, AttachFinal, DetachFinal
  <2>3. \E l \in Labels : Goto(p, l)
    BY <1>2 DEF AttachImage, InspectImage, AttachFinal, DetachFinal, Labels
  <2> QED BY <2>1, <2>2, <2>3, <1>g
<1>3. CASE Rebind(p)
  BY <1>3, <1>r, <1>g, <1>i DEF Rebind, Labels
<1>4. CASE CommitDmg(p)
  BY <1>4, <1>g, <1>i DEF CommitDmg, Labels
<1>5. CASE DropCandidate(p)
  <2>1. ProcessTypes'
    BY <1>5, Names DEF DropCandidate, StageTypes, ProcessTypes, OwnNames, Labels
  <2> QED BY <1>5, <2>1, <1>i DEF DropCandidate, StageTypes, PartTypes, OutputTypes, Absent
<1> QED BY <1>1, <1>2, <1>3, <1>4, <1>5 DEF DmgStep

LEMMA StepTyped ==
    ASSUME ReleaseTypeOK, NEW p \in Operators, Step(p)
    PROVE  ReleaseTypeOK'
<1>t. StageTypes
  BY TypeParts
<1>0. source' = source /\ build' = build /\ mishaps' = mishaps
  BY DEF Step, CheckAbsent, Create, StageApps, Universalize, CreateSnapshot, SignApp, RunApp,
         Reads, DmgStep, StageApp, AttachImage, InspectImage, AttachFinal, DetachFinal, Rebind,
         CommitDmg, DropCandidate, Publish, Finish, Exit, tree
<1> SUFFICES StageTypes'
  BY <1>0, TypeParts DEF ReleaseTypeOK, StageTypes, ProcessTypes, PartTypes, OutputTypes,
                         ImageTypes, Labels
<1>r. ASSUME Raise(p, "error", {}) PROVE StageTypes'
  BY <1>t, <1>r, RaiseTyped
<1>i. UNCHANGED images => ImageTypes'
  BY <1>t DEF StageTypes, ImageTypes, images
<1>1. CASE CheckAbsent(p)
  <2>1. CASE Goto(p, "create") /\ UNCHANGED <<output, part, images>>
    <3>1. ProcessTypes'
      BY <1>t, <2>1, GotoTyped DEF StageTypes, Labels
    <3> QED BY <1>t, <1>i, <2>1, <3>1 DEF StageTypes, PartTypes, OutputTypes, Absent
  <2> QED BY <1>1, <2>1, <1>r DEF CheckAbsent
<1>2. CASE Create(p)
  <2>1. CASE /\ part' = [part EXCEPT ![at[p]] = p]
             /\ Goto(p, IF at[p] \in Directories THEN "work" ELSE "written")
             /\ UNCHANGED <<output, images>>
    <3>1. \E l \in {"work", "written"} : Goto(p, l)
      BY <2>1
    <3>2. ProcessTypes'
      BY <1>t, <3>1, GotoTyped DEF StageTypes, Labels
    <3>3. PartTypes' /\ OutputTypes'
      BY <1>t, <2>1 DEF StageTypes, PartTypes, OutputTypes, Absent
    <3> QED BY <1>i, <2>1, <3>2, <3>3 DEF StageTypes
  <2> QED BY <1>2, <2>1, <1>r DEF Create
<1>3. CASE StageApps(p)
  BY <1>3, <1>t, ReadsTyped DEF StageApps, ReleaseTypeOK, Labels
<1>4. CASE Universalize(p) \/ SignApp(p) \/ RunApp(p)
  <2>1. \A o \in Outputs : AppOf(o) # -1 => AppOf(o) \in Versions
    BY <1>t, AppTyped DEF StageTypes
  <2>2. ASSUME NEW o \in Outputs, NEW compared, NEW l \in Labels, Reads(p, AppOf(o), compared, l)
        PROVE  StageTypes'
    BY <1>t, <2>1, <2>2, ReadsTyped
  <2>3. {Staging, Unsigned, Signed} \subseteq Outputs /\ {"written", "check"} \subseteq Labels
    BY Names DEF OwnNames, Labels
  <2> QED BY <1>4, <2>2, <2>3 DEF Universalize, SignApp, RunApp
<1>5. CASE CreateSnapshot(p)
  <2>1. ProcessTypes'
    BY <1>t, <1>5, GotoTyped DEF CreateSnapshot, StageTypes, Labels
  <2> QED BY <1>t, <1>5, <1>i, <2>1 DEF CreateSnapshot, StageTypes, PartTypes, OutputTypes, Absent
<1>6. CASE DmgStep(p)
  BY <1>t, <1>6, DmgStepTyped
<1>7. CASE Publish(p)
  BY <1>t, <1>7, <1>r, PlaceTyped DEF Publish
<1>8. CASE Finish(p)
  BY <1>t, <1>i, <1>8, ResultsTyped, EndingTyped DEF Finish
<1>9. CASE Exit(p)
  <2>1. ProcessTypes'
    BY <1>t, <1>9, ForgetTyped DEF Exit, StageTypes
  <2> QED BY <1>t, <1>9, <1>i, <2>1 DEF Exit, StageTypes, PartTypes, OutputTypes, Absent
<1> QED BY <1>1, <1>2, <1>3, <1>4, <1>5, <1>6, <1>7, <1>8, <1>9 DEF Step

LEMMA NextTyped ==
    ASSUME ReleaseTypeOK, [Next]_vars
    PROVE  ReleaseTypeOK'
<1>t. StageTypes
  BY TypeParts
<1>s. ASSUME StageTypes', source' \in Versions, build' \in Versions, mishaps' \in 0 .. MaxMishaps
      PROVE  ReleaseTypeOK'
  BY <1>s DEF ReleaseTypeOK, StageTypes, ProcessTypes, PartTypes, OutputTypes, ImageTypes, Labels
<1>u. UNCHANGED process => ProcessTypes'
  BY <1>t DEF process, StageTypes, ProcessTypes
<1>i. UNCHANGED images => ImageTypes'
  BY <1>t DEF StageTypes, ImageTypes, images
<1>1. CASE \E p \in Operators : Step(p)
  BY <1>1, StepTyped
<1>2. ASSUME NEW p \in Operators, Fault(p) PROVE ReleaseTypeOK'
  <2>1. \E kind, kept : Raise(p, kind, kept)
    BY <1>2 DEF Fault
  <2>2. StageTypes'
    BY <1>t, <2>1, RaiseTyped
  <2>3. UNCHANGED tree /\ mishaps' \in 0 .. MaxMishaps
    BY <1>2 DEF Fault, Mishaps, ReleaseTypeOK
  <2> QED BY <2>2, <2>3, <1>s DEF tree, ReleaseTypeOK
<1>3. ASSUME NEW p \in Operators, Crash(p) PROVE ReleaseTypeOK'
  <2>1. ProcessTypes' /\ PartTypes'
    BY <1>t, <1>3, ForgetTyped, DropPartsTyped DEF Crash, StageTypes
  <2>2. OutputTypes' /\ UNCHANGED tree /\ mishaps' \in 0 .. MaxMishaps
    BY <1>t, <1>3 DEF Crash, Mishaps, ReleaseTypeOK, StageTypes, OutputTypes, Absent
  <2> QED BY <1>3, <2>1, <2>2, <1>i, <1>s DEF Crash, tree, ReleaseTypeOK, StageTypes
<1>4. ASSUME NEW p \in Operators, NEW s \in Stages, Start(p, s) PROVE ReleaseTypeOK'
  <2>1. ProcessTypes'
    BY <1>t, <1>4, Names DEF Start, ReleaseTypeOK, StageTypes, ProcessTypes, OwnNames, Labels
  <2>2. PartTypes' /\ OutputTypes'
    BY <1>t, <1>4 DEF Start, StageTypes, PartTypes, OutputTypes, Absent
  <2> QED BY <1>4, <2>1, <2>2, <1>i, <1>s DEF Start, tree, ReleaseTypeOK, StageTypes
<1>5. CASE Edit \/ Rebuild
  <2>1. source' \in Versions /\ build' \in Versions
    BY <1>5 DEF Edit, Rebuild, ReleaseTypeOK, Versions
  <2>2. UNCHANGED <<output, part, process, images, mishaps>>
    BY <1>5 DEF Edit, Rebuild
  <2>3. PartTypes' /\ OutputTypes'
    BY <1>t, <2>2 DEF StageTypes, PartTypes, OutputTypes, Absent
  <2> QED BY <2>1, <2>2, <2>3, <1>u, <1>i, <1>s DEF ReleaseTypeOK, StageTypes
<1>6. ASSUME NEW o \in Outputs, ClearStale(o) \/ ClearPart(o) PROVE ReleaseTypeOK'
  <2>1. OutputTypes' /\ PartTypes'
    BY <1>t, <1>6 DEF ClearStale, ClearPart, StageTypes, OutputTypes, PartTypes, Absent
  <2>2. UNCHANGED <<tree, process, mishaps>>
    BY <1>6 DEF ClearStale, ClearPart
  <2>3. ImageTypes'
    BY <1>t, <1>6, <1>i DEF ClearStale, ClearPart, Detach, ImageTypes
  <2> QED BY <2>1, <2>2, <2>3, <1>u, <1>s DEF ReleaseTypeOK, StageTypes, tree
<1>7. CASE UNCHANGED vars
  <2>1. PartTypes' /\ OutputTypes'
    BY <1>t, <1>7 DEF vars, StageTypes, PartTypes, OutputTypes, Absent
  <2> QED BY <1>7, <2>1, <1>u, <1>i, <1>s DEF vars, tree, ReleaseTypeOK, StageTypes
<1> QED BY <1>1, <1>2, <1>3, <1>4, <1>5, <1>6, <1>7 DEF Next

(* All variables have their types in every reachable state.                 *)
THEOREM ReleaseTypes == Spec => []ReleaseTypeOK
<1>1. ReleaseTypeOK /\ [Next]_vars => ReleaseTypeOK'
  BY NextTyped
<1> QED BY <1>1, InitTyped, PTL DEF Spec

-----------------------------------------------------------------------------
(* A process between the link of a DMG and its commit has published it.     *)
LinkedOwns == \A p \in Operators : pc[p] = "linked" => Dmg \in mine[p]

(* The labels that only the DMG's stage reaches, before there is a DMG. *)
ImageLabels == {"staged", "attached", "packed", "running"}

ImageIsDmg == \A p \in Operators : pc[p] \in ImageLabels => at[p] = Dmg

(* That stage owns the private root it works in.                            *)
RootHeld ==
    \A p \in Operators : pc[p] \in ImageLabels \cup {"work"} /\ at[p] = Dmg => part[Dmg] = p

(* An attached image is that of the stage that has just attached it, or its *)
(* root is kept.                                                            *)
HeldAt(l) == part[Dmg] = "left" \/ \E p \in Operators : part[Dmg] = p /\ pc[p] = l

MountHeld ==
    /\ inspection = "mounted" => HeldAt("attached")
    /\ runtime = "mounted" => HeldAt("running")

Whereabouts == LinkedOwns /\ ImageIsDmg /\ RootHeld /\ MountHeld

Inductive == ReleaseTypeOK /\ Whereabouts

-----------------------------------------------------------------------------
(* What an end of p's stage that something raised does: it withdraws only   *)
(* the DMG it has just linked, its parts go or are left, and where an image *)
(* may still be attached the DMG's root is left.                            *)
PartsGo(p) ==
    \A o \in Outputs : part'[o] # part[o] =>
        part'[o] \in {"none", "left"} /\ part[o] \in {p, "none"}

ImagesKept(p) ==
    \/ part'[Dmg] = "left"
    \/ UNCHANGED images /\ pc[p] \notin {"attached", "running"}
    \/ inspection' = inspection /\ pc[p] = "running" /\ runtime' # "mounted"
    \/ runtime' = runtime /\ pc[p] = "attached" /\ inspection' # "mounted"

RaiseEffect(p) ==
    /\ \E l \in Results \cup {"check"} : pc' = [pc EXCEPT ![p] = l]
    /\ at' = at \/ at' = [at EXCEPT ![p] = Sidecar]
    /\ mine' = mine \/ mine' = [mine EXCEPT ![p] = {}]
    /\ output' = output \/ (pc[p] = "linked" /\ output' = [output EXCEPT ![Dmg] = Absent])
    /\ PartsGo(p)
    /\ ImagesKept(p)

LEMMA Dropped ==
    ASSUME StageTypes, NEW p \in Operators, NEW kept, DropParts(p, kept)
    PROVE  PartsGo(p)
BY DEF DropParts, PartsGo, StageTypes, PartTypes

LEMMA Ended ==
    ASSUME StageTypes, NEW p \in Operators, NEW result \in Results, NEW kept,
           End(p, result, kept) \/ CreatesAndLeaves(p, result), output' = output, ImagesKept(p)
    PROVE  RaiseEffect(p)
<1>1. PartsGo(p)
  <2>1. CASE End(p, result, kept)
    BY <2>1, Dropped DEF End
  <2>2. CASE CreatesAndLeaves(p, result)
    BY <2>2 DEF CreatesAndLeaves, PartsGo, StageTypes, PartTypes
  <2> QED BY <2>1, <2>2
<1>2. Goto(p, result)
  BY DEF End, CreatesAndLeaves
<1> QED BY <1>1, <1>2 DEF RaiseEffect, Goto

LEMMA KeptLeft ==
    ASSUME StageTypes, NEW p \in Operators, part[Dmg] = p, DropParts(p, {Dmg})
    PROVE  part'[Dmg] = "left"
BY Names DEF DropParts, StageTypes, PartTypes, OwnNames

LEMMA Raised ==
    ASSUME Inductive, NEW p \in Operators, NEW kind, NEW kept, Raise(p, kind, kept)
    PROVE  RaiseEffect(p)
<1>t. StageTypes
  BY TypeParts DEF Inductive
<1> USE ResultsTyped
<1>o. pc[p] \in ImageLabels => at[p] = Dmg
  BY DEF Inductive, Whereabouts, ImageIsDmg
<1>h. pc[p] \in ImageLabels \cup {"work"} /\ at[p] = Dmg => part[Dmg] = p
  BY DEF Inductive, Whereabouts, RootHeld
<1>e. ASSUME UNCHANGED <<output, images>>, pc[p] \notin {"attached", "running"},
             \E k : \E result \in Results : End(p, result, k) \/ CreatesAndLeaves(p, result)
      PROVE  RaiseEffect(p)
  BY <1>t, <1>e, Ended DEF ImagesKept
<1>1. CASE RaiseChain(p, kind, kept)
  BY <1>1, <1>e DEF RaiseChain, CreatesAndLeaves
<1>2. CASE RaiseSealed(p)
  BY <1>2, <1>e DEF RaiseSealed
<1>3. CASE RaiseDmg(p, kind, kept) /\ at[p] = Dmg
  <2>1. CASE RaiseHelper(p, kind, kept)
    <3>1. part[Dmg] = p
      BY <1>3, <2>1, <1>h DEF RaiseHelper, ImageLabels
    <3>2. ImagesKept(p)
      BY <1>t, <2>1, <3>1, KeptLeft DEF RaiseHelper, End, ImagesKept
    <3> QED BY <1>t, <2>1, <3>2, Ended DEF RaiseHelper
  <2>2. CASE RaiseRunning(p, kind, kept)
    <3>1. part[Dmg] = p
      BY <1>3, <2>2, <1>h DEF RaiseRunning, ImageLabels
    <3>2. ImagesKept(p)
      BY <1>t, <2>2, <3>1, KeptLeft
         DEF RaiseRunning, DetachUnproven, RuntimeRootKept, End, ImagesKept
    <3>3. \E k : \E result \in Results : End(p, result, k)
      BY <2>2 DEF RaiseRunning, DetachUnproven, RuntimeRootKept
    <3> QED BY <1>t, <2>2, <3>2, <3>3, Ended DEF RaiseRunning
  <2>3. CASE pc[p] = "linked" /\ Withdraw(p, kind, kept)
    <3>1. PartsGo(p)
      BY <1>t, <2>3, Dropped DEF Withdraw
    <3> QED BY <2>3, <3>1 DEF Withdraw, RaiseEffect, ImagesKept
  <2>4. CASE RaiseLinked(p, kind, kept)
    BY <2>3, <2>4, <1>e DEF RaiseLinked
  <2>5. CASE /\ pc[p] \in {"check", "create", "work", "packed", "rebind", "written"}
             /\ End(p, Result(kind), kept) /\ UNCHANGED <<output, images>>
    BY <2>5, <1>e
  <2>6. CASE CreatesAndLeaves(p, Result(kind)) /\ UNCHANGED <<output, images>>
    BY <2>6, <1>e DEF CreatesAndLeaves
  <2> QED BY <1>3, <2>1, <2>2, <2>4, <2>5, <2>6 DEF RaiseDmg
<1>4. CASE RaiseCommitted(p, kind, kept) /\ (pc[p] = "committed" \/ at[p] = Sidecar)
  <2>1. pc[p] \notin {"attached", "running"}
    BY <1>4, <1>o, Names DEF ImageLabels, OwnNames
  <2>2. CASE /\ at' = [at EXCEPT ![p] = Sidecar] /\ pc' = [pc EXCEPT ![p] = "check"]
             /\ UNCHANGED <<mine, part, output, images>>
    BY <2>1, <2>2 DEF RaiseEffect, PartsGo, ImagesKept
  <2>3. CASE /\ UNCHANGED <<output, images>>
             /\ \E k : \E result \in Results : End(p, result, k) \/ CreatesAndLeaves(p, result)
    BY <2>1, <2>3, <1>e
  <2> QED BY <1>4, <2>2, <2>3 DEF RaiseCommitted
<1> QED BY <1>1, <1>2, <1>3, <1>4 DEF Raise

LEMMA EffectKeeps ==
    ASSUME Inductive, NEW p \in Operators, RaiseEffect(p)
    PROVE  Whereabouts'
<1> USE DEF Inductive, ReleaseTypeOK
<1>0. Dmg \in Outputs /\ "none" \notin Operators /\ "left" \notin Operators
  BY Names DEF OwnNames
<1>1. PICK l \in Results \cup {"check"} : pc' = [pc EXCEPT ![p] = l]
  BY DEF RaiseEffect
<1>2. l \notin ImageLabels \cup {"work", "linked"}
  BY DEF Results, ImageLabels
<1>3. \A q \in Operators \ {p} : pc'[q] = pc[q] /\ at'[q] = at[q] /\ mine'[q] = mine[q]
  BY <1>1 DEF RaiseEffect
<1>4. pc'[p] = l
  BY <1>1
<1>5. /\ part[Dmg] = "left" => part'[Dmg] = "left"
      /\ \A q \in Operators \ {p} : part[Dmg] = q => part'[Dmg] = q
  BY <1>0 DEF RaiseEffect, PartsGo
<1>6. LinkedOwns' /\ ImageIsDmg'
  BY <1>2, <1>3, <1>4 DEF Whereabouts, LinkedOwns, ImageIsDmg
<1>7. RootHeld'
  <2> SUFFICES ASSUME NEW q \in Operators, pc'[q] \in ImageLabels \cup {"work"}, at'[q] = Dmg
               PROVE  part'[Dmg] = q
    BY DEF RootHeld
  <2>1. q # p /\ part[Dmg] = q
    BY <1>2, <1>3, <1>4 DEF Whereabouts, RootHeld
  <2> QED BY <2>1, <1>5
<1>8. MountHeld'
  <2>1. CASE part'[Dmg] = "left"
    BY <2>1 DEF MountHeld, HeldAt
  <2>2. ASSUME NEW m, HeldAt(m), pc[p] # m PROVE HeldAt(m)'
    BY <2>2, <1>3, <1>5 DEF HeldAt
  <2>3. CASE ~(part'[Dmg] = "left")
    BY <2>2, <2>3 DEF RaiseEffect, ImagesKept, MountHeld, Whereabouts, images
  <2> QED BY <2>1, <2>3
<1> QED BY <1>6, <1>7, <1>8 DEF Whereabouts

(* A step of p that touches neither the DMG's part nor the images, and      *)
(* leaves p clear of the image's labels.                                    *)
LEMMA ApartKeeps ==
    ASSUME Inductive, NEW p \in Operators, NEW l,
           l \notin ImageLabels \cup {"work", "linked"},
           pc[p] \notin {"attached", "running"},
           pc' = [pc EXCEPT ![p] = l],
           \A q \in Operators \ {p} : at'[q] = at[q] /\ mine'[q] = mine[q],
           UNCHANGED <<part[Dmg], images>>
    PROVE  Whereabouts'
<1> USE DEF Inductive, ReleaseTypeOK
<1>1. \A q \in Operators \ {p} : pc'[q] = pc[q]
  OBVIOUS
<1>2. pc'[p] = l
  OBVIOUS
<1>3. LinkedOwns' /\ ImageIsDmg' /\ RootHeld'
  BY <1>1, <1>2 DEF Whereabouts, LinkedOwns, ImageIsDmg, RootHeld
<1>4. ASSUME NEW m, HeldAt(m), pc[p] # m PROVE HeldAt(m)'
  BY <1>1, <1>4 DEF HeldAt
<1>5. MountHeld'
  BY <1>4 DEF Whereabouts, MountHeld, images
<1> QED BY <1>3, <1>5 DEF Whereabouts

LEMMA PlaceKeeps ==
    ASSUME Inductive, NEW p \in Operators, pc[p] = "written", Place(p)
    PROVE  Whereabouts'
<1> USE DEF Inductive, ReleaseTypeOK
<1>1. UNCHANGED <<part[Dmg], images>> /\ at' = at
  BY Names DEF Place, OwnNames
<1>2. mine' = [mine EXCEPT ![p] = @ \cup {at[p]}]
  BY DEF Place
<1>3. CASE at[p] # Dmg
  BY <1>1, <1>2, <1>3, ApartKeeps DEF Place, ImageLabels
<1>4. CASE at[p] = Dmg
  <2>1. pc' = [pc EXCEPT ![p] = "linked"]
    BY <1>4 DEF Place
  <2>2. \A q \in Operators \ {p} : pc'[q] = pc[q] /\ mine'[q] = mine[q]
    BY <1>2, <2>1
  <2>3. pc'[p] = "linked" /\ Dmg \in mine'[p]
    BY <1>2, <1>4, <2>1
  <2>4. LinkedOwns' /\ ImageIsDmg' /\ RootHeld'
    BY <1>1, <2>2, <2>3 DEF Whereabouts, LinkedOwns, ImageIsDmg, RootHeld, ImageLabels
  <2>5. MountHeld'
    BY <1>1, <2>2 DEF Whereabouts, MountHeld, HeldAt, images
  <2> QED BY <2>4, <2>5 DEF Whereabouts
<1> QED BY <1>3, <1>4

LEMMA CreateKeeps ==
    ASSUME Inductive, NEW p \in Operators, Create(p)
    PROVE  Whereabouts'
<1> USE DEF Inductive, ReleaseTypeOK
<1>1. CASE Raise(p, "error", {})
  BY <1>1, Raised, EffectKeeps
<1>2. CASE /\ part[at[p]] = "none"
           /\ part' = [part EXCEPT ![at[p]] = p]
           /\ Goto(p, IF at[p] \in Directories THEN "work" ELSE "written")
           /\ UNCHANGED <<output, images>>
  <2>1. pc[p] = "create" /\ at' = at /\ mine' = mine
    BY <1>2 DEF Create, Goto
  <2>2. PICK l \in {"work", "written"} : pc' = [pc EXCEPT ![p] = l]
    BY <1>2 DEF Goto
  <2>3. \A q \in Operators \ {p} : pc'[q] = pc[q]
    BY <2>2
  <2>4. pc'[p] = l
    BY <2>2
  <2>5. LinkedOwns' /\ ImageIsDmg'
    BY <2>1, <2>3, <2>4 DEF Whereabouts, LinkedOwns, ImageIsDmg, ImageLabels
  <2>6. at[p] = Dmg => part[Dmg] = "none" /\ part'[Dmg] = p
    BY <1>2
  <2>7. at[p] # Dmg => part'[Dmg] = part[Dmg]
    BY <1>2, Names DEF OwnNames
  <2>8. RootHeld'
    BY <2>1, <2>3, <2>4, <2>6, <2>7 DEF Whereabouts, RootHeld, ImageLabels
  <2>9. MountHeld'
    BY <1>2, <2>1, <2>3, <2>6, <2>7 DEF Whereabouts, MountHeld, HeldAt, images
  <2> QED BY <2>5, <2>8, <2>9 DEF Whereabouts
<1> QED BY <1>1, <1>2 DEF Create

LEMMA DmgStepKeeps ==
    ASSUME Inductive, NEW p \in Operators, DmgStep(p)
    PROVE  Whereabouts'
<1> USE DEF Inductive, ReleaseTypeOK
<1>r. ASSUME Raise(p, "error", {}) PROVE Whereabouts'
  BY <1>r, Raised, EffectKeeps
<1>i. ASSUME NEW l \in ImageLabels, pc' = [pc EXCEPT ![p] = l], UNCHANGED <<at, mine, part>>,
             at[p] = Dmg, pc[p] \in ImageLabels \cup {"work"},
             inspection' = "mounted" => l = "attached",
             runtime' = "mounted" => l = "running"
      PROVE  Whereabouts'
  <2>1. \A q \in Operators \ {p} : pc'[q] = pc[q]
    BY <1>i
  <2>2. pc'[p] = l
    BY <1>i
  <2>3. part[Dmg] = p
    BY <1>i DEF Whereabouts, RootHeld
  <2>4. LinkedOwns' /\ ImageIsDmg' /\ RootHeld'
    BY <1>i, <2>1, <2>2, <2>3
       DEF Whereabouts, LinkedOwns, ImageIsDmg, RootHeld, ImageLabels
  <2>5. MountHeld'
    BY <1>i, <2>2, <2>3 DEF MountHeld, HeldAt
  <2> QED BY <2>4, <2>5 DEF Whereabouts
<1>m. ASSUME pc[p] \in ImageLabels \cup {"work"}, at[p] = Dmg
      PROVE  /\ inspection = "mounted" => pc[p] = "attached"
             /\ runtime = "mounted" => pc[p] = "running"
  BY <1>m DEF Whereabouts, RootHeld, MountHeld, HeldAt
<1>d. pc[p] \in ImageLabels => at[p] = Dmg
  BY DEF Whereabouts, ImageIsDmg
<1>1. CASE StageApp(p)
  <2>1. CASE /\ pc' = [pc EXCEPT ![p] = "staged"]
             /\ inspection' = "kept"
             /\ UNCHANGED <<at, mine, part, runtime>>
    BY <1>1, <2>1, <1>i, <1>m DEF StageApp, ImageLabels
  <2> QED BY <1>1, <2>1, <1>r DEF StageApp
<1>2. CASE AttachImage(p)
  BY <1>2, <1>i, <1>m, <1>d DEF AttachImage, Goto, ImageLabels
<1>3. CASE InspectImage(p)
  BY <1>3, <1>i, <1>m, <1>d DEF InspectImage, Goto, ImageLabels
<1>4. CASE AttachFinal(p)
  BY <1>4, <1>i, <1>m, <1>d DEF AttachFinal, Goto, ImageLabels
<1>5. CASE DetachFinal(p)
  <2>1. pc[p] = "running" /\ pc' = [pc EXCEPT ![p] = "rebind"] /\ UNCHANGED <<at, mine, part>>
    BY <1>5 DEF DetachFinal, Goto
  <2>2. \A q \in Operators \ {p} : pc'[q] = pc[q]
    BY <2>1
  <2>3. pc'[p] = "rebind"
    BY <2>1
  <2>4. inspection' # "mounted" /\ runtime' # "mounted"
    BY <1>5, <2>1, <1>m, <1>d DEF DetachFinal, ImageLabels
  <2> QED BY <2>1, <2>2, <2>3, <2>4
          DEF Whereabouts, LinkedOwns, ImageIsDmg, RootHeld, MountHeld, ImageLabels
<1>6. CASE Rebind(p)
  <2>1. CASE Goto(p, "written") /\ UNCHANGED <<output, part, images>>
    BY <1>6, <2>1, ApartKeeps DEF Rebind, Goto, ImageLabels
  <2> QED BY <1>6, <2>1, <1>r DEF Rebind
<1>7. CASE CommitDmg(p)
  BY <1>7, ApartKeeps DEF CommitDmg, Goto, ImageLabels
<1>8. CASE DropCandidate(p)
  BY <1>8, ApartKeeps DEF DropCandidate, ImageLabels
<1> QED BY <1>1, <1>2, <1>3, <1>4, <1>5, <1>6, <1>7, <1>8 DEF DmgStep

LEMMA StepKeeps ==
    ASSUME Inductive, NEW p \in Operators, Step(p)
    PROVE  Whereabouts'
<1> USE DEF Inductive, ReleaseTypeOK
<1>r. ASSUME Raise(p, "error", {}) PROVE Whereabouts'
  BY <1>r, Raised, EffectKeeps
<1>n. ASSUME NEW v, NEW compared, NEW l \in {"written", "check"}, Reads(p, v, compared, l),
             pc[p] \in {"work", "sealed"}
      PROVE  Whereabouts'
  <2>1. CASE /\ pc' = [pc EXCEPT ![p] = l]
             /\ UNCHANGED <<at, planned, retain, mine, output, part, images>>
    BY <2>1, <1>n, ApartKeeps DEF ImageLabels
  <2> QED BY <2>1, <1>n, <1>r DEF Reads
<1>1. CASE CheckAbsent(p)
  <2>1. CASE Goto(p, "create") /\ UNCHANGED <<output, part, images>>
    BY <1>1, <2>1, ApartKeeps DEF CheckAbsent, Goto, ImageLabels
  <2> QED BY <1>1, <2>1, <1>r DEF CheckAbsent
<1>2. CASE Create(p)
  BY <1>2, CreateKeeps
<1>3. CASE StageApps(p) \/ Universalize(p) \/ SignApp(p) \/ RunApp(p)
  BY <1>3, <1>n DEF StageApps, Universalize, SignApp, RunApp
<1>4. CASE CreateSnapshot(p)
  BY <1>4, ApartKeeps DEF CreateSnapshot, Goto, ImageLabels
<1>5. CASE DmgStep(p)
  BY <1>5, DmgStepKeeps
<1>6. CASE Publish(p)
  BY <1>6, <1>r, PlaceKeeps DEF Publish
<1>7. CASE Finish(p)
  <2>1. CASE part[Dmg] # p
    <3>1. part'[Dmg] = part[Dmg]
      BY <1>7, <2>1, Names DEF Finish, End, DropParts, OwnNames
    <3> QED BY <1>7, <3>1, ApartKeeps DEF Finish, End, Goto, ImageLabels
  <2>2. CASE part[Dmg] = p
    <3>1. pc[p] = "renamed" /\ pc' = [pc EXCEPT ![p] = "published"]
          /\ UNCHANGED <<at, mine, images>> /\ DropParts(p, Retained(p))
      BY <1>7 DEF Finish, End, Goto
    <3>2. inspection # "mounted" /\ runtime # "mounted"
      BY <2>2, <3>1 DEF Whereabouts, MountHeld, HeldAt
    <3>3. \A q \in Operators \ {p} : pc'[q] = pc[q]
      BY <3>1
    <3>4. pc'[p] = "published"
      BY <3>1
    <3>5. \A q \in Operators \ {p} : part[Dmg] # q
      BY <2>2
    <3>6. LinkedOwns' /\ ImageIsDmg'
      BY <3>1, <3>3, <3>4 DEF Whereabouts, LinkedOwns, ImageIsDmg, ImageLabels
    <3>7. RootHeld'
      BY <3>1, <3>3, <3>4, <3>5 DEF Whereabouts, RootHeld, ImageLabels
    <3>8. MountHeld'
      BY <3>1, <3>2 DEF MountHeld, images
    <3> QED BY <3>6, <3>7, <3>8 DEF Whereabouts
  <2> QED BY <2>1, <2>2
<1>8. CASE Exit(p)
  BY <1>8, ApartKeeps DEF Exit, Forget, Results, ImageLabels
<1> QED BY <1>1, <1>2, <1>3, <1>4, <1>5, <1>6, <1>7, <1>8 DEF Step

LEMMA NextKeeps ==
    ASSUME Inductive, [Next]_vars
    PROVE  Whereabouts'
<1> USE DEF Inductive, ReleaseTypeOK
<1>1. CASE \E p \in Operators : Step(p)
  BY <1>1, StepKeeps
<1>2. CASE \E p \in Operators : Fault(p)
  <2>1. PICK p \in Operators : \E kind, kept : Raise(p, kind, kept)
    BY <1>2 DEF Fault
  <2> QED BY <2>1, Raised, EffectKeeps
<1>3. ASSUME NEW p \in Operators, Crash(p) PROVE Whereabouts'
  <2>1. \A q \in Operators \ {p} : pc'[q] = pc[q] /\ at'[q] = at[q] /\ mine'[q] = mine[q]
    BY <1>3 DEF Crash, Forget
  <2>2. pc'[p] = "idle"
    BY <1>3 DEF Crash, Forget
  <2>3. /\ part'[Dmg] = IF part[Dmg] = p THEN "left" ELSE part[Dmg]
        /\ UNCHANGED images
    BY <1>3, Names DEF Crash, DropParts, OwnNames
  <2>4. LinkedOwns' /\ ImageIsDmg' /\ RootHeld'
    BY <2>1, <2>2, <2>3 DEF Whereabouts, LinkedOwns, ImageIsDmg, RootHeld, ImageLabels
  <2>5. MountHeld'
    BY <2>1, <2>3 DEF Whereabouts, MountHeld, HeldAt, images
  <2> QED BY <2>4, <2>5 DEF Whereabouts
<1>4. ASSUME NEW p \in Operators, NEW s \in Stages, Start(p, s) PROVE Whereabouts'
  <2>1. pc[p] = "idle" /\ at' = [at EXCEPT ![p] = s] /\ UNCHANGED <<mine, part, images>>
    BY <1>4 DEF Start
  <2>2. CASE s = Acceptance
    <3>1. pc' = [pc EXCEPT ![p] = "work"] /\ at'[p] # Dmg
      BY <1>4, <2>1, <2>2, Names DEF Start, OwnNames
    <3>2. \A q \in Operators \ {p} : pc'[q] = pc[q] /\ at'[q] = at[q]
      BY <2>1, <3>1
    <3>3. pc'[p] = "work"
      BY <3>1
    <3>4. LinkedOwns' /\ ImageIsDmg' /\ RootHeld'
      BY <2>1, <3>1, <3>2, <3>3 DEF Whereabouts, LinkedOwns, ImageIsDmg, RootHeld, ImageLabels
    <3>5. MountHeld'
      BY <2>1, <3>2 DEF Whereabouts, MountHeld, HeldAt, images
    <3> QED BY <3>4, <3>5 DEF Whereabouts
  <2>3. CASE s # Acceptance
    BY <1>4, <2>1, <2>3, ApartKeeps DEF Start, ImageLabels
  <2> QED BY <2>2, <2>3
<1>5. CASE UNCHANGED <<process, part, images>>
  <2>1. LinkedOwns' /\ ImageIsDmg' /\ RootHeld' /\ MountHeld'
    BY <1>5 DEF process, images, Whereabouts, LinkedOwns, ImageIsDmg, RootHeld, MountHeld, HeldAt
  <2> QED BY <2>1 DEF Whereabouts
<1>6. ASSUME NEW o \in Outputs, ClearStale(o) \/ ClearPart(o) PROVE Whereabouts'
  <2>1. UNCHANGED process /\ Idle(o)
    BY <1>6 DEF ClearStale, ClearPart
  <2>2. /\ LinkedOwns' /\ ImageIsDmg'
        /\ part'[Dmg] # part[Dmg] => Dmg \in Extent(o) /\ part'[Dmg] = "none"
    BY <1>6, <2>1, Names
       DEF ClearStale, ClearPart, process, Whereabouts, LinkedOwns, ImageIsDmg, Extent, OwnNames
  <2>3. RootHeld'
    <3> SUFFICES ASSUME NEW p \in Operators, pc[p] \in ImageLabels \cup {"work"}, at[p] = Dmg
                 PROVE  part'[Dmg] = p
      BY <2>1 DEF RootHeld, process
    <3>1. Dmg \notin Extent(o)
      BY <2>1 DEF Idle, ImageLabels
    <3> QED BY <2>2, <3>1 DEF Whereabouts, RootHeld
  <2> SUFFICES MountHeld'
    BY <2>2, <2>3 DEF Whereabouts
  <2>4. CASE Dmg \in Extent(o) /\ inspection' # "mounted" /\ runtime' # "mounted"
    BY <2>4 DEF MountHeld
  <2>5. CASE part'[Dmg] = part[Dmg] /\ UNCHANGED images
    BY <2>1, <2>5 DEF Whereabouts, MountHeld, HeldAt, images, process
  <2>6. CASE o \in {Dmg, Sidecar} /\ ClearStale(o)
    BY <2>4, <2>6 DEF ClearStale, Detach, Extent
  <2>7. CASE o = Dmg /\ ClearPart(o)
    BY <2>4, <2>7 DEF ClearPart, Detach, Extent
  <2>8. CASE o \notin {Dmg, Sidecar} /\ ClearStale(o)
    <3>1. Dmg \notin Extent(o) /\ UNCHANGED images
      BY <2>8, Names DEF ClearStale, Detach, Extent, OwnNames
    <3> QED BY <2>2, <2>5, <3>1
  <2>9. CASE o # Dmg /\ ClearPart(o)
    <3>1. part'[Dmg] = part[Dmg] /\ UNCHANGED images
      BY <2>9, Names DEF ClearPart, Detach, OwnNames
    <3> QED BY <2>5, <3>1
  <2> QED BY <1>6, <2>6, <2>7, <2>8, <2>9
<1> QED BY <1>1, <1>2, <1>3, <1>4, <1>5, <1>6 DEF Next, vars, Edit, Rebuild

LEMMA InitInductive == Init => Inductive
<1> SUFFICES ASSUME Init PROVE Whereabouts
  BY InitTyped DEF Inductive
<1> QED BY DEF Init, Whereabouts, LinkedOwns, ImageIsDmg, RootHeld, MountHeld, ImageLabels

LEMMA Invariance == Spec => []Inductive
<1>1. Inductive /\ [Next]_vars => Inductive'
  BY NextTyped, NextKeeps DEF Inductive
<1> QED BY <1>1, InitInductive, PTL DEF Spec

(* While an image is attached, the private root it was made in is there.    *)
THEOREM MountsStay == Spec => []MountsAreKept
<1>1. ASSUME Inductive PROVE MountsAreKept
  BY <1>1 DEF Inductive, Whereabouts, MountHeld, HeldAt, MountsAreKept
<1> QED BY <1>1, Invariance, PTL

-----------------------------------------------------------------------------
(* What one step may do to the outputs.                                     *)
Careful ==
    /\ \A p \in Operators : \A o \in mine'[p] \ mine[p] : ~Published(o)
    /\ \A o \in Outputs : Published(o) /\ output'[o] # output[o] =>
         /\ output'[o] = Absent
         /\ \/ \E x \in Outputs : o \in Extent(x) /\ Stale(x)
            \/ o = Dmg /\ \E p \in Operators : o \in mine[p] /\ pc[p] = "linked"

LEMMA RaiseCareful ==
    ASSUME Inductive, NEW p \in Operators, RaiseEffect(p)
    PROVE  Careful
<1> USE DEF Inductive, ReleaseTypeOK
<1>1. \A q \in Operators : mine'[q] \subseteq mine[q]
  BY DEF RaiseEffect
<1>2. CASE output' = output
  BY <1>1, <1>2 DEF Careful
<1>3. CASE pc[p] = "linked" /\ output' = [output EXCEPT ![Dmg] = Absent]
  <2>1. Dmg \in mine[p]
    BY <1>3 DEF Whereabouts, LinkedOwns
  <2>2. \A o \in Outputs : output'[o] # output[o] => o = Dmg /\ output'[o] = Absent
    BY <1>3
  <2> QED BY <1>1, <1>3, <2>1, <2>2 DEF Careful
<1> QED BY <1>2, <1>3 DEF RaiseEffect

LEMMA PlaceCareful ==
    ASSUME Inductive, NEW p \in Operators, ~Published(at[p]), Place(p)
    PROVE  Careful
<1> USE DEF Inductive, ReleaseTypeOK
<1>1. \A q \in Operators : \A o \in mine'[q] \ mine[q] : o = at[p]
  BY DEF Place
<1>2. \A o \in Outputs : output'[o] # output[o] => o = at[p]
  BY DEF Place
<1> QED BY <1>1, <1>2 DEF Careful

(* Nothing published under a final name is replaced by a stage, and it goes *)
(* only by an operator's hand or with the DMG link that the code withdraws. *)
THEOREM NoReplacement == Spec => NothingReplaced
<1>1. ASSUME Inductive, Next PROVE Careful
  <2> USE DEF Inductive, ReleaseTypeOK
  <2>s. ASSUME UNCHANGED output, \A q \in Operators : mine'[q] \subseteq mine[q] PROVE Careful
    BY <2>s DEF Careful
  <2>r. ASSUME NEW p \in Operators, NEW kind, NEW kept, Raise(p, kind, kept) PROVE Careful
    BY <1>1, <2>r, Raised, RaiseCareful
  <2>1. ASSUME NEW p \in Operators, Publish(p) PROVE Careful
    BY <1>1, <2>1, <2>r, PlaceCareful DEF Publish
  <2>2. ASSUME NEW p \in Operators,
               CheckAbsent(p) \/ Create(p) \/ StageApps(p) \/ Universalize(p) \/ CreateSnapshot(p)
                 \/ SignApp(p) \/ RunApp(p)
        PROVE  Careful
    <3>1. (UNCHANGED <<output, mine>>) \/ \E kind, kept : Raise(p, kind, kept)
      BY <2>2 DEF CheckAbsent, Create, StageApps, Universalize, CreateSnapshot, SignApp, RunApp,
                  Reads, Goto
    <3> QED BY <3>1, <2>s, <2>r
  <2>3. ASSUME NEW p \in Operators, DmgStep(p)
        PROVE  Careful
    <3>1. (UNCHANGED <<output, mine>>) \/ \E kind, kept : Raise(p, kind, kept)
      BY <2>3 DEF DmgStep, StageApp, AttachImage, InspectImage, AttachFinal, DetachFinal, Rebind,
                  CommitDmg, DropCandidate, Goto
    <3> QED BY <3>1, <2>s, <2>r
  <2>4. ASSUME NEW p \in Operators, Finish(p) \/ Exit(p) \/ Crash(p)
        PROVE  Careful
    <3>1. UNCHANGED output /\ (mine' = mine \/ mine' = [mine EXCEPT ![p] = {}])
      BY <2>4 DEF Finish, Exit, Crash, Forget, End, Goto
    <3>2. \A q \in Operators : mine'[q] \subseteq mine[q]
      BY <1>1, <3>1
    <3> QED BY <3>1, <3>2, <2>s
  <2>5. ASSUME NEW p \in Operators, Fault(p) PROVE Careful
    BY <2>5, <2>r DEF Fault
  <2>6. CASE Edit \/ Rebuild \/ (\E o \in Outputs : ClearPart(o))
             \/ \E p \in Operators, s \in Stages : Start(p, s)
    <3>1. UNCHANGED <<output, mine>>
      BY <2>6 DEF Edit, Rebuild, ClearPart, Start, process
    <3> QED BY <3>1, <2>s
  <2>7. ASSUME NEW x \in Outputs, ClearStale(x) PROVE Careful
    <3>1. Stale(x) /\ mine' = mine
          /\ \A o \in Outputs : output'[o] # output[o] => o \in Extent(x) /\ output'[o] = Absent
      BY <1>1, <2>7 DEF ClearStale, process
    <3> QED BY <3>1 DEF Careful
  <2> QED BY <1>1, <2>1, <2>2, <2>3, <2>4, <2>5, <2>6, <2>7 DEF Next, Step
<1>2. Inductive /\ [Next]_vars => [Careful]_vars
  BY <1>1
<1> QED BY <1>2, Invariance, PTL DEF Spec, NothingReplaced, Careful

-----------------------------------------------------------------------------
(* What is true of one process.  Where it may be: the labels that belong to *)
(* one stage only.                                                          *)
PlaceOf(p) ==
    /\ pc[p] = "idle" => at[p] = Addendum
    /\ pc[p] = "sealed" => at[p] = Signed
    /\ pc[p] \in {"rebind", "linked", "committed"} => at[p] = Dmg
    /\ pc[p] = "renamed" => at[p] # Dmg
    /\ at[p] = Sidecar => pc[p] \in {"check", "create", "written", "renamed"} \cup Results

(* What it has published, by how far it is.                                 *)
Before == {"idle", "check", "create", "work", "sealed", "staged", "attached", "packed",
           "running", "rebind", "written"}

Whole(p) == OutputsOf(IF at[p] = Sidecar THEN Dmg ELSE at[p])

DeedOf(p) ==
    /\ mine[p] \subseteq Whole(p)
    /\ at[p] = Sidecar => Dmg \in mine[p]
    /\ pc[p] \in Before => mine[p] = IF at[p] = Sidecar THEN {Dmg} ELSE {}
    /\ pc[p] = "renamed" => mine[p] = Whole(p)
    /\ pc[p] \in {"linked", "committed"} => mine[p] = {Dmg}
    /\ pc[p] = "published" => mine[p] = Whole(p)
    /\ pc[p] = "failed" => mine[p] = {}
    /\ pc[p] = "uncertain" => mine[p] # {}

(* What it has read.  The seal, the staging and the acceptance compare it   *)
(* with the plan, the DMG when it rebinds.  Where nothing is compared, and  *)
(* the plan is about the present build, what the stage works on is still    *)
(* there and of that build.                                                 *)
Exact(p) ==
    at[p] \in {Seal, Staging, Acceptance}
      \/ (at[p] = Dmg /\ pc[p] \in {"written", "linked", "committed"})
    => read[p] = planned[p]

SourceOf(s) == IF s = Unsigned THEN Staging ELSE IF s = Signed THEN Unsigned ELSE Signed

Timely(p) ==
    at[p] \in {Unsigned, Signed, Dmg} /\ planned[p] = build =>
        read[p] = build /\ output[SourceOf(at[p])].binds = build

PlanOf(p) == at[p] # Addendum => planned[p] <= build

Local(p) == PlaceOf(p) /\ DeedOf(p) /\ Exact(p) /\ Timely(p) /\ PlanOf(p)

(* What p has published is there, and a DMG is of one process only and of   *)
(* the build it planned.                                                    *)
Stands(p) ==
    /\ \A o \in mine[p] : Published(o)
    /\ \A q \in Operators : Dmg \in mine[p] /\ Dmg \in mine[q] => p = q
    /\ Dmg \in mine[p] => output[Dmg].made = planned[p]
    /\ pc[p] = "linked" => ~Published(Sidecar)

(* What is true of the outputs: nothing binds a build that is still to      *)
(* come, and what binds the present one is made from it.                    *)
Order == build <= source /\ \A o \in Seal .. Sidecar : output[o].binds <= build

Sound == \A o \in Seal .. Acceptance : output[o].binds = build => output[o].made = build

Labelled == Published(Sidecar) => Published(Dmg) /\ output[Dmg].made = output[Sidecar].binds

Truth ==
    /\ \A p \in Operators : Local(p) /\ Stands(p)
    /\ Order /\ Sound /\ Labelled

-----------------------------------------------------------------------------
LEMMA PublishedBinds ==
    ASSUME ReleaseTypeOK, NEW o \in Outputs
    PROVE  Published(o) <=> output[o].binds # -1
BY DEF ReleaseTypeOK, Published, Absent, Versions

(* The chain up to an output binds the present build.                       *)
LEMMA ChainBinds ==
    ASSUME ReleaseTypeOK
    PROVE  /\ SealHolds => output[Seal].binds = build
           /\ StageHolds => SealHolds /\ output[Staging].binds = build
           /\ MergeHolds => StageHolds /\ output[Unsigned].binds = build
           /\ SignHolds => MergeHolds /\ output[Signed].binds = build
           /\ AcceptHolds => SignHolds /\ output[Acceptance].binds = build
<1> USE Names DEF OwnNames
<1>1. SealHolds => output[Seal].binds = build
  BY DEF SealHolds
<1>2. StageHolds => SealHolds /\ output[Staging].binds = build
  BY <1>1 DEF StageHolds, Bound
<1>3. MergeHolds => StageHolds /\ output[Unsigned].binds = build
  BY <1>2 DEF MergeHolds, Bound
<1>4. SignHolds => MergeHolds /\ output[Signed].binds = build
  BY <1>3 DEF SignHolds, Bound
<1>5. AcceptHolds => SignHolds /\ output[Acceptance].binds = build
  BY <1>4 DEF AcceptHolds, Bound
<1> QED BY <1>1, <1>2, <1>3, <1>4, <1>5

(* A step of p that leaves the outputs alone.                               *)
Others(p) ==
    \A q \in Operators \ {p} :
        /\ pc'[q] = pc[q] /\ at'[q] = at[q] /\ mine'[q] = mine[q]
        /\ planned'[q] = planned[q] /\ read'[q] = read[q]

(* The sources of a timely plan survive. *)
SourcesStay ==
    \A o \in {Staging, Unsigned, Signed} : output[o].binds = build => output'[o].binds = build

LEMMA OthersLocal ==
    ASSUME NEW p, \A q \in Operators : Local(q), Others(p), build' = build, SourcesStay
    PROVE  \A q \in Operators \ {p} : Local(q)'
<1> TAKE q \in Operators \ {p}
<1>1. /\ pc'[q] = pc[q] /\ at'[q] = at[q] /\ mine'[q] = mine[q]
      /\ planned'[q] = planned[q] /\ read'[q] = read[q]
  BY DEF Others
<1>2. Local(q)
  OBVIOUS
<1>3. PlaceOf(q)' /\ DeedOf(q)'
  BY <1>1, <1>2 DEF Local, PlaceOf, DeedOf, Whole
<1>4. Exact(q)' /\ PlanOf(q)'
  BY <1>1, <1>2 DEF Local, Exact, PlanOf
<1>5. Timely(q)'
  BY <1>1, <1>2 DEF Local, Timely, SourcesStay, SourceOf
<1> QED BY <1>3, <1>4, <1>5 DEF Local

Quiet(p) ==
    /\ UNCHANGED <<source, build, output>>
    /\ Others(p)
    /\ mine'[p] \subseteq mine[p]
    /\ Dmg \in mine'[p] => planned'[p] = planned[p]
    /\ pc'[p] = "linked" => pc[p] = "linked"

LEMMA QuietKeeps ==
    ASSUME Truth, NEW p \in Operators, Quiet(p), Local(p)'
    PROVE  Truth'
<1>1. \A q \in Operators : Local(q)'
  BY OthersLocal DEF Truth, Quiet, SourcesStay
<1>2. Order' /\ Sound' /\ Labelled'
  BY DEF Truth, Quiet, Order, Sound, Labelled, Published
<1>3. \A q \in Operators : mine'[q] \subseteq mine[q]
  BY DEF Quiet, Others
<1>4. ASSUME NEW q \in Operators PROVE Stands(q)'
  <2>1. Stands(q)
    BY DEF Truth
  <2>2. \A o \in mine'[q] : Published(o)'
    BY <2>1, <1>3 DEF Stands, Published, Quiet
  <2>3. \A r \in Operators : Dmg \in mine'[q] /\ Dmg \in mine'[r] => q = r
    BY <2>1, <1>3 DEF Stands
  <2>4. Dmg \in mine'[q] => output'[Dmg].made = planned'[q]
    BY <2>1, <1>3 DEF Stands, Quiet, Others
  <2>5. pc'[q] = "linked" => ~Published(Sidecar)'
    BY <2>1 DEF Stands, Quiet, Others, Published
  <2> QED BY <2>2, <2>3, <2>4, <2>5 DEF Stands
<1> QED BY <1>1, <1>2, <1>4 DEF Truth

-----------------------------------------------------------------------------
(* p goes from one label to another.                                        *)
LEMMA GotoKeeps ==
    ASSUME Inductive, Truth, NEW p \in Operators, NEW l, Goto(p, l), UNCHANGED <<tree, output>>,
           l # "linked", PlaceOf(p)', DeedOf(p)', Exact(p)'
    PROVE  Truth'
<1>t. pc \in [Operators -> Labels]
  BY DEF Inductive, ReleaseTypeOK, Labels
<1>1. pc'[p] = l /\ UNCHANGED <<at, planned, read, retain, mine>>
  BY <1>t DEF Goto
<1>2. Quiet(p)
  BY <1>1 DEF Quiet, Others, Goto, tree
<1>3. Local(p)
  BY DEF Truth
<1>4. Timely(p)' /\ PlanOf(p)'
  BY <1>1, <1>3 DEF Local, Timely, PlanOf, tree
<1> QED BY <1>2, <1>4, QuietKeeps DEF Local

LEMMA EndKeeps ==
    ASSUME Inductive, Truth, NEW p \in Operators, NEW l \in Results, Goto(p, l),
           UNCHANGED <<tree, output>>,
           l = "published" => mine[p] = Whole(p),
           l = "failed" => mine[p] = {},
           l = "uncertain" => mine[p] # {}
    PROVE  Truth'
<1>t. pc \in [Operators -> Labels]
  BY DEF Inductive, ReleaseTypeOK, Labels
<1>1. pc'[p] = l /\ UNCHANGED <<at, planned, read, retain, mine>>
  BY <1>t DEF Goto
<1>2. Local(p)
  BY DEF Truth
<1>3. PlaceOf(p)'
  BY <1>1, <1>2 DEF Local, PlaceOf, Results
<1>4. DeedOf(p)'
  BY <1>1, <1>2 DEF Local, DeedOf, Results, Before, Whole
<1>5. Exact(p)'
  BY <1>1, <1>2 DEF Local, Exact, Results
<1> QED BY <1>3, <1>4, <1>5, GotoKeeps DEF Results

(* The commit's outcome is known: the receipt's turn.                       *)
LEMMA SidecarKeeps ==
    ASSUME Inductive, Truth, NEW p \in Operators, pc[p] = "committed",
           at' = [at EXCEPT ![p] = Sidecar], pc' = [pc EXCEPT ![p] = "check"],
           UNCHANGED <<tree, output, planned, read, mine>>
    PROVE  Truth'
<1>t. pc \in [Operators -> Labels] /\ at \in [Operators -> Outputs]
  BY DEF Inductive, ReleaseTypeOK, Labels
<1>1. pc'[p] = "check" /\ at'[p] = Sidecar /\ mine'[p] = mine[p] /\ planned'[p] = planned[p]
  BY <1>t
<1>2. Quiet(p)
  BY <1>t, <1>1 DEF Quiet, Others, tree
<1>3. Local(p)
  BY DEF Truth
<1> USE Names DEF OwnNames
<1>4. at[p] = Dmg /\ mine[p] = {Dmg} /\ Whole(p)' = {Dmg, Sidecar}
  BY <1>1, <1>3 DEF Local, PlaceOf, DeedOf, Whole, OutputsOf
<1>5. PlaceOf(p)'
  BY <1>1 DEF PlaceOf
<1>6. DeedOf(p)'
  BY <1>1, <1>4 DEF DeedOf, Before
<1>7. Exact(p)' /\ Timely(p)' /\ PlanOf(p)'
  BY <1>1, <1>3, <1>4 DEF Local, Exact, Timely, PlanOf, tree
<1> QED BY <1>2, <1>5, <1>6, <1>7, QuietKeeps DEF Local

-----------------------------------------------------------------------------
(* The DMG that p has just linked goes again.                               *)
LEMMA WithdrawKeeps ==
    ASSUME Inductive, Truth, NEW p \in Operators, NEW kind, NEW kept,
           pc[p] = "linked", Withdraw(p, kind, kept), UNCHANGED tree
    PROVE  Truth'
<1> USE Names DEF OwnNames
<1>t. /\ pc \in [Operators -> Labels] /\ mine \in [Operators -> SUBSET Outputs]
      /\ output \in [Outputs -> [made : Versions, binds : Versions] \cup {Absent}]
  BY DEF Inductive, ReleaseTypeOK, Labels
<1>0. Local(p) /\ Stands(p) /\ Order /\ Sound
  BY DEF Truth
<1>1. /\ pc'[p] \in {"failed", "interrupted"} /\ mine'[p] = {}
      /\ UNCHANGED <<at, planned, read, source, build>>
  BY <1>t DEF Withdraw, Result, tree
<1>2. at[p] = Dmg /\ Dmg \in mine[p]
  BY <1>0 DEF Local, PlaceOf, DeedOf
<1>3. Others(p)
  BY <1>t DEF Withdraw, Others
<1>4. output'[Dmg] = Absent /\ \A o \in Outputs \ {Dmg} : output'[o] = output[o]
  BY <1>t DEF Withdraw
<1>5. SourcesStay
  BY <1>4 DEF SourcesStay
<1>6. \A q \in Operators \ {p} : Local(q)'
  BY <1>1, <1>3, <1>5, OthersLocal DEF Truth
<1>7. Local(p)'
  <2>1. PlaceOf(p)' /\ DeedOf(p)'
    BY <1>1, <1>2 DEF PlaceOf, DeedOf, Results, Before
  <2>2. Exact(p)' /\ Timely(p)' /\ PlanOf(p)'
    BY <1>0, <1>1, <1>2, <1>4 DEF Local, Exact, Timely, PlanOf, SourceOf
  <2> QED BY <2>1, <2>2 DEF Local
<1>8. ~Published(Sidecar)'
  BY <1>0, <1>4 DEF Stands, Published
<1>9. ASSUME NEW q \in Operators PROVE Stands(q)'
  <2>1. CASE q = p
    BY <1>1, <2>1 DEF Stands
  <2>2. CASE q # p
    <3>1. Stands(q)
      BY DEF Truth
    <3>2. Dmg \notin mine[q] /\ mine[q] \subseteq Outputs
      BY <1>0, <1>2, <1>t, <2>2 DEF Stands
    <3>3. mine'[q] = mine[q] /\ pc'[q] = pc[q]
      BY <1>3, <2>2 DEF Others
    <3> QED BY <1>4, <1>8, <3>1, <3>2, <3>3 DEF Stands, Published
  <2> QED BY <2>1, <2>2
<1>10. Order'
  <2>1. Absent.binds = -1 /\ build \in Nat
    BY DEF Absent, Inductive, ReleaseTypeOK, Versions
  <2> QED BY <1>0, <1>1, <1>4, <2>1 DEF Order
<1>11. Sound' /\ Labelled'
  BY <1>0, <1>1, <1>4, <1>8 DEF Sound, Labelled
<1> QED BY <1>6, <1>7, <1>9, <1>10, <1>11 DEF Truth

LEMMA RaiseKeeps ==
    ASSUME Inductive, Truth, NEW p \in Operators, NEW kind, NEW kept, Running(p),
           Raise(p, kind, kept), UNCHANGED tree
    PROVE  Truth'
<1> USE Names DEF OwnNames
<1>0. Local(p)
  BY DEF Truth
<1>r. Result(kind) \in {"failed", "interrupted"} \cap Results
  BY DEF Result, Results
<1>u. PublishedResults(kind) \subseteq {"uncertain", "interrupted"} \cap Results
  BY DEF PublishedResults, Results
<1>e. ASSUME NEW l \in Results, Goto(p, l), UNCHANGED output,
             l # "published", l = "failed" => mine[p] = {}, l = "uncertain" => mine[p] # {}
      PROVE  Truth'
  BY <1>e, EndKeeps
(* Before anything is published, a stage but the receipt's fails with       *)
(* nothing of its own.                                                      *)
<1>f. pc[p] \in Before /\ at[p] # Sidecar => mine[p] = {}
  BY <1>0 DEF Local, DeedOf
<1>1. CASE at[p] # Sidecar /\ pc[p] # "committed" /\ RaiseChain(p, kind, kept)
  <2>1. CASE pc[p] \in {"check", "create", "work", "sealed", "written"}
             /\ Goto(p, Result(kind)) /\ UNCHANGED output
    BY <1>1, <2>1, <1>e, <1>f, <1>r DEF Before
  <2>2. CASE \E result \in PublishedResults(kind) :
               pc[p] = "renamed" /\ Goto(p, result) /\ UNCHANGED output
    <3>1. mine[p] # {}
      BY <1>0, <1>1, <2>2 DEF Local, DeedOf, Whole, OutputsOf
    <3> QED BY <2>2, <3>1, <1>e, <1>u
  <2> QED BY <1>1, <2>1, <2>2 DEF RaiseChain, CreatesAndLeaves, End
<1>2. CASE at[p] # Sidecar /\ RaiseSealed(p)
  BY <1>2, <1>e, <1>f DEF RaiseSealed, End, Before, Results
<1>3. CASE at[p] # Sidecar /\ pc[p] # "committed" /\ RaiseDmg(p, kind, kept)
  <2>1. CASE /\ pc[p] \in Before
             /\ \E l \in {"failed", "interrupted"} : Goto(p, l)
             /\ UNCHANGED output
    BY <1>3, <2>1, <1>e, <1>f DEF Results
  <2>2. CASE pc[p] \in {"check", "create", "work", "packed", "rebind", "written"}
             /\ End(p, Result(kind), kept) /\ UNCHANGED <<output, images>>
    BY <2>1, <2>2, <1>r DEF End, Before
  <2>3. CASE CreatesAndLeaves(p, Result(kind)) /\ UNCHANGED <<output, images>>
    BY <2>1, <2>3, <1>r DEF CreatesAndLeaves, Before
  <2>4. CASE RaiseHelper(p, kind, kept)
    BY <2>1, <2>4 DEF RaiseHelper, End, Before
  <2>5. CASE RaiseRunning(p, kind, kept)
    BY <2>1, <2>5, <1>r DEF RaiseRunning, DetachUnproven, RuntimeRootKept, End, Before
  <2>6. CASE RaiseLinked(p, kind, kept)
    <3>1. mine[p] # {} /\ pc[p] = "linked"
      BY <1>0, <2>6 DEF Local, DeedOf, RaiseLinked
    <3>2. CASE Withdraw(p, kind, kept)
      BY <3>1, <3>2, WithdrawKeeps
    <3>3. CASE \E l \in {"uncertain", "interrupted"} : Goto(p, l) /\ UNCHANGED output
      BY <3>1, <3>3, <1>e DEF Results
    <3> QED BY <2>6, <3>2, <3>3 DEF RaiseLinked, End
  <2> QED BY <1>3, <2>2, <2>3, <2>4, <2>5, <2>6 DEF RaiseDmg
<1>4. CASE (pc[p] = "committed" \/ at[p] = Sidecar) /\ RaiseCommitted(p, kind, kept)
  <2>1. mine[p] # {}
    BY <1>0, <1>4 DEF Local, DeedOf
  <2>2. CASE /\ pc[p] = "committed"
             /\ at' = [at EXCEPT ![p] = Sidecar] /\ pc' = [pc EXCEPT ![p] = "check"]
             /\ UNCHANGED <<planned, read, mine, output>>
    BY <2>2, SidecarKeeps
  <2>3. CASE \E l \in {"uncertain", "interrupted"} : Goto(p, l) /\ UNCHANGED output
    BY <2>1, <2>3, <1>e DEF Results
  <2>4. CASE /\ at[p] = Sidecar /\ UNCHANGED output
             /\ \E result \in IF pc[p] = "renamed" THEN PublishedResults(kind)
                              ELSE {IF kind = "error" THEN "uncertain" ELSE "interrupted"} :
                  End(p, result, kept \cup Retained(p)) \/ CreatesAndLeaves(p, result)
    <3>1. \E l \in {"uncertain", "interrupted"} : Goto(p, l)
      BY <2>4, <1>u DEF End, CreatesAndLeaves
    <3> QED BY <2>3, <2>4, <3>1
  <2> QED BY <1>4, <2>2, <2>3, <2>4 DEF RaiseCommitted, End
<1> QED BY <1>1, <1>2, <1>3, <1>4 DEF Raise

-----------------------------------------------------------------------------
(* p publishes: what it places was not there, is of the build it planned    *)
(* unless the plan is of an older build, and its receipt says which.        *)
LEMMA PlaceTruth ==
    ASSUME Inductive, Truth, NEW p \in Operators, pc[p] = "written", ~Published(at[p]),
           Place(p), UNCHANGED tree
    PROVE  Truth'
<1> USE Names DEF OwnNames
<1>t. /\ pc \in [Operators -> Labels] /\ mine \in [Operators -> SUBSET Outputs]
      /\ output \in [Outputs -> [made : Versions, binds : Versions] \cup {Absent}]
      /\ at[p] \in Outputs /\ planned[p] \in Versions /\ read[p] \in Versions
      /\ build \in Versions
  BY DEF Inductive, ReleaseTypeOK, Labels
<1>a. Absent.binds = -1 /\ -1 \notin Versions /\ Versions \subseteq Int
  BY DEF Absent, Versions
<1>0. Local(p) /\ Stands(p) /\ Order /\ Sound /\ Labelled
  BY DEF Truth
<1>1. /\ pc'[p] = IF at[p] = Dmg THEN "linked" ELSE "renamed"
      /\ mine'[p] = mine[p] \cup {at[p]}
      /\ UNCHANGED <<at, planned, read, source, build>>
  BY <1>t DEF Place, tree
<1>2. Others(p)
  BY <1>t DEF Place, Others
<1>3. /\ output'[at[p]].made = read[p] /\ output'[at[p]].binds = planned[p]
      /\ Published(at[p])'
      /\ \A o \in Outputs \ {at[p]} : output'[o] = output[o]
  <2>1. /\ output'[at[p]] = [made |-> read[p], binds |-> planned[p]]
        /\ \A o \in Outputs \ {at[p]} : output'[o] = output[o]
    BY <1>t DEF Place
  <2>2. output'[at[p]] # Absent
    BY <2>1, <1>t, <1>a
  <2> QED BY <2>1, <2>2, <1>1 DEF Published
<1>4. output[at[p]].binds # build
  BY <1>t, <1>a DEF Published
<1>5. SourcesStay
  BY <1>3, <1>4 DEF SourcesStay
<1>6. \A q \in Operators \ {p} : Local(q)'
  BY <1>1, <1>2, <1>5, OthersLocal DEF Truth
<1>m. mine[p] = IF at[p] = Sidecar THEN {Dmg} ELSE {}
  BY <1>0 DEF Local, DeedOf, Before
<1>7. Local(p)'
  <2>1. PlaceOf(p)'
    BY <1>1 DEF PlaceOf, Results
  <2>2. mine'[p] = IF at[p] = Sidecar THEN {Dmg, Sidecar} ELSE {at[p]}
    BY <1>1, <1>m
  <2>3. DeedOf(p)'
    BY <1>1, <2>2 DEF DeedOf, Before, Whole, OutputsOf
  <2>4. Exact(p)' /\ PlanOf(p)'
    BY <1>0, <1>1 DEF Local, Exact, PlanOf
  <2>5. Timely(p)'
    BY <1>0, <1>1, <1>5 DEF Local, Timely, SourcesStay, SourceOf
  <2> QED BY <2>1, <2>3, <2>4, <2>5 DEF Local
<1>8. \A o \in Outputs : Published(o) => Published(o)' /\ output'[o] = output[o]
  BY <1>3 DEF Published
<1>d. at[p] = Dmg => read[p] = planned[p]
  BY <1>0 DEF Local, Exact
<1>s. at[p] = Dmg => ~Published(Sidecar)
  BY <1>0 DEF Labelled
<1>9. ASSUME NEW q \in Operators PROVE Stands(q)'
  <2>1. Stands(q) /\ mine[q] \subseteq Outputs
    BY <1>t DEF Truth
  <2>2. /\ mine'[q] \subseteq mine[q] \cup {at[p]} /\ (q # p => mine'[q] = mine[q])
        /\ planned'[q] = planned[q]
    BY <1>1, <1>2 DEF Others
  <2>3. \A o \in mine'[q] : Published(o)'
    <3> SUFFICES ASSUME NEW o \in mine'[q] PROVE Published(o)'
      OBVIOUS
    <3>1. CASE o \in mine[q]
      BY <3>1, <2>1, <1>8 DEF Stands
    <3>2. CASE o \notin mine[q]
      BY <3>2, <2>2, <1>1, <1>3
    <3> QED BY <3>1, <3>2
  <2>4. \A r \in Operators : Dmg \in mine'[q] /\ Dmg \in mine'[r] => q = r
    <3> SUFFICES ASSUME NEW r \in Operators, Dmg \in mine'[q], Dmg \in mine'[r], q # r
                 PROVE  FALSE
      OBVIOUS
    <3>1. CASE at[p] = Dmg
      <4>1. \A x \in Operators : Dmg \notin mine[x]
        BY <3>1 DEF Truth, Stands
      <4> QED BY <4>1, <1>2 DEF Others
    <3>2. CASE at[p] # Dmg
      <4>1. \A x \in Operators : Dmg \in mine'[x] => Dmg \in mine[x]
        BY <3>2, <1>1, <1>2 DEF Others
      <4> QED BY <4>1, <2>1 DEF Stands
    <3> QED BY <3>1, <3>2
  <2>5. Dmg \in mine'[q] => output'[Dmg].made = planned'[q]
    <3>1. CASE Dmg \in mine[q]
      BY <3>1, <2>1, <2>2, <1>8 DEF Stands
    <3>2. CASE Dmg \notin mine[q]
      BY <3>2, <2>2, <1>1, <1>3, <1>d
    <3> QED BY <3>1, <3>2
  <2>6. pc'[q] = "linked" => ~Published(Sidecar)'
    <3>1. CASE q = p
      BY <3>1, <1>1, <1>3, <1>s DEF Published
    <3>2. CASE q # p /\ at[p] # Sidecar
      BY <3>2, <2>1, <1>2, <1>3 DEF Stands, Others, Published
    <3>3. CASE q # p /\ at[p] = Sidecar
      <4>1. Dmg \in mine[p]
        BY <3>3, <1>m
      <4>2. Dmg \notin mine[q]
        BY <3>3, <4>1, <1>0 DEF Stands
      <4>3. pc[q] # "linked"
        BY <4>2 DEF Truth, Local, DeedOf
      <4> QED BY <3>3, <4>3, <1>2 DEF Others
    <3> QED BY <3>1, <3>2, <3>3
  <2> QED BY <2>3, <2>4, <2>5, <2>6 DEF Stands
<1>10. Order'
  <2>1. at[p] \in Seal .. Sidecar => planned[p] <= build
    BY <1>0 DEF Local, PlanOf
  <2> QED BY <1>0, <1>1, <1>3, <2>1 DEF Order
<1>11. Sound'
  <2>1. at[p] \in Seal .. Acceptance /\ planned[p] = build => read[p] = build
    BY <1>0 DEF Local, Timely, Exact
  <2> QED BY <1>0, <1>1, <1>3, <2>1 DEF Sound
<1>12. Labelled'
  <2>1. CASE at[p] = Sidecar
    <3>1. Dmg \in mine[p]
      BY <2>1, <1>m
    <3> QED BY <2>1, <3>1, <1>0, <1>3, <1>8 DEF Stands, Labelled
  <2>2. CASE at[p] = Dmg
    BY <2>2, <1>3, <1>s DEF Labelled, Published
  <2>3. CASE at[p] \notin {Dmg, Sidecar}
    BY <2>3, <1>0, <1>3 DEF Labelled, Published
  <2> QED BY <2>1, <2>2, <2>3
<1> QED BY <1>6, <1>7, <1>9, <1>10, <1>11, <1>12 DEF Truth

(* An operator clears the output of an older build.                         *)
LEMMA ClearTruth ==
    ASSUME Inductive, Truth, NEW x \in Outputs, ClearStale(x)
    PROVE  Truth'
<1> USE Names DEF OwnNames
<1>t. /\ mine \in [Operators -> SUBSET Outputs]
      /\ output \in [Outputs -> [made : Versions, binds : Versions] \cup {Absent}]
      /\ build \in Versions
      /\ \A p \in Operators : at[p] \in Outputs
  BY DEF Inductive, ReleaseTypeOK, Labels
<1>a. Absent.binds = -1 /\ -1 \notin Versions /\ \A b \in Versions : -1 <= b
  BY DEF Absent, Versions
<1>1. UNCHANGED <<source, build, at, pc, planned, read, mine>> /\ Idle(x) /\ Stale(x)
  BY DEF ClearStale, tree, process
<1>2. \A o \in Outputs : output'[o] = IF o \in Extent(x) THEN Absent ELSE output[o]
  BY DEF ClearStale
<1>3. SourcesStay
  <2>1. \A o \in {Staging, Unsigned, Signed} : o \in Extent(x) => x = o
    BY DEF Extent
  <2> QED BY <1>1, <1>2, <2>1 DEF SourcesStay, Stale
<1>4. \A q \in Operators : Local(q)'
  <2>1. \A q \in Operators : Local(q)' <=> /\ PlaceOf(q) /\ DeedOf(q) /\ Exact(q) /\ PlanOf(q)
                                         /\ Timely(q)'
    BY <1>1 DEF Local, PlaceOf, DeedOf, Whole, Exact, PlanOf
  <2>2. \A q \in Operators : Timely(q) => Timely(q)'
    BY <1>1, <1>3 DEF Timely, SourcesStay, SourceOf
  <2> QED BY <2>1, <2>2 DEF Truth, Local
<1>5. ASSUME NEW q \in Operators PROVE \A o \in mine[q] : o \notin Extent(x)
  <2> SUFFICES ASSUME NEW o \in mine[q], o \in Extent(x) PROVE FALSE
    OBVIOUS
  <2>1. Local(q)
    BY DEF Truth
  <2>2. pc[q] # "idle"
    BY <2>1 DEF Local, PlaceOf, DeedOf, Before
  <2>3. o = at[q] \/ (at[q] \in {Dmg, Sidecar} /\ o \in {Dmg, Sidecar})
    BY <2>1 DEF Local, DeedOf, Whole, OutputsOf
  <2>4. at[q] \in Extent(x)
    BY <2>3 DEF Extent
  <2> QED BY <1>1, <2>2, <2>4 DEF Idle
<1>6. ASSUME NEW q \in Operators PROVE Stands(q)'
  BY <1>1, <1>2, <1>5, <1>t DEF Truth, Stands, Published
<1>7. Order'
  <2>1. \A o \in Seal .. Sidecar : output'[o].binds \in {output[o].binds, -1}
    BY <1>2, <1>a
  <2>2. -1 <= build
    BY <1>t, <1>a
  <2> QED BY <1>1, <2>1, <2>2 DEF Truth, Order
<1>8. Sound'
  BY <1>1, <1>2, <1>t, <1>a DEF Truth, Sound
<1>9. Labelled'
  <2>1. Dmg \in Extent(x) <=> Sidecar \in Extent(x)
    BY DEF Extent
  <2> QED BY <1>2, <2>1 DEF Truth, Labelled, Published
<1> QED BY <1>4, <1>6, <1>7, <1>8, <1>9 DEF Truth

-----------------------------------------------------------------------------
(* The process is gone, in whatever state.                                  *)
LEMMA ForgetTruth ==
    ASSUME Inductive, Truth, NEW p \in Operators, Forget(p), UNCHANGED <<tree, output>>
    PROVE  Truth'
<1> USE Names DEF OwnNames
<1>t. ProcessTypes
  BY TypeParts DEF Inductive, StageTypes
<1>1. /\ pc'[p] = "idle" /\ at'[p] = Addendum /\ mine'[p] = {}
      /\ UNCHANGED <<source, build, output>>
  BY <1>t DEF Forget, ProcessTypes, tree
<1>2. Quiet(p)
  BY <1>t, <1>1 DEF Quiet, Others, Forget, ProcessTypes
<1>3. Local(p)'
  BY <1>1 DEF Local, PlaceOf, DeedOf, Exact, Timely, PlanOf, Before
<1> QED BY <1>2, <1>3, QuietKeeps

LEMMA StepTruth ==
    ASSUME Inductive, Truth, NEW p \in Operators, Step(p)
    PROVE  Truth'
<1> USE Names DEF OwnNames
<1>t. /\ pc \in [Operators -> Labels] /\ mine \in [Operators -> SUBSET Outputs]
      /\ read \in [Operators -> Versions]
  BY DEF Inductive, ReleaseTypeOK, Labels
<1>0. Local(p) /\ Order /\ Sound
  BY DEF Truth
<1>r. ASSUME Raise(p, "error", {}), Running(p), UNCHANGED tree PROVE Truth'
  BY <1>r, RaiseKeeps
(* From one label before publication to another.                            *)
<1>g. ASSUME NEW l, Goto(p, l), UNCHANGED <<tree, output>>,
             l \in Before \ {"idle", "sealed", "rebind", "written"},
             pc[p] \in Before, at[p] = Sidecar => l \in {"check", "create"}
      PROVE  Truth'
  <2>1. pc'[p] = l /\ UNCHANGED <<at, planned, read, mine>>
    BY <1>g, <1>t DEF Goto
  <2>2. PlaceOf(p)'
    BY <1>g, <2>1, <1>0 DEF Local, PlaceOf, Before
  <2>3. DeedOf(p)'
    BY <1>g, <2>1, <1>0 DEF Local, DeedOf, Before, Whole
  <2>4. Exact(p)'
    BY <1>g, <2>1, <1>0 DEF Local, Exact, Before
  <2> QED BY <1>g, <2>2, <2>3, <2>4, GotoKeeps DEF Before
(* What a stage reads: of the build it planned where that is the present    *)
(* one, and the plan's where it compares.                                   *)
<1>a. ASSUME NEW b, NEW l \in {"written", "check"}, pc[p] \in {"work", "sealed"},
             at[p] \in {Staging, Acceptance, Unsigned, Signed}, UNCHANGED tree,
             read' = [read EXCEPT ![p] = b], pc' = [pc EXCEPT ![p] = l],
             UNCHANGED <<at, planned, retain, mine, output, part, images>>,
             at[p] \in {Staging, Acceptance} => b = planned[p],
             at[p] \in {Unsigned, Signed} /\ output[SourceOf(at[p])].binds = build => b = build
      PROVE  Truth'
  <2>1. pc'[p] = l /\ read'[p] = b /\ UNCHANGED <<at, planned, mine, output, source, build>>
    BY <1>a, <1>t DEF tree
  <2>2. Quiet(p)
    BY <1>t, <1>a, <2>1 DEF Quiet, Others
  <2>3. PlaceOf(p)'
    BY <1>a, <2>1 DEF PlaceOf
  <2>4. DeedOf(p)'
    BY <1>a, <2>1, <1>0 DEF Local, DeedOf, Before, Whole
  <2>5. Exact(p)'
    BY <1>a, <2>1 DEF Exact
  <2>6. Timely(p)' /\ PlanOf(p)'
    BY <1>a, <2>1, <1>0 DEF Local, Timely, PlanOf
  <2> QED BY <2>2, <2>3, <2>4, <2>5, <2>6, QuietKeeps DEF Local
<1>b. pc[p] \in {"work", "sealed"} => Running(p)
  BY DEF Running, Results
<1>d. pc[p] \in ImageLabels => at[p] = Dmg
  BY DEF Inductive, Whereabouts, ImageIsDmg
<1>1. CASE CheckAbsent(p)
  <2>1. CASE Goto(p, "create") /\ UNCHANGED <<output, part, images>>
    BY <1>1, <2>1, <1>g DEF CheckAbsent, Before
  <2> QED BY <1>1, <2>1, <1>r DEF CheckAbsent, Running, Results
<1>2. CASE Create(p)
  <2>1. CASE /\ Goto(p, IF at[p] \in Directories THEN "work" ELSE "written")
             /\ UNCHANGED <<output, images>>
    <3>1. CASE at[p] \in Directories
      BY <1>2, <2>1, <3>1, <1>g DEF Create, Before, Directories
    <3>2. CASE at[p] \notin Directories
      <4>1. Goto(p, "written") /\ pc[p] = "create" /\ UNCHANGED <<tree, output>>
        BY <1>2, <2>1, <3>2 DEF Create
      <4>2. pc'[p] = "written" /\ UNCHANGED <<at, planned, read, mine>>
        BY <4>1, <1>t DEF Goto
      <4>3. PlaceOf(p)' /\ Exact(p)'
        BY <3>2, <4>1, <4>2, <1>0 DEF Local, PlaceOf, Exact, Directories
      <4>4. DeedOf(p)'
        BY <4>1, <4>2, <1>0 DEF Local, DeedOf, Before, Whole
      <4> QED BY <4>1, <4>3, <4>4, GotoKeeps
    <3> QED BY <3>1, <3>2
  <2> QED BY <1>2, <2>1, <1>r DEF Create, Running, Results
<1>3. CASE StageApps(p)
  BY <1>3, <1>a, <1>b, <1>r DEF StageApps, Reads
<1>4. CASE Universalize(p)
  <2>1. output[Staging].binds = build => AppOf(Staging) = build
    BY <1>0 DEF Sound, AppOf
  <2> QED BY <1>4, <2>1, <1>a, <1>b, <1>r DEF Universalize, Reads, SourceOf
<1>5. CASE SignApp(p)
  <2>1. output[Unsigned].binds = build => AppOf(Unsigned) = build
    BY <1>0 DEF Sound, AppOf
  <2>2. at[p] = Signed
    BY <1>5, <1>0 DEF Local, PlaceOf, SignApp
  <2> QED BY <1>5, <2>1, <2>2, <1>a, <1>b, <1>r DEF SignApp, Reads, SourceOf
<1>6. CASE RunApp(p)
  BY <1>6, <1>a, <1>b, <1>r DEF RunApp, Reads
<1>7. CASE CreateSnapshot(p)
  <2>1. Goto(p, "sealed") /\ pc[p] = "work" /\ at[p] = Signed /\ UNCHANGED <<tree, output>>
    BY <1>7 DEF CreateSnapshot
  <2>2. pc'[p] = "sealed" /\ UNCHANGED <<at, planned, read, mine>>
    BY <2>1, <1>t DEF Goto
  <2>3. PlaceOf(p)' /\ Exact(p)'
    BY <2>1, <2>2 DEF PlaceOf, Exact
  <2>4. DeedOf(p)'
    BY <2>1, <2>2, <1>0 DEF Local, DeedOf, Before, Whole
  <2> QED BY <2>1, <2>3, <2>4, GotoKeeps
<1>8. CASE StageApp(p)
  <2>0. pc[p] = "work" /\ at[p] = Dmg /\ UNCHANGED tree
    BY <1>8 DEF StageApp
  <2>1. CASE /\ read' = [read EXCEPT ![p] = AppOf(Signed)]
             /\ pc' = [pc EXCEPT ![p] = "staged"]
             /\ UNCHANGED <<at, planned, retain, mine, output, part, runtime>>
    <3>1. /\ pc'[p] = "staged" /\ read'[p] = AppOf(Signed)
          /\ UNCHANGED <<at, planned, mine, output, source, build>>
      BY <2>0, <2>1, <1>t DEF tree
    <3>2. Quiet(p)
      BY <1>t, <2>1, <3>1 DEF Quiet, Others
    <3>3. PlaceOf(p)' /\ Exact(p)'
      BY <2>0, <3>1 DEF PlaceOf, Exact
    <3>4. DeedOf(p)'
      BY <2>0, <3>1, <1>0 DEF Local, DeedOf, Before, Whole
    <3>5. Timely(p)' /\ PlanOf(p)'
      BY <2>0, <3>1, <1>0 DEF Local, Timely, PlanOf, Sound, AppOf, SourceOf
    <3> QED BY <3>2, <3>3, <3>4, <3>5, QuietKeeps DEF Local
  <2> QED BY <1>8, <2>0, <2>1, <1>r DEF StageApp, Running, Results
<1>9. CASE AttachImage(p) \/ InspectImage(p) \/ AttachFinal(p)
  <2>1. /\ \E l \in {"attached", "packed", "running"} : Goto(p, l)
        /\ UNCHANGED <<tree, output>> /\ pc[p] \in ImageLabels
    BY <1>9 DEF AttachImage, InspectImage, AttachFinal, ImageLabels
  <2> QED BY <2>1, <1>d, <1>g DEF Before, ImageLabels
<1>10. CASE DetachFinal(p)
  <2>1. Goto(p, "rebind") /\ pc[p] = "running" /\ at[p] = Dmg /\ UNCHANGED <<tree, output>>
    BY <1>10, <1>d DEF DetachFinal, ImageLabels
  <2>2. pc'[p] = "rebind" /\ UNCHANGED <<at, planned, read, mine>>
    BY <2>1, <1>t DEF Goto
  <2>3. PlaceOf(p)' /\ Exact(p)'
    BY <2>1, <2>2 DEF PlaceOf, Exact
  <2>4. DeedOf(p)'
    BY <2>1, <2>2, <1>0 DEF Local, DeedOf, Before, Whole
  <2> QED BY <2>1, <2>3, <2>4, GotoKeeps
<1>11. CASE Rebind(p)
  <2>0. pc[p] = "rebind" /\ at[p] = Dmg /\ UNCHANGED tree
    BY <1>11, <1>0 DEF Local, PlaceOf, Rebind
  <2>1. CASE build = planned[p] /\ Goto(p, "written") /\ UNCHANGED output
    <3>1. pc'[p] = "written" /\ UNCHANGED <<at, planned, read, mine>>
      BY <2>1, <1>t DEF Goto
    <3>2. PlaceOf(p)'
      BY <2>0, <3>1 DEF PlaceOf
    <3>3. Exact(p)'
      BY <2>0, <2>1, <3>1, <1>0 DEF Local, Exact, Timely
    <3>4. DeedOf(p)'
      BY <2>0, <3>1, <1>0 DEF Local, DeedOf, Before, Whole
    <3> QED BY <2>0, <2>1, <3>2, <3>3, <3>4, GotoKeeps
  <2> QED BY <1>11, <2>0, <2>1, <1>r DEF Rebind, Running, Results
<1>12. CASE CommitDmg(p)
  <2>1. Goto(p, "committed") /\ pc[p] = "linked" /\ UNCHANGED <<tree, output>>
    BY <1>12 DEF CommitDmg
  <2>2. pc'[p] = "committed" /\ UNCHANGED <<at, planned, read, mine>>
    BY <2>1, <1>t DEF Goto
  <2>3. PlaceOf(p)' /\ Exact(p)'
    BY <2>1, <2>2, <1>0 DEF Local, PlaceOf, Exact
  <2>4. DeedOf(p)'
    BY <2>1, <2>2, <1>0 DEF Local, DeedOf, Before, Whole
  <2> QED BY <2>1, <2>3, <2>4, GotoKeeps
<1>13. CASE DropCandidate(p)
  BY <1>13, SidecarKeeps DEF DropCandidate
<1>14. CASE Publish(p)
  <2>1. CASE ~Published(at[p]) /\ Place(p)
    BY <1>14, <2>1, PlaceTruth DEF Publish
  <2> QED BY <1>14, <2>1, <1>r DEF Publish, Running, Results
<1>15. CASE Finish(p)
  <2>1. mine[p] = Whole(p)
    BY <1>15, <1>0 DEF Local, DeedOf, Finish
  <2> QED BY <1>15, <2>1, EndKeeps DEF Finish, End, Results
<1>16. CASE Exit(p)
  BY <1>16, ForgetTruth DEF Exit
<1> QED BY <1>1, <1>2, <1>3, <1>4, <1>5, <1>6, <1>7, <1>8, <1>9, <1>10, <1>11, <1>12, <1>13,
           <1>14, <1>15, <1>16 DEF Step, DmgStep

LEMMA InitTruth == Init => Truth
<1> SUFFICES ASSUME Init PROVE Truth
  OBVIOUS
<1> USE Names DEF OwnNames
<1>1. Order /\ Sound /\ Labelled
  BY DEF Init, Order, Sound, Labelled, Published, Absent
<1>2. ASSUME NEW p \in Operators PROVE Local(p) /\ Stands(p)
  BY DEF Init, Local, Stands, PlaceOf, DeedOf, Exact, Timely, PlanOf, Before
<1> QED BY <1>1, <1>2 DEF Truth

LEMMA NextTruth ==
    ASSUME Inductive, Truth, [Next]_vars
    PROVE  Truth'
<1> USE Names DEF OwnNames
<1>t. /\ pc \in [Operators -> Labels] /\ mine \in [Operators -> SUBSET Outputs]
      /\ read \in [Operators -> Versions] /\ planned \in [Operators -> Versions]
      /\ at \in [Operators -> Outputs]
      /\ source \in Int /\ build \in Int
  BY DEF Inductive, ReleaseTypeOK, Labels, Versions
<1>0. Order /\ Sound
  BY DEF Truth
<1>1. ASSUME NEW p \in Operators, Step(p) PROVE Truth'
  BY <1>1, StepTruth
<1>2. ASSUME NEW p \in Operators, Fault(p) PROVE Truth'
  <2>1. Running(p) /\ UNCHANGED tree /\ \E kind, kept : Raise(p, kind, kept)
    BY <1>2 DEF Fault
  <2> QED BY <2>1, RaiseKeeps
<1>3. ASSUME NEW p \in Operators, Crash(p) PROVE Truth'
  BY <1>3, ForgetTruth DEF Crash
<1>4. ASSUME NEW p \in Operators, NEW s \in Stages, Start(p, s) PROVE Truth'
  <2>1. /\ pc[p] = "idle" /\ Plan[s]
        /\ at'[p] = s /\ pc'[p] \in {"work", "check"} /\ (s = Dmg => pc'[p] = "check")
        /\ planned'[p] = IF s = Addendum THEN source ELSE build
        /\ read'[p] = planned'[p]
        /\ UNCHANGED <<source, build, output, mine>>
    BY <1>4, <1>t DEF Start, tree
  <2>2. Quiet(p)
    <3>1. Dmg \notin mine[p]
      BY <2>1 DEF Truth, Local, PlaceOf, DeedOf, Before
    <3> QED BY <1>4, <1>t, <2>1, <3>1 DEF Quiet, Others, Start
  <2>3. Local(p)
    BY DEF Truth
  <2>4. PlaceOf(p)'
    BY <2>1 DEF PlaceOf
  <2>5. DeedOf(p)'
    <3>1. mine'[p] = {}
      BY <2>1, <2>3 DEF Local, PlaceOf, DeedOf, Before
    <3> QED BY <2>1, <3>1 DEF DeedOf, Before
  <2>6. Exact(p)' /\ PlanOf(p)'
    BY <2>1, <1>t DEF Exact, PlanOf
  <2>7. Timely(p)'
    <3>p. Plan[4] = MergePlan /\ Plan[5] = SignPlan /\ Plan[7] = PackagePlan
      BY DEF Plan
    <3>1. /\ s = Unsigned => StageHolds
          /\ s = Signed => MergeHolds
          /\ s = Dmg => AcceptHolds
      BY <2>1, <3>p DEF MergePlan, SignPlan, PackagePlan
    <3>2. s \in {Unsigned, Signed, Dmg} => output[SourceOf(s)].binds = build
      BY <3>1, ChainBinds DEF Inductive, SourceOf
    <3> QED BY <2>1, <3>2 DEF Timely
  <2> QED BY <2>2, <2>4, <2>5, <2>6, <2>7, QuietKeeps DEF Local
<1>5. CASE Edit
  <2>1. build' = build /\ source' = source + 1 /\ UNCHANGED <<output, at, pc, planned, read, mine>>
    BY <1>5 DEF Edit, process
  <2>2. Order' /\ Sound' /\ Labelled'
    BY <2>1, <1>t DEF Truth, Order, Sound, Labelled, Published
  <2>3. ASSUME NEW p \in Operators PROVE Local(p)' /\ Stands(p)'
    BY <2>1 DEF Truth, Local, Stands, PlaceOf, DeedOf, Whole, Exact, Timely, PlanOf, Published
  <2> QED BY <2>2, <2>3 DEF Truth
<1>6. CASE Rebuild
  <2>1. build' = source /\ source' = source /\ UNCHANGED <<output, at, pc, planned, read, mine>>
    BY <1>6 DEF Rebuild, process
  <2>2. build < build'
    BY <1>6, <2>1, <1>0, <1>t DEF Rebuild, NoWork, Order
  <2>b. \A o \in Seal .. Sidecar : output[o].binds \in Int
    BY DEF Inductive, ReleaseTypeOK, Absent, Versions
  <2>3. \A o \in Seal .. Sidecar : output[o].binds < build'
    BY <2>2, <2>b, <1>0, <1>t, <2>1 DEF Order
  <2>4. Order' /\ Sound' /\ Labelled'
    BY <2>1, <2>3, <2>b, <1>t DEF Truth, Order, Sound, Labelled, Published
  <2>5. ASSUME NEW p \in Operators PROVE Local(p)' /\ Stands(p)'
    <3>1. Local(p) /\ Stands(p)
      BY DEF Truth
    <3>2. PlaceOf(p)' /\ DeedOf(p)' /\ Exact(p)' /\ Stands(p)'
      BY <2>1, <3>1 DEF Local, Stands, PlaceOf, DeedOf, Whole, Exact, Published
    <3>3. planned[p] \in Int
      BY <1>t DEF Versions
    <3>4. at[p] # Addendum => planned[p] < build'
      BY <2>1, <2>2, <3>1, <3>3, <1>t DEF Local, PlanOf
    <3>5. Timely(p)' /\ PlanOf(p)'
      BY <2>1, <3>3, <3>4, <1>t DEF Timely, PlanOf
    <3> QED BY <3>2, <3>5 DEF Local
  <2> QED BY <2>4, <2>5 DEF Truth
<1>7. ASSUME NEW o \in Outputs, ClearStale(o) PROVE Truth'
  BY <1>7, ClearTruth
<1>8. CASE UNCHANGED <<tree, output, process>>
  <2>1. UNCHANGED <<source, build, output, at, pc, planned, read, mine>>
    BY <1>8 DEF tree, process
  <2>2. Order' /\ Sound' /\ Labelled'
    BY <2>1 DEF Truth, Order, Sound, Labelled, Published
  <2>3. ASSUME NEW p \in Operators PROVE Local(p)' /\ Stands(p)'
    BY <2>1 DEF Truth, Local, Stands, PlaceOf, DeedOf, Whole, Exact, Timely, PlanOf, Published
  <2> QED BY <2>2, <2>3 DEF Truth
<1> QED BY <1>1, <1>2, <1>3, <1>4, <1>5, <1>6, <1>7, <1>8 DEF Next, vars, ClearPart

LEMMA TruthHolds == Spec => [](Inductive /\ Truth)
<1>1. Inductive /\ Truth /\ [Next]_vars => Truth'
  BY NextTruth
<1> QED BY <1>1, InitTruth, Invariance, PTL DEF Spec

(* What a stage reports, by how it ends, is what it leaves.                 *)
THEOREM ReportsAreTrue == Spec => []OutcomesAreTrue
<1>1. Truth => OutcomesAreTrue
  BY DEF Truth, Local, DeedOf, Stands, Whole, OutcomesAreTrue
<1> QED BY <1>1, TruthHolds, PTL

(* A chain of receipts that validates was made from the present build.      *)
THEOREM ChainIsTrue == Spec => []ReceiptsAreTrue
<1>1. ASSUME Inductive, Truth PROVE ReceiptsAreTrue
  <2> USE Names DEF OwnNames
  <2>1. \A n \in Seal .. Acceptance : Holds[n] => \A o \in Seal .. n : output[o].binds = build
    BY <1>1, ChainBinds DEF Inductive, Holds
  <2>2. \A n \in Seal .. Acceptance : Holds[n] => \A o \in Seal .. n : output[o].made = build
    BY <1>1, <2>1 DEF Truth, Sound
  <2> QED BY <1>1, <2>2 DEF Truth, Labelled, ReceiptsAreTrue
<1> QED BY <1>1, TruthHolds, PTL
=============================================================================
