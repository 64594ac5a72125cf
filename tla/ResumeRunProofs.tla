-------------------------- MODULE ResumeRunProofs --------------------------
(***************************************************************************)
(* Theorems about ResumeRun, for any set of runners and any bound.         *)
(***************************************************************************)
EXTENDS ResumeRun, TLAPS

USE ResumeAssumption DEF files, runner, builds, launcher, Runners, LiveEvidence, Evidence

-----------------------------------------------------------------------------
(* What the steps of a publication do to the files. *)

FilesOK ==
    /\ evidence \in [Evidence -> Runners \cup {None}]
    /\ temps \subseteq Evidence \cup {"recovery"}
    /\ verdict \in {"none", "success", "failure"}

RunnerOK ==
    /\ rpc \in [Runners -> Places] /\ end \in [Runners -> Ends]
    /\ sig \in [Runners -> BOOLEAN] /\ err \in [Runners -> BOOLEAN]

LEMMA LinkOK ==
  ASSUME FilesOK, NEW r \in Runners, NEW n \in Evidence, NEW kept \in SUBSET Evidence,
         Link(r, n, kept)
  PROVE  FilesOK'
  BY DEF FilesOK, Link

LEMMA TornOK == ASSUME FilesOK, NEW r \in Runners, Torn(r) PROVE FilesOK'
  <1>1. CASE UNCHANGED <<evidence, temps, verdict>>
    BY <1>1 DEF FilesOK
  <1>2. CASE /\ rpc[r] \in Evidence /\ temps' = temps \cup {rpc[r]}
             /\ UNCHANGED <<evidence, verdict>>
    BY <1>2 DEF FilesOK
  <1>3. CASE rpc[r] \in Evidence /\ Link(r, rpc[r], {})
    BY <1>3, LinkOK
  <1> QED
    BY <1>1, <1>2, <1>3 DEF Torn

LEMMA NamedPlaces ==
    {"none", "over", "leaving"} \cup Uncontrolled \cup Raising \cup Deferring \subseteq Places
  BY DEF Places

LEMMA GoOK == ASSUME RunnerOK, NEW r \in Runners, NEW l \in Places, Go(r, l) PROVE RunnerOK'
  BY DEF RunnerOK, Go, Goto

LEMMA CaughtOK == ASSUME RunnerOK, NEW r \in Runners, Caught(r) PROVE RunnerOK'
  BY NamedPlaces DEF RunnerOK, Caught, Goto

LEMMA OverOK == ASSUME RunnerOK, NEW r \in Runners, NEW how \in Ends, Over(r, how) PROVE RunnerOK'
  BY NamedPlaces DEF RunnerOK, Over, Goto

LEMMA RaiseOK == ASSUME RunnerOK, NEW r \in Runners, Raise(r) PROVE RunnerOK'
  BY CaughtOK, OverOK DEF Raise, Ends

LEMMA StillOK == ASSUME RunnerOK, UNCHANGED <<rpc, end, sig, err>> PROVE RunnerOK'
  BY DEF RunnerOK

LEMMA PublishOK ==
  ASSUME FilesOK, RunnerOK, NEW r \in Runners, rpc[r] \in Evidence,
         NEW l \in Places, Publish(r, l)
  PROVE  FilesOK' /\ RunnerOK'
  <1>1. RunnerOK'
    BY GoOK, RaiseOK DEF Publish
  <1>2. CASE UNCHANGED <<evidence, temps, verdict>>
    BY <1>1, <1>2 DEF FilesOK
  <1>3. CASE \E kept \in SUBSET Evidence : Link(r, rpc[r], kept)
    BY <1>1, <1>3, LinkOK
  <1>4. CASE Torn(r)
    BY <1>1, <1>4, TornOK
  <1> QED
    BY <1>1, <1>2, <1>3, <1>4 DEF Publish

LEMMA TermOK ==
  ASSUME FilesOK, RunnerOK, NEW r \in Runners, TermOn(r)
  PROVE  FilesOK' /\ RunnerOK'
  <1>1. FilesOK'
    <2>1. CASE UNCHANGED <<evidence, temps, verdict>>
      BY <2>1 DEF FilesOK
    <2> QED
      BY <2>1, TornOK DEF TermOn
  <1>2. CASE UNCHANGED <<rpc, end, sig, err>> \/ Over(r, "died") \/ Over(r, "escaped")
    BY <1>1, <1>2, StillOK, OverOK DEF Ends
  <1>3. CASE SeeSignal(r) /\ Goto(r, "leaving") /\ err' = [err EXCEPT ![r] = TRUE] /\ UNCHANGED end
    BY <1>1, <1>3 DEF RunnerOK, SeeSignal, Goto, Places
  <1>4. CASE SeeSignal(r) /\ UNCHANGED <<rpc, end, err>>
    BY <1>1, <1>4 DEF RunnerOK, SeeSignal
  <1> QED
    BY <1>2, <1>3, <1>4 DEF TermOn

LEMMA KillOK ==
  ASSUME FilesOK, RunnerOK, NEW r \in Runners, KillOn(r)
  PROVE  FilesOK' /\ RunnerOK'
  <1>1. CASE UNCHANGED <<files, runner>>
    BY <1>1 DEF FilesOK, RunnerOK
  <1>2. CASE Over(r, "killed") /\ Torn(r)
    BY <1>2, TornOK, OverOK DEF Ends
  <1> QED
    BY <1>1, <1>2 DEF KillOn

-----------------------------------------------------------------------------
(* Type correctness, one lemma per process. *)

BuildsOK ==
    /\ build \in [Runners -> {"none", "running", "left", "gone"}]
    /\ ok \in [Runners -> BOOLEAN] /\ hit \in [Runners -> BOOLEAN]

LauncherOK ==
    /\ lpc \in {"idle", "logs", "intent", "fork", "handshake", "token", "reap", "verify",
               "receipt", "rollbackTerm", "rollbackKill", "rollbackReap", "rollbackProof",
               "settle", "watch", "kill", "proof"}
    /\ lres \in {"none", "undone", "launched", "failed", "unsettled", "dead"}
    /\ first \in {"none", "forked", "session", "parent", "zombie", "reaped"}
    /\ pipe \in {"empty", "pid", "error"} /\ known \in BOOLEAN
    /\ controller \subseteq {"out", "err", "intent", "receipt"}

VpcOK == vpc \in {"idle", "publish", "check"}
MishapsOK == mishaps \in 0 .. MaxMishaps

TypeParts == FilesOK /\ RunnerOK /\ BuildsOK /\ LauncherOK /\ VpcOK /\ MishapsOK

LEMMA FilesStay == ASSUME FilesOK, UNCHANGED <<evidence, temps, verdict>> PROVE FilesOK'
  BY DEF FilesOK

LEMMA BuildsStay == ASSUME BuildsOK, UNCHANGED <<build, ok, hit>> PROVE BuildsOK'
  BY DEF BuildsOK

LEMMA LauncherStays ==
  ASSUME LauncherOK, UNCHANGED <<lpc, lres, first, pipe, known, controller>> PROVE LauncherOK'
  BY DEF LauncherOK

LEMMA VpcStays == ASSUME VpcOK, UNCHANGED vpc PROVE VpcOK'
  BY DEF VpcOK

LEMMA MishapsStay == ASSUME MishapsOK, UNCHANGED mishaps PROVE MishapsOK'
  BY DEF MishapsOK

LEMMA SpendOK == ASSUME MishapsOK, SpendMishap PROVE MishapsOK'
  BY DEF MishapsOK, SpendMishap

LEMMA PublishSpends ==
  ASSUME MishapsOK, NEW r, NEW l, Publish(r, l) PROVE MishapsOK'
  BY SpendOK, MishapsStay DEF Publish

LEMMA StopGroupOK == ASSUME BuildsOK, NEW r \in Runners, StopGroup(r) PROVE BuildsOK'
  BY DEF BuildsOK, StopGroup, BuildLives

LEMMA RunnerStepType ==
  ASSUME TypeParts, NEW r \in Runners, RunnerStep(r)
  PROVE  TypeParts'
  <1> USE DEF TypeParts
  <1> USE NamedPlaces, FilesStay, BuildsStay, LauncherStays, VpcStays, MishapsStay,
          SpendOK, StillOK, GoOK, CaughtOK, OverOK
  <1>1. CASE PlanRun(r)
    BY <1>1 DEF PlanRun, Uncontrolled, Ends
  <1>2. CASE CreateStdout(r) \/ PublishPreLaunch(r) \/ PublishStatus(r) \/ PublishFinal(r)
    BY <1>2, PublishOK, PublishSpends
       DEF CreateStdout, PublishPreLaunch, PublishStatus, PublishFinal, Uncontrolled, Deferring
  <1>3. CASE InstallHandlers(r) \/ DeferSignals(r)
    BY <1>3 DEF InstallHandlers, DeferSignals, Raising, Deferring
  <1>4. CASE Popen(r)
    BY <1>4 DEF Popen, BuildsOK
  <1>5. CASE PopenReturned(r) \/ VerifyGroup(r)
    BY <1>5 DEF PopenReturned, VerifyGroup, Raising
  <1>6. CASE Observe(r)
    <2>1. After[rpc[r]] \in Places
      BY <1>6 DEF Observe, After, Raising
    <2> QED
      BY <1>6, <2>1, PublishOK, PublishSpends DEF Observe
  <1>7. CASE LeaderExited(r)
    <2>1. RunnerOK'
      <3>1. PICK failed \in {~ok[r], TRUE} :
              /\ Goto(r, IF build[r] = "left" THEN "stop" ELSE "leaving")
              /\ err' = [err EXCEPT ![r] = failed]
        BY <1>7 DEF LeaderExited
      <3>2. failed \in BOOLEAN
        BY DEF BuildsOK
      <3>3. "stop" \in Places
        BY DEF Raising
      <3> QED
        BY <1>7, <3>1, <3>2, <3>3 DEF LeaderExited, RunnerOK, Goto
    <2> QED
      BY <1>7, <2>1 DEF LeaderExited
  <1>8. CASE Stop(r)
    BY <1>8, StopGroupOK DEF Stop
  <1>9. CASE Settle(r)
    BY <1>9 DEF Settle, Deferring
  <1>10. CASE Settled(r)
    BY <1>10, StopGroupOK DEF Settled, Deferring, Ends
  <1>11. CASE Freeze(r)
    <2>1. RunnerOK'
      BY <1>11 DEF Freeze, RunnerOK, Goto, Deferring
    <2>2. MishapsOK'
      BY <1>11 DEF Freeze
    <2> QED
      BY <1>11, <2>1, <2>2 DEF Freeze
  <1>12. CASE Confirm(r)
    <2>1. CASE sig[r] /\ verdict = "success"
      <3>1. FilesOK'
        BY <1>12, <2>1 DEF Confirm, FilesOK
      <3>2. RunnerOK'
        BY <1>12, <2>1 DEF Confirm, RunnerOK, Goto, Deferring
      <3> QED
        BY <1>12, <3>1, <3>2 DEF Confirm
    <2>2. CASE ~(sig[r] /\ verdict = "success")
      BY <1>12, <2>2 DEF Confirm, Deferring
    <2> QED
      BY <2>1, <2>2
  <1>13. CASE RestoreHandlers(r)
    BY <1>13 DEF RestoreHandlers, Uncontrolled, Ends
  <1>14. CASE Validate(r)
    <2>1. FilesOK'
      BY <1>14 DEF Validate, FilesOK
    <2> QED
      BY <1>14, <2>1 DEF Validate, Ends
  <1> QED
    BY <1>1, <1>2, <1>3, <1>4, <1>5, <1>6, <1>7, <1>8, <1>9, <1>10, <1>11, <1>12, <1>13, <1>14
       DEF RunnerStep

LEMMA OutsideType ==
  ASSUME TypeParts, NEW r \in Runners,
         \/ StartRunner(r) \/ RunnerFault(r) \/ NotSettled(r) \/ LimitCrossed(r)
         \/ BuildExits(r) \/ DescendantsExit(r) \/ Signal(r) \/ Kill(r)
  PROVE  TypeParts'
  <1> USE DEF TypeParts
  <1> USE NamedPlaces, FilesStay, BuildsStay, LauncherStays, VpcStays, MishapsStay,
          SpendOK, StillOK, GoOK, OverOK
  <1>1. CASE StartRunner(r)
    BY <1>1 DEF StartRunner, Uncontrolled
  <1>2. CASE RunnerFault(r)
    BY <1>2, RaiseOK DEF RunnerFault
  <1>3. CASE NotSettled(r)
    BY <1>3 DEF NotSettled, Ends
  <1>4. CASE LimitCrossed(r)
    <2>1. RunnerOK'
      BY <1>4 DEF LimitCrossed, RunnerOK, Goto, Raising
    <2> QED
      BY <1>4, <2>1 DEF LimitCrossed
  <1>5. CASE BuildExits(r) \/ DescendantsExit(r)
    <2>1. BuildsOK'
      BY <1>5 DEF BuildExits, DescendantsExit, BuildsOK
    <2> QED
      BY <1>5, <2>1 DEF BuildExits, DescendantsExit
  <1>6. CASE Signal(r) \/ Kill(r)
    BY <1>6, TermOK, KillOK DEF Signal, Kill
  <1> QED
    BY <1>1, <1>2, <1>3, <1>4, <1>5, <1>6

LEMMA ChildType ==
  ASSUME TypeParts, ChildStep \/ FirstFails \/ ExecFails
  PROVE  TypeParts'
  <1> USE DEF TypeParts, LauncherOK
  <1>0. CASE FirstSetsid \/ FirstExits
    <2>1. LauncherOK'
      BY <1>0, ZenonT(30) DEF FirstSetsid, FirstExits
    <2> QED
      BY <1>0, <2>1, FilesStay, BuildsStay, VpcStays, MishapsStay, StillOK DEF FirstSetsid, FirstExits
  <1> USE NamedPlaces, FilesStay, BuildsStay, VpcStays, MishapsStay, SpendOK, StillOK, GoOK, OverOK
  <1>1. CASE FirstFails
    BY <1>1 DEF FirstFails
  <1>2. CASE FirstForks \/ Exec
    <2>1. "forked" \in Places /\ "plan" \in Places
      BY DEF Uncontrolled
    <2>2. RunnerOK'
      BY <1>2, <2>1 DEF FirstForks, Exec
    <2>3. LauncherOK'
      <3>1. CASE FirstForks
        BY <3>1 DEF FirstForks
      <3>2. CASE Exec
        BY <3>2, LauncherStays DEF Exec
      <3> QED
        BY <1>2, <3>1, <3>2
    <2> QED
      BY <1>2, <2>2, <2>3 DEF FirstForks, Exec
  <1>3. CASE ExecFails
    BY <1>3 DEF ExecFails, Ends
  <1> QED
    BY <1>0, <1>1, <1>2, <1>3 DEF ChildStep

LEMMA LauncherType ==
  ASSUME TypeParts, StartLauncher \/ LauncherStep \/ UndoLogs \/ NoProof \/ LauncherDies
  PROVE  TypeParts'
  <1> USE DEF TypeParts, LauncherOK, LauncherGoes, LauncherEnds
  <1> USE FilesStay, BuildsStay, VpcStays, MishapsStay, SpendOK, StillOK
  <1>1. CASE StartLauncher \/ OpenLogs \/ PublishIntent \/ Fork \/ Handshake \/ CaptureToken
    <2>1. CASE StartLauncher \/ OpenLogs \/ PublishIntent
      BY <2>1, ZenonT(30) DEF StartLauncher, OpenLogs, PublishIntent
    <2>2. CASE Fork \/ Handshake \/ CaptureToken
      BY <2>2, ZenonT(30) DEF Fork, Handshake, CaptureToken
    <2> QED
      BY <1>1, <2>1, <2>2
  <1>2. CASE HandshakeFails \/ RollbackProof \/ Reap \/ Verify \/ PublishReceipt
    <2>1. CASE HandshakeFails \/ RollbackProof
      BY <2>1, ZenonT(30) DEF HandshakeFails, RollbackProof
    <2>2. CASE Reap \/ Verify \/ PublishReceipt
      BY <2>2, ZenonT(30) DEF Reap, Verify, PublishReceipt
    <2> QED
      BY <1>2, <2>1, <2>2
  <1>3. CASE RollbackTerm \/ RollbackKill \/ RollbackReap
    <2>1. FilesOK' /\ RunnerOK'
      BY <1>3, TermOK, KillOK DEF RollbackTerm, RollbackKill, RollbackReap
    <2>2. LauncherOK'
      BY <1>3 DEF RollbackTerm, RollbackKill, RollbackReap, GroupDies
    <2> QED
      BY <1>3, <2>1, <2>2 DEF RollbackTerm, RollbackKill, RollbackReap
  <1>4. CASE LaunchFails \/ UndoLogs
    BY <1>4 DEF LaunchFails, UndoLogs
  <1>5. CASE SettleTerm
    BY <1>5, TermOK DEF SettleTerm, Seen
  <1>6. CASE Watch \/ ProveAbsence \/ NoProof \/ LauncherDies
    <2>1. CASE Watch \/ ProveAbsence
      BY <2>1 DEF Watch, Seen, ProveAbsence
    <2>2. CASE NoProof \/ LauncherDies
      BY <2>2 DEF NoProof, LauncherDies
    <2> QED
      BY <1>6, <2>1, <2>2
  <1>7. CASE KillOwned
    BY <1>7, KillOK, StopGroupOK DEF KillOwned
  <1> QED
    BY <1>1, <1>2, <1>3, <1>4, <1>5, <1>6, <1>7 DEF LauncherStep

LEMMA RecoveryType ==
  ASSUME TypeParts, RecoveryStep \/ RecoverFails \/ RecoverDies
  PROVE  TypeParts'
  <1> USE DEF TypeParts, VpcOK, FilesOK
  <1> USE BuildsStay, LauncherStays, MishapsStay, SpendOK, StillOK
  <1>1. CASE RecoverStart \/ RecoverDone
    BY <1>1 DEF RecoverStart, RecoverDone
  <1>2. CASE RecoverPublish \/ RecoverFails \/ RecoverDies
    BY <1>2 DEF RecoverPublish, RecoverFails, RecoverDies
  <1> QED
    BY <1>1, <1>2 DEF RecoveryStep

LEMMA TypesInit == Init => TypeParts
  <1> SUFFICES ASSUME Init PROVE TypeParts
    OBVIOUS
  <1>1. FilesOK /\ BuildsOK /\ VpcOK /\ MishapsOK
    BY DEF Init, FilesOK, BuildsOK, VpcOK, MishapsOK
  <1>2. RunnerOK
    BY NamedPlaces DEF Init, RunnerOK, Ends
  <1>3. LauncherOK
    BY DEF Init, LauncherOK
  <1> QED
    BY <1>1, <1>2, <1>3 DEF TypeParts

LEMMA TypesStep == TypeParts /\ [Next]_vars => TypeParts'
  <1>1. CASE UNCHANGED vars
    BY <1>1, FilesStay, StillOK, BuildsStay, LauncherStays, VpcStays, MishapsStay
       DEF vars, TypeParts
  <1>2. CASE Next
    BY <1>2, RunnerStepType, OutsideType, ChildType, LauncherType, RecoveryType DEF Next
  <1> QED
    BY <1>1, <1>2

(* Every variable keeps its type.                                           *)
THEOREM ResumeTypes == Spec => []ResumeTypeOK
  <1>1. TypeParts => ResumeTypeOK
    BY DEF ResumeTypeOK, TypeParts, FilesOK, RunnerOK, BuildsOK, LauncherOK, VpcOK, MishapsOK
  <1> QED
    BY <1>1, TypesInit, TypesStep, PTL DEF Spec

-----------------------------------------------------------------------------
(* Frames: a step of runner r leaves the other runners and their builds    *)
(* alone, and no step replaces evidence of what happened before a status.  *)

RunnerFrame(r) ==
    \A q \in Runners \ {r} :
        rpc'[q] = rpc[q] /\ end'[q] = end[q] /\ sig'[q] = sig[q] /\ err'[q] = err[q]

BuildFrame(r) ==
    \A q \in Runners \ {r} : build'[q] = build[q] /\ ok'[q] = ok[q] /\ hit'[q] = hit[q]

Kept(S) == \A n \in S : evidence[n] # None => evidence'[n] = evidence[n]

Grounds == {"stdout", "pre"} \cup LiveEvidence

LEMMA RunnerFrames ==
  ASSUME RunnerOK, NEW r \in Runners
  PROVE  /\ \A l : Goto(r, l) => \A q \in Runners \ {r} : rpc'[q] = rpc[q]
         /\ \A l : Go(r, l) => RunnerFrame(r)
         /\ Caught(r) => RunnerFrame(r)
         /\ \A how : Over(r, how) => RunnerFrame(r)
         /\ Raise(r) => RunnerFrame(r)
  BY DEF RunnerOK, RunnerFrame, Goto, Go, Caught, Over, Raise

LEMMA StillFrame == ASSUME NEW r, UNCHANGED <<rpc, end, sig, err>> PROVE RunnerFrame(r)
  BY DEF RunnerFrame

LEMMA PublishFrame ==
  ASSUME RunnerOK, NEW r \in Runners, NEW l, Publish(r, l)
  PROVE  RunnerFrame(r)
  BY RunnerFrames DEF Publish

LEMMA TermFrame == ASSUME RunnerOK, NEW r \in Runners, TermOn(r) PROVE RunnerFrame(r)
  <1>1. CASE SeeSignal(r) /\ Goto(r, "leaving") /\ err' = [err EXCEPT ![r] = TRUE] /\ UNCHANGED end
    BY <1>1 DEF RunnerOK, RunnerFrame, SeeSignal, Goto
  <1>2. CASE SeeSignal(r) /\ UNCHANGED <<rpc, end, err>>
    BY <1>2 DEF RunnerOK, RunnerFrame, SeeSignal
  <1> QED
    BY <1>1, <1>2, RunnerFrames, StillFrame DEF TermOn

LEMMA KillFrame == ASSUME RunnerOK, NEW r \in Runners, KillOn(r) PROVE RunnerFrame(r)
  BY RunnerFrames, StillFrame DEF KillOn

LEMMA BuildStays == ASSUME NEW r, UNCHANGED <<build, ok, hit>> PROVE BuildFrame(r)
  BY DEF BuildFrame

LEMMA StopFrame == ASSUME BuildsOK, NEW r \in Runners, StopGroup(r) PROVE BuildFrame(r)
  BY DEF BuildsOK, BuildFrame, StopGroup

LEMMA LinkKeeps ==
  ASSUME FilesOK, NEW r \in Runners, NEW n \in Evidence, NEW kept, Free(n), Link(r, n, kept)
  PROVE  Kept(Evidence) /\ evidence'[n] = r
  BY DEF FilesOK, Free, Link, Kept

LEMMA SameKept == ASSUME UNCHANGED evidence PROVE Kept(Evidence)
  BY DEF Kept

LEMMA TornKeeps == ASSUME FilesOK, NEW r \in Runners, Torn(r) PROVE Kept(Evidence)
  BY LinkKeeps, SameKept DEF Torn

LEMMA PublishKeeps ==
  ASSUME FilesOK, NEW r \in Runners, rpc[r] \in Evidence, NEW l, Publish(r, l)
  PROVE  Kept(Evidence)
  BY LinkKeeps, TornKeeps, SameKept DEF Publish

LEMMA TermKeeps == ASSUME FilesOK, NEW r \in Runners, TermOn(r) PROVE Kept(Evidence)
  BY TornKeeps, SameKept DEF TermOn

LEMMA KillKeeps == ASSUME FilesOK, NEW r \in Runners, KillOn(r) PROVE Kept(Evidence)
  BY TornKeeps, SameKept DEF KillOn

LEMMA KeptGrounds == Kept(Evidence) => Kept(Grounds)
  BY DEF Kept, Grounds

LEMMA GroundsKept ==
  ASSUME FilesOK, \A n \in Grounds : evidence'[n] = evidence[n]
  PROVE  Kept(Grounds)
  BY DEF Kept

(* Where a publication and a signal lead the runner itself. *)
LEMMA PublishMoves ==
  ASSUME FilesOK, RunnerOK, NEW r \in Runners, rpc[r] \in Evidence, NEW l, Publish(r, l)
  PROVE  \/ /\ rpc'[r] = l /\ end'[r] = end[r] /\ err'[r] = err[r] /\ sig'[r] = sig[r]
            /\ evidence'[rpc[r]] = r
         \/ rpc[r] \in LiveEvidence /\ rpc'[r] = "leaving" /\ err'[r] /\ end'[r] = end[r]
         \/ rpc[r] \notin LiveEvidence /\ rpc'[r] = "over" /\ end'[r] = "failed"
  <1>1. CASE Go(r, l)
    <2>1. rpc'[r] = l /\ end'[r] = end[r] /\ err'[r] = err[r] /\ sig'[r] = sig[r]
      BY <1>1 DEF Go, Goto, RunnerOK
    <2>2. CASE \E kept : Free(rpc[r]) /\ Link(r, rpc[r], kept)
      BY <2>1, <2>2, LinkKeeps
    <2>3. CASE Raise(r)
      BY <2>3 DEF Raise, Caught, Over, Goto, Raising, RunnerOK
    <2> QED
      BY <2>1, <2>2, <2>3 DEF Publish
  <1>2. CASE Raise(r)
    BY <1>2 DEF Raise, Caught, Over, Goto, Raising, RunnerOK
  <1> QED
    BY <1>1, <1>2 DEF Publish

LEMMA TermMoves ==
  ASSUME RunnerOK, NEW r \in Runners, TermOn(r)
  PROVE  \/ rpc'[r] = rpc[r] /\ end'[r] = end[r] /\ err'[r] = err[r]
         \/ rpc[r] \in Raising /\ rpc'[r] = "leaving" /\ err'[r] /\ end'[r] = end[r]
         \/ rpc[r] \in Uncontrolled /\ rpc'[r] = "over"
         \/ rpc[r] = "leaving" /\ rpc'[r] = "over" /\ end'[r] = "escaped"
  BY DEF TermOn, SeeSignal, Goto, Over, RunnerOK

LEMMA KillMoves ==
  ASSUME RunnerOK, NEW r \in Runners, KillOn(r)
  PROVE  \/ rpc'[r] = rpc[r] /\ end'[r] = end[r] /\ err'[r] = err[r]
         \/ rpc'[r] = "over" /\ end'[r] = "killed"
  BY DEF KillOn, Goto, Over, RunnerOK

-----------------------------------------------------------------------------
(* Every step of runner r, its build, or a signal to it. *)
StepOf(r) ==
    \/ StartRunner(r) \/ RunnerStep(r) \/ RunnerFault(r) \/ NotSettled(r)
    \/ LimitCrossed(r) \/ BuildExits(r) \/ DescendantsExit(r) \/ Signal(r) \/ Kill(r)

LEMMA StepFrame ==
  ASSUME TypeParts, NEW r \in Runners, StepOf(r)
  PROVE  RunnerFrame(r) /\ BuildFrame(r) /\ Kept(Grounds)
  <1> USE RunnerFrames, StillFrame, BuildStays, KeptGrounds, SameKept DEF TypeParts
  <1>1. CASE StartRunner(r) \/ PlanRun(r) \/ InstallHandlers(r) \/ DeferSignals(r) \/ PopenReturned(r)
    BY <1>1 DEF StartRunner, PlanRun, InstallHandlers, DeferSignals, PopenReturned
  <1>2. CASE VerifyGroup(r) \/ Settle(r) \/ RestoreHandlers(r) \/ NotSettled(r) \/ RunnerFault(r)
    BY <1>2 DEF VerifyGroup, Settle, RestoreHandlers, NotSettled, RunnerFault
  <1>3. CASE CreateStdout(r) \/ PublishPreLaunch(r) \/ PublishStatus(r) \/ PublishFinal(r)
    BY <1>3, PublishFrame, PublishKeeps
       DEF CreateStdout, PublishPreLaunch, PublishStatus, PublishFinal
  <1>4. CASE Observe(r)
    BY <1>4, PublishFrame, PublishKeeps DEF Observe
  <1>5. CASE Popen(r) \/ BuildExits(r) \/ DescendantsExit(r)
    <2>1. BuildFrame(r)
      BY <1>5 DEF Popen, BuildExits, DescendantsExit, BuildFrame, BuildsOK
    <2> QED
      BY <1>5, <2>1 DEF Popen, BuildExits, DescendantsExit
  <1>6. CASE LeaderExited(r) \/ LimitCrossed(r) \/ Freeze(r)
    <2>1. RunnerFrame(r)
      BY <1>6 DEF LeaderExited, LimitCrossed, Freeze, RunnerFrame, Goto, RunnerOK
    <2> QED
      BY <1>6, <2>1 DEF LeaderExited, LimitCrossed, Freeze
  <1>7. CASE Stop(r) \/ Settled(r)
    BY <1>7, StopFrame DEF Stop, Settled
  <1>8. CASE Confirm(r)
    <2>1. CASE sig[r] /\ verdict = "success"
      <3>1. RunnerFrame(r)
        BY <1>8, <2>1 DEF Confirm, RunnerFrame, Goto, RunnerOK
      <3>2. Kept(Grounds)
        BY <1>8, <2>1, GroundsKept DEF Confirm, Grounds, FilesOK
      <3> QED
        BY <1>8, <3>1, <3>2 DEF Confirm
    <2>2. CASE ~(sig[r] /\ verdict = "success")
      BY <1>8, <2>2 DEF Confirm
    <2> QED
      BY <2>1, <2>2
  <1>9. CASE Validate(r)
    <2>1. Kept(Grounds)
      BY <1>9, GroundsKept DEF Validate, Grounds, FilesOK
    <2> QED
      BY <1>9, <2>1 DEF Validate
  <1>10. CASE Signal(r) \/ Kill(r)
    BY <1>10, TermFrame, KillFrame, TermKeeps, KillKeeps DEF Signal, Kill
  <1> QED
    BY <1>1, <1>2, <1>3, <1>4, <1>5, <1>6, <1>7, <1>8, <1>9, <1>10 DEF StepOf, RunnerStep

(* The launcher and its children reach no runner but their own.             *)
LaunchStep ==
    StartLauncher \/ LauncherStep \/ ChildStep \/ UndoLogs \/ FirstFails \/ ExecFails
        \/ NoProof \/ LauncherDies

LEMMA LaunchFrame ==
  ASSUME TypeParts, LaunchStep
  PROVE  RunnerFrame(Daemon) /\ BuildFrame(Daemon) /\ Kept(Grounds)
  <1> USE RunnerFrames, StillFrame, BuildStays, KeptGrounds, SameKept DEF TypeParts
  <1>1. CASE UNCHANGED <<files, runner, builds>>
    BY <1>1
  <1>2. CASE FirstForks \/ Exec \/ ExecFails
    BY <1>2 DEF FirstForks, Exec, ExecFails
  <1>3. CASE RollbackTerm \/ RollbackReap \/ RollbackKill \/ SettleTerm
    BY <1>3, TermFrame, KillFrame, TermKeeps, KillKeeps
       DEF RollbackTerm, RollbackReap, RollbackKill, SettleTerm
  <1>4. CASE KillOwned
    BY <1>4, KillFrame, KillKeeps, StopFrame DEF KillOwned
  <1> QED
    BY <1>1, <1>2, <1>3, <1>4
       DEF LaunchStep, LauncherStep, ChildStep, StartLauncher, OpenLogs, PublishIntent, Fork,
           Handshake, CaptureToken, HandshakeFails, RollbackProof, Reap, Verify, PublishReceipt,
           LaunchFails, Watch, ProveAbsence, UndoLogs, FirstSetsid, FirstExits, FirstFails,
           NoProof, LauncherDies

LEMMA RecoveryFrame ==
  ASSUME TypeParts, RecoveryStep \/ RecoverFails \/ RecoverDies
  PROVE  UNCHANGED <<runner, builds>> /\ Kept(Grounds)
  <1>1. \A n \in Grounds : evidence'[n] = evidence[n]
    BY DEF TypeParts, FilesOK, Grounds, RecoveryStep, RecoverStart, RecoverPublish, RecoverDone,
           RecoverFails, RecoverDies
  <1> QED
    BY <1>1, GroundsKept
       DEF TypeParts, RecoveryStep, RecoverStart, RecoverPublish, RecoverDone, RecoverFails, RecoverDies

-----------------------------------------------------------------------------
(* The launcher.  One launch at most gets past its intent: the files of    *)
(* the controller stay, and a first child forks one runner at most.        *)

Launched ==
    /\ first # "none" \/ rpc[Daemon] # "none" \/ lpc \notin {"idle", "logs", "intent"} =>
         {"out", "err", "intent"} \subseteq controller
    /\ lpc = "intent" => {"out", "err"} \subseteq controller
    /\ lpc \in {"logs", "intent", "fork"} => first = "none"
    /\ first \in {"none", "forked", "session"} => rpc[Daemon] = "none"
    /\ lpc \in {"rollbackProof", "verify", "receipt", "settle", "watch", "kill", "proof"} =>
         first = "reaped"
    /\ lres = "launched" => lpc = "idle" /\ "receipt" \in controller
    /\ lres = "failed" => lpc = "idle" /\ first = "reaped" /\ ~Live(Daemon) /\ controller # {}
    /\ lres = "undone" /\ lpc = "idle" => first = "none" /\ controller \subseteq {"intent"}

(* A runner that has begun never becomes one that has not, nor one that is  *)
(* over a live one.                                                         *)
Onward(r) ==
    /\ rpc[r] = "none" => rpc'[r] = "none"
    /\ rpc[r] = "over" => rpc'[r] = "over"

LEMMA DaemonOnward ==
  ASSUME TypeParts, NEW r \in Runners, StepOf(r)
  PROVE  Onward(Daemon)
  <1>1. CASE r # Daemon
    BY <1>1, StepFrame DEF RunnerFrame, Onward
  <1>2. CASE r = Daemon
    <2>1. ~StartRunner(r)
      BY <1>2 DEF StartRunner
    <2>2. CASE UNCHANGED rpc
      BY <2>2 DEF Onward
    <2>3. CASE Popen(r) \/ BuildExits(r) \/ DescendantsExit(r)
      BY <2>2, <2>3 DEF Popen, BuildExits, DescendantsExit
    <2>4. CASE Signal(r) \/ Kill(r)
      BY <1>2, <2>4 DEF Signal, Kill, Live, Onward
    <2>5. rpc[r] \notin {"none", "over"} => Onward(Daemon)
      BY <1>2 DEF Onward
    <2> QED
      BY <2>1, <2>3, <2>4, <2>5
         DEF StepOf, RunnerStep, RunnerFault, NotSettled, LimitCrossed, PlanRun, CreateStdout,
             PublishPreLaunch, InstallHandlers, DeferSignals, PopenReturned, VerifyGroup, Observe,
             LeaderExited, Stop, Settle, Settled, Freeze, PublishStatus, Confirm, RestoreHandlers,
             PublishFinal, Validate
  <1> QED
    BY <1>1, <1>2

LEMMA LauncherUnmoved ==
  ASSUME NEW r \in Runners, StepOf(r)
  PROVE  UNCHANGED launcher
  BY DEF StepOf, RunnerStep, StartRunner, RunnerFault, NotSettled, LimitCrossed, BuildExits,
         DescendantsExit, Signal, Kill, PlanRun, CreateStdout, PublishPreLaunch, InstallHandlers,
         DeferSignals, Popen, PopenReturned, VerifyGroup, Observe, LeaderExited, Stop, Settle,
         Settled, Freeze, PublishStatus, Confirm, RestoreHandlers, PublishFinal, Validate

LEMMA LaunchedStays ==
  ASSUME Launched, RunnerOK, UNCHANGED launcher, Onward(Daemon),
         rpc[Daemon] # "none" \/ rpc'[Daemon] = "none"
  PROVE  Launched'
  BY DEF Launched, Onward, Live

LEMMA SignalsOnward ==
  ASSUME RunnerOK, TermOn(Daemon) \/ KillOn(Daemon)
  PROVE  Onward(Daemon)
  <1>1. CASE TermOn(Daemon)
    BY <1>1, TermMoves DEF Onward, Raising, Uncontrolled, LiveEvidence
  <1>2. CASE KillOn(Daemon)
    BY <1>2 DEF KillOn, Live, Onward
  <1> QED
    BY <1>1, <1>2

LEMMA LaunchStepLaunched ==
  ASSUME TypeParts, Launched, LaunchStep
  PROVE  Launched'
  <1> USE DEF TypeParts, Launched, LauncherOK, LauncherGoes, LauncherEnds, Live
  <1>1. CASE StartLauncher \/ OpenLogs \/ PublishIntent \/ UndoLogs \/ Fork
    BY <1>1 DEF StartLauncher, OpenLogs, PublishIntent, UndoLogs, Fork
  <1>2. CASE FirstSetsid \/ FirstExits \/ FirstFails
    BY <1>2 DEF FirstSetsid, FirstExits, FirstFails
  <1>3. CASE FirstForks \/ Exec \/ ExecFails
    <2>1. first' = (IF FirstForks THEN "parent" ELSE first)
      BY <1>3 DEF FirstForks, Exec, ExecFails
    <2>2. UNCHANGED <<lpc, lres, controller>>
      BY <1>3 DEF FirstForks, Exec, ExecFails
    <2>3. rpc'[Daemon] # "none"
      BY <1>3 DEF FirstForks, Exec, ExecFails, Go, Over, Goto, RunnerOK
    <2>4. CASE FirstForks
      BY <2>2, <2>3, <2>4 DEF FirstForks
    <2>5. CASE Exec \/ ExecFails
      <3>1. rpc[Daemon] = "forked" /\ first' = first
        BY <2>5 DEF Exec, ExecFails
      <3> QED
        BY <2>2, <2>3, <3>1
    <2> QED
      BY <1>3, <2>4, <2>5
  <1>4. CASE Handshake \/ CaptureToken \/ HandshakeFails \/ Reap \/ Verify
    BY <1>4 DEF Handshake, CaptureToken, HandshakeFails, Reap, Verify
  <1>5. CASE RollbackProof \/ PublishReceipt \/ LaunchFails
    BY <1>5 DEF RollbackProof, PublishReceipt, LaunchFails
  <1>6. CASE RollbackTerm \/ RollbackKill \/ RollbackReap
    <2>1. Onward(Daemon)
      BY <1>6, SignalsOnward DEF RollbackTerm, RollbackKill, RollbackReap, Onward
    <2> QED
      BY <1>6, <2>1 DEF RollbackTerm, RollbackKill, RollbackReap, GroupDies, Onward
  <1>7. CASE SettleTerm
    <2>1. Onward(Daemon) /\ (~Live(Daemon) => ~Live(Daemon)')
      BY <1>7, SignalsOnward DEF SettleTerm, Onward
    <2> QED
      BY <1>7, <2>1 DEF SettleTerm, Onward
  <1>8. CASE KillOwned
    <2>1. Onward(Daemon)
      BY <1>8, SignalsOnward DEF KillOwned
    <2> QED
      BY <1>8, <2>1 DEF KillOwned, Onward
  <1>9. CASE Watch \/ ProveAbsence \/ NoProof \/ LauncherDies
    BY <1>9 DEF Watch, ProveAbsence, Absent, NoProof, LauncherDies
  <1> QED
    BY <1>1, <1>2, <1>3, <1>4, <1>5, <1>6, <1>7, <1>8, <1>9 DEF LaunchStep, LauncherStep, ChildStep

LaunchInv == TypeParts /\ Launched

LEMMA LaunchInit == Init => LaunchInv
  BY TypesInit DEF Init, LaunchInv, Launched, Live

LEMMA LaunchNext == LaunchInv /\ [Next]_vars => LaunchInv'
  <1> SUFFICES ASSUME LaunchInv, [Next]_vars PROVE LaunchInv'
    OBVIOUS
  <1>1. TypeParts'
    BY TypesStep DEF LaunchInv
  <1>2. CASE UNCHANGED vars
    BY <1>1, <1>2 DEF vars, LaunchInv, Launched, Live
  <1>3. ASSUME NEW r \in Runners, StepOf(r) PROVE LaunchInv'
    <2>1. Onward(Daemon) /\ UNCHANGED launcher
      BY <1>3, DaemonOnward, LauncherUnmoved DEF LaunchInv
    <2> QED
      BY <1>1, <2>1, LaunchedStays DEF LaunchInv, TypeParts, Onward
  <1>4. CASE LaunchStep
    BY <1>1, <1>4, LaunchStepLaunched DEF LaunchInv
  <1>5. CASE RecoveryStep \/ RecoverFails \/ RecoverDies
    BY <1>1, <1>5, RecoveryFrame, LaunchedStays
       DEF LaunchInv, TypeParts, Onward, RecoveryStep, RecoverStart, RecoverPublish, RecoverDone,
           RecoverFails, RecoverDies
  <1> QED
    BY <1>2, <1>3, <1>4, <1>5 DEF Next, StepOf, LaunchStep

(* What a launcher reports is so, and no runner of its is without intent.   *)
THEOREM LauncherTruthful == Spec => []LauncherTellsTruth
  <1>1. LaunchInv => LauncherTellsTruth
    BY DEF LaunchInv, Launched, LauncherTellsTruth
  <1> QED
    BY <1>1, LaunchInit, LaunchNext, PTL DEF Spec

-----------------------------------------------------------------------------
(* Ownership.  The name of the stdout log decides which runner may go on:  *)
(* it is created once and never removed.                                   *)

PastStdout == {"pre", "ready", "leaving", "final", "validate"} \cup Raising \cup Deferring
BeforePopen == {"none", "forked", "plan", "stdout", "pre", "ready", "armed"}
AfterSettle == {"freeze", "status", "confirm", "restore", "final", "validate"}

Own(r) ==
    /\ rpc[r] \in PastStdout \/ build[r] # "none" => evidence["stdout"] = r
    /\ rpc[r] \in BeforePopen => build[r] = "none"
    /\ rpc[r] \in AfterSettle => build[r] = "gone"
    /\ rpc[r] = "over" /\ BuildLives(r) => end[r] \in {"killed", "unsettled", "escaped"}

LEMMA OthersOwn ==
  ASSUME NEW r \in Runners, NEW q \in Runners \ {r}, Own(q),
         RunnerFrame(r), BuildFrame(r), Kept(Grounds)
  PROVE  Own(q)'
  <1>1. evidence["stdout"] = q => evidence'["stdout"] = q
    BY DEF Kept, Grounds
  <1>2. rpc'[q] = rpc[q] /\ end'[q] = end[q] /\ build'[q] = build[q]
    BY DEF RunnerFrame, BuildFrame
  <1> QED
    BY <1>1, <1>2 DEF Own, BuildLives

LEMMA StepOwns ==
  ASSUME TypeParts, NEW r \in Runners, Own(r), StepOf(r)
  PROVE  Own(r)'
  <1>1. Kept(Grounds)
    BY StepFrame
  <1>2. evidence["stdout"] = r => evidence'["stdout"] = r
    BY <1>1 DEF Kept, Grounds
  <1> USE <1>2 DEF TypeParts, Own, BuildLives
  <1>3. CASE StartRunner(r) \/ PlanRun(r) \/ InstallHandlers(r) \/ DeferSignals(r)
    BY <1>3 DEF StartRunner, PlanRun, InstallHandlers, DeferSignals, Go, Over, Goto, RunnerOK,
                PastStdout, Raising, Deferring, BeforePopen, AfterSettle
  <1>4. CASE CreateStdout(r)
    BY <1>4, PublishMoves DEF CreateStdout, PastStdout, Raising, Deferring, BeforePopen, AfterSettle
  <1>5. CASE PublishPreLaunch(r) \/ PublishStatus(r) \/ PublishFinal(r)
    BY <1>5, PublishMoves DEF PublishPreLaunch, PublishStatus, PublishFinal, PastStdout, Raising,
                              Deferring, BeforePopen, AfterSettle
  <1>6. CASE Popen(r) \/ BuildExits(r) \/ DescendantsExit(r)
    BY <1>6 DEF Popen, BuildExits, DescendantsExit, BuildsOK, PastStdout, Raising, Deferring,
                BeforePopen, AfterSettle
  <1>7. CASE PopenReturned(r) \/ VerifyGroup(r) \/ Settle(r) \/ RestoreHandlers(r) \/ NotSettled(r)
    BY <1>7 DEF PopenReturned, VerifyGroup, Settle, RestoreHandlers, NotSettled, Go, Over, Caught,
                Goto, RunnerOK, PastStdout, Raising, Deferring, BeforePopen, AfterSettle
  <1>8. CASE Observe(r)
    <2>1. After[rpc[r]] \in {"supplement", "revalidation", "monitor"}
      BY <1>8 DEF Observe, After
    <2>2. CASE Publish(r, After[rpc[r]])
      BY <1>8, <2>1, <2>2, PublishMoves DEF Observe, PastStdout, Raising, Deferring, BeforePopen, AfterSettle
    <2>3. CASE Caught(r)
      BY <1>8, <2>3 DEF Observe, Caught, Goto, RunnerOK, PastStdout, Raising, Deferring, BeforePopen, AfterSettle
    <2> QED
      BY <1>8, <2>2, <2>3 DEF Observe
  <1>9. CASE LeaderExited(r) \/ LimitCrossed(r)
    BY <1>9 DEF LeaderExited, LimitCrossed, Goto, RunnerOK, PastStdout, Raising, Deferring,
                BeforePopen, AfterSettle
  <1>10. CASE Stop(r) \/ Settled(r)
    <2>1. CASE rpc[r] = "settle" /\ build[r] = "none"
      BY <1>10, <2>1 DEF Stop, Settled, Over, Goto, RunnerOK, PastStdout, Raising, Deferring,
                         BeforePopen, AfterSettle
    <2>2. CASE StopGroup(r) /\ (Go(r, "leaving") \/ Go(r, "freeze"))
      <3>1. rpc'[r] \in {"leaving", "freeze"}
        BY <2>2 DEF Go, Goto, RunnerOK
      <3>2. build'[r] = "gone"
        BY <2>2 DEF StopGroup, BuildsOK
      <3>3. evidence["stdout"] = r
        BY <1>10 DEF Stop, Settled, PastStdout, Raising, Deferring
      <3> QED
        BY <3>1, <3>2, <3>3 DEF PastStdout, Raising, Deferring, BeforePopen, AfterSettle
    <2> QED
      BY <1>10, <2>1, <2>2 DEF Stop, Settled
  <1>11. CASE Freeze(r) \/ Confirm(r)
    <2>1. rpc'[r] \in {"status", "restore"} /\ build' = build
      BY <1>11 DEF Freeze, Confirm, Go, Goto, RunnerOK
    <2> QED
      BY <1>11, <2>1 DEF Freeze, Confirm, PastStdout, Raising, Deferring, BeforePopen, AfterSettle
  <1>12. CASE Validate(r)
    BY <1>12 DEF Validate, Over, Goto, RunnerOK, PastStdout, Raising, Deferring, BeforePopen, AfterSettle
  <1>13. CASE RunnerFault(r)
    BY <1>13 DEF RunnerFault, Raise, Caught, Over, Goto, RunnerOK, PastStdout, Raising, Deferring,
                 BeforePopen, AfterSettle
  <1>14. CASE Signal(r)
    BY <1>14, TermMoves DEF Signal, PastStdout, Raising, Deferring, Uncontrolled, BeforePopen, AfterSettle
  <1>15. CASE Kill(r)
    BY <1>15, KillMoves DEF Kill, PastStdout, Raising, Deferring, BeforePopen, AfterSettle
  <1> QED
    BY <1>3, <1>4, <1>5, <1>6, <1>7, <1>8, <1>9, <1>10, <1>11, <1>12, <1>13, <1>14, <1>15
       DEF StepOf, RunnerStep

LEMMA LaunchOwns ==
  ASSUME LaunchInv, Own(Daemon), LaunchStep
  PROVE  Own(Daemon)'
  <1>1. Kept(Grounds)
    BY LaunchFrame DEF LaunchInv
  <1>2. evidence["stdout"] = Daemon => evidence'["stdout"] = Daemon
    BY <1>1 DEF Kept, Grounds
  <1> USE <1>2 DEF LaunchInv, TypeParts, Own, BuildLives
  <1>3. CASE UNCHANGED <<runner, builds>>
    BY <1>3
  <1>4. CASE FirstForks \/ Exec \/ ExecFails
    BY <1>4 DEF FirstForks, Exec, ExecFails, Launched, Go, Over, Goto, RunnerOK, PastStdout, Raising,
                Deferring, BeforePopen, AfterSettle
  <1>5. CASE UNCHANGED builds /\ (TermOn(Daemon) \/ KillOn(Daemon))
    BY <1>5, TermMoves, KillMoves
       DEF PastStdout, Raising, Deferring, Uncontrolled, BeforePopen, AfterSettle
  <1>6. CASE KillOn(Daemon) /\ StopGroup(Daemon) /\ BuildLives(Daemon)
    <2>1. build'[Daemon] = "gone"
      BY <1>6 DEF StopGroup, BuildsOK
    <2> QED
      BY <1>6, <2>1, KillMoves DEF PastStdout, Raising, Deferring, BeforePopen, AfterSettle
  <1> QED
    BY <1>3, <1>4, <1>5, <1>6
       DEF LaunchStep, LauncherStep, ChildStep, StartLauncher, OpenLogs, PublishIntent, Fork,
           Handshake, CaptureToken, HandshakeFails, RollbackProof, Reap, Verify, PublishReceipt,
           LaunchFails, Watch, ProveAbsence, UndoLogs, FirstSetsid, FirstExits, FirstFails,
           NoProof, LauncherDies, RollbackTerm, RollbackReap, RollbackKill, SettleTerm, KillOwned

LEMMA RecoveryOwns ==
  ASSUME NEW r \in Runners, Own(r), UNCHANGED <<runner, builds>>, Kept(Grounds)
  PROVE  Own(r)'
  <1>1. evidence["stdout"] = r => evidence'["stdout"] = r
    BY DEF Kept, Grounds
  <1> QED
    BY <1>1 DEF Own, BuildLives

OwnInv == LaunchInv /\ \A r \in Runners : Own(r)

LEMMA OwnInit == Init => OwnInv
  BY LaunchInit DEF Init, OwnInv, Own, BuildLives, PastStdout, Raising, Deferring, BeforePopen, AfterSettle

LEMMA OwnNext == OwnInv /\ [Next]_vars => OwnInv'
  <1> SUFFICES ASSUME OwnInv, [Next]_vars PROVE OwnInv'
    OBVIOUS
  <1>1. LaunchInv' /\ TypeParts
    BY LaunchNext DEF OwnInv, LaunchInv
  <1> SUFFICES ASSUME NEW q \in Runners PROVE Own(q)'
    BY <1>1 DEF OwnInv
  <1>2. CASE UNCHANGED vars
    BY <1>2 DEF vars, OwnInv, Own, BuildLives
  <1>3. ASSUME NEW r \in Runners, StepOf(r) PROVE Own(q)'
    BY <1>1, <1>3, StepOwns, StepFrame, OthersOwn DEF OwnInv
  <1>4. CASE LaunchStep
    BY <1>1, <1>4, LaunchOwns, LaunchFrame, OthersOwn DEF OwnInv
  <1>5. CASE RecoveryStep \/ RecoverFails \/ RecoverDies
    BY <1>1, <1>5, RecoveryFrame, RecoveryOwns DEF OwnInv
  <1> QED
    BY <1>2, <1>3, <1>4, <1>5 DEF Next, StepOf, LaunchStep

(* At most one build of the run is ever started, and none outlives its      *)
(* runner but one killed, unsettled or escaped from.                        *)
THEOREM BuildsOwned == Spec => []BuildIsOwned
  <1>1. OwnInv => BuildIsOwned
    BY DEF OwnInv, LaunchInv, TypeParts, RunnerOK, BuildsOK, Own, BuildIsOwned, Live, BuildLives, BeforePopen
  <1> QED
    BY <1>1, OwnInit, OwnNext, PTL DEF Spec

-----------------------------------------------------------------------------
(* Success.  A build that ended well stays so, whatever is done to it; the *)
(* status says success only of one whose evidence is complete; a final     *)
(* record keeps every runner from publishing anything.                     *)

Unpublished == {"none", "over", "forked", "plan", "stdout"}
Asleep == {"none", "over", "forked", "plan"}

Fair(r) == ok[r] /\ build[r] = "gone" /\ ~hit[r]
Earned(r) == Fair(r) /\ \A n \in Grounds : evidence[n] = r

Good(r) ==
    /\ rpc[r] \in PastStdout \ {"pre"} => evidence["pre"] = r
    /\ rpc[r] = "stop" => err[r]
    /\ rpc[r] \in {"launched", "monitor", "stop"} \cup LiveEvidence => build[r] # "none"
    /\ rpc[r] \in BeforePopen \cup {"popen", "launched", "monitor"} \cup LiveEvidence => ~hit[r]
    /\ rpc[r] \in {"leaving", "settle", "freeze"} /\ ~err[r] => Fair(r)
    /\ rpc[r] = "status" /\ ~err[r] => Earned(r)
    /\ rpc[r] \in {"confirm", "restore", "final", "validate"} => evidence["status"] = r
    /\ rpc[r] \in {"final", "validate"} => verdict = "success"

Record ==
    /\ (verdict = "none") <=> (evidence["status"] = None)
    /\ verdict = "success" => Earned(evidence["status"])
    /\ evidence["final"] # None =>
         /\ verdict = "success" /\ evidence["final"] = evidence["status"]
         /\ \A r \in Runners : rpc[r] \in Unpublished \cup {"validate"}
    /\ vpc # "idle" => verdict = "success" /\ \A r \in Runners : rpc[r] \in Asleep

(* What a step concerning runner r does to status, final record and place. *)
StatusStep(r) ==
    \/ evidence'["status"] = evidence["status"] /\ verdict' = verdict
    \/ /\ rpc[r] = "status" /\ evidence'["status"] = r /\ rpc'[r] \in {"confirm", "over"}
       /\ verdict' = (IF err[r] THEN "failure" ELSE "success")
    \/ /\ rpc[r] = "confirm" /\ evidence'["status"] = None /\ verdict' = "none"
       /\ rpc'[r] = "status" /\ err'[r]

FinalStep(r) ==
    \/ evidence'["final"] = evidence["final"]
    \/ rpc[r] = "final" /\ evidence'["final"] = r /\ rpc'[r] \in {"validate", "over"}
    \/ rpc[r] = "validate" /\ evidence'["final"] = None /\ rpc'[r] = "over"

PlaceStep(r) ==
    /\ rpc[r] = "validate" => rpc'[r] \in {"validate", "over"}
    /\ rpc[r] \in Unpublished /\ evidence["stdout"] # None => rpc'[r] \in Unpublished
    /\ rpc[r] \in Asleep /\ evidence["stdout"] # None => rpc'[r] \in Asleep

BuildStep(r) ==
    /\ Fair(r) => Fair(r)'
    /\ build[r] # "none" => build'[r] # "none"
    /\ hit'[r] = hit[r] \/ rpc'[r] \in {"leaving", "freeze", "over"}

LEMMA LinkStatus ==
  ASSUME FilesOK, NEW r \in Runners, NEW kept, rpc[r] \in Evidence, Link(r, rpc[r], kept)
  PROVE  /\ rpc[r] # "status" => evidence'["status"] = evidence["status"] /\ verdict' = verdict
         /\ rpc[r] = "status" => /\ evidence'["status"] = r
                                  /\ verdict' = IF err[r] THEN "failure" ELSE "success"
         /\ rpc[r] # "final" => evidence'["final"] = evidence["final"]
         /\ rpc[r] = "final" => evidence'["final"] = r
  BY DEF Link, FilesOK

LEMMA TornOver ==
  ASSUME FilesOK, NEW r \in Runners, Torn(r), rpc'[r] = "over"
  PROVE  StatusStep(r) /\ FinalStep(r)
  <1>1. CASE UNCHANGED <<evidence, verdict>>
    BY <1>1 DEF StatusStep, FinalStep
  <1>2. CASE rpc[r] \in Evidence /\ Link(r, rpc[r], {})
    BY <1>2, LinkStatus DEF StatusStep, FinalStep
  <1> QED
    BY <1>1, <1>2 DEF Torn

LEMMA TornElsewhere ==
  ASSUME FilesOK, NEW r \in Runners, Torn(r), rpc[r] \notin {"status", "final"}
  PROVE  StatusStep(r) /\ FinalStep(r)
  <1>1. CASE UNCHANGED <<evidence, verdict>>
    BY <1>1 DEF StatusStep, FinalStep
  <1>2. CASE rpc[r] \in Evidence /\ Link(r, rpc[r], {})
    BY <1>2, LinkStatus DEF StatusStep, FinalStep
  <1> QED
    BY <1>1, <1>2 DEF Torn

LEMMA PublishEffects ==
  ASSUME TypeParts, NEW r \in Runners, rpc[r] \in Evidence, NEW l, Publish(r, l),
         rpc[r] = "status" => l = "confirm", rpc[r] = "final" => l = "validate"
  PROVE  StatusStep(r) /\ FinalStep(r) /\ PlaceStep(r)
  <1> USE DEF TypeParts
  <1>1. CASE Go(r, l) /\ Free(rpc[r]) /\ \E kept : Link(r, rpc[r], kept)
    <2>1. rpc'[r] = l
      BY <1>1 DEF Go, Goto, RunnerOK
    <2>2. StatusStep(r) /\ FinalStep(r)
      BY <1>1, <2>1, LinkStatus DEF StatusStep, FinalStep
    <2>3. PlaceStep(r)
      BY <1>1, <2>1 DEF PlaceStep, Unpublished, Asleep, Free
    <2> QED
      BY <2>2, <2>3
  <1>2. CASE Raise(r)
    <2>1. rpc'[r] = (IF rpc[r] \in LiveEvidence THEN "leaving" ELSE "over")
      BY <1>2 DEF Raise, Caught, Over, Goto, Raising, RunnerOK
    <2>2. PlaceStep(r)
      BY <2>1 DEF PlaceStep, Unpublished, Asleep
    <2>3. CASE UNCHANGED files
      BY <2>2, <2>3 DEF StatusStep, FinalStep
    <2>4. CASE Torn(r)
      BY <2>1, <2>2, <2>4, TornOver, TornElsewhere
    <2> QED
      BY <1>2, <2>3, <2>4, <1>1 DEF Publish
  <1> QED
    BY <1>1, <1>2 DEF Publish

LEMMA SignalEffects ==
  ASSUME TypeParts, NEW r \in Runners, TermOn(r) \/ KillOn(r)
  PROVE  StatusStep(r) /\ FinalStep(r) /\ PlaceStep(r)
  <1> USE DEF TypeParts
  <1>1. CASE UNCHANGED evidence /\ UNCHANGED verdict /\ rpc'[r] = rpc[r]
    BY <1>1 DEF StatusStep, FinalStep, PlaceStep
  <1>2. CASE rpc'[r] = "over" /\ (Torn(r) \/ UNCHANGED files)
    <2>1. PlaceStep(r)
      BY <1>2 DEF PlaceStep, Unpublished, Asleep
    <2> QED
      BY <1>2, <2>1, TornOver DEF StatusStep, FinalStep
  <1>3. CASE rpc[r] \in Raising /\ rpc'[r] = "leaving" /\ Torn(r)
    <2>1. PlaceStep(r)
      BY <1>3 DEF PlaceStep, Unpublished, Asleep, Raising
    <2> QED
      BY <1>3, <2>1, TornElsewhere DEF Raising
  <1>4. CASE TermOn(r)
    BY <1>1, <1>2, <1>3, <1>4 DEF TermOn, Over, Goto, RunnerOK, SeeSignal
  <1>5. CASE KillOn(r)
    BY <1>1, <1>2, <1>5 DEF KillOn, Over, Goto, RunnerOK
  <1> QED
    BY <1>4, <1>5

LEMMA Quiet ==
  ASSUME NEW r \in Runners, UNCHANGED <<evidence, verdict>>, PlaceStep(r)
  PROVE  StatusStep(r) /\ FinalStep(r) /\ PlaceStep(r)
  BY DEF StatusStep, FinalStep

LEMMA StepEffects ==
  ASSUME TypeParts, NEW r \in Runners, StepOf(r)
  PROVE  StatusStep(r) /\ FinalStep(r) /\ PlaceStep(r)
  <1> USE Quiet DEF TypeParts
  <1>1. CASE StartRunner(r) \/ PlanRun(r) \/ InstallHandlers(r) \/ DeferSignals(r)
    <2>1. PlaceStep(r)
      BY <1>1 DEF StartRunner, PlanRun, NothingPublished, Free, InstallHandlers, DeferSignals, Go, Over, Goto,
                  RunnerOK, PlaceStep, Unpublished, Asleep
    <2> QED
      BY <1>1, <2>1 DEF StartRunner, PlanRun, InstallHandlers, DeferSignals
  <1>2. CASE CreateStdout(r) \/ PublishPreLaunch(r) \/ PublishStatus(r) \/ PublishFinal(r)
    BY <1>2, PublishEffects DEF CreateStdout, PublishPreLaunch, PublishStatus, PublishFinal
  <1>3. CASE Popen(r) \/ BuildExits(r) \/ DescendantsExit(r)
    BY <1>3 DEF Popen, BuildExits, DescendantsExit, PlaceStep
  <1>4. CASE PopenReturned(r) \/ VerifyGroup(r) \/ Settle(r) \/ RestoreHandlers(r) \/ NotSettled(r)
    <2>1. PlaceStep(r)
      BY <1>4 DEF PopenReturned, VerifyGroup, Settle, RestoreHandlers, NotSettled, PlaceStep,
                  Unpublished, Asleep
    <2> QED
      BY <1>4, <2>1 DEF PopenReturned, VerifyGroup, Settle, RestoreHandlers, NotSettled
  <1>5. CASE Observe(r)
    <2>1. PlaceStep(r)
      BY <1>5 DEF Observe, PlaceStep, Unpublished, Asleep
    <2> QED
      BY <1>5, <2>1, PublishEffects DEF Observe
  <1>6. CASE LeaderExited(r) \/ LimitCrossed(r) \/ Stop(r) \/ Settled(r) \/ Freeze(r)
    <2>1. PlaceStep(r)
      BY <1>6 DEF LeaderExited, LimitCrossed, Stop, Settled, Freeze, PlaceStep, Unpublished, Asleep
    <2> QED
      BY <1>6, <2>1 DEF LeaderExited, LimitCrossed, Stop, Settled, Freeze
  <1>7. CASE Confirm(r)
    <2>1. PlaceStep(r)
      BY <1>7 DEF Confirm, PlaceStep, Unpublished, Asleep
    <2>2. CASE sig[r] /\ verdict = "success"
      BY <1>7, <2>1, <2>2 DEF Confirm, StatusStep, FinalStep, FilesOK, RunnerOK, Goto
    <2>3. CASE ~(sig[r] /\ verdict = "success")
      BY <1>7, <2>1, <2>3 DEF Confirm
    <2> QED
      BY <2>2, <2>3
  <1>8. CASE Validate(r)
    <2>1. rpc'[r] = "over"
      BY <1>8 DEF Validate, Over, Goto, RunnerOK
    <2>2. PlaceStep(r)
      BY <2>1 DEF PlaceStep, Unpublished, Asleep
    <2> QED
      BY <1>8, <2>1, <2>2 DEF Validate, StatusStep, FinalStep, FilesOK
  <1>9. CASE RunnerFault(r)
    <2>1. PlaceStep(r)
      BY <1>9 DEF RunnerFault, Raise, Over, Caught, Goto, RunnerOK, PlaceStep, Unpublished, Asleep, Raising
    <2> QED
      BY <1>9, <2>1 DEF RunnerFault
  <1>10. CASE Signal(r) \/ Kill(r)
    BY <1>10, SignalEffects DEF Signal, Kill
  <1> QED
    BY <1>1, <1>2, <1>3, <1>4, <1>5, <1>6, <1>7, <1>8, <1>9, <1>10 DEF StepOf, RunnerStep

LEMMA LaunchEffects ==
  ASSUME LaunchInv, LaunchStep
  PROVE  StatusStep(Daemon) /\ FinalStep(Daemon) /\ PlaceStep(Daemon) /\ UNCHANGED vpc
  <1> USE Quiet DEF LaunchInv, TypeParts
  <1>1. CASE UNCHANGED <<files, runner, vpc>>
    BY <1>1 DEF PlaceStep
  <1>2. CASE FirstForks \/ Exec \/ ExecFails
    <2>1. rpc'[Daemon] \in Asleep
      BY <1>2 DEF FirstForks, Exec, ExecFails, Go, Over, Goto, RunnerOK, Asleep
    <2>2. rpc[Daemon] = "forked" \/ FirstForks
      BY <1>2 DEF Exec, ExecFails
    <2>3. rpc'[Daemon] = "over" \/ rpc[Daemon] # "validate"
      BY <1>2 DEF FirstForks, Exec, ExecFails, Launched
    <2>4. PlaceStep(Daemon)
      BY <2>1, <2>2, <2>3 DEF PlaceStep, Unpublished, Asleep
    <2> QED
      BY <1>2, <2>4 DEF FirstForks, Exec, ExecFails
  <1>3. CASE UNCHANGED vpc /\ (TermOn(Daemon) \/ KillOn(Daemon))
    BY <1>3, SignalEffects
  <1> QED
    BY <1>1, <1>2, <1>3
       DEF LaunchStep, LauncherStep, ChildStep, StartLauncher, OpenLogs, PublishIntent, Fork,
           Handshake, CaptureToken, HandshakeFails, RollbackProof, Reap, Verify, PublishReceipt,
           LaunchFails, Watch, ProveAbsence, UndoLogs, FirstSetsid, FirstExits, FirstFails,
           NoProof, LauncherDies, RollbackTerm, RollbackReap, RollbackKill, SettleTerm, KillOwned

LEMMA StepBuild ==
  ASSUME TypeParts, NEW r \in Runners, StepOf(r)
  PROVE  BuildStep(r) /\ UNCHANGED vpc
  <1> USE DEF TypeParts
  <1>1. CASE UNCHANGED <<builds, vpc>>
    BY <1>1 DEF BuildStep, Fair
  <1>2. CASE Popen(r) \/ BuildExits(r) \/ DescendantsExit(r)
    BY <1>2 DEF Popen, BuildExits, DescendantsExit, BuildStep, Fair, BuildsOK
  <1>3. CASE StopGroup(r) /\ UNCHANGED vpc /\ (Go(r, "leaving") \/ Go(r, "freeze"))
    <2>1. rpc'[r] \in {"leaving", "freeze"}
      BY <1>3 DEF Go, Goto, RunnerOK
    <2>2. build'[r] = "gone"
      BY <1>3 DEF StopGroup, BuildsOK
    <2>3. Fair(r) => Fair(r)'
      BY <1>3, <2>2 DEF StopGroup, BuildsOK, Fair, BuildLives
    <2> QED
      BY <1>3, <2>1, <2>2, <2>3 DEF BuildStep
  <1> QED
    BY <1>1, <1>2, <1>3
       DEF StepOf, RunnerStep, StartRunner, RunnerFault, NotSettled, LimitCrossed, Signal, Kill,
           PlanRun, CreateStdout, PublishPreLaunch, InstallHandlers, DeferSignals, PopenReturned,
           VerifyGroup, Observe, LeaderExited, Stop, Settle, Settled, Freeze, PublishStatus,
           Confirm, RestoreHandlers, PublishFinal, Validate

LEMMA LaunchBuild ==
  ASSUME OwnInv, LaunchStep
  PROVE  BuildStep(Daemon)
  <1> USE DEF OwnInv, LaunchInv, TypeParts
  <1>1. CASE UNCHANGED builds
    BY <1>1 DEF BuildStep, Fair
  <1>2. CASE KillOwned /\ StopGroup(Daemon) /\ BuildLives(Daemon)
    <2>1. rpc[Daemon] # "none"
      BY <1>2 DEF Own, BeforePopen, BuildLives
    <2>2. rpc'[Daemon] = "over"
      BY <1>2, <2>1 DEF KillOwned, KillOn, Live, Over, Goto, RunnerOK
    <2>3. build'[Daemon] = "gone"
      BY <1>2 DEF StopGroup, BuildsOK
    <2> QED
      BY <1>2, <2>2, <2>3 DEF BuildStep, Fair, BuildLives
  <1> QED
    BY <1>1, <1>2
       DEF LaunchStep, LauncherStep, ChildStep, StartLauncher, OpenLogs, PublishIntent, Fork,
           FirstForks, Exec, ExecFails, Handshake, CaptureToken, HandshakeFails, RollbackProof,
           Reap, Verify, PublishReceipt, LaunchFails, Watch, ProveAbsence, UndoLogs, FirstSetsid,
           FirstExits, FirstFails, NoProof, LauncherDies, RollbackTerm, RollbackReap,
           RollbackKill, SettleTerm, KillOwned

(* What a step of another runner leaves of a runner's own. *)
LEMMA EarnedKept ==
  ASSUME NEW r \in Runners, Earned(r), Fair(r) => Fair(r)', Kept(Grounds)
  PROVE  Earned(r)'
  <1>1. \A n \in Grounds : evidence'[n] = r
    BY DEF Earned, Kept
  <1> QED
    BY <1>1 DEF Earned

LEMMA FairElsewhere ==
  ASSUME NEW r, NEW q \in Runners \ {r}, BuildFrame(r)
  PROVE  Fair(q) => Fair(q)'
  BY DEF BuildFrame, Fair

LEMMA OthersGood ==
  ASSUME OwnInv, NEW r \in Runners, NEW q \in Runners \ {r}, Good(q),
         RunnerFrame(r), BuildFrame(r), Kept(Grounds), StatusStep(r)
  PROVE  Good(q)'
  <1>1. /\ rpc'[q] = rpc[q] /\ err'[q] = err[q] /\ hit'[q] = hit[q] /\ build'[q] = build[q]
        /\ Fair(q) => Fair(q)'
    BY FairElsewhere DEF RunnerFrame, BuildFrame
  <1>2. evidence["pre"] = q => evidence'["pre"] = q
    BY DEF Kept, Grounds
  <1>3. Earned(q) => Earned(q)'
    BY <1>1, EarnedKept
  <1>4. CASE evidence'["status"] = evidence["status"] /\ verdict' = verdict
    BY <1>1, <1>2, <1>3, <1>4 DEF Good
  <1>5. CASE rpc[r] \in {"status", "confirm"}
    <2>1. evidence["stdout"] = r
      BY <1>5 DEF OwnInv, Own, PastStdout, Deferring
    <2>2. rpc[q] \notin PastStdout
      BY <2>1 DEF OwnInv, Own
    <2> QED
      BY <1>1, <1>2, <1>3, <2>2 DEF Good, PastStdout, Raising, Deferring
  <1> QED
    BY <1>4, <1>5 DEF StatusStep

LEMMA StepGood ==
  ASSUME OwnInv, NEW r \in Runners, Good(r), StepOf(r), StatusStep(r)
  PROVE  Good(r)'
  <1>1. BuildStep(r) /\ Kept(Grounds)
    BY StepBuild, StepFrame DEF OwnInv, LaunchInv
  <1>2. evidence["pre"] = r => evidence'["pre"] = r
    BY <1>1 DEF Kept, Grounds
  <1>3. Earned(r) => Earned(r)'
    BY <1>1, EarnedKept DEF BuildStep
  <1> USE <1>1, <1>2, <1>3 DEF OwnInv, LaunchInv, TypeParts, Good, BuildStep
  <1>4. CASE StartRunner(r) \/ PlanRun(r) \/ InstallHandlers(r) \/ DeferSignals(r)
    BY <1>4 DEF StartRunner, PlanRun, InstallHandlers, DeferSignals, Go, Over, Goto, RunnerOK,
                PastStdout, Raising, Deferring, BeforePopen
  <1>5. CASE CreateStdout(r) \/ PublishPreLaunch(r)
    BY <1>5, PublishMoves DEF CreateStdout, PublishPreLaunch, PastStdout, Raising, Deferring, BeforePopen
  <1>6. CASE PublishStatus(r) \/ PublishFinal(r)
    BY <1>6, PublishMoves DEF PublishStatus, PublishFinal, PastStdout, Raising, Deferring, BeforePopen,
                              StatusStep
  <1>7. CASE Popen(r) \/ BuildExits(r) \/ DescendantsExit(r)
    <2>1. UNCHANGED <<rpc, err, evidence, verdict, hit>>
      BY <1>7 DEF Popen, BuildExits, DescendantsExit
    <2> QED
      BY <2>1
  <1>8. CASE PopenReturned(r) \/ VerifyGroup(r) \/ Settle(r) \/ RestoreHandlers(r) \/ NotSettled(r)
    BY <1>8 DEF PopenReturned, VerifyGroup, Settle, RestoreHandlers, NotSettled, Go, Over, Caught,
                Goto, RunnerOK, PastStdout, Raising, Deferring, BeforePopen
  <1>9. CASE Observe(r)
    <2>1. After[rpc[r]] \in {"supplement", "revalidation", "monitor"}
      BY <1>9 DEF Observe, After
    <2>2. CASE Publish(r, After[rpc[r]])
      BY <1>9, <2>1, <2>2, PublishMoves DEF Observe, PastStdout, Raising, Deferring, BeforePopen
    <2>3. CASE Caught(r)
      BY <1>9, <2>3 DEF Observe, Caught, Goto, RunnerOK, PastStdout, Raising, Deferring, BeforePopen
    <2> QED
      BY <1>9, <2>2, <2>3 DEF Observe
  <1>10. CASE LeaderExited(r) \/ LimitCrossed(r)
    <2>1. ~hit[r] /\ build[r] # "none" /\ evidence["pre"] = r
      BY <1>10 DEF LeaderExited, LimitCrossed, PastStdout, Raising
    <2>2. \/ rpc'[r] = "stop" /\ err'[r]
          \/ rpc'[r] = "leaving" /\ (err'[r] \/ Fair(r))
      BY <1>10, <2>1 DEF LeaderExited, LimitCrossed, Goto, RunnerOK, BuildsOK, Fair
    <2> QED
      BY <2>1, <2>2 DEF PastStdout, Raising, Deferring, BeforePopen
  <1>11. CASE Stop(r) \/ Settled(r)
    <2>1. \/ rpc'[r] = "over"
          \/ rpc'[r] \in {"leaving", "freeze"} /\ err'[r] = err[r]
      BY <1>11 DEF Stop, Settled, Go, Over, Goto, RunnerOK
    <2>2. ~err[r] => Fair(r)
      BY <1>11 DEF Stop, Settled
    <2>3. evidence["pre"] = r
      BY <1>11 DEF Stop, Settled, PastStdout, Raising, Deferring
    <2> QED
      BY <2>1, <2>2, <2>3 DEF BeforePopen, PastStdout, Raising, Deferring
  <1>12. CASE Freeze(r)
    <2>1. rpc'[r] = "status" /\ UNCHANGED <<evidence, builds>>
      BY <1>12 DEF Freeze, Goto, RunnerOK
    <2>2. ~err'[r] => ~err[r] /\ \A n \in LiveEvidence : evidence[n] = r
      BY <1>12 DEF Freeze, RunnerOK
    <2>3. evidence["pre"] = r /\ evidence["stdout"] = r
      BY <1>12 DEF Freeze, Own, PastStdout, Deferring
    <2>4. ~err'[r] => Earned(r)
      BY <1>12, <2>2, <2>3 DEF Freeze, Earned, Grounds
    <2> QED
      BY <2>1, <2>3, <2>4 DEF BeforePopen
  <1>13. CASE Confirm(r)
    <2>1. \/ rpc'[r] = "status" /\ err'[r]
          \/ rpc'[r] = "restore" /\ UNCHANGED files
      BY <1>13 DEF Confirm, Go, Goto, RunnerOK
    <2> QED
      BY <1>13, <2>1 DEF Confirm, BeforePopen, PastStdout, Deferring
  <1>14. CASE Validate(r) \/ RunnerFault(r)
    BY <1>14 DEF Validate, RunnerFault, Raise, Caught, Over, Goto, RunnerOK, PastStdout, Raising,
                 Deferring, BeforePopen
  <1>15. CASE Signal(r)
    BY <1>15, TermMoves DEF Signal, StatusStep, PastStdout, Raising, Deferring, Uncontrolled, BeforePopen
  <1>16. CASE Kill(r)
    BY <1>16, KillMoves DEF Kill, StatusStep, PastStdout, Raising, Deferring, BeforePopen
  <1> QED
    BY <1>4, <1>5, <1>6, <1>7, <1>8, <1>9, <1>10, <1>11, <1>12, <1>13, <1>14, <1>15, <1>16
       DEF StepOf, RunnerStep

LEMMA LaunchGood ==
  ASSUME OwnInv, Good(Daemon), LaunchStep
  PROVE  Good(Daemon)'
  <1>1. BuildStep(Daemon) /\ Kept(Grounds) /\ StatusStep(Daemon)
    BY LaunchBuild, LaunchFrame, LaunchEffects DEF OwnInv, LaunchInv
  <1>2. evidence["pre"] = Daemon => evidence'["pre"] = Daemon
    BY <1>1 DEF Kept, Grounds
  <1>3. Earned(Daemon) => Earned(Daemon)'
    BY <1>1, EarnedKept DEF BuildStep
  <1> USE <1>1, <1>2, <1>3 DEF OwnInv, LaunchInv, TypeParts, Good, BuildStep
  <1>4. CASE UNCHANGED <<files, runner, builds>>
    BY <1>4
  <1>5. CASE FirstForks \/ Exec \/ ExecFails
    <2>1. rpc[Daemon] \in {"none", "forked"} /\ UNCHANGED builds
      BY <1>5 DEF FirstForks, Exec, ExecFails, Launched
    <2>2. rpc'[Daemon] \in {"forked", "plan", "over"}
      BY <1>5 DEF FirstForks, Exec, ExecFails, Go, Over, Goto, RunnerOK
    <2> QED
      BY <2>1, <2>2 DEF BeforePopen, PastStdout, Raising, Deferring
  <1>6. CASE TermOn(Daemon) /\ UNCHANGED builds
    BY <1>6, TermMoves DEF StatusStep, PastStdout, Raising, Deferring, Uncontrolled, BeforePopen
  <1>7. CASE KillOn(Daemon) /\ UNCHANGED builds
    BY <1>7, KillMoves DEF StatusStep, PastStdout, Raising, Deferring, BeforePopen
  <1>8. CASE KillOwned /\ BuildLives(Daemon)
    <2>1. rpc[Daemon] # "none"
      BY <1>8 DEF Own, BeforePopen, BuildLives
    <2>2. rpc'[Daemon] = "over"
      BY <1>8, <2>1 DEF KillOwned, KillOn, Live, Over, Goto, RunnerOK
    <2> QED
      BY <2>2 DEF PastStdout, Raising, Deferring, BeforePopen
  <1> QED
    BY <1>4, <1>5, <1>6, <1>7, <1>8
       DEF LaunchStep, LauncherStep, ChildStep, StartLauncher, OpenLogs, PublishIntent, Fork,
           Handshake, CaptureToken, HandshakeFails, RollbackProof, Reap, Verify, PublishReceipt,
           LaunchFails, Watch, ProveAbsence, UndoLogs, FirstSetsid, FirstExits, FirstFails,
           NoProof, LauncherDies, RollbackTerm, RollbackReap, RollbackKill, SettleTerm, KillOwned

(* The record under a step concerning runner r. *)
LEMMA RecordKept ==
  ASSUME OwnInv, Record, NEW r \in Runners, Good(r),
         RunnerFrame(r), BuildFrame(r), BuildStep(r), Kept(Grounds),
         StatusStep(r), FinalStep(r), PlaceStep(r), UNCHANGED vpc
  PROVE  Record'
  <1> USE DEF OwnInv, LaunchInv, TypeParts
  <1>1. \A q \in Runners : Earned(q) => Earned(q)'
    BY EarnedKept, FairElsewhere DEF BuildStep
  <1>2. verdict = "success" => evidence["status"] \in Runners /\ evidence["stdout"] # None
    BY DEF Record, FilesOK, Earned, Grounds
  <1>3. (verdict' = "none") <=> (evidence'["status"] = None)
    BY DEF Record, StatusStep
  <1>4. verdict' = "success" => Earned(evidence["status"])' /\ evidence'["status"] \in Runners
    <2>1. CASE evidence'["status"] = evidence["status"] /\ verdict' = verdict
      BY <1>1, <1>2, <2>1 DEF Record, Earned, Fair
    <2>2. CASE rpc[r] = "status" /\ evidence'["status"] = r /\ ~err[r]
      BY <1>1, <2>2 DEF Good, Earned, Fair
    <2> QED
      BY <2>1, <2>2 DEF StatusStep
  <1>5. evidence["final"] # None =>
          /\ evidence'["status"] = evidence["status"] /\ verdict' = "success"
          /\ rpc[r] \in Unpublished \cup {"validate"} /\ rpc'[r] \in Unpublished \cup {"validate"}
    BY <1>2 DEF Record, StatusStep, PlaceStep, Unpublished
  <1>6. \A q \in Runners \ {r} : rpc'[q] = rpc[q]
    BY DEF RunnerFrame
  <1>7. evidence'["final"] # None =>
          /\ verdict' = "success" /\ evidence'["final"] = evidence'["status"]
          /\ \A q \in Runners : rpc'[q] \in Unpublished \cup {"validate"}
    <2>1. CASE evidence'["final"] = evidence["final"]
      BY <1>5, <1>6, <2>1 DEF Record
    <2>2. CASE rpc[r] = "final" /\ evidence'["final"] = r /\ rpc'[r] \in {"validate", "over"}
      <3>1. evidence["stdout"] = r /\ evidence["status"] = r /\ verdict = "success"
        BY <2>2 DEF Own, PastStdout, Good
      <3>2. evidence'["status"] = r /\ verdict' = "success"
        BY <2>2, <3>1 DEF StatusStep
      <3>3. \A q \in Runners \ {r} : rpc[q] \in Unpublished
        <4> SUFFICES ASSUME NEW q \in Runners \ {r} PROVE rpc[q] \in Unpublished
          OBVIOUS
        <4>1. rpc[q] \notin PastStdout /\ rpc[q] \in Places
          BY <3>1 DEF Own, RunnerOK
        <4> QED
          BY <4>1 DEF Places, PastStdout, Uncontrolled, Unpublished
      <3> QED
        BY <1>6, <2>2, <3>2, <3>3 DEF Unpublished
    <2> QED
      BY <2>1, <2>2 DEF FinalStep
  <1>8. vpc' # "idle" => verdict' = "success" /\ \A q \in Runners : rpc'[q] \in Asleep
    BY <1>2, <1>6 DEF Record, StatusStep, PlaceStep, Asleep
  <1> QED
    BY <1>3, <1>4, <1>7, <1>8 DEF Record

LEMMA RecoveryRecord ==
  ASSUME OwnInv, Record, RecoveryStep \/ RecoverFails \/ RecoverDies
  PROVE  Record' /\ \A r \in Runners : Good(r) => Good(r)'
  <1> USE DEF OwnInv, LaunchInv, TypeParts
  <1>1. UNCHANGED <<runner, builds>> /\ Kept(Grounds)
    BY RecoveryFrame
  <1>2. evidence'["status"] = evidence["status"] /\ verdict' = verdict
    BY DEF FilesOK, RecoveryStep, RecoverStart, RecoverPublish, RecoverDone, RecoverFails, RecoverDies
  <1>3. \A r \in Runners : Earned(r) => Earned(r)'
    BY <1>1, EarnedKept DEF Fair
  <1>4. verdict = "success" => evidence["status"] \in Runners
    BY DEF Record, FilesOK
  <1>5. evidence'["final"] \in {None, evidence["final"]}
          \/ (vpc = "publish" /\ evidence'["final"] = evidence["status"])
    BY DEF FilesOK, RecoveryStep, RecoverStart, RecoverPublish, RecoverDone, RecoverFails, RecoverDies
  <1>6. vpc' = "idle" \/ vpc # "idle" \/ (verdict = "success" /\ \A r \in Runners : ~Live(r))
    BY DEF RecoveryStep, RecoverStart, Recoverable, RecoverPublish, RecoverDone, RecoverFails, RecoverDies
  <1>7. verdict' = "success" => Earned(evidence["status"])'
    BY <1>2, <1>3, <1>4 DEF Record, Earned, Fair
  <1>8. Record'
    BY <1>1, <1>2, <1>5, <1>6, <1>7 DEF Record, Live, Unpublished, Asleep
  <1>9. ASSUME NEW r \in Runners, Good(r) PROVE Good(r)'
    <2>1. evidence["pre"] = r => evidence'["pre"] = r
      BY <1>1 DEF Kept, Grounds
    <2>2. Fair(r) => Fair(r)'
      BY <1>1 DEF Fair
    <2> QED
      BY <1>1, <1>2, <1>3, <1>9, <2>1, <2>2 DEF Good
  <1> QED
    BY <1>8, <1>9

SuccessInv == OwnInv /\ Record /\ \A r \in Runners : Good(r)

LEMMA SuccessInit == Init => SuccessInv
  <1> SUFFICES ASSUME Init PROVE SuccessInv
    OBVIOUS
  <1>1. OwnInv
    BY OwnInit
  <1>2. Record
    BY DEF Init, Record
  <1>3. \A r \in Runners : Good(r)
    BY DEF Init, Good, PastStdout, Raising, Deferring
  <1> QED
    BY <1>1, <1>2, <1>3 DEF SuccessInv

LEMMA SuccessNext == SuccessInv /\ [Next]_vars => SuccessInv'
  <1> SUFFICES ASSUME SuccessInv, [Next]_vars PROVE SuccessInv'
    OBVIOUS
  <1>1. OwnInv' /\ OwnInv /\ TypeParts
    BY OwnNext DEF SuccessInv, OwnInv, LaunchInv
  <1>2. CASE UNCHANGED vars
    BY <1>1, <1>2 DEF vars, SuccessInv, Record, Good, Earned, Fair
  <1>3. ASSUME NEW r \in Runners, StepOf(r) PROVE SuccessInv'
    <2>1. /\ RunnerFrame(r) /\ BuildFrame(r) /\ Kept(Grounds)
          /\ StatusStep(r) /\ FinalStep(r) /\ PlaceStep(r) /\ BuildStep(r) /\ UNCHANGED vpc
      BY <1>1, <1>3, StepFrame, StepEffects, StepBuild
    <2>2. Record'
      BY <1>1, <2>1, RecordKept DEF SuccessInv
    <2>3. \A q \in Runners : Good(q)'
      BY <1>1, <1>3, <2>1, StepGood, OthersGood DEF SuccessInv
    <2> QED
      BY <1>1, <2>2, <2>3 DEF SuccessInv
  <1>4. CASE LaunchStep
    <2>1. /\ RunnerFrame(Daemon) /\ BuildFrame(Daemon) /\ Kept(Grounds) /\ BuildStep(Daemon)
          /\ StatusStep(Daemon) /\ FinalStep(Daemon) /\ PlaceStep(Daemon) /\ UNCHANGED vpc
      BY <1>1, <1>4, LaunchFrame, LaunchEffects, LaunchBuild DEF OwnInv
    <2>2. Record'
      BY <1>1, <2>1, RecordKept DEF SuccessInv
    <2>3. \A q \in Runners : Good(q)'
      BY <1>1, <1>4, <2>1, LaunchGood, OthersGood DEF SuccessInv
    <2> QED
      BY <1>1, <2>2, <2>3 DEF SuccessInv
  <1>5. CASE RecoveryStep \/ RecoverFails \/ RecoverDies
    BY <1>1, <1>5, RecoveryRecord DEF SuccessInv
  <1> QED
    BY <1>2, <1>3, <1>4, <1>5 DEF Next, StepOf, LaunchStep

(* A success, and the final record of one, whoever published it, stand for  *)
(* a build that ended by itself with 0 and left nobody, its evidence whole. *)
THEOREM SuccessEarned == Spec => []SuccessIsEarned
  <1>1. SuccessInv => SuccessIsEarned
    BY DEF SuccessInv, OwnInv, LaunchInv, TypeParts, FilesOK, Record, Earned, Fair, Grounds,
           SuccessIsEarned
  <1> QED
    BY <1>1, SuccessInit, SuccessNext, PTL DEF Spec
=============================================================================
