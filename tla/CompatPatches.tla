--------------------------- MODULE CompatPatches ---------------------------
(***************************************************************************)
(* The five source patches that build_pipeline.py applies after the        *)
(* preparation, each by a transaction of its own: copies of the files in a *)
(* private directory, patch(1), the hashes, a receipt, and the receipt's   *)
(* contract; a handler withdraws the receipt and puts the files back.      *)
(* Each contract validates the one before it, and none looks for a child   *)
(* of an earlier run.                                                      *)
(***************************************************************************)
EXTENDS BuildDriver

VARIABLE patched    \* the files with their post-patch hash

\* Two files stand for the three of GN_COMPAT_FILES.
FilesOf(c) == IF c \in {"gn", "seatbelt"} THEN {<<c, 1>>, <<c, 2>>} ELSE {<<c, 1>>}
AllFiles == UNION {FilesOf(c) : c \in Compats}

AllPost(c) == FilesOf(c) \subseteq patched
AllPre(c) == FilesOf(c) \cap patched = {}

\* The five contracts, each of which validates the one before it.
GnHolds == paper["gn"] # "none" /\ AllPost("gn")
Xcode27Holds == GnHolds /\ paper["xcode27"] # "none" /\ AllPost("xcode27")
SeatbeltHolds == Xcode27Holds /\ paper["seatbelt"] # "none" /\ AllPost("seatbelt")
ScreenAIHolds == SeatbeltHolds /\ paper["screenAI"] # "none" /\ AllPost("screenAI")
LinkeditHolds == ScreenAIHolds /\ paper["linkedit"] # "none" /\ AllPost("linkedit")

CompatHolds(c) == CASE c = "gn" -> GnHolds
                    [] c = "xcode27" -> Xcode27Holds
                    [] c = "seatbelt" -> SeatbeltHolds
                    [] c = "screenAI" -> ScreenAIHolds
                    [] c = "linkedit" -> LinkeditHolds

\* Files are patched, and put back, in their order.
First(S) == CHOOSE f \in S : \A g \in S : f[2] <= g[2]

----------------------------------------------------------------------------
(* A plan finds the earlier patches valid, no receipt and every file in    *)
(* its pre-image; the ScreenAI patch also finalises an exact post-image,   *)
(* which an interruption may have left.  armArgs: the preparation's        *)
(* contract finds the arm64 args.gn, or the receipt of its reclamation     *)
(* where the patch accepts that.                                           *)

GnPlan == paper["gn"] = "none" /\ AllPre("gn")
Xcode27Plan == GnHolds /\ paper["xcode27"] = "none" /\ AllPre("xcode27")
SeatbeltPlan == Xcode27Holds /\ paper["seatbelt"] = "none" /\ AllPre("seatbelt")
ScreenAIPlan ==
  SeatbeltHolds /\ paper["screenAI"] = "none" /\ (AllPre("screenAI") \/ AllPost("screenAI"))
LinkeditPlan == ScreenAIHolds /\ paper["linkedit"] = "none" /\ AllPre("linkedit")

CompatPlan(c, armArgs) ==
  /\ armArgs
  /\ CASE c = "gn" -> GnPlan
       [] c = "xcode27" -> Xcode27Plan
       [] c = "seatbelt" -> SeatbeltPlan
       [] c = "screenAI" -> ScreenAIPlan
       [] c = "linkedit" -> LinkeditPlan

StartCompat(c, armArgs) ==
  /\ Idle
  /\ CompatPlan(c, armArgs)
  /\ task' = c
  /\ IF AllPre(c) THEN pc' = "patch" /\ known' = {}
                  ELSE pc' = c /\ known' = {"post"}
  /\ UNCHANGED <<patched, papers, children, mishaps>>

\* patch(1) changes one file after the other; the hashes are checked then.
PatchFile(c) ==
  /\ At(c, "patch")
  /\ LET left == FilesOf(c) \ patched IN
       IF left = {} THEN Goto(c) /\ UNCHANGED patched
                    ELSE patched' = patched \cup {First(left)} /\ UNCHANGED driver
  /\ UNCHANGED <<papers, children, mishaps>>

PatchFails(c) ==
  /\ At(c, "patch")
  /\ \/ Spend("error") /\ Goto("retract") /\ UNCHANGED children
     \/ PopenGap("retract")
  /\ UNCHANGED <<patched, papers>>

PublishCompat(c) ==
  /\ At(c, c)
  /\ Publish(c, "confirm", "retract")
  /\ UNCHANGED <<patched, children>>

ConfirmCompat(c) ==
  /\ At(c, "confirm")
  /\ \/ CompatHolds(c) /\ Goto("done") /\ UNCHANGED mishaps
     \/ Spend("error") /\ Goto("retract")
  /\ UNCHANGED <<patched, papers, children>>

----------------------------------------------------------------------------
(* The handler, for any exception: _remove_failed_execution_receipt()      *)
(* refuses to withdraw a receipt that is valid, or that this process does  *)
(* not know as its own, and then nothing is put back.                      *)

RetractNothing(c) ==
  /\ At(c, "retract")
  /\ paper[c] = "none"
  /\ Goto("restore")
  /\ UNCHANGED <<patched, papers, children, mishaps>>

\* A slip: the handler puts the files back under a receipt that stays.
RetractKept(c) ==
  /\ At(c, "retract")
  /\ paper[c] # "none"
  /\ Goto("restore")
  /\ UNCHANGED <<patched, papers, children, mishaps>>

RetractRefused(c) ==
  /\ At(c, "retract")
  /\ paper[c] # "none"
  /\ \/ CompatHolds(c) /\ UNCHANGED mishaps
     \/ "receipt" \notin known /\ Spend("error")
  /\ Goto("done")
  /\ UNCHANGED <<patched, papers, children>>

\* The contract fails in the handler, although it holds.
Retract(c) ==
  /\ At(c, "retract")
  /\ paper[c] # "none"
  /\ "receipt" \in known
  /\ Spend("error")
  /\ paper' = [paper EXCEPT ![c] = "none"]
  /\ Goto("restore")
  /\ UNCHANGED <<patched, temps, children>>

Restore(c) ==
  /\ At(c, "restore")
  /\ LET left == IF "post" \in known THEN {} ELSE FilesOf(c) \cap patched IN
       IF left = {} THEN Goto("done") /\ UNCHANGED patched
                    ELSE patched' = patched \ {First(left)} /\ UNCHANGED driver
  /\ UNCHANGED <<papers, children, mishaps>>

\* "rollback failed; snapshot retained"
RestoreFails(c) ==
  /\ At(c, "restore")
  /\ Spend("error")
  /\ Goto("done")
  /\ UNCHANGED <<patched, papers, children>>

\* patch(1) of a dead driver goes on.
StrayPatch(c) ==
  /\ c \in strays
  /\ FilesOf(c) \ patched # {}
  /\ patched' = patched \cup {First(FilesOf(c) \ patched)}
  /\ UNCHANGED <<driver, papers, children, mishaps>>

CompatStep(c) ==
  \/ PatchFile(c) \/ PatchFails(c) \/ PublishCompat(c) \/ ConfirmCompat(c)
  \/ RetractNothing(c) \/ RetractRefused(c) \/ Retract(c)
  \/ Restore(c) \/ RestoreFails(c)
  \/ StrayPatch(c)

\* Each of the five functions is such a transaction, written out.
ExecuteGnCompat == CompatStep("gn")
ExecuteXcode27Compat == CompatStep("xcode27")
ExecuteXcode27Seatbelt == CompatStep("seatbelt")
ExecuteScreenAIDisabled == CompatStep("screenAI")
ExecuteXcode27LinkeditStrip == CompatStep("linkedit")

----------------------------------------------------------------------------
(* A receipt stands for its own patch and all earlier ones, at every       *)
(* instant, also in the middle of a rollback and after a kill; and one     *)
(* exception leaves a patch either applied with its receipt or not at all. *)
CompatAllOrNothing ==
  /\ \A c \in Compats : paper[c] # "none" => CompatHolds(c)
  /\ Undisturbed /\ Idle =>
       \A c \in Compats : (paper[c] = "none" /\ AllPre(c)) \/ CompatHolds(c)
============================================================================
