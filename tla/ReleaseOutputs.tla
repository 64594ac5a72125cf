--------------------------- MODULE ReleaseOutputs ---------------------------
(***************************************************************************)
(* What the auto-update release stages of platform/macos/                  *)
(* autoupdate_release.py work on: the build, the outputs of the stages     *)
(* with their receipts, the stages' private parts, and the ways in which a *)
(* stage ends.  DmgImage and ReleaseChain have the stages.                 *)
(*                                                                         *)
(* Data.  A version of the source tree (with the arguments) is a number,   *)
(* never twice the same, and a build the number of the source that Ninja   *)
(* made it from.  An output is the build its contents come from ("made")   *)
(* and the build whose chain its receipt binds by hash ("binds"); the      *)
(* addendum is about the source instead.                                   *)
(*                                                                         *)
(* MergeUnbound is not used below: it is MergeHolds with a slip.           *)
(***************************************************************************)
EXTENDS Integers

CONSTANTS
    Operators,      \* processes that may run stages side by side
    MaxEdits,       \* bound: how often the source tree is edited
    MaxMishaps      \* bound: calls that fail, interrupts, processes that die

ASSUME ReleaseAssumption ==
    /\ MaxEdits \in Nat /\ MaxMishaps \in Nat
    /\ "none" \notin Operators /\ "left" \notin Operators

(* What the stages make, in the order of the chain. *)
Addendum == 1
Seal == 2
Staging == 3
Unsigned == 4
Signed == 5
Acceptance == 6
Dmg == 7
Sidecar == 8
Outputs == 1 .. 8
Stages == 1 .. 7      \* a stage is named by its first output

(* Published by renaming a directory, or the root of the DMG's candidate;   *)
(* the others are receipts published by _atomic_json.                       *)
Directories == {Staging, Unsigned, Signed, Dmg}

OutputsOf(s) == IF s = Dmg THEN {Dmg, Sidecar} ELSE {s}

(* What goes when an operator removes an output: the acceptance lies inside *)
(* the signed directory, the sidecar belongs to its DMG.                    *)
Extent(o) == CASE o = Signed -> {Signed, Acceptance}
               [] o \in {Dmg, Sidecar} -> {Dmg, Sidecar}
               [] OTHER -> {o}

Versions == 0 .. MaxEdits

Absent == [made |-> -1, binds |-> -1]

VARIABLES
    source,     \* the Chromium source tree
    build,      \* the source that the output directories were built from
    output,     \* output -> what is published under its final name
    part,       \* output -> who owns its ".part", "left" if that process is gone
    at, pc,     \* operator -> the output it makes, and how far it is
    planned,    \* operator -> the build its plan is about
    read,       \* operator -> the build what it has made comes from
    retain,     \* operator -> whether it keeps the DMG's private root
    mine,       \* history: operator -> outputs its stage has published
    inspection, \* the DMG helper's private root: "none", "kept", "mounted"
    runtime,    \* the same of the acceptance of the finished image
    mishaps

tree == <<source, build>>
process == <<at, pc, planned, read, retain, mine>>
images == <<inspection, runtime>>
vars == <<tree, output, part, process, images, mishaps>>

-----------------------------------------------------------------------------
(* The receipts.                                                            *)

Published(o) == output[o] # Absent

Free(S) == \A o \in S : ~Published(o) /\ part[o] = "none"

(* _tree_contract: the digest of an app, here the build it comes from. *)
AppOf(o) == output[o].made

(* A receipt that can be read names the hash of the receipt before it. *)
Bound(o) == Published(o) /\ output[o].binds = output[o - 1].binds

(* Ninja, asked with -n, finds no work to do. *)
NoWork == build = source

(* The addendum is computed again from the source and compared whole. *)
PreparationHolds == Published(Addendum) /\ output[Addendum].made = source

(* So is the seal: arguments, apps, build state and packaging of both       *)
(* output directories.                                                      *)
SealHolds ==
    /\ PreparationHolds
    /\ NoWork
    /\ Published(Seal) /\ output[Seal].binds = build

(* The staged apps are compared with the receipt and with the build's.      *)
StageHolds == SealHolds /\ Bound(Staging) /\ AppOf(Staging) = build

MergeUnbound == StageHolds /\ Published(Unsigned)

(* From here on an app is compared with its own receipt only. *)
MergeHolds == StageHolds /\ Bound(Unsigned)

SignHolds == MergeHolds /\ Bound(Signed)

AcceptHolds == SignHolds /\ Bound(Acceptance) /\ AppOf(Acceptance) = AppOf(Signed)

Holds == <<PreparationHolds, SealHolds, StageHolds, MergeHolds, SignHolds, AcceptHolds>>

Stale(o) == Published(o) /\ output[o].binds # IF o = Addendum THEN source ELSE build

-----------------------------------------------------------------------------
(* How a stage ends.                                                        *)

Results == {"published", "failed", "uncertain", "interrupted"}

Goto(p, l) == pc' = [pc EXCEPT ![p] = l] /\ UNCHANGED <<at, planned, read, retain, mine>>

(* The process's own parts go, those in kept stay where they are. *)
DropParts(p, kept) ==
    part' = [o \in Outputs |->
               IF part[o] # p THEN part[o] ELSE IF o \in kept THEN "left" ELSE "none"]

(* The stage is over and its result known. *)
End(p, result, kept) == Goto(p, result) /\ DropParts(p, kept)

Forget(p) ==
    /\ pc' = [pc EXCEPT ![p] = "idle"]
    /\ at' = [at EXCEPT ![p] = Addendum]
    /\ planned' = [planned EXCEPT ![p] = 0]
    /\ read' = [read EXCEPT ![p] = 0]
    /\ retain' = [retain EXCEPT ![p] = FALSE]
    /\ mine' = [mine EXCEPT ![p] = {}]

(* A plain error or an interrupt (KeyboardInterrupt), by where it comes.    *)
(* "uncertain" stands for the errors that say what stays published:         *)
(* UncertainReleasePublicationError, CommittedReleasePublicationError,      *)
(* CommittedOutputError, and a rollback that failed.                        *)
Result(kind) == IF kind = "error" THEN "failed" ELSE "interrupted"

(* Between creating its part and its try block a stage leaves the part      *)
(* where it is.                                                             *)
CreatesAndLeaves(p, result) ==
    /\ pc[p] = "create" /\ part[at[p]] = "none"
    /\ part' = [o \in Outputs |-> IF o = at[p] \/ (part[o] = p /\ retain[p]) THEN "left"
                                  ELSE IF part[o] = p THEN "none" ELSE part[o]]
    /\ Goto(p, result)

(* Inside the try block the part goes.  After the rename                    *)
(* _published_entry_matches proves the output is there, whatever was        *)
(* raised, until the function that renamed it has returned.                 *)
PublishedResults(kind) ==
    IF kind = "error" THEN {"uncertain"} ELSE {"uncertain", "interrupted"}

RaiseChain(p, kind, kept) ==
    /\ UNCHANGED <<output, images>>
    /\ \/ /\ pc[p] \in {"check", "create", "work", "sealed", "written"}
          /\ End(p, Result(kind), kept)
       \/ CreatesAndLeaves(p, Result(kind))
       \/ pc[p] = "renamed" /\ \E result \in PublishedResults(kind) : End(p, result, kept)

(* The read-only directories of the signing snapshot cannot be deleted as   *)
(* they are: an exception before the block that opens them again, or a      *)
(* removal that fails, leaves the part of the signed app.                   *)
RaiseSealed(p) ==
    /\ pc[p] = "sealed"
    /\ End(p, "failed", {Signed})
    /\ UNCHANGED <<output, images>>

Mishaps(n) == mishaps + n <= MaxMishaps /\ mishaps' = mishaps + n
=============================================================================
