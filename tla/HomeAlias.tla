----------------------------- MODULE HomeAlias -----------------------------
(***************************************************************************)
(* onboarding_alias_compat.py and the adopt-home-alias stage: a checkout   *)
(* of which one dependency file, the onboarding config, was patched and    *)
(* used before its time goes back to the prepared state (transition), the  *)
(* receipt of the home alias is published on that state, and the patch is  *)
(* applied again for good (root), with a receipt of its own.               *)
(*                                                                         *)
(* The config is known by its inode, too: "original" is the patched file   *)
(* that the transition found, "post" any other file with the same bytes.   *)
(***************************************************************************)
EXTENDS BuildDriver

\* The journal of the transition, the marker that it was rolled back, the
\* link that says it was used (both links to the journal), and the receipt.
Marks == {"transition", "rollback", "consumed", "root"}

VARIABLES
  alias,   \* the home is reached by an alias, and has been built in by it
  config,  \* the onboarding config: original, pre (not patched), post
  vite,    \* Vite's temporary directory: there, quarantined, gone
  litter,  \* a temporary of _replace_exact() lies beside the config
  marks    \* which of Marks exist

adoption == <<config, vite, litter, marks>>

\* A prepared checkout, and the one to be adopted.
Unadopted ==
  /\ litter = FALSE
  /\ marks = {}
  /\ IF alias THEN config = "original" /\ vite = "there"
              ELSE config = "pre" /\ vite = "gone"

----------------------------------------------------------------------------
(* What the contracts read.                                                *)

TransitionHolds == "transition" \in marks /\ vite = "gone"

\* The one file of the dependency tree that may differ from the preparation,
\* and only with the consumed link of a complete transition.
ProjectionHolds == config = "pre" \/ (TransitionHolds /\ "consumed" \in marks)

\* Every directory and every file of the dependency tree is accounted for.
TreeHolds == ProjectionHolds /\ vite = "gone" /\ ~ litter

HomeHolds == paper["home"] # "none" /\ TreeHolds

RootHolds == "root" \in marks /\ HomeHolds /\ TransitionHolds /\ config # "pre"

----------------------------------------------------------------------------
(* _replace_exact(): a temporary with a name of its own, then os.replace(); *)
(* its finally removes the temporary, a kill between the two does not.     *)

WritePart(at, next) ==
  /\ pc = at
  /\ litter' = TRUE
  /\ Goto(next)
  /\ UNCHANGED <<config, vite, marks, papers, children, mishaps>>

Replace(at, new, next) ==
  /\ pc = at
  /\ config' = new
  /\ litter' = FALSE
  /\ known' = known \cup {"changed"}
  /\ pc' = next
  /\ UNCHANGED <<task, vite, marks, papers, children, mishaps>>

\* The caller never hears of a replacement that raised after its rename.
ReplaceFails(at, new) ==
  /\ pc = at
  /\ Spend("error")
  /\ config' \in {config, new}
  /\ litter' = FALSE
  /\ Goto("done")
  /\ UNCHANGED <<vite, marks, papers, children>>

\* Nothing of the tree has been touched yet, or the handler has nothing to do.
Fails(at) ==
  /\ pc = at
  /\ Spend("error")
  /\ Goto("done")
  /\ UNCHANGED <<adoption, papers, children>>

\* A hard link to a name that does not exist; it may raise after the link.
Link(at, mark, next, failed) ==
  /\ pc = at
  /\ \/ marks' = marks \cup {mark} /\ Goto(next) /\ UNCHANGED mishaps
     \/ marks' \in {marks, marks \cup {mark}} /\ Spend("error") /\ Goto(failed)
  /\ UNCHANGED <<config, vite, litter, papers, children>>

----------------------------------------------------------------------------
(* --prepare-home-alias-adoption: journal, config back to pre, directory    *)
(* away; started again it goes on from wherever it was.                    *)

TransitionPlan ==
  /\ paper["home"] = "none"
  /\ IF "transition" \notin marks
       THEN config = "original" /\ vite = "there"
       ELSE \/ config = "original" /\ vite = "there"
            \/ config = "post" /\ vite = "there" /\ "rollback" \in marks
            \/ config = "pre"

StartTransition ==
  /\ TransitionPlan
  /\ ~ (config = "pre" /\ vite = "gone")
  /\ Begin("transition", CASE "transition" \notin marks -> "journal"
                           [] "transition" \in marks /\ config # "pre" -> "part"
                           [] config = "pre" -> "directory")
  /\ UNCHANGED <<adoption, papers, children, mishaps>>

\* Renamed to the name the journal says, proved to be the same, removed.
RemoveDirectory ==
  /\ pc = "directory"
  /\ IF vite = "there" THEN vite' = "quarantined" /\ UNCHANGED driver
                      ELSE vite' = "gone" /\ Goto("complete")
  /\ UNCHANGED <<config, litter, marks, papers, children, mishaps>>

TransitionDone ==
  /\ pc = "complete"
  /\ TransitionHolds /\ config = "pre"
  /\ Goto("done")
  /\ UNCHANGED <<adoption, papers, children, mishaps>>

\* The config comes back only as long as the directory is in its place.
TransitionFails ==
  /\ pc \in {"directory", "complete"}
  /\ Spend("error")
  /\ Goto(IF "changed" \in known /\ vite = "there" THEN "mark" ELSE "done")
  /\ UNCHANGED <<adoption, papers, children>>

\* A slip: the config comes back without the marker.
MarkNothing ==
  /\ pc = "mark"
  /\ Goto("backPart")
  /\ UNCHANGED <<adoption, papers, children, mishaps>>

\* The file that comes back is not the original any more: the marker says
\* that this is right, before it does.
MarkRollback == Link("mark", "rollback", "backPart", "done")

Transition ==
  /\ task = "transition"
  /\ \/ Link("journal", "transition", "part", "done")
     \/ WritePart("part", "replace") \/ Fails("part")
     \/ Replace("replace", "pre", "directory") \/ ReplaceFails("replace", "pre")
     \/ RemoveDirectory \/ TransitionDone \/ TransitionFails
     \/ MarkRollback
     \/ WritePart("backPart", "back") \/ Fails("backPart")
     \/ Replace("back", "post", "done") \/ ReplaceFails("back", "post")

----------------------------------------------------------------------------
(* adopt-home-alias: a receipt of the alias and of all receipts before it. *)

AdoptPlan == alias /\ paper["home"] = "none" /\ TreeHolds

StartAdopt ==
  /\ AdoptPlan
  /\ Begin("home", "home")
  /\ UNCHANGED <<adoption, papers, children, mishaps>>

Adopt ==
  /\ At("home", "home")
  /\ Publish("home", "done", "done")
  /\ UNCHANGED <<adoption, children>>

----------------------------------------------------------------------------
(* --execute: the link, the patch, the receipt.                            *)

RootPlan ==
  /\ HomeHolds
  /\ TransitionHolds
  /\ "root" \notin marks

StartRoot ==
  /\ RootPlan
  /\ Begin("root", "consume")
  /\ UNCHANGED <<adoption, papers, children, mishaps>>

Consume == Link("consume", "consumed", IF config = "pre" THEN "apply" ELSE "recheck", "done")

Recheck ==
  /\ pc = "recheck"
  /\ config # "pre" /\ HomeHolds /\ TransitionHolds
  /\ Goto("publish")
  /\ UNCHANGED <<adoption, papers, children, mishaps>>

\* A slip: the handler knows of the receipt only what it was told.
RootFailsForgetful ==
  /\ pc \in {"recheck", "publish", "verify"}
  /\ Spend("error")
  /\ marks' \in {marks, IF pc = "publish" THEN marks \cup {"root"} ELSE marks}
  /\ Goto(IF "changed" \in known /\ pc # "verify" THEN "backPart" ELSE "done")
  /\ UNCHANGED <<config, vite, litter, papers, children>>

\* The exact receipt under its name means published, whoever returned.
RootFails ==
  /\ pc \in {"recheck", "publish", "verify"}
  /\ Spend("error")
  /\ marks' \in {marks, IF pc = "publish" THEN marks \cup {"root"} ELSE marks}
  /\ Goto(IF "changed" \in known /\ "root" \notin marks' THEN "backPart" ELSE "done")
  /\ UNCHANGED <<config, vite, litter, papers, children>>

PublishRoot ==
  /\ pc = "publish"
  /\ "root" \notin marks
  /\ marks' = marks \cup {"root"}
  /\ Goto("verify")
  /\ UNCHANGED <<config, vite, litter, papers, children, mishaps>>

VerifyRoot ==
  /\ pc = "verify"
  /\ RootHolds
  /\ Goto("done")
  /\ UNCHANGED <<adoption, papers, children, mishaps>>

Root ==
  /\ task = "root"
  /\ \/ Consume
     \/ WritePart("apply", "patch") \/ Fails("apply")
     \/ Replace("patch", "post", "recheck") \/ ReplaceFails("patch", "post")
     \/ Recheck \/ PublishRoot \/ VerifyRoot \/ RootFails
     \/ WritePart("backPart", "back") \/ Fails("backPart")
     \/ Replace("back", "pre", "done") \/ ReplaceFails("back", "pre")

----------------------------------------------------------------------------
Adoption ==
  /\ \/ StartTransition \/ Transition
     \/ StartAdopt \/ Adopt
     \/ StartRoot \/ Root
  /\ UNCHANGED alias

AdoptionTypeOK ==
  /\ alias \in BOOLEAN
  /\ config \in {"original", "pre", "post"}
  /\ vite \in {"there", "quarantined", "gone"}
  /\ litter \in BOOLEAN
  /\ marks \subseteq Marks

\* Each receipt is true of the checkout for good, also of one whose patch is
\* taken back or applied a second time: the home alias is adopted on a
\* complete transition, a config patched after that has its consumed link,
\* and the receipt of the patch is there only with the patch.
AdoptionIsTrue ==
  /\ paper["home"] # "none" =>
       TransitionHolds /\ (config # "pre" => "consumed" \in marks)
  /\ "root" \in marks => config = "post" /\ paper["home"] # "none"

\* Wherever an adoption was cut short, by whatever, the same command goes on
\* from there; only a temporary that a kill has left must be removed before
\* the contracts accept the tree, and one exception leaves none.
AdoptionGoesOn ==
  alias /\ Idle =>
    /\ paper["home"] = "none" => TransitionPlan
    /\ Undisturbed => ~ litter
============================================================================
