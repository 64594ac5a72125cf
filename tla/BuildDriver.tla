---------------------------- MODULE BuildDriver ----------------------------
(***************************************************************************)
(* The driver process of build_pipeline.py: one subcommand at a time, the  *)
(* receipts it publishes with atomic_json(), the children it runs, and the *)
(* mishaps that meet it.  The stages are in Preparation, CompatPatches,    *)
(* HomeAlias and BuildPipeline, which extend this module.                  *)
(*                                                                         *)
(* A mishap is an exception at an ordinary place ("error"), one at a place *)
(* no handler covers ("gap": inside Popen, or between an effect and        *)
(* Python's record of it), or the death of the process ("kill").           *)
(***************************************************************************)
EXTENDS Naturals, FiniteSets

CONSTANT MaxMishaps     \* bound: mishaps of each kind together

ASSUME DriverAssumption == MaxMishaps \in Nat

Compats == {"gn", "xcode27", "seatbelt", "screenAI", "linkedit"}
Slices == {"arm", "x64"}
Papers == Compats \cup Slices \cup
          {"bootstrap", "home", "stage", "reclaim", "signing", "fresh"}
Tasks == Compats \cup Slices \cup
         {"acquire", "bootstrap", "prepare", "resumePatch", "finalizer",
          "transition", "home", "root", "stage", "recovery", "fresh", "merge"}
Kinds == {"error", "gap", "kill"}

VARIABLES
  task,     \* the subcommand that executes, or "none"
  pc,       \* where it stands
  known,    \* what its process remembers: identities it has recorded
  paper,    \* per receipt: absent, of an earlier build, or of this one
  temps,    \* the receipts whose temporary lies beside them
  strays,   \* the tasks of which a child has outlived its driver
  strayed,  \* history: some child has
  mishaps   \* the mishaps so far, by kind

driver == <<task, pc, known>>
papers == <<paper, temps>>
children == <<strays, strayed>>

Idle == task = "none"

Begin(t, p) == /\ Idle
               /\ task' = t
               /\ pc' = p
               /\ known' = {}

Ended == /\ task' = "none"
         /\ pc' = "idle"
         /\ known' = {}

At(t, p) == task = t /\ pc = p

Goto(p) == pc' = p /\ UNCHANGED <<task, known>>

Finish == /\ pc \in {"done", "published", "committed"}
          /\ Ended

Total == mishaps["error"] + mishaps["gap"] + mishaps["kill"]

Spend(k) == /\ Total < MaxMishaps
            /\ mishaps' = [mishaps EXCEPT ![k] = @ + 1]

\* At most one exception so far, at a place that the handlers cover.
Undisturbed == mishaps["gap"] = 0 /\ mishaps["kill"] = 0 /\ mishaps["error"] <= 1

----------------------------------------------------------------------------
(* atomic_json(): a temporary is created exclusively, linked to the        *)
(* receipt's name, unlinked.  The plans look for the receipt, never for    *)
(* the temporary.  temporary_identity is set after `published`, so its     *)
(* handler never unlinks a temporary whose link did not come to pass.      *)

Refused(p) == paper[p] # "none" \/ p \in temps

\* What a publication leaves that is cut short anywhere.
Cut(p) == /\ ~ Refused(p)
          /\ temps' \in {temps, temps \cup {p}}
          /\ paper' \in {paper, [paper EXCEPT ![p] = "new"]}

Publish(p, next, failed) ==
  \/ /\ IF Refused(p)
          THEN Goto(failed) /\ UNCHANGED paper
          ELSE /\ paper' = [paper EXCEPT ![p] = "new"]
               /\ known' = known \cup {"receipt"}
               /\ pc' = next
               /\ UNCHANGED task
     /\ UNCHANGED <<temps, mishaps>>
  \/ /\ Spend("error")
     /\ Cut(p)
     /\ Goto(failed)

----------------------------------------------------------------------------
(* run_monitored(): a child in a session of its own.  Every exception      *)
(* stops its group and proves it gone, but for one inside Popen(), where   *)
(* "process" is not in locals() yet; SIGKILL of the driver stops nothing.  *)

ChildAt == pc \in {"hooks", "patch", "graph", "ninja"}

Abandon == /\ strays' = strays \cup {task}
           /\ strayed' = TRUE

PopenGap(next) == /\ Spend("gap")
                  /\ Abandon
                  /\ Goto(next)

\* The process is killed: its child may live on, its publication may be cut.
Dies ==
  /\ ~ Idle
  /\ Spend("kill")
  /\ Ended
  /\ IF pc \in Papers THEN Cut(pc) ELSE UNCHANGED papers
  /\ \/ ChildAt /\ Abandon
     \/ UNCHANGED children

StrayEnds(t) == /\ t \in strays
                /\ strays' = strays \ {t}
                /\ UNCHANGED <<driver, papers, strayed, mishaps>>

DriverTypeOK ==
  /\ task \in Tasks \cup {"none"}
  /\ known \subseteq {"receipt", "post", "container", "out", "changed"}
  /\ paper \in [Papers -> {"none", "old", "new"}]
  /\ temps \subseteq Papers
  /\ strays \subseteq Tasks
  /\ strayed \in BOOLEAN
  /\ mishaps \in [Kinds -> Nat]
============================================================================
