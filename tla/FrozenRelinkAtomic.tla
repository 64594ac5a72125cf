------------------------- MODULE FrozenRelinkAtomic -------------------------
(***************************************************************************)
(* What platform/macos/x64_frozen_relink_executor.py promises of a relink: *)
(* the outputs change all at once, when a run commits, from the earlier    *)
(* build to that run's; at most one run commits; a run that does not is    *)
(* reported restored only while the earlier build is in place.             *)
(***************************************************************************)
EXTENDS Naturals

CONSTANTS Runs, N, Base

VARIABLES image,   \* output -> whose file counts as the output
          outcome  \* run -> how far it is settled

Before == [o \in 1 .. N |-> Base]

Init == image = Before /\ outcome = [r \in Runs |-> "open"]

Commit(r) ==
    /\ outcome[r] = "open" /\ image = Before
    /\ image' = [o \in 1 .. N |-> r]
    /\ outcome' = [outcome EXCEPT ![r] = "committed"]

Finish(r) ==
    /\ outcome[r] = "committed"
    /\ outcome' = [outcome EXCEPT ![r] = "finished"]
    /\ UNCHANGED image

Restore(r) ==
    /\ outcome[r] = "open" /\ image = Before
    /\ outcome' = [outcome EXCEPT ![r] = "restored"]
    /\ UNCHANGED image

Next == \E r \in Runs : Commit(r) \/ Finish(r) \/ Restore(r)

Spec == Init /\ [][Next]_<<image, outcome>>
=============================================================================
