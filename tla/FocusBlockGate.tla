--------------------------- MODULE FocusBlockGate ---------------------------
(***************************************************************************)
(* What FocusBlock promises of a page's requests: each is held while it is *)
(* decided on, again for every redirect; it may be let through at any time *)
(* but refused only while held and while its site is under the shield, and *)
(* a refusal is final.  Several requests may move in one step.             *)
(***************************************************************************)
CONSTANT Requests

VARIABLES
    site,    \* request -> the site it goes by
    shield,  \* sites under protection now
    gate     \* request -> where it stands

Standing == {"none", "direct", "held", "passed", "refused", "closed"}

Init == gate = [r \in Requests |-> "none"]

Legal(r) ==
    \/ gate'[r] = gate[r]
    \/ gate[r] = "none" /\ gate'[r] \in {"direct", "held", "passed"}
    \/ gate[r] = "held" /\ gate'[r] \in {"passed", "closed"}
    \/ gate[r] = "held" /\ site[r] \in shield /\ gate'[r] = "refused"
    \/ gate[r] = "passed" /\ gate'[r] \in {"held", "closed"}

Next == gate' \in [Requests -> Standing] /\ \A r \in Requests : Legal(r)

Spec == Init /\ [][Next]_gate
=============================================================================
