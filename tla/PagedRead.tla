------------------------------ MODULE PagedRead ------------------------------
(***************************************************************************)
(* What reading a changing list page by page promises: no entry is shown   *)
(* twice, and at the end every entry that stood in the list all along was  *)
(* shown, whatever else came and went meanwhile.                           *)
(***************************************************************************)
CONSTANT Entries

VARIABLES
  listed,     \* what the list holds
  standing,   \* what it has held ever since the reading began
  shown,
  state       \* "idle", "reading" or "complete"

vars == <<listed, standing, shown, state>>

Init == listed \in SUBSET Entries /\ standing = {} /\ shown = {} /\ state = "idle"

Change ==
  /\ listed' \in SUBSET Entries
  /\ standing' = standing \cap listed'
  /\ UNCHANGED <<shown, state>>

\* A page: entries of the list, none of them shown before.
Show ==
  /\ state # "complete"
  /\ \E page \in SUBSET (listed \ shown) : shown' = shown \cup page
  /\ standing' = IF state = "idle" THEN listed ELSE standing
  /\ state' \in {"reading", "complete"}
  /\ state' = "complete" => standing' \subseteq shown'
  /\ UNCHANGED listed

Next == Change \/ Show
Spec == Init /\ [][Next]_vars
=============================================================================
