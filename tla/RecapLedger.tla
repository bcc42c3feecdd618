---------------------------- MODULE RecapLedger ----------------------------
(***************************************************************************)
(* What CreateRecapPost promises its callers, without jobs, locks or       *)
(* pre-checks: the recaps table as a ledger in which looking for the same  *)
(* recap and inserting one is a single step.                               *)
(***************************************************************************)
EXTENDS Naturals

CONSTANT Same(_, _)      \* when two specs ask for the same recap

VARIABLES
  rows,       \* the recaps there are
  last,       \* the id of the newest one
  replaced    \* the id the newest one was asked to replace, 0 for none

ledger == <<rows, last, replaced>>

Entry(id, spec) == [post |-> id, spec |-> spec]
Held(spec) == {r \in rows : Same(r.spec, spec)}

Init == rows = {} /\ last = 0 /\ replaced = 0

(* A recap that is not there yet is added.                                 *)
Add(spec) ==
  /\ Held(spec) = {}
  /\ rows' = rows \cup {Entry(last + 1, spec)}
  /\ last' = last + 1

(* A manual recap takes the place of the one it names: what goes is the    *)
(* same recap, and it goes in the step that brings the new one.            *)
Replace(spec) ==
  /\ spec.origin = "manual" /\ replaced' # 0
  /\ {r \in rows : r.post = replaced'} \subseteq Held(spec)
  /\ rows' = {r \in rows : r.post # replaced'} \cup {Entry(last + 1, spec)}
  /\ last' = last + 1

Delete ==
  /\ \E r \in rows : rows' = rows \ {r}
  /\ UNCHANGED <<last, replaced>>

(* The row that comes in says which recap was made.                        *)
Next ==
  \/ \E new \in rows' \ rows : Add(new.spec) \/ Replace(new.spec)
  \/ Delete

Spec == Init /\ [][Next]_ledger
=============================================================================
