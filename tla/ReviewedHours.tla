--------------------------- MODULE ReviewedHours ---------------------------
(***************************************************************************)
(* What the review of logged hours promises, without processes: a slot's   *)
(* hours are proposed, a decision is taken in one step on the hours as     *)
(* they are shown, an approval books exactly those hours, and an approved  *)
(* slot is settled for good.                                               *)
(***************************************************************************)
CONSTANTS
  Slots,
  Hours,  \* the hours that can be proposed for a slot
  Ids     \* names of expenses

VARIABLES
  proposal,  \* what is proposed for a slot and what was decided about it
  booked     \* the live expenses: a set of lines [id, slot, hours]

vars == <<proposal, booked>>

Init ==
  /\ proposal = [s \in Slots |-> [status |-> "NONE", hours |-> 0]]
  /\ booked = {}

Propose(s, h) ==
  /\ proposal[s].status # "APPROVED"
  /\ proposal' = [proposal EXCEPT ![s] = [status |-> "PENDING", hours |-> h]]
  /\ UNCHANGED booked

Approve(s, i) ==
  /\ proposal[s].status = "PENDING"
  /\ \A l \in booked : l.id # i
  /\ proposal' = [proposal EXCEPT ![s] = [status |-> "APPROVED", hours |-> @.hours]]
  /\ booked' = booked \cup {[id |-> i, slot |-> s, hours |-> proposal[s].hours]}

Reject(s) ==
  /\ proposal[s].status = "PENDING"
  /\ proposal' = [proposal EXCEPT ![s] = [status |-> "REJECTED", hours |-> @.hours]]
  /\ UNCHANGED booked

Remove(l) ==
  /\ booked' = booked \ {l}
  /\ UNCHANGED proposal

Next ==
  \/ \E s \in Slots, h \in Hours : Propose(s, h)
  \/ \E s \in Slots, i \in Ids : Approve(s, i)
  \/ \E s \in Slots : Reject(s)
  \/ \E l \in booked : Remove(l)

Spec == Init /\ [][Next]_vars
=============================================================================
