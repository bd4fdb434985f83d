---------------------------- MODULE SupportMonth ----------------------------
(***************************************************************************)
(* What posting a support month promises: the month has one set of lines;  *)
(* posting puts a whole new set in the place of the old one in one step,   *)
(* and in between lines are only ever removed.                             *)
(***************************************************************************)
CONSTANT Postings  \* the sets of lines a posting can write

VARIABLE lines     \* the live lines of the month

Init == lines = {}

Post(new) == lines' = new

Remove(l) == lines' = lines \ {l}

Next ==
  \/ \E new \in Postings : Post(new)
  \/ \E l \in lines : Remove(l)

Spec == Init /\ [][Next]_lines
=============================================================================
