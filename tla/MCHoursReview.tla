--------------------------- MODULE MCHoursReview ---------------------------
(***************************************************************************)
(* Values of the constants of HoursReview for TLC.                         *)
(***************************************************************************)
EXTENDS HoursReview, TLC

CONSTANTS s1, s2, p1, p2, e1, w1, w2

OneSlotProject == (s1 :> p1)
TwoSlotProjects == (s1 :> p1) @@ (s2 :> p2)
OneSlotEmployee == (s1 :> e1)
TwoSlotEmployee == (s1 :> e1) @@ (s2 :> e1)

(* Totals in units of half an hour, but for 1: a few seconds, which are    *)
(* more than nothing when read and nothing once cut to two places.         *)
MCHoursOfTwo == [t \in 0..2 |-> IF t = 1 THEN 0 ELSE 50 * t]

WorkerSymmetry == Permutations(Workers)
=============================================================================
