--------------------------- MODULE MCIncomeReview ---------------------------
(***************************************************************************)
(* Values of the constants of IncomeReview for TLC.                        *)
(***************************************************************************)
EXTENDS IncomeReview, TLC

CONSTANTS p1, p2, w1, w2

ProjectSymmetry == Permutations(Projects)
=============================================================================
