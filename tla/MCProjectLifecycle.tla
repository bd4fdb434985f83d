------------------------- MODULE MCProjectLifecycle -------------------------
(***************************************************************************)
(* Projects for TLC: their life, making many at once, and picking what one *)
(* is made from.  The three share no state, so that a behaviour moves one  *)
(* of them.                                                                *)
(***************************************************************************)
EXTENDS ProjectLifecycle, ProjectImport, CrmPicker, TLC

CONSTANTS p1, p2, p3, u1, u2, w1, w2, c1, d1, d2, l1, s1

VARIABLE part  \* the part that moves

MCInit ==
  /\ part \in {"life", "import", "picker"}
  /\ Init /\ ImportInit
  /\ PickerInit /\ (part # "picker" => live = {} /\ ignored = {})

MCNext ==
  \/ part = "life" /\ Next /\ UNCHANGED <<importVars, pickerVars, part>>
  \/ part = "import" /\ ImportNext /\ UNCHANGED <<vars, pickerVars, part>>
  \/ part = "picker" /\ PickerNext /\ UNCHANGED <<vars, importVars, part>>

MCSpec == MCInit /\ [][MCNext]_<<vars, importVars, pickerVars, part>>

Symmetry == Permutations(Projects) \cup Permutations(Workers) \cup Permutations(Picks)
=============================================================================
