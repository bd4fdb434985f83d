-------------------------- MODULE MCSupportBilling --------------------------
(***************************************************************************)
(* Values of the constants of SupportBilling for TLC: an employee is paid  *)
(* 10 an hour, the hour is sold at 30.  The other way an entry is written, *)
(* by hand in a form, shares no state with it and moves on its own.        *)
(***************************************************************************)
EXTENDS SupportBilling, EntryForm, TLC

CONSTANTS e1, e2, w1, w2

VARIABLE side  \* what moves: the postings or the form

Hour == 3600

Report(h1, h2, m) ==
  [time |-> (e1 :> h1 * Hour) @@ (e2 :> h2 * Hour), meeting |-> m * Hour]

(* Without and with the meeting; and an hour more besides.                 *)
Meeting == {Report(1, 0, 0), Report(1, 0, 1)}
OneWorks == {Report(1, 0, 0), Report(2, 0, 1)}

MCRates == (e1 :> 1000) @@ (e2 :> 1000)
OneRate == (e1 :> 1000) @@ (e2 :> NoRate)

HomeOfDirection == "d1" :> "f1" @@ "d2" :> "f2"

MCInit ==
  /\ side \in {"postings", "form"} /\ Init
  /\ FormInit /\ (side = "postings" => stored = EmptyRow("f1"))

MCNext ==
  \/ side = "postings" /\ Next /\ UNCHANGED <<formVars, side>>
  \/ side = "form" /\ FormNext /\ UNCHANGED <<vars, side>>

MCSpec == MCInit /\ [][MCNext]_<<vars, formVars, side>>

WorkerSymmetry == Permutations(Workers)
=============================================================================
