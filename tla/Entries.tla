------------------------------ MODULE Entries ------------------------------
(***************************************************************************)
(* FinancialEntry rows, as the services that write them see them, and what *)
(* a PATCH of one (updateEntry) writes.  Text fields are left out.  Hours  *)
(* and hourly rate are kept as their product: an entry is in HOURS_RATE    *)
(* mode when it has one, and FIXED otherwise.                              *)
(***************************************************************************)
EXTENDS Naturals

CONSTANT NoAmount  \* hours and rate of an entry in FIXED mode

ASSUME AmountAssumption == NoAmount \notin Nat

EntryOf(Project) ==
  [project : Project, amount : Nat, product : Nat \cup {NoAmount}, deleted : BOOLEAN]

Line(p, a, product, deleted) ==
  [project |-> p, amount |-> a, product |-> product, deleted |-> deleted]

Deleted(e) == Line(e.project, e.amount, e.product, TRUE)

-----------------------------------------------------------------------------
(* A PATCH, by what its body says of the money: nothing ("text"), mode     *)
(* FIXED with an amount ("amount"), an amount without a mode ("sum"), mode *)
(* HOURS_RATE with hours and a rate ("hours"); or another project ("move").*)
EditKinds == {"text", "amount", "sum", "hours", "move"}

(* Names ending in an underscore and a fault are faulty variants of the    *)
(* definition that follows them; no specification uses them.               *)

(* updateEntry computes mode, amount, hours and rate from the row it read  *)
(* and the body, and always writes the four.                               *)
ResolvedAmount_AlwaysRecomputed(kind, a, e) ==
  IF kind # "hours" /\ e.product # NoAmount THEN e.product ELSE a

ResolvedAmount(kind, a, e) ==
  CASE kind \in {"amount", "hours"} -> a
    [] kind = "sum"                 -> IF e.product = NoAmount THEN a ELSE e.product
    [] OTHER                        -> e.amount

ResolvedProduct(kind, a, e) ==
  CASE kind = "amount" -> NoAmount
    [] kind = "hours"  -> a
    [] OTHER           -> e.product

(* The row after the PATCH, with amount and product as resolved on the row *)
(* read before.                                                            *)
Edited(e, kind, p, a, product) ==
  Line(IF kind = "move" THEN p ELSE e.project, a, product, e.deleted)
=============================================================================
