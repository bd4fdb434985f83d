--------------------------- MODULE SupportPackage ---------------------------
(***************************************************************************)
(* What a support month earns and costs (ADR-034, ADR-045): the income by  *)
(* the package, the expense as each specialist's hours at their rate.      *)
(* Money is in kopecks, hours in hundredths, time in seconds.  A project   *)
(* without a fee, a price per hour or a package has 0, 0 and NoLimit.      *)
(***************************************************************************)
EXTENDS Money, FiniteSetsExt

CONSTANTS NoLimit, NoRate

ASSUME LimitAssumption == NoLimit \notin Nat

ASSUME NoRateAssumption == NoRate \notin Nat

(* Names ending in an underscore and a fault are faulty variants of the    *)
(* definition that follows them; no specification uses them.               *)

(* Seconds over the package of a month; with no package nothing is over.   *)
Overage(total, limit) ==
  IF limit = NoLimit \/ total <= limit THEN 0 ELSE total - limit

(* The seconds billed at the price per hour: what is over the package, or  *)
(* all of them when there is neither a package nor a fee.                  *)
BillableSeconds_HourlyWithinPackage(total, fee, limit) ==
  IF fee = 0 /\ (limit = NoLimit \/ total <= limit) THEN total ELSE Overage(total, limit)

BillableSeconds(total, fee, limit) ==
  IF limit = NoLimit /\ fee = 0 THEN total ELSE Overage(total, limit)

MonthIncome_OverageNotCapped(total, fee, hourRate, limit) ==
  fee + RoundedDiv(total * hourRate, 3600)

MonthIncome(total, fee, hourRate, limit) ==
  fee + RoundedDiv(BillableSeconds(total, fee, limit) * hourRate, 3600)

(* Hours cut to two places before they are multiplied.                     *)
WorkerHours(seconds) == RoundedDiv(seconds, 36)

WorkerAmount_HoursNotRounded(seconds, rate) ==
  IF rate = NoRate THEN 0 ELSE RoundedDiv(seconds * rate, 3600)

WorkerAmount(seconds, rate) ==
  IF rate = NoRate THEN 0 ELSE HoursRateAmount(WorkerHours(seconds), rate)

(* The expense of a month: seconds and rates of the specialists counted.   *)
MonthExpense(people, seconds, rates) ==
  MapThenSumSet(LAMBDA e : WorkerAmount(seconds[e], rates[e]), people)
=============================================================================
