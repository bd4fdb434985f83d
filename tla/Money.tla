------------------------------- MODULE Money -------------------------------
(***************************************************************************)
(* Money and hours as the server computes them.  The code keeps both as    *)
(* Decimals with two places; here they are whole numbers of hundredths, so *)
(* "amount" counts kopecks and "hours" counts hundredths of an hour.       *)
(* Rounding is half-up, the one configuration of the Decimal library.      *)
(***************************************************************************)
EXTENDS Naturals

(* a / b rounded half-up to a whole number of hundredths.                  *)
RoundedDiv(a, b) == (2 * a + b) \div (2 * b)

(* hours x rate, rounded to two places: the only way an HOURS_RATE amount  *)
(* is ever computed.  A hundredth of an hour times a kopeck per hour is a  *)
(* hundredth of a kopeck.                                                  *)
HoursRateAmount(hours, rate) == RoundedDiv(hours * rate, 100)
=============================================================================
