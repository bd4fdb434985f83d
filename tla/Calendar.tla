------------------------------ MODULE Calendar ------------------------------
(***************************************************************************)
(* Days and months as the analytics count them in the portal's time zone,  *)
(* and as the finance pages count them in UTC.  An instant is a whole      *)
(* number of hours, a day a whole number counted from some day 0, a month  *)
(* a whole number counted from some month 0.  A zone is one change of the  *)
(* clocks: its offset before and after the instant "shift".                *)
(***************************************************************************)
EXTENDS Integers, Sequences, FiniteSets, Functions

CONSTANTS
  HoursPerDay, DaysPerWeek,
  MonthDays,       \* lengths of the twelve months, January first
  MaxPeriodDays,   \* MAX_PERIOD_DAYS
  None             \* a parameter that is absent or cannot be parsed

ASSUME CalendarAssumption ==
  /\ MonthDays \in Seq(Nat \ {0}) /\ MonthDays # << >>
  /\ HoursPerDay \in Nat \ {0} /\ DaysPerWeek \in Nat \ {0} /\ MaxPeriodDays \in Nat \ {0}
  /\ None \notin Int

MonthsPerYear == Len(MonthDays)

DaysOfYear == FoldFunction(+, 0, MonthDays)

(* The first day of month m; like Date.UTC, any whole number is a month.   *)
FirstDay(m) ==
  (m \div MonthsPerYear) * DaysOfYear
    + FoldFunction(+, 0, SubSeq(MonthDays, 1, m % MonthsPerYear))

MonthOf(day) ==
  LET y == day \div DaysOfYear IN
    CHOOSE m \in MonthsPerYear * y .. MonthsPerYear * (y + 1) - 1 :
      FirstDay(m) <= day /\ day < FirstDay(m + 1)

-----------------------------------------------------------------------------
(* Wall-clock time of a zone.                                              *)

Offset(z, u) == IF u < z.shift THEN z.before ELSE z.after

Wall(z, u) == u + Offset(z, u)

(* The instant the clock shows the given wall time: a first guess by the   *)
(* offset at the wall time taken as UTC, corrected once.                   *)
ZonedTime_OneGuess(z, wall) == wall - Offset(z, wall)

ZonedTime(z, wall) ==
  LET first == Offset(z, wall)
      second == Offset(z, wall - first)
  IN  IF second = first THEN wall - first ELSE wall - second

DayKey(z, u) == Wall(z, u) \div HoursPerDay

StartOfDay(z, u) == ZonedTime(z, HoursPerDay * DayKey(z, u))

AddDays(z, u, n) == ZonedTime(z, HoursPerDay * (DayKey(z, u) + n))

(* The instants daysBetween steps through, each a day after the previous.  *)
Midnights(z, start) ==
  LET f[i \in 0 .. MaxPeriodDays] ==
        IF i = 0 THEN StartOfDay(z, start) ELSE AddDays(z, f[i - 1], 1)
  IN  f

DaysBetween(z, w) ==
  LET f == Midnights(z, w.start) IN { DayKey(z, f[i]) : i \in { j \in DOMAIN f : f[j] < w.end } }

-----------------------------------------------------------------------------
(* The period of an analytics page.                                        *)

Window(start, end) == [start |-> start, end |-> end]

InWindow(u, w) == u # None /\ w.start <= u /\ u < w.end

MonthPeriod(z, m) ==
  Window(ZonedTime(z, HoursPerDay * FirstDay(m)), ZonedTime(z, HoursPerDay * FirstDay(m + 1)))

(* From the first day to the last one of a page's address, the oldest days *)
(* cut off when the range is too long.                                     *)
CustomPeriod_NotClipped(z, from, to) ==
  Window(ZonedTime(z, HoursPerDay * from), ZonedTime(z, HoursPerDay * (to + 1)))

CustomPeriod(z, from, to) ==
  LET start == ZonedTime(z, HoursPerDay * from)
      end == ZonedTime(z, HoursPerDay * (to + 1))
      oldest == AddDays(z, end, -MaxPeriodDays)
  IN  Window(IF start < oldest THEN oldest ELSE start, end)

(* "q" is what the address asks for: the last n days (today is n = 1), a   *)
(* month, a range, or something else, which reads as the current month.    *)
AnalyticsPeriod(z, q, now) ==
  LET today == StartOfDay(z, now) IN
    CASE q.p = "days" -> Window(AddDays(z, today, 1 - q.n), AddDays(z, today, 1))
      [] q.p = "custom" /\ q.from # None /\ q.to # None /\ q.from <= q.to ->
           CustomPeriod(z, q.from, q.to)
      [] q.p = "month" /\ q.m # None -> MonthPeriod(z, q.m)
      [] OTHER -> MonthPeriod(z, MonthOf(DayKey(z, now)))

(* The calendar months a window touches; its end is taken a moment early.  *)
MonthsTouched(z, w) == MonthOf(DayKey(z, w.start)) .. MonthOf(DayKey(z, w.end - 1))

-----------------------------------------------------------------------------
(* Periods of the finance pages: days of UTC, both ends included.          *)

Span(from, to) == [from |-> from, to |-> to]

ResolvePeriod(preset, today) ==
  LET mo == MonthOf(today)
      Months(first, n) == Span(FirstDay(first), FirstDay(first + n) - 1)
  IN  CASE preset = "this_month"   -> Months(mo, 1)
        [] preset = "last_month"   -> Months(mo - 1, 1)
        [] preset = "this_quarter" -> Months(3 * (mo \div 3), 3)
        [] preset = "this_year"    -> Months(MonthsPerYear * (mo \div MonthsPerYear), MonthsPerYear)

(* The period before, of whole months when the period is whole months.     *)
PreviousPeriod_AlwaysDays(r) == Span(r.from - (r.to + 1 - r.from), r.from - 1)

PreviousPeriod(r) ==
  LET first == MonthOf(r.from)  after == MonthOf(r.to + 1) IN
    IF r.from = FirstDay(first) /\ r.to + 1 = FirstDay(after)
    THEN Span(FirstDay(first - (after - first)), r.from - 1)
    ELSE Span(r.from - (r.to + 1 - r.from), r.from - 1)

(* The bucket of a chart a day belongs to, and the bucket after it; day 0  *)
(* is a Monday.                                                            *)
BucketStart(day, granularity) ==
  CASE granularity = "day" -> day
    [] granularity = "week" -> day - (day % DaysPerWeek)
    [] granularity = "month" -> FirstDay(MonthOf(day))

Advance(bucket, granularity) ==
  CASE granularity = "day" -> bucket + 1
    [] granularity = "week" -> bucket + DaysPerWeek
    [] granularity = "month" -> FirstDay(MonthOf(bucket) + 1)

(* The contiguous buckets of a chart from one day to another.              *)
Buckets_FromDay(r, granularity) ==
  { d \in r.from .. r.to : BucketStart(d, granularity) = d }

Buckets(r, granularity) ==
  LET first == BucketStart(r.from, granularity)
      f[i \in 0 .. r.to - first + 1] == IF i = 0 THEN first ELSE Advance(f[i - 1], granularity)
  IN  { f[i] : i \in { j \in DOMAIN f : f[j] <= r.to } }
=============================================================================
