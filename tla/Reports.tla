------------------------------ MODULE Reports ------------------------------
(***************************************************************************)
(* The reports over everything a small portal can have in Bitrix24: its    *)
(* people create, start, close and reopen tasks, log time and plan         *)
(* meetings while the clock goes on.  All of that is outside the program,  *)
(* which only reads it; what is checked is what the pages then say.  Where *)
(* no project has a support package the calendar and the activity vary,    *)
(* else the package month does.                                            *)
(***************************************************************************)
EXTENDS ReportMetrics, SupportPackage

CONSTANTS
  Zones, FirstInstant, LastInstant,   \* the calendar and the clock
  ActiveZones, ActiveUntil,           \* where and until when people are active
  People, Boards, MaxItems,
  DayCounts,                          \* lengths of periods
  Seconds, Fees, HourRates, Limits, WorkerRates

(* The first midnight a clock can show from the given wall time on.        *)
MidnightFrom(wall) == HoursPerDay * ((wall + HoursPerDay - 1) \div HoursPerDay)

(* The zones whose days ZonedTime finds.  A midnight the clocks skip must  *)
(* be the first time they skip, and in a zone east of UTC, where the guess *)
(* is then corrected to the change itself; one they show twice must be the *)
(* first time they repeat, and in a zone west of UTC, where the guess      *)
(* finds the earlier one.                                                  *)
KeepsDays(z) ==
  LET first == z.shift + z.before  next == z.shift + z.after IN
    /\ z.before \in Int /\ z.after \in Int /\ z.shift \in Int
    /\ z.before < z.after + HoursPerDay /\ z.after < z.before + HoursPerDay
    /\ MidnightFrom(first) < next => MidnightFrom(first) = first /\ z.before >= 0
    /\ MidnightFrom(next) < first => MidnightFrom(next) = next /\ z.after < 0

ASSUME ReportsAssumption ==
  /\ IsFiniteSet(People) /\ None \notin People
  /\ FirstInstant \in Int /\ LastInstant \in Int
  /\ \A z \in Zones : KeepsDays(z)
  /\ DayCounts \subseteq 1 .. MaxPeriodDays
  /\ \A i \in 1 .. MonthsPerYear : MonthDays[i] <= MaxPeriodDays
  /\ Seconds \cup Fees \cup HourRates \cup Limits \cup WorkerRates \subseteq Nat

VARIABLES zone, now, world, month

reportVars == <<zone, now, world, month>>

NoMonth == [total |-> 0, fee |-> 0, hourRate |-> 0, limit |-> NoLimit, rate |-> NoRate]

NoActivity == [tasks |-> {}, entries |-> {}, meetings |-> {}]

ReportsInit ==
  /\ world = NoActivity
  /\ \/ zone \in Zones /\ now = FirstInstant /\ month = NoMonth
     \/ /\ zone = [before |-> 0, after |-> 0, shift |-> 0] /\ now = LastInstant
        /\ month \in [total : Seconds, fee : Fees, hourRate : HourRates,
                      limit : Limits \cup {NoLimit}, rate : WorkerRates]

Tick == /\ month = NoMonth /\ now < LastInstant
        /\ world # NoActivity => now < ActiveUntil
        /\ now' = now + 1 /\ UNCHANGED <<zone, world, month>>

-----------------------------------------------------------------------------
(* Bitrix24.                                                               *)

Active == month = NoMonth /\ zone \in ActiveZones /\ now < ActiveUntil

Room == Cardinality(world.tasks) + Cardinality(world.entries) + Cardinality(world.meetings) < MaxItems

Change(tasks, records, meetings) ==
  /\ world' = [tasks |-> tasks, entries |-> records, meetings |-> meetings]
  /\ UNCHANGED <<zone, now, month>>

CreateTask ==
  /\ Active /\ Room
  /\ \E p \in Boards, u \in People, deadline \in {None, now} :
       Change(world.tasks \cup
                {[project |-> p, id |-> Cardinality(world.tasks) + 1, status |-> "pending",
                  stage |-> None, created |-> now, started |-> None, closed |-> None,
                  deadline |-> deadline, responsible |-> u]},
              world.entries, world.meetings)

Replace(t, s) == Change((world.tasks \ {t}) \cup {s}, world.entries, world.meetings)

StartTask ==
  \E t \in world.tasks :
    /\ Active /\ t.started = None /\ IsOpen(t)
    /\ Replace(t, [t EXCEPT !.started = now, !.status = "progress", !.stage = "board"])

CloseTask ==
  \E t \in world.tasks, status \in {Completed, Declined} :
    Active /\ IsOpen(t) /\ Replace(t, [t EXCEPT !.status = status, !.closed = now])

ReopenTask ==
  \E t \in world.tasks :
    Active /\ Finished(t) /\ Replace(t, [t EXCEPT !.status = "pending", !.closed = None])

(* Time is logged now or a day late, on a task or on a CRM element.        *)
Log(board, task, section) ==
  LET n == Cardinality(world.entries) + 1 IN
    \E u \in People, at \in {now, now - HoursPerDay} :
      Change(world.tasks,
             world.entries \cup {[project |-> board, task |-> task, section |-> section, n |-> n,
                                 user |-> u, seconds |-> n, at |-> at]},
             world.meetings)

LogTime ==
  /\ Active /\ Room
  /\ \/ \E t \in world.tasks : Log(t.project, t.id, None)
     \/ \E p \in Boards : Log(p, -1, "deals")

PlanMeeting ==
  /\ Active /\ Room
  /\ \E p \in Boards, who \in SUBSET People \ {{}}, start \in {now, now + 1} :
       Change(world.tasks, world.entries,
              world.meetings \cup {[project |-> p, id |-> Cardinality(world.meetings) + 1,
                                    start |-> start, seconds |-> 5, attendees |-> who]})

(* More time is logged in the support month.                               *)
LogMore ==
  /\ month # NoMonth
  /\ \E s \in Seconds : s > month.total /\ month' = [month EXCEPT !.total = s]
  /\ UNCHANGED <<zone, now, world>>

ReportsNext ==
  \/ Tick \/ CreateTask \/ StartTask \/ CloseTask \/ ReopenTask \/ LogTime
  \/ PlanMeeting \/ LogMore

ReportsSpec == ReportsInit /\ [][ReportsNext]_reportVars

-----------------------------------------------------------------------------
(* What the pages say.                                                     *)

DaysQuery(n) == [p |-> "days", n |-> n, m |-> None, from |-> None, to |-> None]

Windows == { AnalyticsPeriod(zone, DaysQuery(n), now) : n \in DayCounts }
             \cup {MonthPeriod(zone, MonthOf(DayKey(zone, now)))}

Filters == [employee : People \cup {None}, status : {None}]
             \cup [employee : {None}, status : {"pending", "board", Completed}]

RowSeconds(rows) == MapThenSumSet(LAMBDA r : r.seconds, rows)

JournalSeconds(rows) == MapThenSumSet(LAMBDA r : r.entry.seconds, rows)

(* The hours of meetings, each as often as somebody attends it.            *)
AttendedSeconds(meetings) == MapThenSumSet(LAMBDA m : m.seconds * Cardinality(m.attendees), meetings)

Total(f) == FoldFunction(+, 0, f)

(* A column of a table, added up.                                          *)
Added(table, field) == MapThenSumSet(LAMBDA k : table[k][field], DOMAIN table)

(* Every number that opens a list opens a list of exactly that many rows,  *)
(* and the hours beside it are those of the records and tasks listed.      *)
ListMatchesFigure ==
  month = NoMonth => \A w \in Windows, f \in Filters :
    LET s == Summary(world, w, now, f)
        Listed(view) == Cardinality(DrillTasks(world, w, now, view, f))
    IN  /\ s.created = Listed("created") /\ s.done = Listed("done")
        /\ s.open = Listed("open") /\ s.overdue = Listed("overdue")
        /\ s.meetings = Cardinality({ r \in MeetingRows(world, w, now, f) : r.held })
        /\ s.taskSeconds = JournalSeconds(JournalRows(world, w, f))
        /\ f.status = None =>
             RowSeconds(DrillTasks(world, w, now, "worked", f))
               = SecondsOf({ e \in EntriesIn(world, w, f) : e.task > 0 })
        /\ f = NoFilter =>
             RowSeconds(TaskRows(world, w, f))
               = SecondsOf({ e \in EntriesIn(world, w, f) : e.task > 0 })

(* The chart per day, the split by status and the one by source each add   *)
(* up to the figures above them.                                           *)
BreakdownsAddUp ==
  month = NoMonth => \A w \in Windows, f \in Filters :
    LET s == Summary(world, w, now, f)
        series == DailySeries(world, zone, w, now, f)
    IN  /\ s.taskSeconds = Added(series, "taskSeconds")
        /\ s.meetingSeconds = Added(series, "meetingSeconds")
        /\ s.created = Added(series, "created") /\ s.done = Added(series, "closed")
        /\ Total(HoursBySource(world, w, now, f)) = s.totalSeconds
        /\ Total(StatusSplit(world, w, f))
             = Cardinality(DrillTasks(world, w, now, "touched", f))

(* A person's load is the same in the team's table, on their own page by   *)
(* project and in the expense of a month; task hours of the team add up,   *)
(* a meeting counts in full for everybody at it.                           *)
LoadPerPerson ==
  month = NoMonth => \A w \in Windows :
    LET team == TeamOverview(world, w, now, People)
        held == HeldMeetings(world, w, now, NoFilter)
        m == MonthOf(DayKey(zone, w.start))
        byPerson == MonthSecondsByPerson(world, zone, m, now)
    IN  /\ \A u \in DOMAIN team :
             team[u].totalSeconds = Added(ProjectShares(world, w, now, u), "totalSeconds")
        /\ Added(team, "taskSeconds") = SecondsOf(EntriesIn(world, w, NoFilter))
        /\ Added(team, "meetingSeconds") = AttendedSeconds(held)
        /\ w = MonthPeriod(zone, m) =>
             \A u \in DOMAIN team :
               team[u].totalSeconds = IF u \in DOMAIN byPerson THEN byPerson[u] ELSE 0

(* Hours counted on closing are in exactly one month, that of the task's   *)
(* closing, and in none while it is open; those of CRM elements stay in    *)
(* the month they were logged (ADR-056).                                   *)
ClosedHoursOnce ==
  month = NoMonth =>
  LET posted == [world EXCEPT !.entries = HoursOnClose(world.tasks, world.entries)]
      all == Window(ZonedTime(zone, HoursPerDay * FirstDay(-1)),
                    ZonedTime(zone, HoursPerDay * FirstDay(MonthOf(DayKey(zone, now)) + 2)))
      Hours(es) == SecondsOf(es)
      OnOpen == { e \in world.entries : \E t \in world.tasks : t.id = e.task /\ t.closed = None }
      MonthOfRecord(e) ==
        LET of == { t \in world.tasks : t.id = e.task } IN
          MonthOf(DayKey(zone, IF of = {} THEN e.at ELSE (CHOOSE t \in of : TRUE).closed))
      usage == MonthUsage([posted EXCEPT !.meetings = {}], zone, all, now, None)
  IN  \A m \in DOMAIN usage :
        usage[m].totalSeconds
          = Hours({ e \in world.entries \ OnOpen : MonthOfRecord(e) = m })

(* The analytics say one thing, however they are asked.                    *)
AnalyticsAgree == ListMatchesFigure /\ BreakdownsAddUp /\ LoadPerPerson /\ ClosedHoursOnce

-----------------------------------------------------------------------------
(* The calendar; it does not read the activity.                            *)

Untouched == world = NoActivity /\ month = NoMonth

Today == DayKey(zone, now)

Months == MonthOf(Today) - 1 .. MonthOf(Today) + 1

CustomRanges == { <<Today + i, Today + j>> : i \in {-4, -1, 0}, j \in {-1, 1} }

CustomQuery(r) == [p |-> "custom", n |-> 1, m |-> None, from |-> r[1], to |-> r[2]]

Periods == { AnalyticsPeriod(zone, DaysQuery(n), now) : n \in DayCounts }
             \cup { AnalyticsPeriod(zone, CustomQuery(r), now) : r \in CustomRanges }

Days(w) == DaysBetween(zone, w)

(* Whatever the clocks do, months follow one another without a gap or an   *)
(* overlap, every instant of a month is of a day of that month, and a day  *)
(* starts at its first instant.                                            *)
EveryInstantOneDay ==
  Untouched =>
    /\ StartOfDay(zone, now) <= now
    /\ \A u \in StartOfDay(zone, now) .. now : DayKey(zone, u) = Today
    /\ DayKey(zone, StartOfDay(zone, now) - 1) = Today - 1
    /\ \A m \in Months :
         LET w == MonthPeriod(zone, m) IN
           /\ w.end = MonthPeriod(zone, m + 1).start
           /\ InWindow(now, w) <=> MonthOf(Today) = m
           /\ MonthsTouched(zone, w) = m .. m

(* A period is whole days: the last n days are n days and end with today,  *)
(* a range has the days asked for, and never more than the limit: then the *)
(* oldest are left out.                                                    *)
PeriodIsWholeDays ==
  Untouched =>
    /\ \A n \in DayCounts :
         LET w == AnalyticsPeriod(zone, DaysQuery(n), now) IN
           Days(w) = Today - n + 1 .. Today /\ InWindow(now, w)
    /\ \A r \in CustomRanges :
         r[1] <= r[2] =>
           LET w == AnalyticsPeriod(zone, CustomQuery(r), now) IN
             /\ Days(w) \subseteq r[1] .. r[2] /\ r[2] \in Days(w)
             /\ Cardinality(Days(w)) <= MaxPeriodDays
             /\ Days(w) # r[1] .. r[2] => Cardinality(Days(w)) = MaxPeriodDays
             /\ \A u \in w.start .. w.end - 1 : DayKey(zone, u) \in Days(w)
             /\ MonthsTouched(zone, w) = { MonthOf(d) : d \in Days(w) }

Presets == {"this_month", "last_month", "this_quarter", "this_year"}

FinancePeriods ==
  { ResolvePeriod(preset, Today) : preset \in Presets }
    \cup { Span(r[1], r[2]) : r \in { x \in CustomRanges : x[1] <= x[2] } }

(* The period a figure is compared with ends the day before, and is as     *)
(* long: in months where the period is whole months, else in days.         *)
PreviousPeriodAdjacent ==
  Untouched =>
    \A r \in FinancePeriods :
      LET p == PreviousPeriod(r)
          Whole(x) == x.from = FirstDay(MonthOf(x.from)) /\ x.to + 1 = FirstDay(MonthOf(x.to + 1))
          MonthsIn(x) == MonthOf(x.to) - MonthOf(x.from)
      IN  /\ p.to = r.from - 1 /\ p.from <= p.to
          /\ Whole(r) => Whole(p) /\ MonthsIn(p) = MonthsIn(r)
          /\ ~Whole(r) => p.to - p.from = r.to - r.from

(* Every day of a period has its bucket on the chart, in each granularity, *)
(* and every bucket holds a day of the period.                             *)
ChartCoversPeriod ==
  Untouched =>
    \A r \in FinancePeriods, g \in {"day", "week", "month"} :
      { BucketStart(d, g) : d \in r.from .. r.to } = Buckets(r, g)

(* No instant falls out of its day, its month, its period or its chart.    *)
CalendarFits ==
  EveryInstantOneDay /\ PeriodIsWholeDays /\ PreviousPeriodAdjacent /\ ChartCoversPeriod

-----------------------------------------------------------------------------
(* The support month.                                                      *)

Income(m) == MonthIncome(m.total, m.fee, m.hourRate, m.limit)

(* A month never earns less than its fee, and earns exactly the fee while  *)
(* the hours stay within the package.                                      *)
FeeCoversPackage ==
  /\ Income(month) >= month.fee
  /\ month.limit # NoLimit /\ month.total <= month.limit => Income(month) = month.fee

(* The stored amount is the stored hours at the stored rate, and no more   *)
(* than half a hundredth of an hour's pay and half a kopeck away from the  *)
(* pay for the seconds worked.                                             *)
AmountFollowsStoredHours ==
  month # NoMonth =>
    LET rate == month.rate  total == month.total
        a == WorkerAmount(total, rate)  h == WorkerHours(total)
    IN  /\ 200 * a <= 2 * h * rate + 100 /\ 2 * h * rate < 200 * a + 100
        /\ 3600 * a <= total * rate + 18 * rate + 1800
        /\ total * rate <= 3600 * a + 18 * rate + 1800

(* Logging more time never lowers what a month earns or costs.             *)
MoreTimeNeverCheaper ==
  /\ Income(month') >= Income(month)
  /\ WorkerAmount(month'.total, month'.rate) >= WorkerAmount(month.total, month.rate)

(* A support month is charged and paid for as agreed.                      *)
MonthAsAgreed ==
  [](FeeCoversPackage /\ AmountFollowsStoredHours) /\ [][MoreTimeNeverCheaper]_month
=============================================================================
