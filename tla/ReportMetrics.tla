--------------------------- MODULE ReportMetrics ---------------------------
(***************************************************************************)
(* The figures, tables and charts of the support analytics (ADR-034) and   *)
(* the lists behind them (ADR-049), as functions of what was loaded from   *)
(* Bitrix24: the tasks, time records and meetings of some projects.        *)
(*                                                                         *)
(* A task is a record of project, id, status, stage, created, started,     *)
(* closed, deadline and responsible; a time record of project, n (which    *)
(* tells equal ones apart), task, user, seconds and at; a meeting of       *)
(* project, id, start, seconds and attendees.  A filter f is an employee   *)
(* and a status, each None when not asked for.  Times are instants of      *)
(* Calendar.  Sorting and labels are left out.                             *)
(***************************************************************************)
EXTENDS Calendar, FiniteSetsExt

CONSTANTS Completed, Declined   \* TASK_STATUS.COMPLETED and DECLINED

NoFilter == [employee |-> None, status |-> None]

SecondsOf(records) == MapThenSumSet(LAMBDA e : e.seconds, records)

OfProject(world, p) ==
  [tasks |-> { t \in world.tasks : t.project = p },
   entries |-> { e \in world.entries : e.project = p },
   meetings |-> { m \in world.meetings : m.project = p }]

Finished(t) == t.status \in {Completed, Declined}

IsOpen(t) == ~Finished(t)

IsDoneIn(t, w) == t.status = Completed /\ InWindow(t.closed, w)

Overdue(t, now) == IsOpen(t) /\ t.deadline # None /\ t.deadline < now

(* A board's stage counts while the task is open.                          *)
TaskStatusKey(t) == IF ~Finished(t) /\ t.stage # None THEN t.stage ELSE t.status

TaskMatches(t, f) ==
  /\ f.employee = None \/ t.responsible = f.employee
  /\ f.status = None \/ TaskStatusKey(t) = f.status

(* Time records and held meetings of a window, for everybody or for one.   *)
EntriesIn(world, w, f) ==
  { e \in world.entries : (f.employee = None \/ e.user = f.employee) /\ InWindow(e.at, w) }

Attends(m, f) == f.employee = None \/ f.employee \in m.attendees

HeldMeetings_FutureToo(world, w, now, f) ==
  { m \in world.meetings : InWindow(m.start, w) /\ Attends(m, f) }

HeldMeetings(world, w, now, f) ==
  { m \in world.meetings : m.start <= now /\ InWindow(m.start, w) /\ Attends(m, f) }

(* Hours belong to the period a task was closed in (ADR-056): what is      *)
(* logged on an open task is in no period yet.                             *)
HoursOnClose_OpenAsLogged(tasks, entries) ==
  { IF x[2].closed = None THEN x[1] ELSE [x[1] EXCEPT !.at = x[2].closed] :
      x \in { y \in entries \X tasks : y[1].task = y[2].id } }

HoursOnClose(tasks, entries) ==
  LET TaskOf(e) == { t \in tasks : t.id = e.task } IN
    { e \in entries : TaskOf(e) = {} }
      \cup UNION { { [e EXCEPT !.at = t.closed] : t \in { x \in TaskOf(e) : x.closed # None } } :
                     e \in entries }

-----------------------------------------------------------------------------
(* Summary of a window.                                                    *)

ReactionSeconds(t) ==
  IF t.started # None /\ t.created # None /\ t.started >= t.created
  THEN t.started - t.created ELSE None

ResolutionSeconds(t) ==
  IF t.closed # None /\ t.created # None /\ t.closed >= t.created
  THEN t.closed - t.created ELSE None

(* The mean of a measure over the tasks that have one, rounded half up.    *)
Average(tasks, Measure(_)) ==
  LET measured == { t \in tasks : Measure(t) # None }
      n == Cardinality(measured)
  IN  IF n = 0 THEN None ELSE (2 * MapThenSumSet(Measure, measured) + n) \div (2 * n)

MeanReaction(tasks) == Average(tasks, ReactionSeconds)

MeanResolution(tasks) == Average(tasks, ResolutionSeconds)

Summary(world, w, now, f) ==
  LET mine == { t \in world.tasks : TaskMatches(t, f) }
      created == { t \in mine : InWindow(t.created, w) }
      done == { t \in mine : IsDoneIn(t, w) }
      task == SecondsOf(EntriesIn(world, w, f))
      held == HeldMeetings(world, w, now, f)
  IN  [created |-> Cardinality(created),
       done |-> Cardinality(done),
       open |-> Cardinality({ t \in mine : IsOpen(t) }),
       overdue |-> Cardinality({ t \in mine : Overdue(t, now) }),
       reaction |-> MeanReaction(created),
       resolution |-> MeanResolution(done),
       taskSeconds |-> task,
       meetingSeconds |-> SecondsOf(held),
       totalSeconds |-> task + SecondsOf(held),
       meetings |-> Cardinality(held)]

-----------------------------------------------------------------------------
(* Lists: the tasks of a window and the tasks behind one figure.           *)

TaskSeconds(world, w, f, id) == SecondsOf({ e \in EntriesIn(world, w, f) : e.task = id })

WorkedOn(world, w, f, t) == \E e \in EntriesIn(world, w, f) : e.task = t.id

Row(world, w, f, t) ==
  [task |-> t, seconds |-> TaskSeconds(world, w, f, t.id),
   reaction |-> ReactionSeconds(t), resolution |-> ResolutionSeconds(t)]

Touched(t, w) == InWindow(t.created, w) \/ InWindow(t.closed, w)

TaskRows(world, w, f) ==
  { Row(world, w, f, t) : t \in
      { x \in world.tasks : TaskMatches(x, f) /\ (Touched(x, w) \/ WorkedOn(world, w, f, x)) } }

DrillTasks(world, w, now, view, f) ==
  LET keep ==
        { t \in world.tasks :
            CASE view = "touched" -> TaskMatches(t, f) /\ Touched(t, w)
              [] view = "created" -> TaskMatches(t, f) /\ InWindow(t.created, w)
              [] view = "done" -> TaskMatches(t, f) /\ IsDoneIn(t, w)
              [] view = "open" -> TaskMatches(t, f) /\ IsOpen(t)
              [] view = "overdue" -> TaskMatches(t, f) /\ Overdue(t, now)
              [] view = "worked" -> /\ f.status = None \/ TaskStatusKey(t) = f.status
                                    /\ WorkedOn(world, w, f, t)
              [] OTHER -> FALSE }
  IN  IF view = "all" THEN TaskRows(world, w, f) ELSE { Row(world, w, f, t) : t \in keep }

MeetingRows(world, w, now, f) ==
  { [meeting |-> m, held |-> m.start <= now] :
      m \in { x \in world.meetings : InWindow(x.start, w) /\ Attends(x, f) } }

UpcomingMeetings(world, now, days, f) ==
  { m \in world.meetings : now < m.start /\ m.start <= now + days * HoursPerDay /\ Attends(m, f) }

(* Time records with their task; one without a loaded task has none.       *)
JournalRows(world, w, f) ==
  { [entry |-> e, tasks |-> { t \in world.tasks : t.id = e.task }] : e \in EntriesIn(world, w, f) }

-----------------------------------------------------------------------------
(* Breakdowns of a window: per day, status, source, project, person, month.*)

OnDay_OfUtc(z, u, day) == u \div HoursPerDay = day

OnDay(z, u, day) == DayKey(z, u) = day

DailySeries(world, z, w, now, f) ==
  LET mine == { t \in world.tasks : TaskMatches(t, f) }
      entries == EntriesIn(world, w, f)
      held == HeldMeetings(world, w, now, f)
  IN  [d \in DaysBetween(z, w) |->
         [taskSeconds |-> SecondsOf({ e \in entries : OnDay(z, e.at, d) }),
          meetingSeconds |-> SecondsOf({ m \in held : OnDay(z, m.start, d) }),
          created |-> Cardinality({ t \in mine : InWindow(t.created, w) /\ OnDay(z, t.created, d) }),
          closed |-> Cardinality({ t \in mine : IsDoneIn(t, w) /\ OnDay(z, t.closed, d) })]]

StatusSplit(world, w, f) ==
  LET touched == { t \in world.tasks : TaskMatches(t, f) /\ Touched(t, w) } IN
    [k \in { TaskStatusKey(t) : t \in touched } |->
       Cardinality({ t \in touched : TaskStatusKey(t) = k })]

(* Negative ids are CRM elements, whose records carry their section.       *)
SourceOf(e) == IF e.task < 0 THEN e.section ELSE "tasks"

HoursBySource(world, w, now, f) ==
  LET entries == EntriesIn(world, w, f)
      SecondsFrom(s) == IF s = "meetings" THEN SecondsOf(HeldMeetings(world, w, now, f))
                    ELSE SecondsOf({ e \in entries : SourceOf(e) = s })
      sources == { s \in {"meetings"} \cup { SourceOf(e) : e \in entries } : SecondsFrom(s) > 0 }
  IN  [s \in sources |-> SecondsFrom(s)]

(* Load per person: a meeting counts in full for everyone who attends it.  *)
EmployeeRow_SharesMeetings(world, w, now, u) ==
  LET f == [employee |-> u, status |-> None]  held == HeldMeetings(world, w, now, f)
      mine == { t \in world.tasks : t.responsible = u }
      task == SecondsOf(EntriesIn(world, w, f))
      meet == MapThenSumSet(LAMBDA m : m.seconds \div Cardinality(m.attendees), held)
  IN  [done |-> Cardinality({ t \in mine : IsDoneIn(t, w) }),
       open |-> Cardinality({ t \in mine : IsOpen(t) }),
       taskSeconds |-> task, meetingSeconds |-> meet, totalSeconds |-> task + meet,
       meetings |-> Cardinality(held)]

EmployeeRow(world, w, now, u) ==
  LET f == [employee |-> u, status |-> None]  held == HeldMeetings(world, w, now, f)
      mine == { t \in world.tasks : t.responsible = u }
      task == SecondsOf(EntriesIn(world, w, f))
  IN  [done |-> Cardinality({ t \in mine : IsDoneIn(t, w) }),
       open |-> Cardinality({ t \in mine : IsOpen(t) }),
       taskSeconds |-> task, meetingSeconds |-> SecondsOf(held),
       totalSeconds |-> task + SecondsOf(held),
       meetings |-> Cardinality(held)]

TeamOverview(world, w, now, known) ==
  LET owners == { t.responsible : t \in world.tasks } \ {None}
      people == known \cup owners \cup { e.user : e \in world.entries }
                  \cup UNION { m.attendees : m \in world.meetings }
  IN  [u \in people |-> EmployeeRow(world, w, now, u)]

(* A person's page: the projects they had hours or finished tasks in.      *)
ProjectShares(world, w, now, u) ==
  LET projects == { x.project : x \in world.tasks \cup world.entries \cup world.meetings }
      Share(p) == Summary(OfProject(world, p), w, now, [employee |-> u, status |-> None])
  IN  [p \in { q \in projects : Share(q).totalSeconds > 0 \/ Share(q).done > 0 } |-> Share(p)]

(* A project's hours in each month a window touches, and in one month by   *)
(* person.                                                                 *)
MonthUsage(world, z, w, now, limit) ==
  [m \in MonthsTouched(z, w) |->
     LET s == Summary(world, MonthPeriod(z, m), now, NoFilter) IN
       [taskSeconds |-> s.taskSeconds, meetingSeconds |-> s.meetingSeconds,
        totalSeconds |-> s.totalSeconds,
        overageSeconds |-> IF limit = None \/ s.totalSeconds <= limit THEN 0
                           ELSE s.totalSeconds - limit]]

MonthSecondsByPerson(world, z, m, now) ==
  LET mp == MonthPeriod(z, m)
      RecordsBy(u) == { e \in world.entries : e.user = u /\ InWindow(e.at, mp) }
      Meetings(u) == HeldMeetings(world, mp, now, [employee |-> u, status |-> None])
      people == { e.user : e \in world.entries } \cup UNION { x.attendees : x \in world.meetings }
  IN  [u \in { v \in people : RecordsBy(v) \cup Meetings(v) # {} } |->
         SecondsOf(RecordsBy(u)) + SecondsOf(Meetings(u))]
=============================================================================
