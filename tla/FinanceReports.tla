--------------------------- MODULE FinanceReports ---------------------------
(***************************************************************************)
(* What the finance pages make of the books: the ledger (finance-read),    *)
(* the list of projects (project-read), a project's directions (streams)   *)
(* and the overview (dashboard), each with its own query, and the plan and *)
(* fact economics they share (domain/finance).                             *)
(*                                                                         *)
(* The books are projects (id, portal, name, status, members), entries     *)
(* (id, portal, project, category, direction, budget, amount, day, stream, *)
(* deleted, and the moment they were created at) and streams (id, project, *)
(* archived).  An actor has a portal, a role and a user id.  Money is a    *)
(* whole number of kopecks; a margin is a fraction; names are numbered in  *)
(* their alphabetical order.                                               *)
(***************************************************************************)
EXTENDS Calendar, FiniteSetsExt

CONSTANT DaysForDailyChart, DaysForWeeklyChart   \* 62 and 182 in granularityFor

CanViewAll(actor) == actor.role \in {"ADMIN", "MANAGER"}

CanMutate(actor) == actor.role \in {"ADMIN", "MANAGER"}

CanViewProject(actor, p) == CanViewAll(actor) \/ actor.user \in p.members

Live(entries) == { e \in entries : ~e.deleted }

Amounts(entries) == MapThenSumSet(LAMBDA e : e.amount, entries)

TotalOf(entries, direction, budget) ==
  Amounts({ e \in entries : e.direction = direction /\ e.budget = budget })

(* None where there is no income: never zero, never infinite.              *)
Margin(income, profit) == IF income = 0 THEN None ELSE [num |-> 100 * profit, den |-> income]

FromTotals(t) ==
  LET factProfit == t.factIncome - t.factExpense
      planProfit == t.planIncome - t.planExpense
  IN  [factIncome |-> t.factIncome, factExpense |-> t.factExpense,
       planIncome |-> t.planIncome, planExpense |-> t.planExpense,
       factProfit |-> factProfit, planProfit |-> planProfit,
       factMargin |-> Margin(t.factIncome, factProfit),
       planMargin |-> Margin(t.planIncome, planProfit),
       incomeDeviation |-> t.factIncome - t.planIncome,
       expenseDeviation |-> t.factExpense - t.planExpense,
       profitDeviation |-> factProfit - planProfit]

Economics ==
  LET Share == {None} \cup [num : Int, den : Int] IN
    [factIncome : Int, factExpense : Int, planIncome : Int, planExpense : Int,
     factProfit : Int, planProfit : Int, factMargin : Share, planMargin : Share,
     incomeDeviation : Int, expenseDeviation : Int, profitDeviation : Int]

ASSUME FinanceAssumption == None \notin Economics

Totals(entries) ==
  [factIncome |-> TotalOf(entries, "INCOME", "FACT"),
   factExpense |-> TotalOf(entries, "EXPENSE", "FACT"),
   planIncome |-> TotalOf(entries, "INCOME", "PLAN"),
   planExpense |-> TotalOf(entries, "EXPENSE", "PLAN")]

AggregateProject_DeletedToo(entries) == FromTotals(Totals(entries))

AggregateProject(entries) == FromTotals(Totals(Live(entries)))

(* Of a function from projects to their economics.                         *)
AggregateCompany(perProject) ==
  LET Fold(Pick(_)) == MapThenSumSet(LAMBDA p : Pick(perProject[p]), DOMAIN perProject) IN
    FromTotals([factIncome |-> Fold(LAMBDA e : e.factIncome),
                factExpense |-> Fold(LAMBDA e : e.factExpense),
                planIncome |-> Fold(LAMBDA e : e.planIncome),
                planExpense |-> Fold(LAMBDA e : e.planExpense)])

ExpenseStructure(entries, budget) ==
  LET spent == { e \in Live(entries) : e.direction = "EXPENSE" /\ e.budget = budget } IN
    [c \in { e.category : e \in spent } |-> Amounts({ e \in spent : e.category = c })]

GranularityFor(from, to) ==
  IF from = None \/ to = None THEN "month"
  ELSE CASE to - from <= DaysForDailyChart -> "day"
         [] to - from > DaysForDailyChart /\ to - from <= DaysForWeeklyChart -> "week"
         [] OTHER -> "month"

(* What falls outside the buckets is left out of the chart.                *)
TimeSeries(entries, from, to, granularity) ==
  [b \in Buckets(Span(from, to), granularity) |->
     Totals({ e \in Live(entries) : BucketStart(e.day, granularity) = b })]

(* Change against the previous period, in percent; None against nothing.   *)
RelativeChange(current, previous) ==
  IF previous = 0 THEN None
  ELSE [num |-> 100 * (current - previous), den |-> IF previous < 0 THEN -previous ELSE previous]

-----------------------------------------------------------------------------
(* Queries; None in a filter is "any".                                     *)

AnyOr(filter, value) == filter = None \/ filter = value

InPeriod(e, q) == (q.from = None \/ q.from <= e.day) /\ (q.to = None \/ e.day <= q.to)

ProjectOf(books, e) == CHOOSE p \in books.projects : p.id = e.project

OfPortal(books, actor) == { e \in books.entries : e.portal = actor.portal }

(* The ledger: its rows, in the order of a column, and a page of them.     *)
LedgerRows(books, actor, q) ==
  { e \in OfPortal(books, actor) :
      /\ AnyOr(q.project, e.project) /\ AnyOr(q.direction, e.direction)
      /\ AnyOr(q.budget, e.budget) /\ AnyOr(q.category, e.category) /\ InPeriod(e, q)
      /\ ~e.deleted \/ (q.includeDeleted /\ CanViewAll(actor))
      /\ CanViewProject(actor, ProjectOf(books, e)) }

SortKey(books, q, e) ==
  CASE q.sort = "amount"  -> e.amount
    [] q.sort = "project" -> ProjectOf(books, e).name
    [] OTHER              -> e.day

(* orderBy: the column, up or down, then the row created last.             *)
Before(books, q, e, f) ==
  LET a == SortKey(books, q, e)
      b == SortKey(books, q, f)
  IN  \/ IF q.dir = "asc" THEN a < b ELSE b < a
      \/ a = b /\ f.created < e.created

(* What may be the first so many rows of the list.                         *)
IsTop(books, q, rows, top) ==
  \A e \in top, f \in rows : Before(books, q, f, e) => f \in top

Lesser(m, n) == IF m <= n THEN m ELSE n

Skipped_OneMore(q) == (q.page - 1) * q.pageSize + 1

Skipped(q) == (q.page - 1) * q.pageSize

(* The pages the database may answer with: no order is promised to rows    *)
(* equal in the column and in the moment of their creation, and it may be  *)
(* another one whenever a page is read.                                    *)
QueryEntries(books, actor, q) ==
  LET rows == LedgerRows(books, actor, q)
      n == Cardinality(rows)
      IsPage(page) ==
        \E top \in SUBSET (rows \ page) :
          /\ Cardinality(top) = Lesser(Skipped(q), n)
          /\ Cardinality(page) = Lesser(q.pageSize, n - Cardinality(top))
          /\ IsTop(books, q, rows, top) /\ IsTop(books, q, rows, top \cup page)
  IN  { [rows |-> page, total |-> n] : page \in { p \in SUBSET rows : IsPage(p) } }

(* Economics of some projects; rows of other projects are not looked at,   *)
(* deleted ones are left out by AggregateProject.                          *)
LoadEconomics(books, actor, ids, q) ==
  [p \in ids |->
     AggregateProject({ e \in OfPortal(books, actor) : e.project = p /\ InPeriod(e, q) })]

VisibleProjects(books, actor, q) ==
  { p \in books.projects : /\ p.portal = actor.portal /\ CanViewProject(actor, p)
                           /\ q.status = "ALL" \/ p.status = q.status }

QueryProjects(books, actor, q) ==
  LoadEconomics(books, actor, { p.id : p \in VisibleProjects(books, actor, q) }, q)

(* A project's page; None is its refusal, in another portal as a project   *)
(* that does not exist, to an outsider as a forbidden one.                 *)
ProjectDetail(books, actor, p) ==
  IF p.portal = actor.portal /\ CanViewProject(actor, p)
  THEN LoadEconomics(books, actor, {p.id}, [from |-> None, to |-> None])[p.id] ELSE None

(* A project's directions, each with its economics; what is tagged with    *)
(* none of those shown counts as untagged.                                 *)
Untagged_NoStream(entries, streams) == { e \in entries : e.stream = None }

Untagged(entries, streams) == { e \in entries : e.stream \notin { s.id : s \in streams } }

ProjectStreams(books, p) ==
  LET streams == { s \in books.streams : s.project = p /\ ~s.archived }
      entries == { e \in books.entries : e.project = p }
      untagged == Untagged(entries, streams)
  IN  [streams |-> [s \in { x.id : x \in streams } |->
                      AggregateProject({ e \in entries : e.stream = s })],
       untagged |-> IF streams # {} /\ untagged # {} THEN AggregateProject(untagged) ELSE None]

(* The overview: figures for everybody, charts with PRO only.  Archived    *)
(* projects count only when asked for.                                     *)
DashboardProjects(books, actor, q) ==
  { p \in books.projects :
      /\ p.portal = actor.portal /\ CanViewProject(actor, p) /\ AnyOr(q.project, p.id)
      /\ CASE q.status = "ALL" -> TRUE
           [] q.status = None -> p.status # "ARCHIVED"
           [] OTHER -> p.status = q.status }

DashboardEntries(books, actor, q) ==
  { e \in OfPortal(books, actor) :
      /\ e.project \in { p.id : p \in DashboardProjects(books, actor, q) } /\ ~e.deleted
      /\ InPeriod(e, q) /\ AnyOr(q.category, e.category) }

ForPro_Always(plan, chart) == chart

ForPro(plan, chart) == IF plan = "PRO" THEN chart ELSE << >>

LoadDashboard(books, actor, plan, q, today) ==
  LET rows == DashboardEntries(books, actor, q)
      perProject == [p \in { x.id : x \in DashboardProjects(books, actor, q) } |->
                       AggregateProject({ e \in rows : e.project = p })]
      from == CASE q.from # None -> q.from
                [] rows = {} -> today
                [] OTHER -> Min({ e.day : e \in rows })
      to == IF q.to = None THEN today ELSE q.to
  IN  [kpi |-> AggregateCompany(perProject), projects |-> perProject,
       series |-> ForPro(plan, TimeSeries(rows, from, to, GranularityFor(q.from, q.to))),
       structure |-> ForPro(plan, ExpenseStructure(rows, "FACT")), bars |-> ForPro(plan, perProject)]
=============================================================================
