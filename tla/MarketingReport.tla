-------------------------- MODULE MarketingReport --------------------------
(***************************************************************************)
(* Marketing and sales by channel (ADR-048): what the pages make of the    *)
(* CRM elements of a period and the spend rows entered by hand, and the    *)
(* lists behind their figures (ADR-049).                                   *)
(*                                                                         *)
(* An element is a record of id, source, manager, stage, amount, created   *)
(* and closed; a source, manager, stage or closed of None is not set.  The *)
(* data of a report is d.leads (traffic created in the period), d.created  *)
(* (sales created in it) and d.won (sales won in it), each element with    *)
(* its semantic, and d.stages, the traffic stages that could be loaded.    *)
(* Money is in kopecks, a rate a fraction; names and order are left out.   *)
(***************************************************************************)
EXTENDS Integers, Money, FiniteSetsExt

CONSTANTS
  None,
  ByName,    \* what the id of a stage says of it when its semantic is unknown
  Digits     \* significant digits of a division (40 in money.ts)

(* Stage semantics: the portal's rule, else Bitrix24's, else the id.       *)
SemanticOf(stages, s) == IF s \in DOMAIN stages THEN stages[s].semantic ELSE ByName[s]

StageSemantic(rules, stages, s) ==
  IF rules[s] # None THEN rules[s] ELSE SemanticOf(stages, s)

Ruled(elements, rules, stages) ==
  { [e EXCEPT !.semantic = IF e.stage = None THEN "process" ELSE StageSemantic(rules, stages, e.stage)] :
      e \in elements }

(* What a report reads: elements of the sections marked as traffic or as   *)
(* sales.  A section that fails is left out whole, with an error; stages   *)
(* that fail are missing without one.                                      *)
LoadMarketing(crm, roles, rules, stages, failing, period) ==
  LET Of(role) == { e \in crm : roles[e.section] = role /\ e.section \notin failing }
      Created(role) == { e \in Of(role) : e.created \in period }
      Closed == { e \in Of("SALES") : e.closed \in period }
      known == IF "stages" \in failing THEN [s \in {} |-> {}] ELSE stages
  IN  [leads |-> Ruled(Created("TRAFFIC"), rules, known), created |-> Ruled(Created("SALES"), rules, known),
       won |-> { e \in Ruled(Closed, rules, known) : e.semantic = "success" },
       stages |-> known]

(* The first in-work stage of every funnel.                                *)
FirstStages(stages) ==
  LET process == { s \in DOMAIN stages : stages[s].semantic = "process" } IN
    { s \in process : \A t \in process :
        stages[t].funnel = stages[s].funnel => stages[s].sort <= stages[t].sort }

IsQualified(e, picked, first) ==
  CASE picked # {}             -> e.stage \in picked
    [] e.semantic = "success"  -> TRUE
    [] e.semantic = "fail"     -> FALSE
    [] OTHER                   -> e.stage # None /\ e.stage \notin first

Qualified(d, picked) == { e \in d.leads : IsQualified(e, picked, FirstStages(d.stages)) }

-----------------------------------------------------------------------------
(* Rates; None where they would divide by nothing.                         *)

Ratio(a, b) == IF b = 0 THEN None ELSE [num |-> a, den |-> b]

PercentOf(a, b) == Ratio(100 * a, b)

Cost(spent, units) == IF spent = 0 THEN None ELSE Ratio(spent, units)

ChannelMetrics(n) ==
  [numbers |-> n,
   cpl |-> Cost(n.spent, n.leads), cpl2 |-> Cost(n.spent, n.qualified), cac |-> Cost(n.spent, n.sales),
   leadToQualified |-> PercentOf(n.qualified, n.leads),
   qualifiedToSale |-> PercentOf(n.sales, n.qualified),
   leadToSale |-> PercentOf(n.sales, n.leads),
   avgCheck |-> Ratio(n.revenue, n.sales),
   romi |-> IF n.spent = 0 THEN None ELSE PercentOf(n.revenue - n.spent, n.spent)]

Amounts(rows) == MapThenSumSet(LAMBDA x : x.amount, rows)

SpendOf(spends, kind) == Amounts({ s \in spends : s.kind = kind })

(* One row for each source that had spend, leads or sales, and the total,  *)
(* which adds up the rows.                                                 *)
ChannelKeys(d, spends) == { x.source : x \in d.leads \cup d.won \cup spends }

NumbersOf(d, spends, picked, k) ==
  LET Of(set) == { x \in set : x.source = k } IN
    [spent |-> SpendOf(Of(spends), "SPENT"), paid |-> SpendOf(Of(spends), "PAID"),
     leads |-> Cardinality(Of(d.leads)), qualified |-> Cardinality(Of(Qualified(d, picked))),
     sales |-> Cardinality(Of(d.won)), revenue |-> Amounts(Of(d.won))]

ColumnSum(rows, f) == MapThenSumSet(LAMBDA k : rows[k][f], DOMAIN rows)

ChannelReport(d, spends, picked) ==
  LET numbers == [k \in ChannelKeys(d, spends) |-> NumbersOf(d, spends, picked, k)] IN
    [rows |-> [k \in ChannelKeys(d, spends) |-> ChannelMetrics(numbers[k])],
     total |-> ChannelMetrics([spent |-> ColumnSum(numbers, "spent"), paid |-> ColumnSum(numbers, "paid"),
                               leads |-> ColumnSum(numbers, "leads"), qualified |-> ColumnSum(numbers, "qualified"),
                               sales |-> ColumnSum(numbers, "sales"), revenue |-> ColumnSum(numbers, "revenue")])]

(* Sales by source or by manager, and in total: where the elements created *)
(* in the period are now, and what was won in it whenever created.         *)
SalesRow(created, won) ==
  LET Now(semantic) == Cardinality({ e \in created : e.semantic = semantic }) IN
    [created |-> Cardinality(created), inWork |-> Now("process"), won |-> Now("success"),
     lost |-> Now("fail"), conversion |-> PercentOf(Now("success"), Cardinality(created)),
     sales |-> Cardinality(won), revenue |-> Amounts(won),
     avgCheck |-> Ratio(Amounts(won), Cardinality(won))]

SalesKeys_OfCreated(d, field) == { e[field] : e \in d.created }

SalesKeys(d, field) == { e[field] : e \in d.created \cup d.won }

SalesBreakdown(d, field) ==
  LET Of(set, k) == { e \in set : e[field] = k } IN
    [k \in SalesKeys(d, field) |-> SalesRow(Of(d.created, k), Of(d.won, k))]

AverageCycle(won) ==
  LET closed == { e \in won : e.closed # None /\ e.closed >= e.created } IN
    Ratio(MapThenSumSet(LAMBDA e : e.closed - e.created, closed), Cardinality(closed))

SalesReport(d) ==
  [total |-> SalesRow(d.created, d.won), cycle |-> AverageCycle(d.won),
   byChannel |-> SalesBreakdown(d, "source"), byManager |-> SalesBreakdown(d, "manager")]

(* The figures of a row that open a list, and the list each opens: "none"  *)
(* asks for the elements without a source or manager, a total for all.     *)
ChannelLinks(numbers) ==
  [leads |-> numbers.leads, qualified |-> numbers.qualified, sales |-> numbers.sales]

SalesLinks(row) ==
  [deals |-> row.created, inwork |-> row.inWork, won |-> row.won, lost |-> row.lost, sales |-> row.sales]

ItemsOf(d, picked, kind) ==
  CASE kind = "leads" -> d.leads
    [] kind = "qualified" -> Qualified(d, picked)
    [] kind = "sales" -> d.won
    [] kind = "deals" -> d.created
    [] kind = "inwork" -> { e \in d.created : e.semantic = "process" }
    [] kind = "won" -> { e \in d.created : e.semantic = "success" }
    [] kind = "lost" -> { e \in d.created : e.semantic = "fail" }

MarketingItems_EveryoneForNone(d, picked, q) ==
  { e \in ItemsOf(d, picked, q.kind) : q.field = "any" \/ q.key = None \/ e[q.field] = q.key }

MarketingItems(d, picked, q) ==
  { e \in ItemsOf(d, picked, q.kind) : q.field # "any" => e[q.field] = q.key }

-----------------------------------------------------------------------------
(* Plan and fact of a month.                                               *)

Progress(month, current, day, total) ==
  CASE month < current -> total [] month > current -> 0 [] OTHER -> day

PlanFactRow_Upended(plan, fact, elapsed, total) ==
  [plan |-> plan, fact |-> fact, done |-> IF plan = None THEN None ELSE PercentOf(fact, plan),
   forecast |-> CASE elapsed <= 0 -> 0
                  [] elapsed >= total -> fact
                  [] OTHER -> RoundedDiv(fact * elapsed, total)]

PlanFactRow(plan, fact, elapsed, total) ==
  [plan |-> plan, fact |-> fact, done |-> IF plan = None THEN None ELSE PercentOf(fact, plan),
   forecast |-> CASE elapsed <= 0 -> 0
                  [] elapsed >= total -> fact
                  [] OTHER -> RoundedDiv(fact * total, elapsed)]

PlanFact(plan, n, elapsed, total) ==
  [budget |-> PlanFactRow(plan.budget, n.spent, elapsed, total),
   leads |-> PlanFactRow(plan.leads, n.leads, elapsed, total),
   qualified |-> PlanFactRow(plan.qualified, n.qualified, elapsed, total),
   sales |-> PlanFactRow(plan.sales, n.sales, elapsed, total)]

(* A positive Decimal: m / 10^e, with Digits significant digits, as a      *)
(* division leaves it.                                                     *)
Divided(a, b) ==
  LET e == CHOOSE e \in 0 .. 3 * Digits :
             LET m == RoundedDiv(a * 10 ^ e, b) IN 10 ^ (Digits - 1) <= m /\ m < 10 ^ Digits
  IN  [m |-> RoundedDiv(a * 10 ^ e, b), e |-> e]

Ceil(x) == (x.m + 10 ^ x.e - 1) \div 10 ^ x.e

Floor(x) == x.m \div 10 ^ x.e

(* How many it takes to get "target" of them at a rate in percent.         *)
Need_RoundedDown(target, rate) ==
  IF target = None \/ rate = None \/ rate.num = 0 THEN None
  ELSE LET pct == Divided(rate.num, rate.den) IN
         Floor(Divided(100 * target * 10 ^ pct.e, pct.m))

Need(target, rate) ==
  IF target = None \/ rate = None \/ rate.num = 0 THEN None
  ELSE LET pct == Divided(rate.num, rate.den) IN
         Ceil(Divided(100 * target * 10 ^ pct.e, pct.m))

(* From a target of sales back to qualified leads, leads and budget.       *)
ReversePlan(sales, m) ==
  LET qualified == Need(sales, m.qualifiedToSale)
      leads == Need(qualified, m.leadToQualified)
  IN  [qualified |-> qualified, leads |-> leads,
       budget |-> IF leads = None \/ m.cpl = None THEN None
                  ELSE RoundedDiv(m.cpl.num * leads, m.cpl.den)]

(* A channel's spend after a correction; None when it would be negative.   *)
AdjustSpend(current, amount, subtract) ==
  LET next == IF subtract THEN current - amount ELSE current + amount IN
    IF next < 0 THEN None ELSE next

-----------------------------------------------------------------------------
(* What the pages owe each other, for the data d of one load.              *)

Opens(d, picked, row, field, key) ==
  \A kind \in DOMAIN row :
    row[kind] = Cardinality(MarketingItems(d, picked, [kind |-> kind, field |-> field, key |-> key]))

Earned(d, picked, row, field, key) ==
  row.revenue = Amounts(MarketingItems(d, picked, [kind |-> "sales", field |-> field, key |-> key]))

(* Every figure of the reports, of a channel, a manager or the total, opens *)
(* a list of just as many elements, those without a source or a manager    *)
(* included, and the amounts of the sales listed are the revenue shown     *)
(* (marketingItems: the elements behind a figure, ADR-049).                *)
FiguresOpenLists(d, spends, picked) ==
  LET channels == ChannelReport(d, spends, picked)
      sales == SalesReport(d)
  IN  /\ \A k \in DOMAIN channels.rows :
           LET numbers == channels.rows[k].numbers IN
             Opens(d, picked, ChannelLinks(numbers), "source", k) /\ Earned(d, picked, numbers, "source", k)
      /\ Opens(d, picked, ChannelLinks(channels.total.numbers), "any", None)
      /\ Earned(d, picked, channels.total.numbers, "any", None)
      /\ \A field \in {"source", "manager"} :
           LET rows == SalesBreakdown(d, field) IN
             \A k \in DOMAIN rows :
               Opens(d, picked, SalesLinks(rows[k]), field, k) /\ Earned(d, picked, rows[k], field, k)
      /\ Opens(d, picked, SalesLinks(sales.total), "any", None) /\ Earned(d, picked, sales.total, "any", None)

(* The marketing page and the sales page count the same sales: the totals  *)
(* of the channels, of the managers and of the page agree, whatever fails. *)
PagesShowTheSame(d, spends, picked) ==
  LET numbers == ChannelReport(d, spends, picked).total.numbers
      sales == SalesReport(d)
  IN  /\ numbers.sales = sales.total.sales /\ numbers.revenue = sales.total.revenue
      /\ \A rows \in {sales.byChannel, sales.byManager}, f \in {"created", "inWork", "won", "lost", "sales", "revenue"} :
           ColumnSum(rows, f) = sales.total[f]

(* The forecast of a month never lies below what is already there, is the  *)
(* fact when the month is over and says nothing before it begins.          *)
ForecastIsFair(plan, fact, month, current, day, total) ==
  LET elapsed == Progress(month, current, day, total)
      row == PlanFactRow(plan, fact, elapsed, total)
  IN  /\ month < current => row.forecast = fact
      /\ month > current => row.forecast = 0
      /\ elapsed > 0 => row.forecast >= row.fact
=============================================================================
