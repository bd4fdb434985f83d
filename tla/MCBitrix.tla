----------------------------- MODULE MCBitrix ------------------------------
(***************************************************************************)
(* What is read from Bitrix24 and what is shown of it.  One question per   *)
(* mode, chosen in the initial state: a list read page by page ("pages"),  *)
(* the work of a project ("work"), the nightly snapshot of deals           *)
(* ("funnels"), the settings by which the CRM is read ("settings"), the    *)
(* marketing figures of a changing CRM ("figures"), plan and fact of a     *)
(* month as leads come in ("month"), and the expenses and plans entered by *)
(* hand ("books").  The parts that are not asked about stay as they are.   *)
(***************************************************************************)
EXTENDS Marketing, Paging, Activity, SalesFunnels, CrmSettings, TLC

VARIABLES mode, cards, outcomes, failing, funnel

figureVars == <<cards, outcomes, failing, funnel>>

all == <<marketingVars, pagingVars, activityVars, funnelVars, settingsVars, figureVars, mode>>

Ids == {"lead", "deal", "sale"}
NoSource == None
TrafficStages == {"NEW", "WORK", "LOST"}
Stages ==
  ("NEW"  :> [semantic |-> "process", sort |-> 1, funnel |-> "lead"]) @@
  ("WORK" :> [semantic |-> "process", sort |-> 2, funnel |-> "lead"]) @@
  ("LOST" :> [semantic |-> "fail", sort |-> 3, funnel |-> "lead"]) @@
  ("OPEN" :> [semantic |-> "process", sort |-> 1, funnel |-> "deal"]) @@
  ("DONE" :> [semantic |-> "success", sort |-> 2, funnel |-> "deal"])
MCByName == [s \in DOMAIN Stages |-> IF s = "DONE" THEN "success" ELSE "process"]
Roles == [lead |-> "TRAFFIC", deal |-> "SALES"]
Period == {2, 3}
NoOutcomes == [s \in DOMAIN Stages |-> None]

FiguresInit ==
  /\ cards = {} /\ outcomes = NoOutcomes /\ failing = {}
  /\ funnel = [leads |-> 0, qualified |-> 0, sales |-> 0, target |-> 1, day |-> 0]

Symmetry == Permutations(Managers)

(* Two months of a day each: a page shows one of them or both.             *)
MCMonthOf == [d \in 1 .. 2 |-> d]
MCPeriods ==
  { [start |-> 1, last |-> 1, month |-> 1], [start |-> 2, last |-> 2, month |-> 2],
    [start |-> 1, last |-> 2, month |-> None] }

NoPages == PagingInit /\ newest = 0 /\ walk.kind = Deals

NoWork == ActivityInit /\ work.kind = "group" /\ crm.events = <<>>

NoDeals == FunnelsInit /\ deals = snapshot

NoSettings == SettingsInit /\ rules = NoRules /\ mapping = Unmapped

MCInit ==
  /\ MarketingInit /\ FiguresInit /\ mode \in {"books", "figures", "month", "pages", "work", "funnels", "settings"}
  /\ today = 1
  /\ IF mode = "pages" THEN PagingInit ELSE NoPages
  /\ IF mode = "work" THEN ActivityInit ELSE NoWork
  /\ IF mode = "funnels" THEN FunnelsInit ELSE NoDeals
  /\ IF mode = "settings" THEN SettingsInit ELSE NoSettings

(* The CRM around the reports.                                             *)
ElementComes ==
  \E i \in Ids, of \in {<<"ads", "ann">>, <<"ads", None>>, <<None, None>>}, day \in {1, 2} :
    /\ ~\E e \in cards : e.id = i
    /\ i = "lead" => of[2] = None /\ day = 2
    /\ cards' = cards \cup
         {[id |-> i, section |-> IF i = "lead" THEN "lead" ELSE "deal", source |-> of[1],
           manager |-> of[2], amount |-> IF i = "deal" THEN 100 ELSE 250,
           stage |-> IF i = "lead" THEN "NEW" ELSE "OPEN", semantic |-> None, created |-> day,
           closed |-> None]}
    /\ UNCHANGED <<outcomes, failing, funnel>>

ElementMoves ==
  \E e \in cards, s \in {"WORK", "LOST", "DONE", None} :
    /\ e.section = IF s = "DONE" THEN "deal" ELSE "lead"
    /\ cards' = (cards \ {e}) \cup {[e EXCEPT !.stage = s, !.closed = IF s = "DONE" THEN 3 ELSE e.closed]}
    /\ UNCHANGED <<outcomes, failing, funnel>>

RuleChanges ==
  /\ \E s \in {"DONE", "WORK"}, ruled \in BOOLEAN :
       outcomes' = [outcomes EXCEPT ![s] = IF ~ruled THEN None ELSE IF s = "DONE" THEN "process" ELSE "closed"]
  /\ UNCHANGED <<cards, failing, funnel>>

BitrixFails ==
  /\ failing' \in SUBSET {"stages", "deal"}
  /\ UNCHANGED <<cards, outcomes, funnel>>

(* A month of 4 days with its leads.                                       *)
MonthGoesOn ==
  /\ \/ /\ funnel.leads < 5 /\ funnel' = [funnel EXCEPT !.leads = @ + 1]
     \/ /\ funnel.qualified < funnel.leads /\ funnel' = [funnel EXCEPT !.qualified = @ + 1]
     \/ /\ funnel.sales < funnel.qualified /\ funnel' = [funnel EXCEPT !.sales = @ + 1]
     \/ /\ funnel.target < 4 /\ funnel' = [funnel EXCEPT !.target = @ + 1]
     \/ /\ funnel.day < 4 /\ funnel' = [funnel EXCEPT !.day = @ + 1]
  /\ UNCHANGED <<cards, outcomes, failing>>

Figures == ElementComes \/ ElementMoves \/ RuleChanges \/ BitrixFails

MCNext ==
  /\ UNCHANGED mode
  /\ mode # "books" => UNCHANGED marketingVars
  /\ mode \notin {"figures", "month"} => UNCHANGED figureVars
  /\ mode # "pages" => UNCHANGED pagingVars
  /\ mode # "work" => UNCHANGED activityVars
  /\ mode # "funnels" => UNCHANGED funnelVars
  /\ mode # "settings" => UNCHANGED settingsVars
  /\ \/ mode = "books" /\ MarketingNext
     \/ mode = "figures" /\ Figures
     \/ mode = "month" /\ MonthGoesOn
     \/ mode = "pages" /\ PagingNext
     \/ mode = "work" /\ ActivityNext
     \/ mode = "funnels" /\ FunnelsNext
     \/ mode = "settings" /\ SettingsNext

MCSpec == MCInit /\ [][MCNext]_all

-----------------------------------------------------------------------------
Data == LoadMarketing(cards, Roles, outcomes, Stages, failing, Period)

Picked == IF outcomes["WORK"] = "closed" THEN {"WORK"} ELSE {}

Spends == {[source |-> "ads", kind |-> "SPENT", amount |-> 100]}

(* Every figure of the reports opens a list of just as many elements that  *)
(* bring as much, in every CRM there is (marketingItems, ADR-049).         *)
DrillMatchesFigure == mode = "figures" => FiguresOpenLists(Data, Spends, Picked)

(* The marketing page and the sales page count the same sales, whatever    *)
(* fails.                                                                  *)
PagesAgree == mode = "figures" => PagesShowTheSame(Data, Spends, Picked)

(* What the reverse plan asks for reaches its target at the rates of the   *)
(* period and asks for at most one lead more than would do (reversePlan,   *)
(* ADR-048): rounding in between never loses a lead.                       *)
ReversePlanEnough ==
  mode = "month" =>
  LET f == funnel
      rates == ChannelMetrics([spent |-> 0, leads |-> f.leads, qualified |-> f.qualified,
                               sales |-> f.sales, revenue |-> 0])
      plan == ReversePlan(f.target, rates)
      Enough(need, from, to, target) ==
        need # None => need * to >= target * from /\ (need - 2) * to < target * from
  IN  /\ Enough(plan.qualified, f.qualified, f.sales, f.target)
      /\ plan.qualified # None => Enough(plan.leads, f.leads, f.qualified, plan.qualified)
      /\ (plan.qualified = None) <=> (f.sales = 0)

(* The forecast of a month never lies below what is already there, is the  *)
(* fact when the month is over and says nothing before it begins.          *)
ForecastFits ==
  mode = "month" => \A month \in 1 .. 3 : ForecastIsFair(funnel.target, funnel.leads, month, 2, funnel.day, 4)

(* The marketing and sales pages agree with each other and with the lists  *)
(* behind them, and what they plan and foresee fits what is there.         *)
MarketingFits == DrillMatchesFigure /\ PagesAgree /\ ReversePlanEnough /\ ForecastFits
=============================================================================
