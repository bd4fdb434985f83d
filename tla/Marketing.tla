----------------------------- MODULE Marketing -----------------------------
(***************************************************************************)
(* Spend and plan entered by hand (services/marketing, ADR-048, ADR-060):  *)
(* what managers see on their pages, the numbers they click and change,    *)
(* and the transactions that write them.  A page shows a period (a day, a  *)
(* week, a month, any days) as it was when last refreshed; one request of  *)
(* a page runs at a time.                                                  *)
(***************************************************************************)
EXTENDS MarketingReport

CONSTANTS
  Managers,           \* each with a page open
  Channels, Days, Months,
  monthOf,            \* the month of a day
  Periods,            \* a page may show, with the month of a period "month"
  SpendIds, Sums,     \* rows of spend there may be and their amounts
  Fields, Numbers,    \* numbers of a plan and their values
  MaxRequests

DaysOf(p) == p.start .. p.last

ASSUME MarketingAssumption ==
  /\ IsFiniteSet(SpendIds) /\ Sums \subseteq Nat
  /\ Days \subseteq Nat /\ Days # {} /\ monthOf \in [Days -> Months]
  /\ Periods # {} /\ \A p \in Periods :
       p.start \in Days /\ p.last \in Days /\ p.start <= p.last /\ p.month \in Months \cup {None}

VARIABLES spends, plans, today, screen, reqs, count, adrift

marketingVars == <<spends, plans, today, screen, reqs, count, adrift>>

Absent == [exists |-> FALSE]

NoPlan == [f \in Fields |-> None]

Idle == [op |-> "none"]

(* Sums over the rows themselves: equal rows count each.                   *)
Total(rows, c, kind, days) ==
  MapThenSumSet(LAMBDA s : rows[s].amount,
    { s \in SpendIds : /\ rows[s].exists /\ ~rows[s].deleted
                       /\ rows[s].source = c /\ rows[s].kind = kind /\ rows[s].day \in days })

(* Spend is that of the period, the plan that of its month or of the       *)
(* current one; a correction will be of today, or of the period's last day *)
(* when today is not in it.                                                *)
Page_DatesToday(p) ==
  LET month == IF p.month # None THEN p.month ELSE monthOf[today] IN
    [days |-> DaysOf(p), month |-> month, plan |-> plans[month], day |-> today,
     spent |-> [c \in Channels |-> Total(spends, c, "SPENT", DaysOf(p))],
     rows |-> { s \in SpendIds : spends[s].exists /\ ~spends[s].deleted /\ spends[s].day \in DaysOf(p) }]

Page(p) ==
  LET month == IF p.month # None THEN p.month ELSE monthOf[today] IN
    [days |-> DaysOf(p), month |-> month, plan |-> plans[month],
     day |-> IF today \in DaysOf(p) THEN today ELSE p.last,
     spent |-> [c \in Channels |-> Total(spends, c, "SPENT", DaysOf(p))],
     rows |-> { s \in SpendIds : spends[s].exists /\ ~spends[s].deleted /\ spends[s].day \in DaysOf(p) }]

MarketingInit ==
  /\ spends = [s \in SpendIds |-> Absent] /\ plans = [m \in Months |-> NoPlan]
  /\ today \in Days
  /\ screen = [u \in Managers |-> Page(CHOOSE p \in Periods : TRUE)]
  /\ reqs = [u \in Managers |-> Idle] /\ count = 0
  /\ adrift = {}   \* channels with a row deleted, or two corrections at once

DayPasses ==
  /\ \E d \in Days : today < d /\ today' = d
  /\ UNCHANGED <<spends, plans, screen, reqs, count, adrift>>

Refresh(u) ==
  /\ \E p \in Periods : screen' = [screen EXCEPT ![u] = Page(p)]
  /\ UNCHANGED <<spends, plans, today, reqs, count, adrift>>

Submit(u, req) ==
  /\ reqs[u] = Idle /\ count < MaxRequests /\ count' = count + 1
  /\ reqs' = [reqs EXCEPT ![u] = req]
  /\ UNCHANGED <<spends, plans, today, screen, adrift>>

Proceed(u, req) ==
  /\ reqs' = [reqs EXCEPT ![u] = req]
  /\ UNCHANGED <<spends, plans, today, screen, count, adrift>>

-----------------------------------------------------------------------------
(* Spend: more of it, or a correction that takes some off.                 *)

(* The number clicked in the table: nothing can be taken off zero, nor     *)
(* more than the page shows.                                               *)
CellRequest(u, c, a, subtract) ==
  [op |-> "spend", source |-> c, kind |-> "SPENT", amount |-> a, subtract |-> subtract,
   day |-> screen[u].day, days |-> screen[u].days, shown |-> screen[u].spent[c], pc |-> "check", checked |-> 0]

SpendCell_Unchecked(u) ==
  \E c \in Channels, a \in Sums, subtract \in BOOLEAN : Submit(u, CellRequest(u, c, a, subtract))

SpendCell(u) ==
  \E c \in Channels, a \in Sums, subtract \in BOOLEAN :
    /\ subtract => screen[u].spent[c] # 0
    /\ AdjustSpend(screen[u].spent[c], a, subtract) # None
    /\ Submit(u, CellRequest(u, c, a, subtract))

(* The form: either kind, for any day, never a correction.                 *)
SpendForm(u) ==
  \E c \in Channels, a \in Sums, kind \in {"SPENT", "PAID"}, d \in Days :
    Submit(u, [op |-> "spend", source |-> c, kind |-> kind, amount |-> a, subtract |-> FALSE,
               day |-> d, days |-> {}, shown |-> 0, pc |-> "check", checked |-> 0])

(* createSpend: a correction is checked against all that was ever entered  *)
(* for the channel, and then written.                                      *)
CreateSpendCheck_OfThePeriod(u) ==
  /\ reqs[u].op = "spend" /\ reqs[u].pc = "check"
  /\ LET q == reqs[u]
         current == Total(spends, q.source, q.kind, q.days)
     IN  IF q.subtract /\ AdjustSpend(current, q.amount, TRUE) = None
         THEN Proceed(u, Idle)
         ELSE Proceed(u, [q EXCEPT !.pc = "insert", !.checked = Total(spends, q.source, q.kind, Days)])

CreateSpendCheck(u) ==
  /\ reqs[u].op = "spend" /\ reqs[u].pc = "check"
  /\ LET q == reqs[u]
         current == Total(spends, q.source, q.kind, Days)
     IN  IF q.subtract /\ AdjustSpend(current, q.amount, TRUE) = None
         THEN Proceed(u, Idle)
         ELSE Proceed(u, [q EXCEPT !.pc = "insert", !.checked = current])

CreateSpendInsert(u) ==
  /\ reqs[u].op = "spend" /\ reqs[u].pc = "insert"
  /\ \E s \in SpendIds :
       /\ ~spends[s].exists /\ \A t \in SpendIds : ~spends[t].exists => s <= t
       /\ LET q == reqs[u] IN
          /\ spends' = [spends EXCEPT ![s] =
               [exists |-> TRUE, source |-> q.source, kind |-> q.kind, day |-> q.day, deleted |-> FALSE,
                amount |-> IF q.subtract THEN -q.amount ELSE q.amount]]
          /\ adrift' = IF q.subtract /\ q.checked # Total(spends, q.source, q.kind, Days)
                       THEN adrift \cup {q.source} ELSE adrift
  /\ reqs' = [reqs EXCEPT ![u] = Idle]
  /\ UNCHANGED <<plans, today, screen, count>>

(* deleteSpend, of a row the page shows.                                   *)
DeleteSubmit(u) == \E s \in screen[u].rows : Submit(u, [op |-> "delete", id |-> s, pc |-> "find"])

DeleteFind(u) ==
  /\ reqs[u].op = "delete" /\ reqs[u].pc = "find"
  /\ IF spends[reqs[u].id].deleted THEN Proceed(u, Idle)
     ELSE Proceed(u, [reqs[u] EXCEPT !.pc = "commit"])

DeleteCommit(u) ==
  /\ reqs[u].op = "delete" /\ reqs[u].pc = "commit"
  /\ spends' = [spends EXCEPT ![reqs[u].id].deleted = TRUE]
  /\ adrift' = adrift \cup {spends[reqs[u].id].source}
  /\ reqs' = [reqs EXCEPT ![u] = Idle]
  /\ UNCHANGED <<plans, today, screen, count>>

-----------------------------------------------------------------------------
(* The plan: a number is clicked and all four are sent.                    *)

PlanPut_OnlyTheNumber(u) ==
  \E f \in Fields, n \in Numbers \cup {None} :
    Submit(u, [op |-> "plan", month |-> screen[u].month, field |-> f, shown |-> screen[u].plan,
               body |-> [NoPlan EXCEPT ![f] = n]])

PlanPut(u) ==
  \E f \in Fields, n \in Numbers \cup {None} :
    Submit(u, [op |-> "plan", month |-> screen[u].month, field |-> f, shown |-> screen[u].plan,
               body |-> [screen[u].plan EXCEPT ![f] = n]])

(* savePlan                                                                *)
PlanUpsert(u) ==
  /\ reqs[u].op = "plan"
  /\ plans' = [plans EXCEPT ![reqs[u].month] = reqs[u].body]
  /\ reqs' = [reqs EXCEPT ![u] = Idle]
  /\ UNCHANGED <<spends, today, screen, count, adrift>>

-----------------------------------------------------------------------------
MarketingNext ==
  \/ DayPasses
  \/ \E u \in Managers :
       \/ Refresh(u)
       \/ SpendCell(u) \/ SpendForm(u) \/ CreateSpendCheck(u) \/ CreateSpendInsert(u)
       \/ DeleteSubmit(u) \/ DeleteFind(u) \/ DeleteCommit(u)
       \/ PlanPut(u) \/ PlanUpsert(u)

MarketingSpec == MarketingInit /\ [][MarketingNext]_marketingVars

-----------------------------------------------------------------------------
(* Corrections never take all that was entered for a channel below zero,   *)
(* until two of them overlap or a row is deleted (createSpend: "the        *)
(* channel's spend of that kind never goes below zero").  Of a period it   *)
(* may: a correction made on a longer one is dated in a shorter.           *)
CorrectionsCovered(c) ==
  \A kind \in {"SPENT", "PAID"} : Total(spends, c, kind, Days) >= 0

(* What the popover says the spend of the period "will become" is what it  *)
(* becomes, unless it changed after the page was refreshed.                *)
SpendBecomes ==
  spends' # spends =>
    \E u \in Managers :
      LET q == reqs[u] IN
        /\ q.op \in {"spend", "delete"} /\ reqs'[u] = Idle
        /\ q.op = "spend" /\ q.days # {} /\ q.shown = Total(spends, q.source, q.kind, q.days) =>
             Total(spends', q.source, q.kind, q.days) = AdjustSpend(q.shown, q.amount, q.subtract)

(* Setting one number of a plan leaves the other numbers as they are,      *)
(* unless they were changed after the page was refreshed (each of the four *)
(* numbers is clicked to set it, ADR-060).                                 *)
OtherNumbersStay ==
  \A m \in Months :
    plans'[m] # plans[m] =>
      \E u \in Managers :
        /\ reqs[u].op = "plan" /\ reqs[u].month = m /\ reqs'[u] = Idle
        /\ reqs[u].shown = plans[m] =>
             \A f \in Fields \ {reqs[u].field} : plans'[m][f] = plans[m][f]

(* What is written by hand is what its writer saw and meant.               *)
HandWrittenSound ==
  [](\A c \in Channels \ adrift : CorrectionsCovered(c)) /\ [][SpendBecomes /\ OtherNumbersStay]_marketingVars
=============================================================================
