--------------------------- MODULE PlansAndLeads ---------------------------
(***************************************************************************)
(* The plan of a portal and the requests its people send                   *)
(* (services/billing, services/operator, lib/billing/plan and the panels   *)
(* of the operator): a request is checked for and then created; operators  *)
(* act on pages they loaded earlier, and granting from a request takes two *)
(* calls.                                                                  *)
(*                                                                         *)
(* A page of the operator may have been loaded at any time: it shows a     *)
(* request as it is, or as NEW, which every request was (a page that shows *)
(* CONTACTED after that has passed can do nothing more than such a page).  *)
(***************************************************************************)
EXTENDS Integers, Sequences, FiniteSets, SequencesExt

CONSTANTS
  NoDate,
  Kinds,        \* what may be asked for; "PRO" among them
  Senders,      \* slots for people sending a request
  Operators,    \* slots for operators granting PRO from a request
  MaxLeads, MaxGrants, LastDay

ASSUME PlansAssumption == "PRO" \in Kinds /\ NoDate \notin Nat

VARIABLES
  day,
  plan,         \* the row of the portal: its plan and when it ends
  grants,       \* OperatorGrant, oldest first
  leads,        \* the requests, oldest first
  sending,      \* a request being sent: its kind, once it was checked
  granting,     \* the request PRO was granted from and that is to be converted
  raced         \* two requests of one kind were on their way at once, or an
                \* operator acted on a request another had handled since

planVars == <<day, plan, grants, leads, sending, granting, raced>>

Pending == {"NEW", "CONTACTED"}

PlansInit ==
  /\ day = 1 /\ plan = [plan |-> "FREE", expiresAt |-> NoDate]
  /\ grants = <<>> /\ leads = <<>>
  /\ sending = [s \in Senders |-> "nothing"]
  /\ granting = [o \in Operators |-> 0]
  /\ raced = FALSE

EffectivePlan(source, today) ==
  IF source.plan = "PRO" /\ source.expiresAt # NoDate /\ source.expiresAt <= today
    THEN "FREE" ELSE source.plan

-----------------------------------------------------------------------------
(* A person of the portal.                                                 *)

OpenOf_NewOnly(kind) == {i \in DOMAIN leads : leads[i].kind = kind /\ leads[i].status = "NEW"}

OpenOf(kind) == {i \in DOMAIN leads : leads[i].kind = kind /\ leads[i].status \in Pending}

(* createProLead; the screens offer PRO only to a portal that has it not.  *)
CheckLead(s, kind) ==
  /\ sending[s] = "nothing" /\ Len(leads) < MaxLeads
  /\ kind = "PRO" => EffectivePlan(plan, day) = "FREE"
  /\ OpenOf(kind) = {}
  /\ sending' = [sending EXCEPT ![s] = kind]
  /\ raced' = (raced \/ \E other \in Senders \ {s} : sending[other] = kind)
  /\ UNCHANGED <<day, plan, grants, leads, granting>>

CreateLead(s) ==
  /\ sending[s] # "nothing"
  /\ leads' = Append(leads, [kind |-> sending[s], status |-> "NEW", since |-> Len(grants)])
  /\ sending' = [sending EXCEPT ![s] = "nothing"]
  /\ UNCHANGED <<day, plan, grants, granting, raced>>

-----------------------------------------------------------------------------
(* The operator.                                                           *)

(* setPortalPlan: the row and its history in one transaction.              *)
SetPlan_GrantsOnly(to) ==
  /\ Len(grants) < MaxGrants
  /\ plan' = to
  /\ grants' = IF to.plan = "PRO" THEN Append(grants, to) ELSE grants

SetPlan(to) ==
  /\ Len(grants) < MaxGrants
  /\ plan' = to /\ grants' = Append(grants, to)

(* The editor sends its whole form.                                        *)
SavePlan ==
  /\ \E to \in [plan : {"FREE", "PRO"}, expiresAt : {NoDate, day + 1}] : SetPlan(to)
  /\ UNCHANGED <<day, leads, sending, granting, raced>>

SetStatus(i, status) == leads' = [leads EXCEPT ![i].status = status]

Shown(i) == {"NEW", leads[i].status} \cap Pending

(* The buttons of a card follow the status its page shows.                 *)
Handle(i, shown) ==
  /\ \/ shown = "NEW" /\ SetStatus(i, "CONTACTED")
     \/ leads[i].kind # "PRO" /\ SetStatus(i, "CONVERTED")
     \/ SetStatus(i, "DECLINED")
  /\ raced' = (raced \/ shown # leads[i].status)
  /\ UNCHANGED <<day, plan, grants, sending, granting>>

FirstCall_Status(i) == SetStatus(i, "CONVERTED") /\ UNCHANGED <<plan, grants>>

FirstCall(i) == SetPlan([plan |-> "PRO", expiresAt |-> NoDate]) /\ UNCHANGED leads

(* «Выдать Pro»: the plan, without a date, and then the request; the       *)
(* second call may fail, and the card stays.                               *)
GrantFromLead(o, i, shown) ==
  /\ granting[o] = 0 /\ leads[i].kind = "PRO"
  /\ FirstCall(i)
  /\ granting' = [granting EXCEPT ![o] = i]
  /\ raced' = (raced \/ shown # leads[i].status)
  /\ UNCHANGED <<day, sending>>

ConvertLead(o) ==
  /\ granting[o] # 0
  /\ SetStatus(granting[o], "CONVERTED")
  /\ granting' = [granting EXCEPT ![o] = 0]
  /\ UNCHANGED <<day, plan, grants, sending, raced>>

ConvertFails(o) ==
  /\ granting[o] # 0
  /\ granting' = [granting EXCEPT ![o] = 0]
  /\ UNCHANGED <<day, plan, grants, leads, sending, raced>>

DayPasses ==
  /\ day < LastDay /\ day' = day + 1
  /\ UNCHANGED <<plan, grants, leads, sending, granting, raced>>

PlansNext ==
  \/ \E s \in Senders : (\E kind \in Kinds : CheckLead(s, kind)) \/ CreateLead(s)
  \/ SavePlan \/ DayPasses
  \/ \E i \in DOMAIN leads : \E shown \in Shown(i) :
       Handle(i, shown) \/ \E o \in Operators : GrantFromLead(o, i, shown)
  \/ \E o \in Operators : ConvertLead(o) \/ ConvertFails(o)

-----------------------------------------------------------------------------
(* Properties.                                                             *)

(* "One open lead of each kind per portal at a time" (services/billing):   *)
(* it holds as long as no two requests of a kind were on their way at once *)
(* and no operator acted on a request handled since the page was loaded.   *)
OneOpenLead == ~raced => \A i, j \in DOMAIN leads :
  {leads[i].status, leads[j].status} \subseteq Pending /\ leads[i].kind = leads[j].kind => i = j

(* A request that was converted is not an empty promise: PRO was granted   *)
(* after it was sent, whichever of the two calls failed.                   *)
ConvertedWasGranted ==
  \A i \in DOMAIN leads : leads[i].kind = "PRO" /\ leads[i].status = "CONVERTED" =>
    \E g \in DOMAIN grants : g > leads[i].since /\ grants[g].plan = "PRO"

(* What a portal has today follows from the history the operator sees: a   *)
(* portal is on PRO iff the last entry gives it, to a day still to come.   *)
HistoryExplainsPlan ==
  EffectivePlan(plan, day) = "PRO" <=>
    /\ grants # <<>> /\ Last(grants).plan = "PRO"
    /\ Last(grants).expiresAt = NoDate \/ Last(grants).expiresAt > day

(* What the operator's pages tell of a portal's plan and requests is so.   *)
PlansAsTold == OneOpenLead /\ ConvertedWasGranted /\ HistoryExplainsPlan
=============================================================================
