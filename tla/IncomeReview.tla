---------------------------- MODULE IncomeReview ----------------------------
(***************************************************************************)
(* The amount of a CRM deal becomes the expected income of its project in  *)
(* two stages.  A nightly job keeps one draft per project with the amount  *)
(* the deal has now and puts it up for review whenever that amount         *)
(* changes; a manager's approval creates the project's PLAN income entry,  *)
(* or corrects the one an earlier approval created.  The same entries can  *)
(* be edited and deleted by hand meanwhile.                                *)
(*                                                                         *)
(* The granularity is that of HoursReview: reads outside a transaction and *)
(* transactions are actions, everything in between may interleave.         *)
(***************************************************************************)
EXTENDS Sequences, FiniteSets, Entries

CONSTANTS
  Projects,     \* projects imported from the CRM and not archived
  NoProject,
  Workers,      \* HTTP requests in progress at once
  Jobs,         \* runs of the nightly job in progress at once
  DealAmounts,  \* amounts a deal can have
  Edits,        \* kinds of edits managers make, see EditKinds
  EditAmounts,  \* amounts they enter
  MaxEntries    \* bound: no approval creates an entry beyond it

ASSUME ProjectAssumption == NoProject \notin Projects

ASSUME DealAssumption == DealAmounts \subseteq Nat

ASSUME EditAssumption == Edits \subseteq EditKinds /\ EditAmounts \subseteq Nat

ASSUME BoundAssumption == MaxEntries \in Nat

VARIABLES
  deal,     \* "opportunity" of each project's deal; NoAmount when it is null
  drafts,   \* CrmIncomeDraft rows; status NONE is a row that does not exist
  entries,  \* FinancialEntry rows in order of creation; an id is an index
  req,      \* what each request has read and still has to do
  job,      \* the same for each run of the sync
  overlapped \* history: processes have overlapped as Exclusive forbids

vars == <<deal, drafts, entries, req, job, overlapped>>

-----------------------------------------------------------------------------
Statuses == {"NONE", "PENDING", "APPROVED", "REJECTED"}

NoEntry == 0

Draft == [status : Statuses, amount : Nat, entry : Nat]

Row(status, a, e) == [status |-> status, amount |-> a, entry |-> e]

NoDraft == Row("NONE", 0, NoEntry)

ReqSteps == {"idle", "approve", "reject", "edit", "delete"}

Request ==
  [at : ReqSteps, project : Projects \cup {NoProject}, entry : Nat, amount : Nat,
   product : Nat \cup {NoAmount}, kind : EditKinds, to : Projects \cup {NoProject}]

ReviewReq(at, p, e, a) ==
  [at |-> at, project |-> p, entry |-> e, amount |-> a,
   product |-> NoAmount, kind |-> "text", to |-> NoProject]

EditReq(e, a, product, kind, to) ==
  [at |-> "edit", project |-> NoProject, entry |-> e, amount |-> a,
   product |-> product, kind |-> kind, to |-> to]

IdleReq == ReviewReq("idle", NoProject, NoEntry, 0)

JobSteps == {"idle", "project", "read", "write"}

JobState ==
  [at : JobSteps, todo : SUBSET Projects, project : Projects \cup {NoProject}, amount : Nat]

Job(at, todo, p, a) == [at |-> at, todo |-> todo, project |-> p, amount |-> a]

IdleJob == Job("idle", {}, NoProject, 0)

BetweenProjects(todo) == Job("project", todo, NoProject, 0)

-----------------------------------------------------------------------------
Init ==
  /\ deal = [p \in Projects |-> NoAmount]
  /\ drafts = [p \in Projects |-> NoDraft]
  /\ entries = <<>>
  /\ req = [w \in Workers |-> IdleReq]
  /\ job = [j \in Jobs |-> IdleJob]
  /\ overlapped = FALSE

(* Somebody moves the deal in Bitrix24.                                    *)
DealChanges(p, a) ==
  /\ deal' = [deal EXCEPT ![p] = a]
  /\ UNCHANGED <<drafts, entries, req, job>>

-----------------------------------------------------------------------------
(* Names ending in an underscore and a fault are faulty variants of the    *)
(* definition that follows them; no specification uses them.               *)

(* approveIncomeDraft: the draft is read and must be PENDING; the          *)
(* transaction uses the amount and the link that were read.                *)

ApproveRead_ForgetsLink(w, p) ==
  /\ req[w] = IdleReq
  /\ drafts[p].status = "PENDING"
  /\ req' = [req EXCEPT ![w] = ReviewReq("approve", p, NoEntry, drafts[p].amount)]
  /\ UNCHANGED <<deal, drafts, entries, job>>

ApproveRead(w, p) ==
  /\ req[w] = IdleReq
  /\ drafts[p].status = "PENDING"
  /\ req' = [req EXCEPT ![w] = ReviewReq("approve", p, drafts[p].entry, drafts[p].amount)]
  /\ UNCHANGED <<deal, drafts, entries, job>>

(* The category is archived or of the wrong kind: nothing is written.      *)
ApproveRefused(w) ==
  /\ req[w].at = "approve"
  /\ req' = [req EXCEPT ![w] = IdleReq]
  /\ UNCHANGED <<deal, drafts, entries, job>>

NewIncome(p, a) == Line(p, a, NoAmount, FALSE)

Link(p, e) == drafts' = [drafts EXCEPT ![p] = Row("APPROVED", @.amount, e)]

ApproveCreate(w) ==
  /\ req[w].at = "approve"
  /\ req[w].entry = NoEntry
  /\ Len(entries) < MaxEntries
  /\ entries' = Append(entries, NewIncome(req[w].project, req[w].amount))
  /\ Link(req[w].project, Len(entries) + 1)
  /\ req' = [req EXCEPT ![w] = IdleReq]
  /\ UNCHANGED <<deal, job>>

(* A correction writes the category and the amount and nothing else: the   *)
(* entry may be deleted or in HOURS_RATE mode by now.                      *)
Corrected(e, a) == Line(e.project, a, e.product, e.deleted)

ApproveCorrect_LinksByEntry(w) ==
  /\ req[w].at = "approve"
  /\ req[w].entry # NoEntry
  /\ entries' = [entries EXCEPT ![req[w].entry] = Corrected(@, req[w].amount)]
  /\ Link(entries[req[w].entry].project, req[w].entry)
  /\ req' = [req EXCEPT ![w] = IdleReq]
  /\ UNCHANGED <<deal, job>>

ApproveCorrect_AmountKept(w) ==
  /\ req[w].at = "approve"
  /\ req[w].entry # NoEntry
  /\ entries' = [entries EXCEPT ![req[w].entry] = Corrected(@, @.amount)]
  /\ Link(req[w].project, req[w].entry)
  /\ req' = [req EXCEPT ![w] = IdleReq]
  /\ UNCHANGED <<deal, job>>

ApproveCorrect(w) ==
  /\ req[w].at = "approve"
  /\ req[w].entry # NoEntry
  /\ entries' = [entries EXCEPT ![req[w].entry] = Corrected(@, req[w].amount)]
  /\ Link(req[w].project, req[w].entry)
  /\ req' = [req EXCEPT ![w] = IdleReq]
  /\ UNCHANGED <<deal, job>>

(* rejectIncomeDraft.                                                      *)

RejectRead(w, p) ==
  /\ req[w] = IdleReq
  /\ drafts[p].status = "PENDING"
  /\ req' = [req EXCEPT ![w] = ReviewReq("reject", p, NoEntry, 0)]
  /\ UNCHANGED <<deal, drafts, entries, job>>

RejectCommit(w) ==
  /\ req[w].at = "reject"
  /\ drafts' = [drafts EXCEPT ![req[w].project] = Row("REJECTED", @.amount, @.entry)]
  /\ req' = [req EXCEPT ![w] = IdleReq]
  /\ UNCHANGED <<deal, entries, job>>

(* updateEntry: reads the entry, which must not be deleted, resolves the   *)
(* amount on what it read and writes it.                                   *)

EditRead(w, e, kind, a, to) ==
  /\ req[w] = IdleReq
  /\ ~entries[e].deleted
  /\ kind = "move" <=> to # NoProject
  /\ req' = [req EXCEPT ![w] =
       EditReq(e, ResolvedAmount(kind, a, entries[e]), ResolvedProduct(kind, a, entries[e]), kind, to)]
  /\ UNCHANGED <<deal, drafts, entries, job>>

EditCommit(w) ==
  /\ req[w].at = "edit"
  /\ entries' = [entries EXCEPT ![req[w].entry] =
       Edited(@, req[w].kind, req[w].to, req[w].amount, req[w].product)]
  /\ req' = [req EXCEPT ![w] = IdleReq]
  /\ UNCHANGED <<deal, drafts, job>>

(* softDeleteEntry.                                                        *)

DeleteRead(w, e) ==
  /\ req[w] = IdleReq
  /\ ~entries[e].deleted
  /\ req' = [req EXCEPT ![w] = ReviewReq("delete", NoProject, e, 0)]
  /\ UNCHANGED <<deal, drafts, entries, job>>

DeleteCommit(w) ==
  /\ req[w].at = "delete"
  /\ entries' = [entries EXCEPT ![req[w].entry] = Deleted(@)]
  /\ req' = [req EXCEPT ![w] = IdleReq]
  /\ UNCHANGED <<deal, drafts, job>>

-----------------------------------------------------------------------------
(* syncPortalIncome: for each project get the deal's amount, read the      *)
(* draft, and upsert it unless it shows that amount already.               *)

SyncStart(j) ==
  /\ job[j].at = "idle"
  /\ job' = [job EXCEPT ![j] = BetweenProjects(Projects)]
  /\ UNCHANGED <<deal, drafts, entries, req>>

SyncGetDeal_NullAmount(j, p) ==
  /\ job[j].at = "project"
  /\ p \in job[j].todo
  /\ job' = [job EXCEPT ![j] = Job("read", @.todo \ {p}, p, deal[p])]
  /\ UNCHANGED <<deal, drafts, entries, req>>

SyncGetDeal(j, p) ==
  /\ job[j].at = "project"
  /\ p \in job[j].todo
  /\ deal[p] # NoAmount
  /\ job' = [job EXCEPT ![j] = Job("read", @.todo \ {p}, p, deal[p])]
  /\ UNCHANGED <<deal, drafts, entries, req>>

(* The deal has no amount, or one of the project's calls fails: the        *)
(* project waits for the next night.                                       *)
SyncSkipProject(j) ==
  /\ \/ /\ job[j].at = "project"
        /\ \E p \in job[j].todo : job' = [job EXCEPT ![j] = BetweenProjects(@.todo \ {p})]
     \/ /\ job[j].at \in {"read", "write"}
        /\ job' = [job EXCEPT ![j] = BetweenProjects(@.todo)]
  /\ UNCHANGED <<deal, drafts, entries, req>>

Shows(d, a) == d.status # "NONE" /\ d.amount = a

SyncUnchanged(j) ==
  /\ job[j].at = "read"
  /\ Shows(drafts[job[j].project], job[j].amount)
  /\ job' = [job EXCEPT ![j] = BetweenProjects(@.todo)]
  /\ UNCHANGED <<deal, drafts, entries, req>>

SyncReadDraft_AlwaysWrites(j) ==
  /\ job[j].at = "read"
  /\ job' = [job EXCEPT ![j] = Job("write", @.todo, @.project, @.amount)]
  /\ UNCHANGED <<deal, drafts, entries, req>>

SyncReadDraft_SkipsApproved(j) ==
  /\ job[j].at = "read"
  /\ ~Shows(drafts[job[j].project], job[j].amount)
  /\ drafts[job[j].project].status # "APPROVED"
  /\ job' = [job EXCEPT ![j] = Job("write", @.todo, @.project, @.amount)]
  /\ UNCHANGED <<deal, drafts, entries, req>>

SyncReadDraft(j) ==
  /\ job[j].at = "read"
  /\ ~Shows(drafts[job[j].project], job[j].amount)
  /\ job' = [job EXCEPT ![j] = Job("write", @.todo, @.project, @.amount)]
  /\ UNCHANGED <<deal, drafts, entries, req>>

SyncWrite(j) ==
  /\ job[j].at = "write"
  /\ drafts' = [drafts EXCEPT ![job[j].project] = Row("PENDING", job[j].amount, @.entry)]
  /\ job' = [job EXCEPT ![j] = BetweenProjects(@.todo)]
  /\ UNCHANGED <<deal, entries, req>>

SyncEnd(j) ==
  /\ job[j].at = "project"
  /\ job[j].todo = {}
  /\ job' = [job EXCEPT ![j] = IdleJob]
  /\ UNCHANGED <<deal, drafts, entries, req>>

-----------------------------------------------------------------------------
Worker(w) ==
  \/ \E p \in Projects : ApproveRead(w, p) \/ RejectRead(w, p)
  \/ ApproveRefused(w)
  \/ ApproveCreate(w)
  \/ ApproveCorrect(w)
  \/ RejectCommit(w)
  \/ \E e \in 1..Len(entries), kind \in Edits, a \in EditAmounts, p \in Projects \cup {NoProject} :
       EditRead(w, e, kind, a, p)
  \/ EditCommit(w)
  \/ \E e \in 1..Len(entries) : DeleteRead(w, e)
  \/ DeleteCommit(w)

Sync(j) ==
  \/ SyncStart(j)
  \/ \E p \in Projects : SyncGetDeal(j, p)
  \/ SyncSkipProject(j)
  \/ SyncUnchanged(j)
  \/ SyncReadDraft(j)
  \/ SyncWrite(j)
  \/ SyncEnd(j)

(* What locks on the draft and entry rows would give and the code does not *)
(* take: no two requests work on one project's draft or on one entry, and  *)
(* none works on a draft the job is about to write.                        *)
Exclusive ==
  /\ \A v, w \in Workers : v # w =>
       /\ req[v].project = req[w].project => req[v].project = NoProject
       /\ req[v].entry = req[w].entry => req[v].entry = NoEntry
  /\ \A i, j \in Jobs : i # j /\ job[i].project = job[j].project => job[i].project = NoProject
  /\ \A w \in Workers, j \in Jobs :
       req[w].project = job[j].project => req[w].project = NoProject

(* The history variable follows every step.                                *)
Recorded(A) == A /\ overlapped' = (overlapped \/ ~Exclusive')

Next ==
  \/ \E p \in Projects, a \in DealAmounts \cup {NoAmount} : Recorded(DealChanges(p, a))
  \/ \E w \in Workers : Recorded(Worker(w))
  \/ \E j \in Jobs : Recorded(Sync(j))

Spec == Init /\ [][Next]_vars

(* Fairness.  The host's cron calls the job every night, and the job runs  *)
(* on by itself; calls to Bitrix24 and to the database fail now and then   *)
(* but not every time, for any one project.  Nothing is assumed of         *)
(* managers.                                                               *)
JobFairness(j) ==
  /\ WF_vars(Recorded(Sync(j)))
  /\ \A p \in Projects :
       /\ SF_vars(Recorded(SyncGetDeal(j, p)))
       /\ SF_vars(Recorded(job[j].project = p /\ SyncReadDraft(j)))
       /\ SF_vars(Recorded(job[j].project = p /\ SyncWrite(j)))

FairSpec == Spec /\ \A j \in Jobs : JobFairness(j)

-----------------------------------------------------------------------------
(* Type invariant: every row and every process is well formed.             *)
RequestOK(r) ==
  /\ r.at \in {"approve", "reject"} <=> r.project # NoProject
  /\ r.at \in {"edit", "delete"} => r.entry # NoEntry
  /\ r.entry \in 0..Len(entries)
  /\ r.kind = "move" => r.to # NoProject

TypeOK ==
  /\ deal \in [Projects -> DealAmounts \cup {NoAmount}]
  /\ drafts \in [Projects -> Draft]
  /\ entries \in Seq(EntryOf(Projects))
  /\ req \in [Workers -> Request]
  /\ job \in [Jobs -> JobState]
  /\ \A w \in Workers : RequestOK(req[w])
  /\ \A j \in Jobs : job[j].at \in {"read", "write"} <=> job[j].project # NoProject
  /\ overlapped \in BOOLEAN

(* An approved draft points at an entry, a link never dangles, and no two  *)
(* projects share one, however reviews, edits and the job interleave; nor  *)
(* does a request about to correct an entry aim at another project's.      *)
LinkSound ==
  /\ \A p \in Projects :
       /\ drafts[p].status = "APPROVED" => drafts[p].entry # NoEntry
       /\ drafts[p].entry \in 0..Len(entries)
  /\ \A p, q \in Projects :
       p # q /\ drafts[p].entry # NoEntry =>
         /\ drafts[p].entry # drafts[q].entry
         /\ \A w \in Workers :
              req[w].at = "approve" /\ req[w].project = q => req[w].entry # drafts[p].entry

(* ADR-028, point 1: a manager's decision survives every sync that finds   *)
(* the deal's amount unchanged; only a different amount reopens it.  This  *)
(* is for runs of the job that do not overlap, requests may.               *)
UnchangedDealKeepsDecision ==
  [][\A p \in Projects :
       drafts[p].status \in {"APPROVED", "REJECTED"} /\ drafts'[p].status = "PENDING"
         => drafts'[p].amount # drafts[p].amount]_vars

(* A deal whose amount stays is in the end shown to the managers with that *)
(* amount, whatever was decided about an earlier one and however many      *)
(* nights fail.                                                            *)
DealReachesDraft ==
  \A p \in Projects : \A a \in DealAmounts :
    <>[](deal[p] = a) => <>[]Shows(drafts[p], a)

-----------------------------------------------------------------------------
(* Properties that hold as long as no two processes have overlapped on one *)
(* draft or entry.                                                         *)

(* "creates the PLAN/INCOME FinancialEntry the first time, or updates the  *)
(* SAME entry on a later approval": every income entry is the one its      *)
(* project's draft points at, so a project's income is never booked twice. *)
OneIncomePerProject ==
  ~overlapped => \A e \in 1..Len(entries) : \E p \in Projects : drafts[p].entry = e

(* While a decision stands, the books show the amount it was about, or one *)
(* a manager entered by hand: never the amount of an earlier decision.     *)
BooksShowDecision ==
  ~overlapped => \A p \in Projects :
    drafts[p].status = "APPROVED" =>
      entries[drafts[p].entry].amount \in {drafts[p].amount} \cup EditAmounts

(* The comment on updateEntrySchema: a PATCH that touches only metadata    *)
(* leaves amount, hours and rate alone, "the stored values stay as they    *)
(* are".                                                                   *)
MetadataEditKeepsAmount ==
  ~overlapped => \A w \in Workers :
    req[w].at = "edit" /\ req[w].kind = "text" /\ req'[w].at = "idle" =>
      entries'[req[w].entry] = entries[req[w].entry]

(* Every decision is in the books through a link of its own, with the      *)
(* amount it was about, and an edit of anything else leaves it there.      *)
BooksFollowDecisions ==
  [](TypeOK /\ LinkSound /\ BooksShowDecision) /\ [][MetadataEditKeepsAmount]_vars
=============================================================================
