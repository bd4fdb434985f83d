---------------------------- MODULE HoursReview ----------------------------
(***************************************************************************)
(* Hours logged on Bitrix24 tasks become expenses in two stages.  A        *)
(* nightly job writes one draft per slot (a project, an employee and a     *)
(* day); a manager approves the draft, which books an expense, or rejects  *)
(* it.                                                                     *)
(*                                                                         *)
(* Every request and every job is a process of its own against one         *)
(* READ COMMITTED database.  An action is what happens between two awaits  *)
(* whose order other processes can observe: a row read outside a           *)
(* transaction is one action, a transaction (whose writes become visible   *)
(* together) is one action.                                                *)
(***************************************************************************)
EXTENDS Naturals, Sequences, FiniteSets, Money

CONSTANTS
  Slots,        \* keys of a draft row: project, employee and work date
  Projects,     \* projects imported from the CRM and not archived
  Employees,    \* active portal users
  projectOf,    \* the project of a slot
  employeeOf,   \* the employee of a slot
  Workers,      \* HTTP requests of managers that can be in progress at once
  Jobs,         \* runs of the nightly job that can be in progress at once
  Logged,       \* totals of time Bitrix24 can report for a slot; 0 is none
  hoursOf,      \* a total of time, summed in hours and cut to two places
  Rates,        \* hourly rates an admin can give an employee
  NoRate,       \* an employee whose rate was never set
  NoSlot,
  MaxEntries    \* bound: no approval commits once this many entries exist

ASSUME SlotAssumption ==
  /\ projectOf \in [Slots -> Projects]
  /\ employeeOf \in [Slots -> Employees]
  /\ NoSlot \notin Slots

ASSUME HoursAssumption ==
  /\ 0 \in Logged
  /\ Logged \subseteq Nat
  /\ hoursOf \in [Logged -> Nat]

ASSUME RateAssumption == Rates \subseteq Nat /\ NoRate \notin Rates

ASSUME BoundAssumption == MaxEntries \in Nat

VARIABLES
  bitrix,   \* time logged in Bitrix24 for each slot
  aged,     \* slots whose day is further back than the job looks, 60 days
  cutoff,   \* the slots a run of the sync takes for aged since it began
  rates,    \* AppUser.hourlyRate
  drafts,   \* TaskTimeDraft rows; status NONE is a row that does not exist
  entries,  \* FinancialEntry rows in order of creation; an id is an index
  req,      \* what each worker's request has read and still has to do
  job       \* what each run of the sync has read and still has to do

vars == <<bitrix, aged, cutoff, rates, drafts, entries, req, job>>

-----------------------------------------------------------------------------
Statuses == {"NONE", "PENDING", "APPROVED", "REJECTED"}

NoEntry == 0

Draft == [status : Statuses, hours : Nat, entry : Nat]

Row(status, h, e) == [status |-> status, hours |-> h, entry |-> e]

NoDraft == Row("NONE", 0, NoEntry)

(* An expense as the review booked it, and the draft it was booked for. A  *)
(* later PATCH by hand (Entries, IncomeReview) may write other amounts; no *)
(* step here reads them.                                                   *)
Entry == [slot : Slots, hours : Nat, rate : Rates, amount : Nat, deleted : BOOLEAN]

Line(s, h, r, a, deleted) ==
  [slot |-> s, hours |-> h, rate |-> r, amount |-> a, deleted |-> deleted]

(* A request between two awaits: where it stands and what it has read.     *)
ReqSteps == {"idle", "approveRate", "approveCommit", "rejectCommit", "deleteCommit"}

Request ==
  [at : ReqSteps, slot : Slots \cup {NoSlot}, hours : Nat,
   rate : Rates \cup {NoRate}, entry : Nat]

Req(at, s, h, r, e) == [at |-> at, slot |-> s, hours |-> h, rate |-> r, entry |-> e]

IdleReq == Req("idle", NoSlot, 0, NoRate, NoEntry)

(* A run of the sync: the projects still to do, and of the current project *)
(* the slots still to write with the totals fetched for them.              *)
JobSteps == {"idle", "project", "row", "write"}

JobState ==
  [at : JobSteps, todo : SUBSET Projects, left : SUBSET Slots,
   totals : [Slots -> Nat], slot : Slots \cup {NoSlot}]

Job(at, todo, left, totals, s) ==
  [at |-> at, todo |-> todo, left |-> left, totals |-> totals, slot |-> s]

NoTotals == [s \in Slots |-> 0]

BetweenProjects(todo) == Job("project", todo, {}, NoTotals, NoSlot)

IdleJob == Job("idle", {}, {}, NoTotals, NoSlot)

-----------------------------------------------------------------------------
Init ==
  /\ bitrix = [s \in Slots |-> 0]
  /\ aged = {} /\ cutoff = [j \in Jobs |-> {}]
  /\ rates = [e \in Employees |-> NoRate]
  /\ drafts = [s \in Slots |-> NoDraft]
  /\ entries = <<>>
  /\ req = [w \in Workers |-> IdleReq]
  /\ job = [j \in Jobs |-> IdleJob]

-----------------------------------------------------------------------------
(* The surroundings: people log time in Bitrix24, for past days too, days  *)
(* go by, an admin sets rates.                                             *)

LogTime(s, t) ==
  /\ bitrix' = [bitrix EXCEPT ![s] = t]
  /\ UNCHANGED <<aged, cutoff, rates, drafts, entries, req, job>>

LeavesWindow(s) ==
  /\ aged' = aged \cup {s}
  /\ UNCHANGED <<bitrix, cutoff, rates, drafts, entries, req, job>>

SetRate(e, r) ==
  /\ rates' = [rates EXCEPT ![e] = r]
  /\ UNCHANGED <<bitrix, aged, cutoff, drafts, entries, req, job>>

-----------------------------------------------------------------------------
(* Names ending in an underscore and a fault are faulty variants of the    *)
(* definition that follows them; no specification uses them.  They are the *)
(* bugs the properties below are there to catch.                           *)

(* approveTimeDraft: the draft is read and must be PENDING, then the rate  *)
(* is read and must be set; the transaction uses what was read and checks  *)
(* nothing again.                                                          *)

ApproveReadDraft_AnyStatus(w, s) ==
  /\ req[w] = IdleReq
  /\ drafts[s].status # "NONE"
  /\ req' = [req EXCEPT ![w] = Req("approveRate", s, drafts[s].hours, NoRate, NoEntry)]
  /\ UNCHANGED <<bitrix, aged, cutoff, rates, drafts, entries, job>>

ApproveReadDraft_HoursFromBitrix(w, s) ==
  /\ req[w] = IdleReq
  /\ drafts[s].status = "PENDING"
  /\ req' = [req EXCEPT ![w] = Req("approveRate", s, hoursOf[bitrix[s]], NoRate, NoEntry)]
  /\ UNCHANGED <<bitrix, aged, cutoff, rates, drafts, entries, job>>

ApproveReadDraft(w, s) ==
  /\ req[w] = IdleReq
  /\ drafts[s].status = "PENDING"
  /\ req' = [req EXCEPT ![w] = Req("approveRate", s, drafts[s].hours, NoRate, NoEntry)]
  /\ UNCHANGED <<bitrix, aged, cutoff, rates, drafts, entries, job>>

ApproveReadRate_RateNotRequired(w) ==
  /\ req[w].at = "approveRate"
  /\ req' = [req EXCEPT ![w] =
       Req("approveCommit", @.slot, @.hours, rates[employeeOf[@.slot]], NoEntry)]
  /\ UNCHANGED <<bitrix, aged, cutoff, rates, drafts, entries, job>>

ApproveReadRate(w) ==
  /\ req[w].at = "approveRate"
  /\ rates[employeeOf[req[w].slot]] # NoRate
  /\ req' = [req EXCEPT ![w] =
       Req("approveCommit", @.slot, @.hours, rates[employeeOf[@.slot]], NoEntry)]
  /\ UNCHANGED <<bitrix, aged, cutoff, rates, drafts, entries, job>>

(* The rate is missing, the project is gone, or the category is archived   *)
(* or of the wrong kind: the request ends with nothing written.            *)
ApproveRefused(w) ==
  /\ req[w].at \in {"approveRate", "approveCommit"}
  /\ req' = [req EXCEPT ![w] = IdleReq]
  /\ UNCHANGED <<bitrix, aged, cutoff, rates, drafts, entries, job>>

NewEntry(r) ==
  Line(r.slot, r.hours, r.rate, HoursRateAmount(r.hours, r.rate), FALSE)

ApproveCommit_LinksPreviousEntry(w) ==
  /\ req[w].at = "approveCommit"
  /\ Len(entries) < MaxEntries
  /\ entries' = Append(entries, NewEntry(req[w]))
  /\ drafts' = [drafts EXCEPT ![req[w].slot] = Row("APPROVED", @.hours, Len(entries))]
  /\ req' = [req EXCEPT ![w] = IdleReq]
  /\ UNCHANGED <<bitrix, aged, cutoff, rates, job>>

ApproveCommit(w) ==
  /\ req[w].at = "approveCommit"
  /\ Len(entries) < MaxEntries
  /\ entries' = Append(entries, NewEntry(req[w]))
  /\ drafts' = [drafts EXCEPT ![req[w].slot] = Row("APPROVED", @.hours, Len(entries) + 1)]
  /\ req' = [req EXCEPT ![w] = IdleReq]
  /\ UNCHANGED <<bitrix, aged, cutoff, rates, job>>

(* rejectTimeDraft: read and check, then an update that checks nothing.    *)

RejectReadDraft_AnyStatus(w, s) ==
  /\ req[w] = IdleReq
  /\ drafts[s].status # "NONE"
  /\ req' = [req EXCEPT ![w] = Req("rejectCommit", s, 0, NoRate, NoEntry)]
  /\ UNCHANGED <<bitrix, aged, cutoff, rates, drafts, entries, job>>

RejectReadDraft(w, s) ==
  /\ req[w] = IdleReq
  /\ drafts[s].status = "PENDING"
  /\ req' = [req EXCEPT ![w] = Req("rejectCommit", s, 0, NoRate, NoEntry)]
  /\ UNCHANGED <<bitrix, aged, cutoff, rates, drafts, entries, job>>

RejectCommit(w) ==
  /\ req[w].at = "rejectCommit"
  /\ drafts' = [drafts EXCEPT ![req[w].slot] = Row("REJECTED", @.hours, @.entry)]
  /\ req' = [req EXCEPT ![w] = IdleReq]
  /\ UNCHANGED <<bitrix, aged, cutoff, rates, entries, job>>

(* softDeleteEntry: a manager removes an entry the review has booked.      *)

DeleteReadEntry(w, e) ==
  /\ req[w] = IdleReq
  /\ ~entries[e].deleted
  /\ req' = [req EXCEPT ![w] = Req("deleteCommit", NoSlot, 0, NoRate, e)]
  /\ UNCHANGED <<bitrix, aged, cutoff, rates, drafts, entries, job>>

DeleteCommit_Toggles(w) ==
  /\ req[w].at = "deleteCommit"
  /\ entries' = [entries EXCEPT ![req[w].entry] = Line(@.slot, @.hours, @.rate, @.amount, ~@.deleted)]
  /\ req' = [req EXCEPT ![w] = IdleReq]
  /\ UNCHANGED <<bitrix, aged, cutoff, rates, drafts, job>>

DeleteCommit(w) ==
  /\ req[w].at = "deleteCommit"
  /\ entries' = [entries EXCEPT ![req[w].entry] = Line(@.slot, @.hours, @.rate, @.amount, TRUE)]
  /\ req' = [req EXCEPT ![w] = IdleReq]
  /\ UNCHANGED <<bitrix, aged, cutoff, rates, drafts, job>>

-----------------------------------------------------------------------------
(* syncPortalHours: for each project, fetch the totals of its slots, then  *)
(* for each slot read the draft and, unless it is APPROVED, upsert it.     *)
(* Time of days before the cutoff, which is set when the run begins, is    *)
(* passed over.                                                            *)

SyncStart(j) ==
  /\ job[j].at = "idle"
  /\ job' = [job EXCEPT ![j] = BetweenProjects(Projects)]
  /\ cutoff' = [cutoff EXCEPT ![j] = aged]
  /\ UNCHANGED <<bitrix, aged, rates, drafts, entries, req>>

LoggedSlots(j, p) == {s \in Slots \ cutoff[j] : projectOf[s] = p /\ bitrix[s] > 0}

FetchedTotals(j, p) ==
  [s \in Slots |-> IF s \in LoggedSlots(j, p) THEN hoursOf[bitrix[s]] ELSE 0]

SyncFetch(j, p) ==
  /\ job[j].at = "project"
  /\ p \in job[j].todo
  /\ job' = [job EXCEPT ![j] =
       Job("row", @.todo \ {p}, LoggedSlots(j, p), FetchedTotals(j, p), NoSlot)]
  /\ UNCHANGED <<bitrix, aged, cutoff, rates, drafts, entries, req>>

(* The rest of a project once one of its slots is done with.               *)
RowDone(q, s) == Job("row", q.todo, q.left \ {s}, [q.totals EXCEPT ![s] = 0], NoSlot)

(* An APPROVED draft is skipped.                                           *)
SyncSkip(j, s) ==
  /\ job[j].at = "row"
  /\ s \in job[j].left
  /\ drafts[s].status = "APPROVED"
  /\ job' = [job EXCEPT ![j] = RowDone(@, s)]
  /\ UNCHANGED <<bitrix, aged, cutoff, rates, drafts, entries, req>>

SyncReadDraft_AnyStatus(j, s) ==
  /\ job[j].at = "row"
  /\ s \in job[j].left
  /\ job' = [job EXCEPT ![j] = Job("write", @.todo, @.left, @.totals, s)]
  /\ UNCHANGED <<bitrix, aged, cutoff, rates, drafts, entries, req>>

SyncReadDraft(j, s) ==
  /\ job[j].at = "row"
  /\ s \in job[j].left
  /\ drafts[s].status # "APPROVED"
  /\ job' = [job EXCEPT ![j] = Job("write", @.todo, @.left, @.totals, s)]
  /\ UNCHANGED <<bitrix, aged, cutoff, rates, drafts, entries, req>>

(* The upsert creates the row or sets hours and status of the one there is *)
(* and leaves the rest of it, the link to an entry included.               *)
Proposed_NewRow(d, h) == Row("PENDING", h, NoEntry)


Proposed(d, h) == Row("PENDING", h, d.entry)

SyncWrite(j, s) ==
  /\ job[j].at = "write"
  /\ job[j].slot = s
  /\ drafts' = [drafts EXCEPT ![s] = Proposed(@, job[j].totals[s])]
  /\ job' = [job EXCEPT ![j] = RowDone(@, s)]
  /\ UNCHANGED <<bitrix, aged, cutoff, rates, entries, req>>

(* Bitrix24 or the database fails in a project: what is written stays, the *)
(* rest of the project waits for the next night.                           *)
SyncProjectFails(j) ==
  /\ \/ /\ job[j].at = "project"
        /\ \E p \in job[j].todo :
             job' = [job EXCEPT ![j] = BetweenProjects(@.todo \ {p})]
     \/ /\ job[j].at \in {"row", "write"}
        /\ job[j].left # {}
        /\ job' = [job EXCEPT ![j] = BetweenProjects(@.todo)]
  /\ UNCHANGED <<bitrix, aged, cutoff, rates, drafts, entries, req>>

SyncProjectDone(j) ==
  /\ job[j].at = "row"
  /\ job[j].left = {}
  /\ job' = [job EXCEPT ![j] = BetweenProjects(@.todo)]
  /\ UNCHANGED <<bitrix, aged, cutoff, rates, drafts, entries, req>>

SyncEnd(j) ==
  /\ job[j].at = "project"
  /\ job[j].todo = {}
  /\ job' = [job EXCEPT ![j] = IdleJob]
  /\ cutoff' = [cutoff EXCEPT ![j] = {}]
  /\ UNCHANGED <<bitrix, aged, rates, drafts, entries, req>>

-----------------------------------------------------------------------------
Surroundings ==
  \/ \E s \in Slots, t \in Logged : LogTime(s, t)
  \/ \E s \in Slots : LeavesWindow(s)
  \/ \E e \in Employees, r \in Rates \cup {NoRate} : SetRate(e, r)

Worker(w) ==
  \/ \E s \in Slots : ApproveReadDraft(w, s) \/ RejectReadDraft(w, s)
  \/ ApproveReadRate(w)
  \/ ApproveRefused(w)
  \/ ApproveCommit(w)
  \/ RejectCommit(w)
  \/ \E e \in 1..Len(entries) : DeleteReadEntry(w, e)
  \/ DeleteCommit(w)

Sync(j) ==
  \/ SyncStart(j)
  \/ \E p \in Projects : SyncFetch(j, p)
  \/ \E s \in Slots : SyncSkip(j, s) \/ SyncReadDraft(j, s) \/ SyncWrite(j, s)
  \/ SyncProjectFails(j)
  \/ SyncProjectDone(j)
  \/ SyncEnd(j)

Next ==
  \/ Surroundings
  \/ \E w \in Workers : Worker(w)
  \/ \E j \in Jobs : Sync(j)

Spec == Init /\ [][Next]_vars

-----------------------------------------------------------------------------
(* Fairness.  The host's cron calls the job every night and the job runs   *)
(* on by itself; calls to Bitrix24 and to the database fail now and then   *)
(* but not every time.  Nothing is assumed of managers, nor of the days: a *)
(* day stays in the window for 60 nights, as many as it takes or fewer.    *)

JobFairness(j) ==
  /\ WF_vars(SyncStart(j) \/ SyncProjectDone(j) \/ SyncEnd(j))
  /\ \A p \in Projects : SF_vars(SyncFetch(j, p))
  /\ \A s \in Slots : SF_vars(SyncSkip(j, s) \/ SyncReadDraft(j, s)) /\ SF_vars(SyncWrite(j, s))

FairSpec == Spec /\ \A j \in Jobs : JobFairness(j)

(* What a lock on the draft row would give and the code does not take: no  *)
(* two reviews of one draft overlap, and none overlaps the moment in which *)
(* the job has read the draft and not yet written it.                      *)
Exclusive ==
  \A s \in Slots :
    /\ \A v, w \in Workers : req[v].slot = s /\ req[w].slot = s => v = w
    /\ \A i, j \in Jobs : job[i].slot = s /\ job[j].slot = s => i = j
    /\ \A w \in Workers, j \in Jobs : ~(req[w].slot = s /\ job[j].slot = s)

ExclusiveSpec == Init /\ [][Next /\ Exclusive']_vars

-----------------------------------------------------------------------------
(* Type invariant: every row and every process is well formed, and what a  *)
(* process still has to do agrees with what it has read.                   *)
RequestOK(r) ==
  /\ r.at \in {"approveRate", "approveCommit", "rejectCommit"} <=> r.slot # NoSlot
  /\ r.at = "approveCommit" => r.rate \in Rates
  /\ r.at = "deleteCommit" => r.entry \in 1..Len(entries)

JobOK(q) ==
  /\ q.at = "write" <=> q.slot # NoSlot
  /\ q.at = "write" => q.slot \in q.left
  /\ q.at = "project" => q = BetweenProjects(q.todo)
  /\ q.at = "idle" => q = IdleJob

TypeOK ==
  /\ bitrix \in [Slots -> Logged]
  /\ aged \subseteq Slots /\ cutoff \in [Jobs -> SUBSET Slots]
  /\ rates \in [Employees -> Rates \cup {NoRate}]
  /\ drafts \in [Slots -> Draft]
  /\ entries \in Seq(Entry)
  /\ req \in [Workers -> Request]
  /\ job \in [Jobs -> JobState]
  /\ \A w \in Workers : RequestOK(req[w])
  /\ \A j \in Jobs : JobOK(job[j])

(* An approved draft always points at an expense of its own project,       *)
(* employee and day, and no link ever dangles, however approvals,          *)
(* rejections, deletions and nightly runs interleave.                      *)
LinkSound ==
  \A s \in Slots :
    /\ drafts[s].status = "APPROVED" => drafts[s].entry # NoEntry
    /\ drafts[s].entry # NoEntry =>
         /\ drafts[s].entry \in 1..Len(entries)
         /\ entries[drafts[s].entry].slot = s

(* Once booked, an expense keeps its hours, its rate and its amount: no    *)
(* later sync, rate or review of the same day changes any of it, and a     *)
(* deleted expense never comes back (ADR-027, point 4).                    *)
EntriesNeverRewritten ==
  [][/\ Len(entries) <= Len(entries')
     /\ \A e \in 1..Len(entries) :
          LET old == entries[e]  new == entries'[e] IN
            /\ new = Line(old.slot, old.hours, old.rate, old.amount, new.deleted)
            /\ old.deleted => new.deleted]_vars

(* A draft never loses the link to the expense it produced; a link is only *)
(* replaced by one to an expense booked in the same transaction.           *)
LinkMovesForward ==
  [][\A s \in Slots :
       drafts'[s].entry # drafts[s].entry =>
         /\ drafts'[s].entry > drafts[s].entry
         /\ drafts'[s].entry = Len(entries')
         /\ drafts'[s].status = "APPROVED"]_vars


-----------------------------------------------------------------------------
(* Properties that need the reviews of one draft not to overlap.           *)

(* The day's hours are booked at most once, deleted expenses included.     *)
BookedAtMostOnce ==
  \A d, e \in 1..Len(entries) : entries[d].slot = entries[e].slot => d = e

(* An expense exists only for an approved draft, and carries the hours the *)
(* approved draft shows.                                                   *)
BookedAsApproved ==
  \A e \in 1..Len(entries) :
    LET d == drafts[entries[e].slot] IN
      d.status = "APPROVED" /\ d.entry = e /\ d.hours = entries[e].hours

(* What a process has read outside its transaction still stands when the   *)
(* transaction commits: the draft under review is pending with the hours   *)
(* that were read, the draft about to be written is not approved.          *)
ReadsStand ==
  /\ \A w \in Workers :
       /\ req[w].slot # NoSlot => drafts[req[w].slot].status = "PENDING"
       /\ req[w].at \in {"approveRate", "approveCommit"} =>
            drafts[req[w].slot].hours = req[w].hours
  /\ \A j \in Jobs :
       job[j].slot # NoSlot => drafts[job[j].slot].status # "APPROVED"

(* With the steps of a review taken as one, this is the review of          *)
(* ReviewedHours: the promise a manager relies on.                         *)
Promise == INSTANCE ReviewedHours WITH
  Hours <- {hoursOf[t] : t \in Logged},
  Ids <- 1..MaxEntries,
  proposal <- [s \in Slots |-> [status |-> drafts[s].status, hours |-> drafts[s].hours]],
  booked <- {[id |-> e, slot |-> entries[e].slot, hours |-> entries[e].hours] :
               e \in {f \in 1..Len(entries) : ~entries[f].deleted}}

KeepsPromise == Promise!Spec

(* The comment on syncPortalHours: "Only PENDING/REJECTED drafts are       *)
(* touched - an APPROVED draft already became a real FinancialEntry and    *)
(* must never be silently changed underneath it".                          *)
ApprovedIsFinal ==
  [][\A s \in Slots : drafts[s].status = "APPROVED" => drafts'[s] = drafts[s]]_vars

(* The same comment, read as what the job may never do: put an approved    *)
(* draft up for review again.                                              *)
ApprovedNeverReopened ==
  [][\A s \in Slots :
       drafts[s].status = "APPROVED" => drafts'[s].status # "PENDING"]_vars
=============================================================================
