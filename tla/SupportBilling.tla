--------------------------- MODULE SupportBilling ---------------------------
(***************************************************************************)
(* One support month of one project, from the hours Bitrix24 reports to    *)
(* FACT entries (ADR-045).  Posting reads the hours through the analytics  *)
(* cache, reads which employees' hours of the month were already approved  *)
(* as time drafts, reads the previous posting, and then replaces the       *)
(* entries of that posting in one transaction.                             *)
(***************************************************************************)
EXTENDS Naturals, Sequences, FiniteSets, SequencesExt, SupportPackage

CONSTANTS
  Employees,
  Workers,        \* requests to post the month in progress at once
  Activities,     \* what Bitrix24 can report: time per employee, a meeting
  Attendees,      \* employees who attend the meeting
  rates,          \* hourly rates of the employees, in kopecks, or NoRate
  fee, hourRate, limit,  \* the project's package, see SupportPackage
  NoData,         \* nothing in the cache
  NoEmployee,
  MaxEntries      \* bound: nothing is booked beyond it

Activity == [time : [Employees -> Nat], meeting : Nat]

ASSUME ActivityAssumption ==
  Activities \subseteq Activity /\ Activities # {} /\ NoData \notin Activity

ASSUME StaffAssumption ==
  /\ IsFiniteSet(Employees)
  /\ NoEmployee \notin Employees
  /\ Attendees \subseteq Employees
  /\ rates \in [Employees -> Nat \cup {NoRate}]

ASSUME PackageAssumption ==
  fee \in Nat /\ hourRate \in Nat /\ limit \in Nat \cup {NoLimit}

ASSUME BoundAssumption == MaxEntries \in Nat

VARIABLES
  activity,  \* what Bitrix24 has for the month now
  cache,     \* what the server's memory has for it
  approved,  \* employees with an approved time draft in the month
  entries,   \* FinancialEntry rows in order of creation; an id is an index
  posting,   \* the SupportPosting row of the month
  req,       \* what each request has read and still has to do
  overlapped \* history: requests have overlapped as Exclusive forbids

vars == <<activity, cache, approved, entries, posting, req, overlapped>>

-----------------------------------------------------------------------------
Nothing == [time |-> [e \in Employees |-> 0], meeting |-> 0]

WithoutMeetings(a) == [time |-> a.time, meeting |-> 0]

(* Everything a load can return: the data as reported, without meetings    *)
(* when their call failed, or nothing at all.                              *)
Snapshots ==
  Activities \cup {WithoutMeetings(a) : a \in Activities} \cup {Nothing}

(* A meeting counts once for the project and in full for each attendee.    *)
TotalSeconds(a) == MapThenSumSet(LAMBDA e : a.time[e], Employees) + a.meeting

PersonSeconds(a) ==
  [e \in Employees |-> a.time[e] + IF e \in Attendees THEN a.meeting ELSE 0]

(* Names ending in an underscore and a fault are faulty variants of the    *)
(* definition that follows them; no specification uses them.               *)

(* compute: the specialists whose hours are not in finance already.        *)
Counted_DraftedToo(a, drafted) == {e \in Employees : PersonSeconds(a)[e] > 0}

Counted(a, drafted) == {e \in Employees \ drafted : PersonSeconds(a)[e] > 0}

Income(a) == MonthIncome(TotalSeconds(a), fee, hourRate, limit)

Amount(a, e) == WorkerAmount(PersonSeconds(a)[e], rates[e])

Expense(a, drafted) == MonthExpense(Counted(a, drafted), PersonSeconds(a), rates)

-----------------------------------------------------------------------------
Kinds == {"income", "work", "draft"}

Entry ==
  [kind : Kinds, who : Employees \cup {NoEmployee}, amount : Nat, deleted : BOOLEAN]

Line(kind, who, a, deleted) ==
  [kind |-> kind, who |-> who, amount |-> a, deleted |-> deleted]

Posting == [posted : BOOLEAN, seconds : Nat, income : Nat, expense : Nat, ids : SUBSET Nat]

Post(seconds, income, expense, ids) ==
  [posted |-> TRUE, seconds |-> seconds, income |-> income, expense |-> expense, ids |-> ids]

NoPosting ==
  [posted |-> FALSE, seconds |-> 0, income |-> 0, expense |-> 0, ids |-> {}]

ReqSteps == {"idle", "drafts", "previous", "commit"}

Request ==
  [at : ReqSteps, data : Snapshots, drafted : SUBSET Employees, old : SUBSET Nat]

Req(at, a, drafted, old) == [at |-> at, data |-> a, drafted |-> drafted, old |-> old]

IdleReq == Req("idle", Nothing, {}, {})

Init ==
  /\ activity \in Activities
  /\ cache = NoData
  /\ approved = {}
  /\ entries = <<>>
  /\ posting = NoPosting
  /\ req = [w \in Workers |-> IdleReq]
  /\ overlapped = FALSE

-----------------------------------------------------------------------------
(* The surroundings.                                                       *)

LogTime(a) ==
  /\ activity' = a
  /\ UNCHANGED <<cache, approved, entries, posting, req>>

(* A page shows cached data and reloads it behind the reader's back.       *)
BackgroundLoad ==
  /\ cache' \in {activity, WithoutMeetings(activity)}
  /\ UNCHANGED <<activity, approved, entries, posting, req>>

(* Settings of the project change.                                         *)
Invalidate ==
  /\ cache' = NoData
  /\ UNCHANGED <<activity, approved, entries, posting, req>>

(* The server restarts: its memory and the requests in progress are gone.  *)
Restart ==
  /\ cache' = NoData
  /\ req' = [w \in Workers |-> IdleReq]
  /\ UNCHANGED <<activity, approved, entries, posting>>

(* A time draft of the month is approved: see ApproveCommit of HoursReview.*)
ApproveDraft(e) ==
  /\ e \notin approved
  /\ rates[e] # NoRate
  /\ Len(entries) < MaxEntries
  /\ approved' = approved \cup {e}
  /\ entries' = Append(entries,
       Line("draft", e, WorkerAmount(activity.time[e], rates[e]), FALSE))
  /\ UNCHANGED <<activity, cache, posting, req>>

DeletedLine(l) == Line(l.kind, l.who, l.amount, TRUE)

(* A manager deletes an entry by hand.                                     *)
DeleteEntry(i) ==
  /\ ~entries[i].deleted
  /\ entries' = [entries EXCEPT ![i] = DeletedLine(@)]
  /\ UNCHANGED <<activity, cache, approved, posting, req>>

-----------------------------------------------------------------------------
(* postSupportMonth, the load: fresh data, cached data while it is young   *)
(* enough or when Bitrix24 fails, and with neither the month is empty.     *)

PostLoad(w) ==
  /\ req[w] = IdleReq
  /\ \/ /\ cache' \in {activity, WithoutMeetings(activity)}
        /\ req' = [req EXCEPT ![w] = Req("drafts", cache', {}, {})]
     \/ /\ cache # NoData
        /\ req' = [req EXCEPT ![w] = Req("drafts", cache, {}, {})]
        /\ UNCHANGED cache
     \/ /\ cache = NoData
        /\ req' = [req EXCEPT ![w] = Req("drafts", Nothing, {}, {})]
        /\ UNCHANGED cache
  /\ UNCHANGED <<activity, approved, entries, posting>>

PostReadDrafts(w) ==
  /\ req[w].at = "drafts"
  /\ req' = [req EXCEPT ![w] = Req("previous", @.data, approved, {})]
  /\ UNCHANGED <<activity, cache, approved, entries, posting>>

PostReadPrevious(w) ==
  /\ req[w].at = "previous"
  /\ req' = [req EXCEPT ![w] = Req("commit", @.data, @.drafted, posting.ids)]
  /\ UNCHANGED <<activity, cache, approved, entries, posting>>

(* The lines of a month: the income, and an expense for each specialist    *)
(* who is counted and has an amount.                                       *)
Paid(a, drafted) == {e \in Counted(a, drafted) : Amount(a, e) # 0}

NewLines(a, drafted) ==
  (IF Income(a) > 0 THEN <<Line("income", NoEmployee, Income(a), FALSE)>> ELSE <<>>)
    \o [i \in 1..Cardinality(Paid(a, drafted)) |->
          LET e == SetToSeq(Paid(a, drafted))[i] IN Line("work", e, Amount(a, e), FALSE)]

WithDeleted_KeepsOld(es, old) == es

WithDeleted_KeepsLast(es, old) ==
  [i \in 1..Len(es) |->
     IF i \in old /\ \E j \in old : j > i THEN DeletedLine(es[i]) ELSE es[i]]

WithDeleted(es, old) ==
  [i \in 1..Len(es) |-> IF i \in old THEN DeletedLine(es[i]) ELSE es[i]]

NewIds_OneTooMany(n) == Len(entries) + 1 .. Len(entries) + n + 1

NewIds(n) == Len(entries) + 1 .. Len(entries) + n

PostedTotals_EveryoneCounted(a, drafted, ids) ==
  Post(TotalSeconds(a), Income(a), Expense(a, {}), ids)

PostedTotals(a, drafted, ids) ==
  Post(TotalSeconds(a), Income(a), Expense(a, drafted), ids)

PostCommit(w) ==
  LET new == NewLines(req[w].data, req[w].drafted) IN
  /\ req[w].at = "commit"
  /\ Len(entries) + Len(new) <= MaxEntries
  /\ entries' = WithDeleted(entries, req[w].old) \o new
  /\ posting' = PostedTotals(req[w].data, req[w].drafted, NewIds(Len(new)))
  /\ req' = [req EXCEPT ![w] = IdleReq]
  /\ UNCHANGED <<activity, cache, approved>>

(* A read or the transaction fails.                                        *)
PostFails(w) ==
  /\ req[w].at # "idle"
  /\ req' = [req EXCEPT ![w] = IdleReq]
  /\ UNCHANGED <<activity, cache, approved, entries, posting>>

-----------------------------------------------------------------------------
Surroundings ==
  \/ \E a \in Activities : LogTime(a)
  \/ BackgroundLoad
  \/ Invalidate
  \/ Restart
  \/ \E e \in Employees : ApproveDraft(e)
  \/ \E i \in 1..Len(entries) : DeleteEntry(i)

Worker(w) ==
  \/ PostLoad(w)
  \/ PostReadDrafts(w)
  \/ PostReadPrevious(w)
  \/ PostCommit(w)
  \/ PostFails(w)

Step == Surroundings \/ \E w \in Workers : Worker(w)

(* What a lock on the month would give and the code does not take: one     *)
(* posting at a time, and no time draft of the month approved between a    *)
(* posting's reading of the drafts and its transaction.                    *)
Exclusive ==
  /\ \A v, w \in Workers : req[v].at # "idle" /\ req[w].at # "idle" => v = w
  /\ \A w \in Workers : req[w].at \in {"previous", "commit"} => req[w].drafted = approved

Next == Step /\ overlapped' = (overlapped \/ ~Exclusive')

Spec == Init /\ [][Next]_vars

-----------------------------------------------------------------------------
(* Type invariant.                                                         *)
TypeOK ==
  /\ activity \in Activities
  /\ cache \in Snapshots \cup {NoData}
  /\ approved \subseteq Employees
  /\ entries \in Seq(Entry)
  /\ posting \in Posting
  /\ posting.ids \subseteq 1..Len(entries)
  /\ req \in [Workers -> Request]
  /\ \A w \in Workers : req[w].old \subseteq 1..Len(entries)
  /\ overlapped \in BOOLEAN

SumOf(ids) == MapThenSumSet(LAMBDA i : entries[i].amount, ids)

OfKind(kind) == {i \in 1..Len(entries) : entries[i].kind = kind}

(* The totals kept with a posting, which the list compares with the hours  *)
(* of today, are those of the entries it created, however postings         *)
(* overlap and whatever is approved or deleted since.                      *)
PostingAddsUp ==
  /\ posting.income = SumOf(posting.ids \cap OfKind("income"))
  /\ posting.expense = SumOf(posting.ids \cap OfKind("work"))
  /\ posting.ids \cap OfKind("draft") = {}

LiveSupport == {i \in OfKind("income") \cup OfKind("work") : ~entries[i].deleted}

-----------------------------------------------------------------------------
(* Properties that hold as long as requests have not overlapped.           *)

(* "A month posted before has its old entries soft-deleted first": no line *)
(* of an earlier posting is still counted.                                 *)
OneLivePosting == ~overlapped => LiveSupport \subseteq posting.ids

(* The posting there is adds up, and is the only one, at any moment.       *)
PostingSound == TypeOK /\ PostingAddsUp /\ OneLivePosting

(* An employee whose hours of the month are approved as time drafts is not *)
(* booked again by a posting.                                              *)
PostingSkipsDrafted ==
  \A i \in 1..Len(entries') :
    i > Len(entries) /\ entries'[i].kind = "work" => entries'[i].who \notin approved

LinesOf(a, drafted) ==
  (IF Income(a) > 0 THEN {Line("income", NoEmployee, Income(a), FALSE)} ELSE {})
    \cup {Line("work", e, Amount(a, e), FALSE) : e \in Paid(a, drafted)}

Postings == {LinesOf(a, drafted) : a \in Snapshots, drafted \in SUBSET Employees}

Promise == INSTANCE SupportMonth WITH lines <- {entries[i] : i \in LiveSupport}

(* A posting takes the place of the one before it in one step: each step   *)
(* is one of SupportMonth, or leaves the month's lines alone; and what it  *)
(* books has not been booked from a time draft before.                     *)
PostingReplaces ==
  Promise!Init
    /\ [][~overlapped' => /\ Promise!Next \/ UNCHANGED {entries[i] : i \in LiveSupport}
                          /\ PostingSkipsDrafted]_vars

-----------------------------------------------------------------------------
(* What the documentation says and the code does not keep.                 *)

(* "Already written via time drafts - not counted again": nobody's hours   *)
(* of the month are a live expense twice.                                  *)
HoursCountedOnce ==
  \A i \in OfKind("work"), j \in OfKind("draft") :
    entries[i].who = entries[j].who => entries[i].deleted \/ entries[j].deleted
=============================================================================
