------------------------- MODULE HoursReviewProofs -------------------------
(***************************************************************************)
(* Proofs about HoursReview, for every number of slots, requests and runs  *)
(* of the job.                                                             *)
(***************************************************************************)
EXTENDS HoursReview, SequenceTheorems, TLAPS

USE DEF NoEntry, Req, Job, Row, NoTotals, Line, BetweenProjects, RowDone, IdleReq, IdleJob

(* An HOURS_RATE amount is a whole number of kopecks.                      *)
LEMMA AmountType ==
  ASSUME NEW h \in Nat, NEW r \in Nat
  PROVE  HoursRateAmount(h, r) \in Nat
<1>1. 2 * (h * r) + 100 \in Nat
  OBVIOUS
<1> DEFINE n == 2 * (h * r) + 100
<1>2. n \div 200 \in Nat
  <2> HIDE DEF n
  <2> n \in Nat
    BY <1>1 DEF n
  <2> QED OBVIOUS
<1> QED
  BY <1>2 DEF HoursRateAmount, RoundedDiv

LEMMA InitTypeOK == Init => TypeOK
<1> SUFFICES ASSUME Init PROVE TypeOK
  OBVIOUS
<1> USE SlotAssumption, HoursAssumption, RateAssumption DEF Init
<1>1. bitrix \in [Slots -> Logged] /\ rates \in [Employees -> Rates \cup {NoRate}]
  OBVIOUS
<1>2. drafts \in [Slots -> Draft]
  BY DEF NoDraft, Draft, Statuses
<1>3. entries \in Seq(Entry)
  OBVIOUS
<1>4. req \in [Workers -> Request] /\ \A w \in Workers : RequestOK(req[w])
  BY DEF IdleReq, Request, ReqSteps, RequestOK
<1>5. job \in [Jobs -> JobState] /\ \A j \in Jobs : JobOK(job[j])
  BY DEF IdleJob, JobState, JobSteps, JobOK
<1>6. aged \subseteq Slots /\ cutoff \in [Jobs -> SUBSET Slots]
  OBVIOUS
<1> QED
  BY <1>1, <1>2, <1>3, <1>4, <1>5, <1>6 DEF TypeOK

(* Rows and processes that a step leaves alone stay well formed.           *)
LEMMA StutterTypeOK == TypeOK /\ UNCHANGED vars => TypeOK'
BY DEF TypeOK, vars, RequestOK

LEMMA WorkerTypeOK ==
  ASSUME TypeOK, NEW w \in Workers, Worker(w)
  PROVE  TypeOK'
<1> USE SlotAssumption, HoursAssumption, RateAssumption
<1>1. ASSUME NEW s \in Slots, ApproveReadDraft(w, s)
      PROVE  TypeOK'
  BY <1>1 DEF TypeOK, ApproveReadDraft, IdleReq, Request, ReqSteps, RequestOK, Draft
<1>2. ASSUME NEW s \in Slots, RejectReadDraft(w, s)
      PROVE  TypeOK'
  BY <1>2 DEF TypeOK, RejectReadDraft, IdleReq, Request, ReqSteps, RequestOK
<1>3. CASE ApproveReadRate(w)
  <2>1. rates[employeeOf[req[w].slot]] \in Rates
    BY <1>3 DEF TypeOK, ApproveReadRate, Request, RequestOK
  <2> QED
    BY <1>3, <2>1 DEF TypeOK, ApproveReadRate, Request, ReqSteps, RequestOK
<1>4. CASE ApproveRefused(w)
  BY <1>4 DEF TypeOK, ApproveRefused, IdleReq, Request, ReqSteps, RequestOK
<1>5. CASE ApproveCommit(w)
  <2>1. NewEntry(req[w]) \in Entry
    <3>1. req[w].rate \in Rates /\ req[w].hours \in Nat /\ req[w].slot \in Slots
      BY <1>5 DEF TypeOK, ApproveCommit, Request, RequestOK
    <3>2. HoursRateAmount(req[w].hours, req[w].rate) \in Nat
      BY <3>1, AmountType
    <3> QED
      BY <3>1, <3>2 DEF NewEntry, Entry
  <2>2. entries' \in Seq(Entry) /\ Len(entries') = Len(entries) + 1
    BY <1>5, <2>1 DEF TypeOK, ApproveCommit
  <2>3. drafts' \in [Slots -> Draft]
    <3>1. req[w].slot \in Slots
      BY <1>5 DEF TypeOK, ApproveCommit, Request, RequestOK
    <3> QED
      BY <1>5, <3>1 DEF TypeOK, ApproveCommit, Draft, Statuses
  <2>4. req' \in [Workers -> Request] /\ \A v \in Workers : RequestOK(req[v])'
    BY <1>5, <2>2 DEF TypeOK, ApproveCommit, IdleReq, Request, ReqSteps, RequestOK
  <2> QED
    BY <1>5, <2>2, <2>3, <2>4 DEF TypeOK, ApproveCommit
<1>6. CASE RejectCommit(w)
  BY <1>6 DEF TypeOK, RejectCommit, IdleReq, Request, ReqSteps, RequestOK, Draft, Statuses
<1>7. ASSUME NEW e \in 1..Len(entries), DeleteReadEntry(w, e)
      PROVE  TypeOK'
  BY <1>7 DEF TypeOK, DeleteReadEntry, IdleReq, Request, ReqSteps, RequestOK
<1>8. CASE DeleteCommit(w)
  <2>1. req[w].entry \in 1..Len(entries)
    BY <1>8 DEF TypeOK, DeleteCommit, RequestOK
  <2> DEFINE i == req[w].entry
             x == Line(entries[i].slot, entries[i].hours, entries[i].rate, entries[i].amount, TRUE)
  <2>2. entries' \in Seq(Entry) /\ Len(entries') = Len(entries)
    <3>1. entries \in Seq(Entry) /\ entries[i] \in Entry
      BY <2>1 DEF TypeOK
    <3>2. x \in Entry
      BY <3>1 DEF Entry
    <3>3. entries' = [entries EXCEPT ![i] = x]
      BY <1>8 DEF DeleteCommit
    <3> QED
      BY <2>1, <3>1, <3>2, <3>3, ExceptSeq
  <2> QED
    BY <1>8, <2>2 DEF TypeOK, DeleteCommit, IdleReq, Request, ReqSteps, RequestOK
<1> QED
  BY <1>1, <1>2, <1>3, <1>4, <1>5, <1>6, <1>7, <1>8 DEF Worker

LEMMA SyncTypeOK ==
  ASSUME TypeOK, NEW j \in Jobs, Sync(j)
  PROVE  TypeOK'
<1> USE SlotAssumption, HoursAssumption, RateAssumption
<1>1. CASE SyncStart(j)
  BY <1>1 DEF TypeOK, SyncStart, JobState, JobSteps, JobOK, IdleJob, RequestOK
<1>2. ASSUME NEW p \in Projects, SyncFetch(j, p)
      PROVE  TypeOK'
  BY <1>2 DEF TypeOK, SyncFetch, LoggedSlots, FetchedTotals, JobState, JobSteps, JobOK, IdleJob, RequestOK
<1>3. ASSUME NEW s \in Slots, SyncSkip(j, s)
      PROVE  TypeOK'
  BY <1>3 DEF TypeOK, SyncSkip, JobState, JobSteps, JobOK, IdleJob, RequestOK
<1>4. ASSUME NEW s \in Slots, SyncReadDraft(j, s)
      PROVE  TypeOK'
  BY <1>4 DEF TypeOK, SyncReadDraft, JobState, JobSteps, JobOK, IdleJob, RequestOK
<1>5. ASSUME NEW s \in Slots, SyncWrite(j, s)
      PROVE  TypeOK'
  <2>1. drafts' \in [Slots -> Draft]
    BY <1>5 DEF TypeOK, SyncWrite, Proposed, Draft, Statuses, JobState
  <2>2. job' \in [Jobs -> JobState] /\ \A i \in Jobs : JobOK(job[i])'
    BY <1>5 DEF TypeOK, SyncWrite, JobState, JobSteps, JobOK, IdleJob
  <2> QED
    BY <1>5, <2>1, <2>2 DEF TypeOK, SyncWrite, RequestOK
<1>6. CASE SyncProjectFails(j)
  <2>1. job' = [job EXCEPT ![j] = job'[j]] /\ UNCHANGED <<bitrix, aged, cutoff, rates, drafts, entries, req>>
    BY <1>6 DEF TypeOK, SyncProjectFails
  <2>2. \E T \in SUBSET Projects : job'[j] = BetweenProjects(T)
    BY <1>6 DEF TypeOK, SyncProjectFails, JobState
  <2>3. job'[j] \in JobState /\ JobOK(job'[j])
    BY <2>2 DEF JobState, JobSteps, JobOK
  <2> QED
    BY <2>1, <2>3 DEF TypeOK, JobOK, RequestOK
<1>7. CASE SyncProjectDone(j)
  BY <1>7 DEF TypeOK, SyncProjectDone, JobState, JobSteps, JobOK, IdleJob, RequestOK
<1>8. CASE SyncEnd(j)
  BY <1>8 DEF TypeOK, SyncEnd, JobState, JobSteps, JobOK, IdleJob, RequestOK
<1> QED
  BY <1>1, <1>2, <1>3, <1>4, <1>5, <1>6, <1>7, <1>8 DEF Sync

LEMMA NextTypeOK == TypeOK /\ [Next]_vars => TypeOK'
<1> SUFFICES ASSUME TypeOK, [Next]_vars PROVE TypeOK'
  OBVIOUS
<1> USE SlotAssumption, HoursAssumption, RateAssumption
<1>1. ASSUME NEW s \in Slots, NEW t \in Logged, LogTime(s, t)
      PROVE  TypeOK'
  BY <1>1 DEF TypeOK, LogTime, RequestOK
<1>2. ASSUME NEW e \in Employees, NEW r \in Rates \cup {NoRate}, SetRate(e, r)
      PROVE  TypeOK'
  BY <1>2 DEF TypeOK, SetRate, RequestOK
<1>3. ASSUME NEW s \in Slots, LeavesWindow(s)
      PROVE  TypeOK'
  BY <1>3 DEF TypeOK, LeavesWindow, RequestOK
<1> QED
  BY <1>1, <1>2, <1>3, WorkerTypeOK, SyncTypeOK, StutterTypeOK DEF Next, Surroundings

(* Every row and every process stays well formed, for any number of        *)
(* requests and runs of the job in progress.                               *)
THEOREM TypeCorrect == Spec => []TypeOK
BY InitTypeOK, NextTypeOK, PTL DEF Spec

-----------------------------------------------------------------------------
(* Links between drafts and entries.                                       *)

(* What a committing transaction does to the rows, in the terms the        *)
(* invariants use.                                                         *)
LEMMA ApproveCommitEffect ==
  ASSUME TypeOK, NEW w \in Workers, ApproveCommit(w)
  PROVE  LET s == req[w].slot  n == Len(entries) + 1 IN
         /\ s \in Slots
         /\ Len(entries') = n
         /\ entries' \in Seq(Entry)
         /\ entries'[n].slot = s /\ entries'[n].hours = req[w].hours
         /\ \A e \in 1..Len(entries) : entries'[e] = entries[e]
         /\ drafts' = [drafts EXCEPT ![s] = Row("APPROVED", drafts[s].hours, n)]
<1> DEFINE s == req[w].slot
           n == Len(entries) + 1
<1>1. s \in Slots
  BY DEF TypeOK, ApproveCommit, Request, RequestOK
<1>2. entries \in Seq(Entry) /\ entries' = Append(entries, NewEntry(req[w]))
  BY DEF TypeOK, ApproveCommit
<1>3. entries' \in Seq(Entry)
  BY WorkerTypeOK DEF TypeOK, Worker
<1>4. NewEntry(req[w]).slot = s /\ NewEntry(req[w]).hours = req[w].hours
  BY DEF NewEntry
<1>5. drafts' = [drafts EXCEPT ![s] = Row("APPROVED", drafts[s].hours, n)]
  BY <1>1 DEF TypeOK, ApproveCommit
<1> QED
  BY <1>1, <1>2, <1>3, <1>4, <1>5

LEMMA DeleteCommitEffect ==
  ASSUME TypeOK, NEW w \in Workers, DeleteCommit(w)
  PROVE  /\ entries' \in Seq(Entry)
         /\ Len(entries') = Len(entries)
         /\ \A e \in 1..Len(entries) :
              LET old == entries[e]  new == entries'[e] IN
                /\ new = Line(old.slot, old.hours, old.rate, old.amount, new.deleted)
                /\ old.deleted => new.deleted
<1> DEFINE i == req[w].entry
           x == Line(entries[i].slot, entries[i].hours, entries[i].rate, entries[i].amount, TRUE)
<1>1. i \in 1..Len(entries)
  BY DEF TypeOK, DeleteCommit, RequestOK
<1>2. entries \in Seq(Entry) /\ entries[i] \in Entry
  BY <1>1 DEF TypeOK
<1>3. x \in Entry
  BY <1>2 DEF Entry
<1>4. entries' = [entries EXCEPT ![i] = x]
  BY DEF DeleteCommit
<1>5. entries' \in Seq(Entry) /\ Len(entries') = Len(entries)
  BY <1>1, <1>2, <1>3, <1>4, ExceptSeq
<1>6. ASSUME NEW e \in 1..Len(entries)
      PROVE  entries[e] = Line(entries[e].slot, entries[e].hours, entries[e].rate,
                               entries[e].amount, entries[e].deleted)
  <2>1. entries[e] \in Entry
    BY <1>2
  <2> QED
    BY <2>1 DEF Entry
<1>7. \A e \in 1..Len(entries) : entries'[e] = IF e = i THEN x ELSE entries[e]
  BY <1>1, <1>2, <1>3, <1>4, ExceptSeq
<1> QED
  BY <1>1, <1>5, <1>6, <1>7

(* The steps that leave the draft and entry rows alone.                    *)
LEMMA OtherSteps ==
  ASSUME [Next]_vars
  PROVE  \/ UNCHANGED <<drafts, entries>>
         \/ \E w \in Workers : ApproveCommit(w) \/ RejectCommit(w) \/ DeleteCommit(w)
         \/ \E j \in Jobs, s \in Slots : SyncWrite(j, s)
<1>1. CASE Surroundings
  BY <1>1 DEF Surroundings, LogTime, LeavesWindow, SetRate
<1>2. ASSUME NEW w \in Workers, Worker(w)
      PROVE  \/ UNCHANGED <<drafts, entries>>
             \/ ApproveCommit(w) \/ RejectCommit(w) \/ DeleteCommit(w)
  BY <1>2 DEF Worker, ApproveReadDraft, RejectReadDraft, ApproveReadRate, ApproveRefused, DeleteReadEntry
<1>3. ASSUME NEW j \in Jobs, Sync(j)
      PROVE  \/ UNCHANGED <<drafts, entries>>
             \/ \E s \in Slots : SyncWrite(j, s)
  BY <1>3 DEF Sync, SyncStart, SyncFetch, SyncSkip, SyncReadDraft, SyncProjectFails, SyncProjectDone, SyncEnd
<1> QED
  BY <1>1, <1>2, <1>3 DEF Next, vars

LEMMA StepLinkSound == TypeOK /\ TypeOK' /\ LinkSound /\ [Next]_vars => LinkSound'
<1> SUFFICES ASSUME TypeOK, TypeOK', LinkSound, [Next]_vars PROVE LinkSound'
  OBVIOUS
<1>0. Len(entries) \in Nat
  BY DEF TypeOK
<1>1. CASE UNCHANGED <<drafts, entries>>
  BY <1>1 DEF LinkSound
<1>2. ASSUME NEW w \in Workers, ApproveCommit(w)
      PROVE  LinkSound'
  <2> DEFINE s == req[w].slot
  <2>1. ASSUME NEW z \in Slots, z # s
        PROVE  drafts'[z] = drafts[z]
    BY <1>2, <2>1, ApproveCommitEffect DEF TypeOK
  <2>2. s \in Slots /\ drafts'[s] = Row("APPROVED", drafts[s].hours, Len(entries) + 1)
    BY <1>2, ApproveCommitEffect DEF TypeOK
  <2>3. entries'[Len(entries) + 1].slot = s /\ Len(entries') = Len(entries) + 1
    BY <1>2, ApproveCommitEffect
  <2>4. \A e \in 1..Len(entries) : entries'[e] = entries[e]
    BY <1>2, ApproveCommitEffect
  <2> QED
    BY <1>0, <2>1, <2>2, <2>3, <2>4 DEF LinkSound
<1>3. ASSUME NEW w \in Workers, RejectCommit(w)
      PROVE  LinkSound'
  BY <1>3 DEF TypeOK, LinkSound, RejectCommit
<1>4. ASSUME NEW w \in Workers, DeleteCommit(w)
      PROVE  LinkSound'
  <2>1. drafts' = drafts /\ Len(entries') = Len(entries)
    BY <1>4, DeleteCommitEffect DEF DeleteCommit
  <2>2. ASSUME NEW e \in 1..Len(entries)
        PROVE  entries'[e].slot = entries[e].slot
    <3>1. entries'[e] = Line(entries[e].slot, entries[e].hours, entries[e].rate,
                             entries[e].amount, entries'[e].deleted)
      BY <1>4, DeleteCommitEffect
    <3> QED
      BY <3>1
  <2> QED
    BY <2>1, <2>2 DEF LinkSound
<1>5. ASSUME NEW j \in Jobs, NEW s \in Slots, SyncWrite(j, s)
      PROVE  LinkSound'
  BY <1>5 DEF TypeOK, LinkSound, SyncWrite, Proposed
<1> QED
  BY <1>1, <1>2, <1>3, <1>4, <1>5, OtherSteps

(* However reviews, deletions and nightly runs interleave, an approved     *)
(* draft points at an expense of its own slot and no link dangles.         *)
THEOREM LinksAreSound == Spec => []LinkSound
<1>1. Init => LinkSound
  BY DEF Init, LinkSound, NoDraft
<1> QED
  BY <1>1, TypeCorrect, StepLinkSound, PTL DEF Spec

(* A booked expense keeps its slot, hours, rate and amount, whatever is    *)
(* synced and reviewed afterwards.                                         *)
THEOREM EntriesAreFinal == Spec => EntriesNeverRewritten
<1> DEFINE Kept ==
      /\ Len(entries) <= Len(entries')
      /\ \A e \in 1..Len(entries) :
           LET old == entries[e]  new == entries'[e] IN
             /\ new = Line(old.slot, old.hours, old.rate, old.amount, new.deleted)
             /\ old.deleted => new.deleted
<1>1. TypeOK /\ [Next]_vars => [Kept]_vars
  <2> SUFFICES ASSUME TypeOK, [Next]_vars PROVE Kept
    OBVIOUS
  <2>0. entries \in Seq(Entry) /\ Len(entries) \in Nat
    BY DEF TypeOK
  <2>1. ASSUME NEW e \in 1..Len(entries)
        PROVE  entries[e] = Line(entries[e].slot, entries[e].hours, entries[e].rate,
                                 entries[e].amount, entries[e].deleted)
    <3>1. entries[e] \in Entry
      BY <2>0
    <3> QED
      BY <3>1 DEF Entry
  <2>2. CASE entries' = entries
    BY <2>0, <2>1, <2>2
  <2>3. ASSUME NEW w \in Workers, ApproveCommit(w)
        PROVE  Kept
    <3>1. Len(entries') = Len(entries) + 1 /\ \A e \in 1..Len(entries) : entries'[e] = entries[e]
      BY <2>3, ApproveCommitEffect
    <3> QED
      BY <2>0, <2>1, <3>1
  <2>4. ASSUME NEW w \in Workers, DeleteCommit(w)
        PROVE  Kept
    BY <2>0, <2>4, DeleteCommitEffect
  <2> QED
    BY <2>2, <2>3, <2>4, OtherSteps DEF RejectCommit, SyncWrite
<1> QED
  BY <1>1, TypeCorrect, PTL DEF Spec, EntriesNeverRewritten

(* A draft's link is only ever replaced by one to the expense booked in    *)
(* the same transaction.                                                   *)
THEOREM LinksMoveForward == Spec => LinkMovesForward
<1> DEFINE Moves ==
      \A s \in Slots :
        drafts'[s].entry # drafts[s].entry =>
          /\ drafts'[s].entry > drafts[s].entry
          /\ drafts'[s].entry = Len(entries')
          /\ drafts'[s].status = "APPROVED"
<1>1. TypeOK /\ LinkSound /\ [Next]_vars => [Moves]_vars
  <2> SUFFICES ASSUME TypeOK, LinkSound, [Next]_vars, NEW z \in Slots,
                      drafts'[z].entry # drafts[z].entry
               PROVE  /\ drafts'[z].entry > drafts[z].entry
                      /\ drafts'[z].entry = Len(entries')
                      /\ drafts'[z].status = "APPROVED"
    OBVIOUS
  <2>1. Len(entries) \in Nat /\ drafts[z].entry <= Len(entries)
    BY DEF TypeOK, LinkSound
  <2>2. ASSUME NEW w \in Workers, RejectCommit(w)
        PROVE  FALSE
    BY <2>2 DEF TypeOK, RejectCommit
  <2>3. ASSUME NEW j \in Jobs, NEW s \in Slots, SyncWrite(j, s)
        PROVE  FALSE
    BY <2>3 DEF TypeOK, SyncWrite, Proposed
  <2>4. PICK w \in Workers : ApproveCommit(w)
    BY <2>2, <2>3, OtherSteps DEF DeleteCommit
  <2>5. Len(entries') = Len(entries) + 1
    BY <2>4, ApproveCommitEffect
  <2>6. drafts' = [drafts EXCEPT ![req[w].slot] = Row("APPROVED", drafts[req[w].slot].hours, Len(entries) + 1)]
    BY <2>4, ApproveCommitEffect
  <2>7. drafts'[z] = Row("APPROVED", drafts[z].hours, Len(entries) + 1)
    BY <2>4, <2>6, ApproveCommitEffect DEF TypeOK
  <2> QED
    BY <2>1, <2>5, <2>7 DEF TypeOK, Draft
<1> QED
  BY <1>1, TypeCorrect, LinksAreSound, PTL DEF Spec, LinkMovesForward

-----------------------------------------------------------------------------
(* What the review guarantees once reviews of one draft do not overlap.    *)
(* The invariant says that a process never acts on a reading that has gone *)
(* stale (ReadsStand); with it, the draft an approval books is pending, so *)
(* no expense of its slot exists yet.                                      *)
ExclusiveInv ==
  /\ TypeOK
  /\ Exclusive
  /\ ReadsStand
  /\ BookedAsApproved
  /\ BookedAtMostOnce

LEMMA InitExclusiveInv == Init => ExclusiveInv
<1> SUFFICES ASSUME Init PROVE ExclusiveInv
  OBVIOUS
<1>1. TypeOK
  BY InitTypeOK
<1>2. Exclusive /\ ReadsStand
  BY SlotAssumption DEF Init, Exclusive, ReadsStand
<1>3. BookedAsApproved /\ BookedAtMostOnce
  BY DEF Init, BookedAsApproved, BookedAtMostOnce
<1> QED
  BY <1>1, <1>2, <1>3 DEF ExclusiveInv

(* A step that touches neither drafts nor entries reads what stands.       *)
LEMMA ReaderReadsStand ==
  ASSUME TypeOK, ReadsStand, [Next]_vars, UNCHANGED <<drafts, entries>>
  PROVE  ReadsStand'
<1> USE SlotAssumption
<1>1. ASSUME NEW w \in Workers, Worker(w)
      PROVE  ReadsStand'
  <2>1. ASSUME NEW s \in Slots, ApproveReadDraft(w, s)
        PROVE  ReadsStand'
    BY <2>1 DEF TypeOK, ReadsStand, ApproveReadDraft
  <2>2. ASSUME NEW s \in Slots, RejectReadDraft(w, s)
        PROVE  ReadsStand'
    BY <2>2 DEF TypeOK, ReadsStand, RejectReadDraft
  <2>3. CASE ApproveReadRate(w)
    BY <2>3 DEF TypeOK, ReadsStand, ApproveReadRate, Request, RequestOK
  <2>4. CASE ApproveRefused(w)
    BY <2>4 DEF TypeOK, ReadsStand, ApproveRefused
  <2>5. ASSUME NEW e \in 1..Len(entries), DeleteReadEntry(w, e)
        PROVE  ReadsStand'
    BY <2>5 DEF TypeOK, ReadsStand, DeleteReadEntry
  <2>6. CASE ApproveCommit(w) \/ RejectCommit(w) \/ DeleteCommit(w)
    BY <2>6 DEF TypeOK, ReadsStand, ApproveCommit, RejectCommit, DeleteCommit
  <2> QED
    BY <1>1, <2>1, <2>2, <2>3, <2>4, <2>5, <2>6 DEF Worker
<1>2. ASSUME NEW j \in Jobs, Sync(j)
      PROVE  ReadsStand'
  <2>1. ASSUME NEW s \in Slots, SyncReadDraft(j, s)
        PROVE  ReadsStand'
    BY <2>1 DEF TypeOK, ReadsStand, SyncReadDraft
  <2>2. ASSUME req' = req, \A i \in Jobs : job'[i] = job[i] \/ job'[i].slot = NoSlot
        PROVE  ReadsStand'
    BY <2>2 DEF TypeOK, ReadsStand
  <2>3. CASE SyncStart(j) \/ SyncEnd(j) \/ SyncProjectDone(j)
    BY <2>2, <2>3 DEF TypeOK, SyncStart, SyncEnd, SyncProjectDone
  <2>4. ASSUME NEW p \in Projects, SyncFetch(j, p)
        PROVE  ReadsStand'
    BY <2>2, <2>4 DEF TypeOK, SyncFetch
  <2>5. ASSUME NEW s \in Slots, SyncSkip(j, s) \/ SyncWrite(j, s)
        PROVE  ReadsStand'
    BY <2>2, <2>5 DEF TypeOK, SyncSkip, SyncWrite
  <2>6. CASE SyncProjectFails(j)
    BY <2>2, <2>6 DEF TypeOK, SyncProjectFails
  <2> QED
    BY <1>2, <2>1, <2>3, <2>4, <2>5, <2>6 DEF Sync
<1>3. CASE Surroundings
  BY <1>3 DEF Surroundings, LogTime, LeavesWindow, SetRate, ReadsStand
<1>4. CASE UNCHANGED vars
  BY <1>4 DEF vars, ReadsStand
<1> QED
  BY <1>1, <1>2, <1>3, <1>4 DEF Next

LEMMA StepExclusiveInv ==
  ExclusiveInv /\ [Next /\ Exclusive']_vars => ExclusiveInv'
<1> SUFFICES ASSUME ExclusiveInv, [Next /\ Exclusive']_vars PROVE ExclusiveInv'
  OBVIOUS
<1> USE SlotAssumption
<1>0. TypeOK /\ Exclusive /\ ReadsStand /\ BookedAsApproved /\ BookedAtMostOnce
  BY DEF ExclusiveInv
<1>1. [Next]_vars /\ TypeOK'
  BY <1>0, NextTypeOK
<1>2. Exclusive'
  BY <1>0 DEF Exclusive, vars
<1>3. entries \in Seq(Entry) /\ Len(entries) \in Nat
  BY <1>0 DEF TypeOK
<1>slots. ASSUME NEW e \in 1..Len(entries)
          PROVE  entries[e].slot \in Slots
  <2>1. entries[e] \in Entry
    BY <1>3
  <2> QED
    BY <2>1 DEF Entry
<1> SUFFICES ReadsStand' /\ BookedAsApproved' /\ BookedAtMostOnce'
  BY <1>1, <1>2 DEF ExclusiveInv
<1>4. CASE UNCHANGED <<drafts, entries>>
  BY <1>0, <1>1, <1>4, ReaderReadsStand DEF BookedAsApproved, BookedAtMostOnce
<1>5. ASSUME NEW w \in Workers, ApproveCommit(w)
      PROVE  ReadsStand' /\ BookedAsApproved' /\ BookedAtMostOnce'
  <2> DEFINE s == req[w].slot
             n == Len(entries) + 1
  <2>1. s \in Slots /\ s # NoSlot /\ req[w].at = "approveCommit"
    BY <1>0, <1>5, ApproveCommitEffect DEF ApproveCommit
  <2>2. Len(entries') = n /\ entries'[n].slot = s /\ entries'[n].hours = req[w].hours
    BY <1>0, <1>5, ApproveCommitEffect
  <2>3. \A e \in 1..Len(entries) : entries'[e] = entries[e]
    BY <1>0, <1>5, ApproveCommitEffect
  <2>4. drafts' = [drafts EXCEPT ![s] = Row("APPROVED", drafts[s].hours, n)]
    BY <1>0, <1>5, ApproveCommitEffect
  <2>5. drafts[s].status = "PENDING" /\ drafts[s].hours = req[w].hours
    BY <1>0, <2>1 DEF ReadsStand
  <2>6. \A e \in 1..Len(entries) : entries[e].slot # s
    BY <1>0, <2>5 DEF BookedAsApproved
  <2>7. BookedAtMostOnce'
    BY <1>0, <1>3, <2>2, <2>3, <2>6 DEF BookedAtMostOnce
  <2>8. BookedAsApproved'
    <3>1. drafts'[s] = Row("APPROVED", drafts[s].hours, n)
      BY <1>0, <2>1, <2>4 DEF TypeOK
    <3>2. \A z \in Slots : z # s => drafts'[z] = drafts[z]
      BY <1>0, <2>1, <2>4 DEF TypeOK
    <3> QED
      BY <1>0, <1>3, <1>slots, <2>2, <2>3, <2>5, <2>6, <3>1, <3>2 DEF BookedAsApproved
  <2>9. ReadsStand'
    <3>1. req' = [req EXCEPT ![w] = IdleReq] /\ job' = job
      BY <1>5 DEF ApproveCommit
    <3>2. \A v \in Workers : v # w => req[v].slot # s
      BY <1>0, <2>1 DEF Exclusive
    <3>3. \A j \in Jobs : job[j].slot # s
      BY <1>0, <2>1 DEF Exclusive
    <3> QED
      BY <1>0, <2>4, <3>1, <3>2, <3>3 DEF TypeOK, ReadsStand, Request, RequestOK, JobState
  <2> QED
    BY <2>7, <2>8, <2>9
<1>6. ASSUME NEW w \in Workers, RejectCommit(w)
      PROVE  ReadsStand' /\ BookedAsApproved' /\ BookedAtMostOnce'
  <2> DEFINE s == req[w].slot
  <2>1. s \in Slots /\ s # NoSlot
    BY <1>0, <1>6 DEF TypeOK, RejectCommit, Request, RequestOK
  <2>2. drafts[s].status = "PENDING"
    BY <1>0, <2>1 DEF ReadsStand
  <2>3. \A e \in 1..Len(entries) : entries[e].slot # s
    BY <1>0, <2>2 DEF BookedAsApproved
  <2>4. entries' = entries /\ \A z \in Slots : z # s => drafts'[z] = drafts[z]
    BY <1>0, <1>6 DEF RejectCommit, TypeOK
  <2>5. BookedAsApproved' /\ BookedAtMostOnce'
    BY <1>0, <1>slots, <2>3, <2>4 DEF BookedAsApproved, BookedAtMostOnce
  <2>6. ReadsStand'
    <3>1. \A v \in Workers : v # w => req[v].slot # s
      BY <1>0, <2>1 DEF Exclusive
    <3>2. \A j \in Jobs : job[j].slot # s
      BY <1>0, <2>1 DEF Exclusive
    <3> QED
      BY <1>0, <1>6, <3>1, <3>2 DEF TypeOK, ReadsStand, RejectCommit, Request, RequestOK, JobState
  <2> QED
    BY <2>5, <2>6
<1>7. ASSUME NEW w \in Workers, DeleteCommit(w)
      PROVE  ReadsStand' /\ BookedAsApproved' /\ BookedAtMostOnce'
  <2>1. Len(entries') = Len(entries) /\ drafts' = drafts /\ job' = job
    BY <1>0, <1>7, DeleteCommitEffect DEF DeleteCommit
  <2>2. ASSUME NEW e \in 1..Len(entries)
        PROVE  entries'[e].slot = entries[e].slot /\ entries'[e].hours = entries[e].hours
    <3>1. entries'[e] = Line(entries[e].slot, entries[e].hours, entries[e].rate,
                             entries[e].amount, entries'[e].deleted)
      BY <1>0, <1>7, DeleteCommitEffect
    <3> QED
      BY <3>1
  <2>3. BookedAsApproved' /\ BookedAtMostOnce'
    BY <1>0, <2>1, <2>2 DEF BookedAsApproved, BookedAtMostOnce
  <2>4. ReadsStand'
    BY <1>0, <1>7, <2>1 DEF TypeOK, ReadsStand, DeleteCommit
  <2> QED
    BY <2>3, <2>4
<1>8. ASSUME NEW j \in Jobs, NEW s \in Slots, SyncWrite(j, s)
      PROVE  ReadsStand' /\ BookedAsApproved' /\ BookedAtMostOnce'
  <2>1. job[j].slot = s /\ s # NoSlot
    BY <1>8 DEF SyncWrite
  <2>2. drafts[s].status # "APPROVED"
    BY <1>0, <2>1 DEF ReadsStand
  <2>3. \A e \in 1..Len(entries) : entries[e].slot # s
    BY <1>0, <2>2 DEF BookedAsApproved
  <2>4. entries' = entries /\ \A z \in Slots : z # s => drafts'[z] = drafts[z]
    BY <1>0, <1>8 DEF SyncWrite, TypeOK
  <2>5. BookedAsApproved' /\ BookedAtMostOnce'
    BY <1>0, <1>slots, <2>3, <2>4 DEF BookedAsApproved, BookedAtMostOnce
  <2>6. ReadsStand'
    <3>1. \A w \in Workers : req[w].slot # s
      BY <1>0, <2>1 DEF Exclusive
    <3>2. \A i \in Jobs : i # j => job[i].slot # s
      BY <1>0, <2>1 DEF Exclusive
    <3> QED
      BY <1>0, <1>8, <3>1, <3>2 DEF TypeOK, ReadsStand, SyncWrite, Request, RequestOK, JobState
  <2> QED
    BY <2>5, <2>6
<1> QED
  BY <1>1, <1>4, <1>5, <1>6, <1>7, <1>8, OtherSteps

(* If reviews of one draft never overlap, a day's hours are booked at most *)
(* once: two expenses never come from the same slot.                       *)
THEOREM ExclusiveBooksOnce == ExclusiveSpec => []BookedAtMostOnce
<1>1. ExclusiveInv => BookedAtMostOnce
  BY DEF ExclusiveInv
<1> QED
  BY <1>1, InitExclusiveInv, StepExclusiveInv, PTL DEF ExclusiveSpec

(* If reviews of one draft never overlap, every expense belongs to an      *)
(* approved draft that points at it and shows the hours it carries.        *)
THEOREM ExclusiveBooksAsApproved == ExclusiveSpec => []BookedAsApproved
<1>1. ExclusiveInv => BookedAsApproved
  BY DEF ExclusiveInv
<1> QED
  BY <1>1, InitExclusiveInv, StepExclusiveInv, PTL DEF ExclusiveSpec

(* If reviews of one draft never overlap, what a review or the job has     *)
(* read outside its transaction still stands when the transaction starts.  *)
THEOREM ExclusiveReadsStand == ExclusiveSpec => []ReadsStand
<1>1. ExclusiveInv => ReadsStand
  BY DEF ExclusiveInv
<1> QED
  BY <1>1, InitExclusiveInv, StepExclusiveInv, PTL DEF ExclusiveSpec

(* If reviews of one draft never overlap, an approved draft is never       *)
(* touched again, neither by the job nor by another review.                *)
THEOREM ExclusiveApprovedIsFinal == ExclusiveSpec => ApprovedIsFinal
<1>1. ASSUME ExclusiveInv, [Next /\ Exclusive']_vars, NEW s \in Slots, drafts[s].status = "APPROVED"
      PROVE  drafts'[s] = drafts[s]
  <2> USE SlotAssumption
  <2>1. TypeOK /\ ReadsStand /\ [Next]_vars
    BY <1>1 DEF ExclusiveInv
  <2>2. ASSUME NEW w \in Workers, ApproveCommit(w)
        PROVE  drafts'[s] = drafts[s]
    <3>1. req[w].slot # s
      BY <1>1, <2>1, <2>2 DEF ReadsStand, ApproveCommit, TypeOK, RequestOK
    <3> QED
      BY <2>1, <2>2, <3>1, ApproveCommitEffect DEF TypeOK
  <2>3. ASSUME NEW w \in Workers, RejectCommit(w)
        PROVE  drafts'[s] = drafts[s]
    <3>1. req[w].slot # s
      BY <1>1, <2>1, <2>3 DEF ReadsStand, RejectCommit, TypeOK, RequestOK
    <3> QED
      BY <2>1, <2>3, <3>1 DEF TypeOK, RejectCommit
  <2>4. ASSUME NEW j \in Jobs, NEW z \in Slots, SyncWrite(j, z)
        PROVE  drafts'[s] = drafts[s]
    <3>1. z # s
      BY <1>1, <2>1, <2>4 DEF ReadsStand, SyncWrite
    <3> QED
      BY <2>1, <2>4, <3>1 DEF TypeOK, SyncWrite
  <2> QED
    BY <2>1, <2>2, <2>3, <2>4, OtherSteps DEF DeleteCommit
<1>2. ExclusiveInv /\ [Next /\ Exclusive']_vars =>
        [\A s \in Slots : drafts[s].status = "APPROVED" => drafts'[s] = drafts[s]]_vars
  BY <1>1
<1> QED
  BY <1>2, InitExclusiveInv, StepExclusiveInv, PTL DEF ExclusiveSpec, ApprovedIsFinal
-----------------------------------------------------------------------------
(* The review implements the promise of ReviewedHours: a commit that       *)
(* approves, rejects or deletes, and an upsert of the job, are each one    *)
(* step of it, and all the readings between them are none.                 *)

(* What the job has fetched for a slot is a total Bitrix24 can report.     *)
TotalsFetched == \A j \in Jobs : \A s \in job[j].left : job[j].totals[s] \in {hoursOf[t] : t \in Logged}

Proposal == [s \in Slots |-> [status |-> drafts[s].status, hours |-> drafts[s].hours]]

Booked ==
  {[id |-> e, slot |-> entries[e].slot, hours |-> entries[e].hours] :
     e \in {f \in 1..Len(entries) : ~entries[f].deleted}}

LEMMA StepTotalsFetched == TypeOK /\ TotalsFetched /\ [Next]_vars => TotalsFetched'
<1> SUFFICES ASSUME TypeOK, TotalsFetched, [Next]_vars PROVE TotalsFetched'
  OBVIOUS
<1>1. CASE UNCHANGED job
  BY <1>1 DEF TotalsFetched
<1>2. ASSUME NEW j \in Jobs, Sync(j)
      PROVE  TotalsFetched'
  <2>0. job[j] \in JobState /\ DOMAIN job = Jobs
    BY DEF TypeOK
  <2>1. ASSUME NEW p \in Projects, SyncFetch(j, p)
        PROVE  TotalsFetched'
    <3>1. job' = [job EXCEPT ![j] = Job("row", job[j].todo \ {p}, LoggedSlots(j, p), FetchedTotals(j, p), NoSlot)]
      BY <2>1 DEF SyncFetch, TypeOK
    <3>2. \A s \in LoggedSlots(j, p) : FetchedTotals(j, p)[s] \in {hoursOf[t] : t \in Logged}
      BY DEF LoggedSlots, FetchedTotals, TypeOK
    <3>3. job'[j].left = LoggedSlots(j, p) /\ job'[j].totals = FetchedTotals(j, p)
      BY <2>0, <3>1
    <3>4. \A i \in Jobs : i # j => job'[i] = job[i]
      BY <2>0, <3>1
    <3> QED
      BY <3>2, <3>3, <3>4 DEF TotalsFetched
  <2>2. ASSUME NEW s \in Slots, SyncSkip(j, s) \/ SyncWrite(j, s)
        PROVE  TotalsFetched'
    <3>1. job' = [job EXCEPT ![j] = RowDone(job[j], s)]
      BY <2>2 DEF SyncSkip, SyncWrite, TypeOK
    <3>2. job'[j].left = job[j].left \ {s} /\ job'[j].totals = [job[j].totals EXCEPT ![s] = 0]
      BY <2>0, <3>1
    <3>3. job[j].totals \in [Slots -> Nat] /\ job[j].left \in SUBSET Slots
      BY <2>0 DEF JobState
    <3>4. \A z \in job'[j].left : z \in job[j].left /\ job'[j].totals[z] = job[j].totals[z]
      BY <3>2, <3>3
    <3>5. \A i \in Jobs : i # j => job'[i] = job[i]
      BY <2>0, <3>1
    <3> QED
      BY <3>4, <3>5 DEF TotalsFetched
  <2>3. ASSUME NEW s \in Slots, SyncReadDraft(j, s)
        PROVE  TotalsFetched'
    BY <2>0, <2>3 DEF SyncReadDraft, TotalsFetched
  <2>4. CASE SyncStart(j) \/ SyncEnd(j) \/ SyncProjectDone(j) \/ SyncProjectFails(j)
    <3>1. job'[j].left = {} /\ \A i \in Jobs : i # j => job'[i] = job[i]
      BY <2>0, <2>4 DEF SyncStart, SyncEnd, SyncProjectDone, SyncProjectFails
    <3> QED
      BY <3>1 DEF TotalsFetched
  <2> QED
    BY <1>2, <2>1, <2>2, <2>3, <2>4 DEF Sync
<1>3. ASSUME NEW w \in Workers, Worker(w)
      PROVE  UNCHANGED job
  BY <1>3 DEF Worker, ApproveReadDraft, RejectReadDraft, ApproveReadRate, ApproveRefused, ApproveCommit,
              RejectCommit, DeleteReadEntry, DeleteCommit
<1> QED
  BY <1>1, <1>2, <1>3 DEF Next, Surroundings, LogTime, LeavesWindow, SetRate, vars

(* What is proposed changes with the draft row of one slot.                *)
Shown == [status : Statuses, hours : Nat]

LEMMA ProposalChanges ==
  ASSUME TypeOK, NEW s \in Slots, NEW d,
         \A z \in Slots : drafts'[z] = IF z = s THEN d ELSE drafts[z]
  PROVE  /\ Proposal \in [Slots -> Shown]
         /\ Proposal' = [Proposal EXCEPT ![s] = [status |-> d.status, hours |-> d.hours]]
         /\ Proposal[s].status = drafts[s].status /\ Proposal[s].hours = drafts[s].hours
<1>1. \A z \in Slots : drafts[z] \in Draft
  BY DEF TypeOK
<1>2. Proposal \in [Slots -> Shown]
  BY <1>1 DEF Proposal, Draft, Shown
<1>3. Proposal' = [z \in Slots |-> [status |-> drafts'[z].status, hours |-> drafts'[z].hours]]
  BY DEF Proposal
<1>4. \A z \in Slots : Proposal'[z] = IF z = s THEN [status |-> d.status, hours |-> d.hours] ELSE Proposal[z]
  BY <1>3 DEF Proposal
<1> QED
  BY <1>2, <1>3, <1>4 DEF Proposal

(* An approval that commits is the promise's approval of what is shown.    *)
LEMMA ApproveRefines ==
  ASSUME TypeOK, ReadsStand, NEW w \in Workers, ApproveCommit(w)
  PROVE  \E s \in Slots, i \in 1..MaxEntries :
           /\ Proposal[s].status = "PENDING"
           /\ \A l \in Booked : l.id # i
           /\ Proposal' = [Proposal EXCEPT ![s] = [status |-> "APPROVED", hours |-> Proposal[s].hours]]
           /\ Booked' = Booked \cup {[id |-> i, slot |-> s, hours |-> Proposal[s].hours]}
<1> DEFINE s == req[w].slot
           n == Len(entries) + 1
<1>1. s \in Slots /\ s # NoSlot /\ n \in 1..MaxEntries /\ Len(entries) \in Nat /\ n = Len(entries) + 1
  <2>1. s \in Slots /\ s # NoSlot
    BY SlotAssumption, ApproveCommitEffect
  <2>2. Len(entries) \in Nat /\ Len(entries) < MaxEntries
    BY DEF TypeOK, ApproveCommit
  <2> QED
    BY <2>1, <2>2, BoundAssumption
<1>2. drafts[s].status = "PENDING" /\ drafts[s].hours = req[w].hours /\ drafts[s] \in Draft
  BY <1>1 DEF ReadsStand, ApproveCommit, TypeOK
<1>3. /\ Len(entries') = n /\ entries'[n].slot = s /\ entries'[n].hours = req[w].hours
      /\ \A e \in 1..Len(entries) : entries'[e] = entries[e]
      /\ drafts' = [drafts EXCEPT ![s] = Row("APPROVED", drafts[s].hours, n)]
  BY ApproveCommitEffect
<1>4. ~entries'[n].deleted
  <2>1. entries' = Append(entries, NewEntry(req[w])) /\ entries \in Seq(Entry)
    BY DEF ApproveCommit, TypeOK
  <2>2. entries'[n] = NewEntry(req[w])
    BY <2>1
  <2> QED
    BY <2>2 DEF NewEntry
<1> HIDE DEF s, n
<1>5. Proposal' = [Proposal EXCEPT ![s] = [status |-> "APPROVED", hours |-> Proposal[s].hours]]
  <2>1. \A z \in Slots : drafts'[z] = IF z = s THEN Row("APPROVED", drafts[s].hours, n) ELSE drafts[z]
    BY <1>1, <1>3 DEF TypeOK
  <2> DEFINE d == Row("APPROVED", drafts[s].hours, n)
  <2>2. d.status = "APPROVED" /\ d.hours = drafts[s].hours /\ "APPROVED" \in Statuses
    BY DEF Statuses
  <2> HIDE DEF d
  <2>3. /\ Proposal \in [Slots -> Shown] /\ Proposal[s].hours = drafts[s].hours
        /\ Proposal' = [Proposal EXCEPT ![s] = [status |-> d.status, hours |-> d.hours]]
    BY <1>1, <2>1, ProposalChanges DEF d
  <2> QED
    BY <2>2, <2>3
<1>6. Booked' = Booked \cup {[id |-> n, slot |-> s, hours |-> drafts[s].hours]}
  <2>1. {f \in 1..Len(entries') : ~entries'[f].deleted} = {f \in 1..Len(entries) : ~entries[f].deleted} \cup {n}
    BY <1>1, <1>3, <1>4
  <2> DEFINE F == {f \in 1..Len(entries) : ~entries[f].deleted}
  <2>2. \A e \in F : entries'[e] = entries[e]
    BY <1>3
  <2>3. Booked' = {[id |-> e, slot |-> entries'[e].slot, hours |-> entries'[e].hours] : e \in F \cup {n}}
    BY <2>1 DEF Booked
  <2>4. Booked = {[id |-> e, slot |-> entries[e].slot, hours |-> entries[e].hours] : e \in F}
    BY DEF Booked
  <2> HIDE DEF F
  <2> QED
    BY <1>2, <1>3, <2>2, <2>3, <2>4
<1>7. \A l \in Booked : l.id # n
  BY <1>1 DEF Booked
<1>8. Proposal[s].status = "PENDING" /\ Proposal[s].hours = drafts[s].hours
  BY <1>1, <1>2 DEF Proposal
<1> QED
  BY <1>1, <1>5, <1>6, <1>7, <1>8

(* A deletion removes the line, or finds it removed already.               *)
LEMMA DeleteRefines ==
  ASSUME TypeOK, NEW w \in Workers, DeleteCommit(w)
  PROVE  Booked' = Booked \/ \E l \in Booked : Booked' = Booked \ {l}
<1> DEFINE i == req[w].entry
           line(e) == [id |-> e, slot |-> entries[e].slot, hours |-> entries[e].hours]
           Live == {f \in 1..Len(entries) : ~entries[f].deleted}
<1>1. i \in 1..Len(entries) /\ Len(entries) \in Nat
  BY DEF TypeOK, DeleteCommit, RequestOK
<1>2. \A e \in 1..Len(entries) :
        entries'[e] = IF e = i THEN Line(entries[i].slot, entries[i].hours, entries[i].rate, entries[i].amount, TRUE)
                      ELSE entries[e]
  BY <1>1 DEF DeleteCommit, TypeOK
<1>3. Len(entries') = Len(entries)
  BY DeleteCommitEffect
<1>4. \A e \in 1..Len(entries) : entries'[e].slot = entries[e].slot /\ entries'[e].hours = entries[e].hours
  BY <1>2
<1>5. {f \in 1..Len(entries') : ~entries'[f].deleted} = Live \ {i}
  BY <1>1, <1>2, <1>3
<1>6. Booked' = {[id |-> e, slot |-> entries'[e].slot, hours |-> entries'[e].hours] : e \in Live \ {i}}
  BY <1>5 DEF Booked
<1>7. Booked' = {line(e) : e \in Live \ {i}} /\ Booked = {line(e) : e \in Live}
  BY <1>4, <1>6 DEF Booked
<1>8. \A e, f \in Live : line(e) = line(f) => e = f
  <2> SUFFICES ASSUME NEW e \in Live, NEW f \in Live, line(e) = line(f) PROVE e = f
    OBVIOUS
  <2>1. line(e).id = e /\ line(f).id = f
    OBVIOUS
  <2> QED
    BY <2>1
<1> HIDE DEF line, Live
<1>9. CASE i \in Live
  <2>1. Booked' = Booked \ {line(i)} /\ line(i) \in Booked
    BY <1>7, <1>8, <1>9
  <2> QED
    BY <2>1
<1>10. CASE i \notin Live
  <2>1. Live \ {i} = Live
    BY <1>10
  <2> QED
    BY <1>7, <2>1
<1> QED
  BY <1>9, <1>10

LEMMA StepRefines ==
  ASSUME ExclusiveInv, TotalsFetched, [Next]_vars
  PROVE  [Promise!Next]_(Promise!vars)
<1> USE DEF Promise!vars
<1>0. TypeOK /\ ReadsStand
  BY DEF ExclusiveInv
<1>1. CASE UNCHANGED <<drafts, entries>>
  BY <1>1
<1>2. ASSUME NEW w \in Workers, ApproveCommit(w)
      PROVE  \E s \in Slots, i \in 1..MaxEntries : Promise!Approve(s, i)
  BY <1>0, <1>2, ApproveRefines DEF Promise!Approve, Proposal, Booked
<1>3. ASSUME NEW w \in Workers, RejectCommit(w)
      PROVE  \E s \in Slots : Promise!Reject(s)
  <2> DEFINE s == req[w].slot
  <2>1. s \in Slots /\ drafts[s].status = "PENDING" /\ drafts[s] \in Draft
    BY <1>0, <1>3, SlotAssumption DEF TypeOK, RejectCommit, Request, RequestOK, ReadsStand
  <2>2. \A z \in Slots : drafts'[z] = IF z = s THEN Row("REJECTED", drafts[s].hours, drafts[s].entry) ELSE drafts[z]
    BY <1>0, <1>3, <2>1 DEF RejectCommit, TypeOK
  <2>3. entries' = entries
    BY <1>3 DEF RejectCommit
  <2> HIDE DEF s
  <2> DEFINE d == Row("REJECTED", drafts[s].hours, drafts[s].entry)
  <2>4. d.status = "REJECTED" /\ d.hours = drafts[s].hours /\ "REJECTED" \in Statuses
    BY DEF Statuses
  <2> HIDE DEF d
  <2>5. /\ Proposal \in [Slots -> Shown] /\ Proposal[s].hours = drafts[s].hours
        /\ Proposal[s].status = "PENDING"
        /\ Proposal' = [Proposal EXCEPT ![s] = [status |-> d.status, hours |-> d.hours]]
    BY <1>0, <2>1, <2>2, ProposalChanges DEF d
  <2>6. Proposal' = [Proposal EXCEPT ![s] = [status |-> "REJECTED", hours |-> Proposal[s].hours]]
    BY <2>4, <2>5
  <2>7. Booked' = Booked
    BY <2>3 DEF Booked
  <2> QED
    BY <2>1, <2>5, <2>6, <2>7 DEF Promise!Reject, Proposal, Booked
<1>4. ASSUME NEW w \in Workers, DeleteCommit(w)
      PROVE  [Promise!Next]_(Promise!vars)
  <2>1. drafts' = drafts
    BY <1>4 DEF DeleteCommit
  <2>2. CASE Booked' = Booked
    BY <2>1, <2>2 DEF Booked
  <2>3. ASSUME NEW l \in Booked, Booked' = Booked \ {l}
        PROVE  Promise!Next
    BY <2>1, <2>3 DEF Booked, Promise!Next, Promise!Remove
  <2> QED
    BY <1>0, <1>4, <2>2, <2>3, DeleteRefines
<1>5. ASSUME NEW j \in Jobs, NEW s \in Slots, SyncWrite(j, s)
      PROVE  \E h \in {hoursOf[t] : t \in Logged} : Promise!Propose(s, h)
  <2> DEFINE h == job[j].totals[s]
  <2>1. job[j].slot = s /\ s # NoSlot /\ s \in job[j].left
    BY <1>0, <1>5, SlotAssumption DEF SyncWrite, TypeOK, JobOK
  <2>2. h \in {hoursOf[t] : t \in Logged}
    BY <2>1 DEF TotalsFetched
  <2>3. drafts[s].status # "APPROVED"
    BY <1>0, <2>1 DEF ReadsStand
  <2>4. \A z \in Slots : drafts'[z] = IF z = s THEN Row("PENDING", h, drafts[s].entry) ELSE drafts[z]
    BY <1>0, <1>5 DEF SyncWrite, TypeOK, Proposed
  <2>5. entries' = entries
    BY <1>5 DEF SyncWrite
  <2> HIDE DEF h
  <2>6. /\ Proposal' = [Proposal EXCEPT ![s] = [status |-> "PENDING", hours |-> h]]
        /\ Proposal[s].status # "APPROVED"
    <3> DEFINE d == Row("PENDING", h, drafts[s].entry)
    <3>1. d.status = "PENDING" /\ d.hours = h
      OBVIOUS
    <3> HIDE DEF d
    <3>2. /\ Proposal[s].status = drafts[s].status
          /\ Proposal' = [Proposal EXCEPT ![s] = [status |-> d.status, hours |-> d.hours]]
      BY <1>0, <2>4, ProposalChanges DEF d
    <3> QED
      BY <2>3, <3>1, <3>2
  <2> QED
    BY <2>2, <2>5, <2>6 DEF Promise!Propose, Proposal
<1> QED
  BY <1>1, <1>2, <1>3, <1>4, <1>5, OtherSteps DEF Promise!Next

(* If reviews of one draft never overlap, the review is the one a manager  *)
(* was promised: every step of the requests and of the job is one step of  *)
(* ReviewedHours on what drafts and expenses show, or none.                *)
THEOREM ExclusiveKeepsPromise == ExclusiveSpec => KeepsPromise
<1>1. Init => TotalsFetched
  BY DEF Init, TotalsFetched
<1>2. Init => Promise!Init
  BY DEF Init, NoDraft, Promise!Init
<1>3. ExclusiveInv /\ TotalsFetched /\ [Next /\ Exclusive']_vars => TotalsFetched' /\ [Promise!Next]_(Promise!vars)
  BY StepTotalsFetched, StepRefines DEF ExclusiveInv
<1> QED
  BY <1>1, <1>2, <1>3, InitExclusiveInv, StepExclusiveInv, PTL DEF ExclusiveSpec, KeepsPromise, Promise!Spec

=============================================================================
