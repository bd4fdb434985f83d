------------------------- MODULE IncomeReviewProofs -------------------------
(***************************************************************************)
(* Proofs about IncomeReview, for every number of projects, of requests    *)
(* and of runs of the job.                                                 *)
(***************************************************************************)
EXTENDS IncomeReview, SequenceTheorems, TLAPS

USE DEF NoEntry, Row, NoDraft, ReviewReq, EditReq, IdleReq, Job, IdleJob, BetweenProjects, Line

(* Two approvals of different projects never aim at one entry.             *)
AimsApart ==
  \A v, w \in Workers :
    /\ req[v].at = "approve" /\ req[w].at = "approve"
    /\ req[v].project # req[w].project /\ req[v].entry # NoEntry
    => req[v].entry # req[w].entry

(* A draft under review has been written once.                             *)
ReviewedExists ==
  \A w \in Workers :
    req[w].at \in {"approve", "reject"} => drafts[req[w].project].status # "NONE"

(* Hours times rate of an entry were entered by a manager.                 *)
ProductsEntered ==
  /\ \A e \in 1..Len(entries) : entries[e].product \in EditAmounts \cup {NoAmount}
  /\ \A w \in Workers : req[w].product \in EditAmounts \cup {NoAmount}

(* An approval's amount and link are still those of the draft.             *)
ApprovalStands(w) ==
  LET r == req[w] IN
  r.at = "approve" => /\ drafts[r.project].entry = r.entry
                      /\ drafts[r.project].amount = r.amount

(* The amount an edit is about to write is still the entry's own, or one a *)
(* manager entered; one that touches no money still has both as they are.  *)
EditStands(w) ==
  LET r == req[w] e == entries[r.entry] IN
  r.at = "edit" =>
    /\ r.amount \in {e.amount} \cup EditAmounts
    /\ r.kind = "text" => r.amount = e.amount /\ r.product = e.product

(* Until processes have overlapped, what each request has read stands.     *)
ReadsStandApart ==
  ~overlapped => Exclusive /\ \A w \in Workers : ApprovalStands(w) /\ EditStands(w)

IncomeInv ==
  /\ TypeOK /\ LinkSound /\ AimsApart /\ ReviewedExists /\ ProductsEntered
  /\ ReadsStandApart /\ OneIncomePerProject /\ BooksShowDecision

-----------------------------------------------------------------------------
(* Steps of requests that leave drafts and entries alone.                  *)
Reads(w) ==
  \/ \E p \in Projects : ApproveRead(w, p) \/ RejectRead(w, p)
  \/ ApproveRefused(w)
  \/ \E e \in 1..Len(entries), kind \in Edits, a \in EditAmounts, p \in Projects \cup {NoProject} :
       EditRead(w, e, kind, a, p)
  \/ \E e \in 1..Len(entries) : DeleteRead(w, e)

(* Their transactions.                                                     *)
Writes(w) ==
  ApproveCreate(w) \/ ApproveCorrect(w) \/ RejectCommit(w) \/ EditCommit(w) \/ DeleteCommit(w)

LEMMA NextCases ==
  ASSUME Next
  PROVE  /\ overlapped' = (overlapped \/ ~Exclusive')
         /\ \/ \E p \in Projects, a \in DealAmounts \cup {NoAmount} : DealChanges(p, a)
            \/ \E w \in Workers : Reads(w) \/ Writes(w)
            \/ \E j \in Jobs : Sync(j)
BY DEF Next, Recorded, Worker, Reads, Writes

LEMMA InitTypeOK == Init => TypeOK
<1> SUFFICES ASSUME Init PROVE TypeOK
  OBVIOUS
<1> USE ProjectAssumption, DealAssumption, AmountAssumption DEF Init
<1>1. deal \in [Projects -> DealAmounts \cup {NoAmount}] /\ drafts \in [Projects -> Draft]
  BY DEF Draft, Statuses
<1>2. entries \in Seq(EntryOf(Projects))
  OBVIOUS
<1>3. req \in [Workers -> Request] /\ \A w \in Workers : RequestOK(req[w])
  BY DEF Request, ReqSteps, EditKinds, RequestOK
<1>4. /\ job \in [Jobs -> JobState]
      /\ \A j \in Jobs : job[j].at \in {"read", "write"} <=> job[j].project # NoProject
  BY DEF JobState, JobSteps
<1> QED
  BY <1>1, <1>2, <1>3, <1>4 DEF TypeOK

(* The amount and the product a PATCH writes.                              *)
LEMMA ResolvedType ==
  ASSUME NEW e \in EntryOf(Projects), NEW kind \in Edits, NEW a \in EditAmounts
  PROVE  /\ ResolvedAmount(kind, a, e) \in Nat
         /\ ResolvedProduct(kind, a, e) \in Nat \cup {NoAmount}
         /\ ResolvedAmount(kind, a, e) \in {e.amount, e.product} \cup EditAmounts
         /\ ResolvedAmount(kind, a, e) = e.product => e.product # NoAmount
         /\ ResolvedProduct(kind, a, e) \in {e.product, NoAmount} \cup EditAmounts
         /\ kind = "text" => /\ ResolvedAmount(kind, a, e) = e.amount
                             /\ ResolvedProduct(kind, a, e) = e.product
<1> USE EditAssumption, AmountAssumption DEF EntryOf
<1>1. kind \in {"text", "amount", "sum", "hours", "move"}
  BY DEF EditKinds
<1>2. ResolvedAmount(kind, a, e) =
        IF kind \in {"amount", "hours"} THEN a
        ELSE IF kind = "sum" THEN (IF e.product = NoAmount THEN a ELSE e.product) ELSE e.amount
  BY <1>1 DEF ResolvedAmount
<1>3. ResolvedProduct(kind, a, e) =
        IF kind = "amount" THEN NoAmount ELSE IF kind = "hours" THEN a ELSE e.product
  BY <1>1 DEF ResolvedProduct
<1> QED
  BY <1>1, <1>2, <1>3

LEMMA ReadsTypeOK ==
  ASSUME TypeOK, LinkSound, NEW w \in Workers, Reads(w)
  PROVE  /\ UNCHANGED <<deal, drafts, entries, job>>
         /\ req' = [req EXCEPT ![w] = req'[w]]
         /\ req'[w] \in Request /\ RequestOK(req'[w])
<1> USE ProjectAssumption, AmountAssumption DEF TypeOK
<1>1. /\ UNCHANGED <<deal, drafts, entries, job>>
      /\ \E r : req' = [req EXCEPT ![w] = r]
  BY DEF Reads, ApproveRead, RejectRead, ApproveRefused, EditRead, DeleteRead
<1>2. ASSUME NEW p \in Projects, ApproveRead(w, p)
      PROVE  req'[w] \in Request /\ RequestOK(req'[w])
  BY <1>2 DEF ApproveRead, Request, ReqSteps, EditKinds, RequestOK, Draft, LinkSound
<1>3. ASSUME NEW p \in Projects, RejectRead(w, p)
      PROVE  req'[w] \in Request /\ RequestOK(req'[w])
  BY <1>3 DEF RejectRead, Request, ReqSteps, EditKinds, RequestOK
<1>4. CASE ApproveRefused(w)
  BY <1>4 DEF ApproveRefused, Request, ReqSteps, EditKinds, RequestOK
<1>5. ASSUME NEW e \in 1..Len(entries), NEW kind \in Edits, NEW a \in EditAmounts,
             NEW p \in Projects \cup {NoProject}, EditRead(w, e, kind, a, p)
      PROVE  req'[w] \in Request /\ RequestOK(req'[w])
  <2>1. entries[e] \in EntryOf(Projects) /\ kind \in EditKinds /\ (kind = "move" <=> p # NoProject)
    BY <1>5, EditAssumption DEF EditRead
  <2>2. /\ ResolvedAmount(kind, a, entries[e]) \in Nat
        /\ ResolvedProduct(kind, a, entries[e]) \in Nat \cup {NoAmount}
    BY <2>1, ResolvedType
  <2> QED
    BY <1>5, <2>1, <2>2 DEF EditRead, Request, ReqSteps, RequestOK
<1>6. ASSUME NEW e \in 1..Len(entries), DeleteRead(w, e)
      PROVE  req'[w] \in Request /\ RequestOK(req'[w])
  BY <1>6 DEF DeleteRead, Request, ReqSteps, EditKinds, RequestOK
<1> QED
  BY <1>1, <1>2, <1>3, <1>4, <1>5, <1>6 DEF Reads

LEMMA WritesRequest ==
  ASSUME TypeOK, NEW w \in Workers, Writes(w)
  PROVE  UNCHANGED <<deal, job>> /\ req' = [req EXCEPT ![w] = IdleReq]
BY DEF Writes, ApproveCreate, ApproveCorrect, RejectCommit, EditCommit, DeleteCommit

(* A first approval appends the entry it links.                            *)
LEMMA CreateEffect ==
  ASSUME TypeOK, NEW w \in Workers, ApproveCreate(w)
  PROVE  LET p == req[w].project  n == Len(entries) + 1 IN
         /\ p \in Projects /\ req[w].amount \in Nat /\ req[w].entry = NoEntry
         /\ entries' \in Seq(EntryOf(Projects)) /\ Len(entries') = n
         /\ \A e \in 1..Len(entries) : entries'[e] = entries[e]
         /\ entries'[n] = NewIncome(p, req[w].amount)
         /\ drafts' = [drafts EXCEPT ![p] = Row("APPROVED", drafts[p].amount, n)]
         /\ drafts' \in [Projects -> Draft]
<1> USE ProjectAssumption DEF TypeOK
<1>1. req[w].project \in Projects /\ req[w].amount \in Nat /\ req[w].entry = NoEntry
  BY DEF ApproveCreate, Request, RequestOK
<1>2. NewIncome(req[w].project, req[w].amount) \in EntryOf(Projects)
  BY <1>1 DEF NewIncome, EntryOf
<1>3. entries' = Append(entries, NewIncome(req[w].project, req[w].amount))
  BY DEF ApproveCreate
<1>4. drafts' = [drafts EXCEPT ![req[w].project] =
                   Row("APPROVED", drafts[req[w].project].amount, Len(entries) + 1)]
  BY DEF ApproveCreate, Link
<1>5. drafts' \in [Projects -> Draft]
  BY <1>1, <1>4 DEF Draft, Statuses
<1> HIDE DEF NewIncome
<1> QED
  BY <1>1, <1>2, <1>3, <1>4, <1>5, AppendProperties

(* The other transactions on entries rewrite one row.                      *)
LEMMA RewriteEffect ==
  ASSUME TypeOK, NEW w \in Workers, ApproveCorrect(w) \/ EditCommit(w) \/ DeleteCommit(w)
  PROVE  LET n == req[w].entry IN
         /\ n \in 1..Len(entries)
         /\ entries' \in Seq(EntryOf(Projects)) /\ Len(entries') = Len(entries)
         /\ \A e \in 1..Len(entries) : e # n => entries'[e] = entries[e]
         /\ ApproveCorrect(w) => entries'[n] = Corrected(entries[n], req[w].amount)
         /\ EditCommit(w) =>
              entries'[n] = Edited(entries[n], req[w].kind, req[w].to, req[w].amount, req[w].product)
         /\ DeleteCommit(w) => entries'[n] = Deleted(entries[n])
<1> DEFINE n == req[w].entry
<1> USE ProjectAssumption DEF TypeOK
<1>1. n \in 1..Len(entries)
  BY DEF ApproveCorrect, EditCommit, DeleteCommit, RequestOK
<1>2. entries[n] \in EntryOf(Projects) /\ req[w] \in Request /\ RequestOK(req[w])
  BY <1>1
<1>3. CASE ApproveCorrect(w)
  <2>1. Corrected(entries[n], req[w].amount) \in EntryOf(Projects)
    BY <1>2 DEF Corrected, EntryOf, Request
  <2>2. entries' = [entries EXCEPT ![n] = Corrected(entries[n], req[w].amount)]
    BY <1>3 DEF ApproveCorrect
  <2>3. ~EditCommit(w) /\ ~DeleteCommit(w)
    BY <1>3 DEF ApproveCorrect, EditCommit, DeleteCommit
  <2> QED
    BY <1>1, <2>1, <2>2, <2>3, ExceptSeq
<1>4. CASE EditCommit(w)
  <2> DEFINE x == Edited(entries[n], req[w].kind, req[w].to, req[w].amount, req[w].product)
  <2>1. x \in EntryOf(Projects)
    BY <1>2, <1>4 DEF EditCommit, Edited, EntryOf, Request, RequestOK
  <2>2. entries' = [entries EXCEPT ![n] = x]
    BY <1>4 DEF EditCommit
  <2>3. ~ApproveCorrect(w) /\ ~DeleteCommit(w)
    BY <1>4 DEF ApproveCorrect, EditCommit, DeleteCommit
  <2> HIDE DEF x
  <2>4. /\ entries' \in Seq(EntryOf(Projects)) /\ Len(entries') = Len(entries)
        /\ \A e \in 1..Len(entries) : e # n => entries'[e] = entries[e]
        /\ entries'[n] = x
    BY <1>1, <2>1, <2>2, ExceptSeq
  <2> QED
    BY <1>1, <2>3, <2>4 DEF x
<1>5. CASE DeleteCommit(w)
  <2>1. Deleted(entries[n]) \in EntryOf(Projects)
    BY <1>2 DEF Deleted, EntryOf
  <2>2. entries' = [entries EXCEPT ![n] = Deleted(entries[n])]
    BY <1>5 DEF DeleteCommit
  <2>3. ~ApproveCorrect(w) /\ ~EditCommit(w)
    BY <1>5 DEF ApproveCorrect, EditCommit, DeleteCommit
  <2> QED
    BY <1>1, <2>1, <2>2, <2>3, ExceptSeq
<1> QED
  BY <1>3, <1>4, <1>5

(* A correction links the entry it has read; only approvals, rejections    *)
(* and the job write drafts.                                               *)
LEMMA DraftEffect ==
  ASSUME TypeOK, NEW w \in Workers, Writes(w)
  PROVE  LET p == req[w].project  n == req[w].entry IN
         /\ ApproveCorrect(w) =>
              /\ p \in Projects /\ n # NoEntry
              /\ drafts' = [drafts EXCEPT ![p] = Row("APPROVED", drafts[p].amount, n)]
         /\ RejectCommit(w) =>
              /\ p \in Projects /\ UNCHANGED entries
              /\ drafts' = [drafts EXCEPT ![p] = Row("REJECTED", drafts[p].amount, drafts[p].entry)]
         /\ EditCommit(w) \/ DeleteCommit(w) => drafts' = drafts
         /\ drafts' \in [Projects -> Draft]
<1> USE ProjectAssumption DEF TypeOK
<1>1. CASE ApproveCreate(w)
  <2>1. ~ApproveCorrect(w) /\ ~RejectCommit(w) /\ ~EditCommit(w) /\ ~DeleteCommit(w)
    BY <1>1 DEF ApproveCreate, ApproveCorrect, RejectCommit, EditCommit, DeleteCommit
  <2> QED
    BY <1>1, <2>1, CreateEffect
<1>2. CASE ApproveCorrect(w)
  <2>1. /\ req[w].project \in Projects /\ req[w].entry \in Nat /\ req[w].entry # NoEntry
        /\ drafts' = [drafts EXCEPT ![req[w].project] =
                        Row("APPROVED", drafts[req[w].project].amount, req[w].entry)]
    BY <1>2 DEF ApproveCorrect, Link, Request, RequestOK
  <2>2. ~RejectCommit(w) /\ ~EditCommit(w) /\ ~DeleteCommit(w)
    BY <1>2 DEF ApproveCorrect, RejectCommit, EditCommit, DeleteCommit
  <2>3. drafts' \in [Projects -> Draft]
    BY <2>1 DEF Draft, Statuses
  <2> QED
    BY <2>1, <2>2, <2>3
<1>3. CASE RejectCommit(w)
  <2>1. /\ req[w].project \in Projects /\ UNCHANGED entries
        /\ drafts' = [drafts EXCEPT ![req[w].project] =
              Row("REJECTED", drafts[req[w].project].amount, drafts[req[w].project].entry)]
    BY <1>3 DEF RejectCommit, Request, RequestOK
  <2>2. ~ApproveCorrect(w) /\ ~EditCommit(w) /\ ~DeleteCommit(w)
    BY <1>3 DEF ApproveCorrect, RejectCommit, EditCommit, DeleteCommit
  <2>3. drafts' \in [Projects -> Draft]
    BY <2>1 DEF Draft, Statuses
  <2> QED
    BY <2>1, <2>2, <2>3
<1>4. CASE EditCommit(w) \/ DeleteCommit(w)
  BY <1>4 DEF ApproveCorrect, RejectCommit, EditCommit, DeleteCommit
<1> QED
  BY <1>1, <1>2, <1>3, <1>4 DEF Writes

(* A run of the job writes a draft in one step only, and no entry ever.    *)
LEMMA SyncEffect ==
  ASSUME TypeOK, NEW j \in Jobs, Sync(j)
  PROVE  LET p == job[j].project IN
         /\ UNCHANGED <<deal, entries, req>>
         /\ \/ drafts' = drafts
            \/ /\ SyncWrite(j) /\ p \in Projects
               /\ drafts' = [drafts EXCEPT ![p] = Row("PENDING", job[j].amount, drafts[p].entry)]
         /\ drafts' \in [Projects -> Draft]
         /\ \A i \in Jobs : i # j => job'[i] = job[i]
         /\ job' \in [Jobs -> JobState]
         /\ \A i \in Jobs : job'[i].at \in {"read", "write"} <=> job'[i].project # NoProject
<1> USE ProjectAssumption DEF TypeOK
<1>1. UNCHANGED <<deal, entries, req>> /\ \A i \in Jobs : i # j => job'[i] = job[i]
  BY DEF Sync, SyncStart, SyncGetDeal, SyncSkipProject, SyncUnchanged, SyncReadDraft, SyncWrite, SyncEnd
<1>2. /\ job' \in [Jobs -> JobState]
      /\ \A i \in Jobs : job'[i].at \in {"read", "write"} <=> job'[i].project # NoProject
  <2> DEFINE Fine == /\ job' \in [Jobs -> JobState]
                     /\ \A i \in Jobs : job'[i].at \in {"read", "write"} <=> job'[i].project # NoProject
  <2>0. ASSUME NEW x \in {IdleJob} \cup {BetweenProjects(T) : T \in SUBSET Projects},
               job' = [job EXCEPT ![j] = x]
        PROVE  Fine
    <3>1. x \in JobState /\ x.at \in {"idle", "project"} /\ x.project = NoProject
      BY DEF JobState, JobSteps
    <3> QED
      BY <2>0, <3>1
  <2>1. CASE SyncStart(j) \/ SyncUnchanged(j) \/ SyncWrite(j) \/ SyncEnd(j) \/ SyncSkipProject(j)
    <3>1. job[j].todo \in SUBSET Projects
      BY DEF JobState
    <3>2. \E x \in {IdleJob} \cup {BetweenProjects(T) : T \in SUBSET Projects} :
            job' = [job EXCEPT ![j] = x]
      <4>1. CASE SyncStart(j)
        BY <4>1 DEF SyncStart
      <4>2. CASE SyncEnd(j)
        BY <4>2 DEF SyncEnd
      <4>3. ASSUME NEW T \in SUBSET Projects, job' = [job EXCEPT ![j] = BetweenProjects(T)]
            PROVE  \E x \in {IdleJob} \cup {BetweenProjects(U) : U \in SUBSET Projects} :
                     job' = [job EXCEPT ![j] = x]
        BY <4>3
      <4>4. CASE SyncUnchanged(j) \/ SyncWrite(j)
        BY <3>1, <4>3, <4>4 DEF SyncUnchanged, SyncWrite
      <4>5. CASE SyncSkipProject(j)
        <5>1. \E T \in SUBSET Projects : job' = [job EXCEPT ![j] = BetweenProjects(T)]
          BY <3>1, <4>5 DEF SyncSkipProject
        <5> QED
          BY <4>3, <5>1
      <4> QED
        BY <2>1, <4>1, <4>2, <4>4, <4>5
    <3> QED
      BY <2>0, <3>2
  <2>3. CASE SyncReadDraft(j)
    BY <2>3 DEF SyncReadDraft, JobState, JobSteps
  <2>4. ASSUME NEW p \in Projects, SyncGetDeal(j, p)
        PROVE  Fine
    <3>1. deal[p] \in Nat
      BY <2>4, DealAssumption DEF SyncGetDeal
    <3> QED
      BY <2>4, <3>1 DEF SyncGetDeal, JobState, JobSteps
  <2> QED
    BY <2>1, <2>3, <2>4 DEF Sync
<1>3. CASE SyncWrite(j)
  <2>1. job[j].project \in Projects /\ job[j].amount \in Nat
    BY <1>3 DEF SyncWrite, JobState
  <2>2. drafts' = [drafts EXCEPT ![job[j].project] =
                     Row("PENDING", job[j].amount, drafts[job[j].project].entry)]
    BY <1>3 DEF SyncWrite
  <2>3. drafts' \in [Projects -> Draft]
    BY <2>1, <2>2 DEF Draft, Statuses
  <2> QED
    BY <1>1, <1>2, <1>3, <2>1, <2>2, <2>3
<1>4. CASE drafts' = drafts
  BY <1>1, <1>2, <1>4
<1> QED
  BY <1>3, <1>4 DEF Sync, SyncStart, SyncGetDeal, SyncSkipProject, SyncUnchanged, SyncReadDraft, SyncEnd

LEMMA StepTypeOK == TypeOK /\ LinkSound /\ [Next]_vars => TypeOK'
<1> SUFFICES ASSUME TypeOK, LinkSound, [Next]_vars PROVE TypeOK'
  OBVIOUS
<1>1. CASE UNCHANGED vars
  BY <1>1 DEF vars, TypeOK, RequestOK
<1>2. CASE Next
  <2>1. overlapped' \in BOOLEAN
    BY <1>2, NextCases DEF TypeOK
  <2>2. ASSUME NEW p \in Projects, NEW a \in DealAmounts \cup {NoAmount}, DealChanges(p, a)
        PROVE  TypeOK'
    BY <2>1, <2>2 DEF DealChanges, TypeOK, RequestOK
  <2>3. ASSUME NEW w \in Workers, Reads(w)
        PROVE  TypeOK'
    BY <2>1, <2>3, ReadsTypeOK DEF TypeOK, RequestOK
  <2>4. ASSUME NEW w \in Workers, Writes(w)
        PROVE  TypeOK'
    <3>1. entries' \in Seq(EntryOf(Projects)) /\ Len(entries') >= Len(entries)
      <4>1. Len(entries) \in Nat
        BY DEF TypeOK
      <4>2. CASE ApproveCreate(w)
        <5>1. entries' \in Seq(EntryOf(Projects)) /\ Len(entries') = Len(entries) + 1
          BY <4>2, CreateEffect
        <5> QED
          BY <4>1, <5>1
      <4>3. CASE ApproveCorrect(w) \/ EditCommit(w) \/ DeleteCommit(w)
        BY <4>1, <4>3, RewriteEffect
      <4>4. CASE RejectCommit(w)
        <5>1. entries' = entries
          BY <4>4 DEF RejectCommit
        <5> QED
          BY <4>1, <5>1 DEF TypeOK
      <4> QED
        BY <2>4, <4>2, <4>3, <4>4 DEF Writes
    <3>2. req' \in [Workers -> Request] /\ \A v \in Workers : RequestOK(req[v])'
      <4>1. IdleReq \in Request
        BY ProjectAssumption, AmountAssumption DEF Request, ReqSteps, EditKinds
      <4>2. req' = [req EXCEPT ![w] = IdleReq]
        BY <2>4, WritesRequest
      <4> QED
        BY <3>1, <4>1, <4>2 DEF TypeOK, RequestOK
    <3> QED
      BY <2>1, <2>4, <3>1, <3>2, WritesRequest, DraftEffect DEF TypeOK
  <2>5. ASSUME NEW j \in Jobs, Sync(j)
        PROVE  TypeOK'
    BY <2>1, <2>5, SyncEffect DEF TypeOK, RequestOK
  <2> QED
    BY <1>2, <2>2, <2>3, <2>4, <2>5, NextCases
<1> QED
  BY <1>1, <1>2

-----------------------------------------------------------------------------
(* What concerns the links of drafts and of approvals in progress.         *)
LinksInv == LinkSound /\ AimsApart /\ ReviewedExists

LEMMA InitLinksInv == Init => LinksInv
<1> SUFFICES ASSUME Init PROVE LinksInv
  OBVIOUS
<1>1. LinkSound
  BY DEF Init, LinkSound
<1>2. AimsApart /\ ReviewedExists
  BY DEF Init, AimsApart, ReviewedExists
<1> QED
  BY <1>1, <1>2 DEF LinksInv

(* A step that moves no link: drafts keep theirs, and a new approval takes *)
(* the one its draft has.                                                  *)
LEMMA LinksKept ==
  ASSUME TypeOK, LinksInv, Len(entries') \in Nat, Len(entries') >= Len(entries),
         \A p \in Projects :
           /\ drafts'[p].entry = drafts[p].entry
           /\ drafts'[p].status = "APPROVED" => drafts[p].status = "APPROVED"
           /\ drafts[p].status # "NONE" => drafts'[p].status # "NONE",
         \A w \in Workers :
           \/ req'[w] = req[w]
           \/ req'[w].at \notin {"approve", "reject"}
           \/ /\ req'[w].project \in Projects
              /\ drafts[req'[w].project].status = "PENDING"
              /\ req'[w].at = "approve" => req'[w].entry = drafts[req'[w].project].entry
  PROVE  LinksInv'
<1> USE ProjectAssumption DEF LinksInv
<1>0. /\ Len(entries) \in Nat
      /\ \A w \in Workers : req[w].at \in {"approve", "reject"} => req[w].project \in Projects
  BY DEF TypeOK, Request, RequestOK
<1>1. LinkSound'
  <2>1. \A p \in Projects :
          /\ drafts'[p].status = "APPROVED" => drafts'[p].entry # NoEntry
          /\ drafts'[p].entry \in 0..Len(entries')
    BY <1>0 DEF LinkSound
  <2>2. ASSUME NEW p \in Projects, NEW q \in Projects, p # q, drafts'[p].entry # NoEntry
        PROVE  /\ drafts'[p].entry # drafts'[q].entry
               /\ \A w \in Workers :
                    req'[w].at = "approve" /\ req'[w].project = q => req'[w].entry # drafts'[p].entry
    <3>1. drafts[p].entry # NoEntry /\ drafts[p].entry # drafts[q].entry
      BY <2>2 DEF LinkSound
    <3>2. ASSUME NEW w \in Workers, req'[w].at = "approve", req'[w].project = q
          PROVE  req'[w].entry # drafts[p].entry
      BY <2>2, <3>1, <3>2 DEF LinkSound
    <3> QED
      BY <3>1, <3>2
  <2> QED
    BY <2>1, <2>2 DEF LinkSound
<1>2. AimsApart'
  <2> SUFFICES ASSUME NEW v \in Workers, NEW w \in Workers,
                      req'[v].at = "approve", req'[w].at = "approve",
                      req'[v].project # req'[w].project, req'[v].entry # NoEntry
               PROVE  req'[v].entry # req'[w].entry
    BY DEF AimsApart
  <2> DEFINE Old(u) == req'[u] = req[u]
             New(u) == /\ req'[u].project \in Projects
                       /\ req'[u].entry = drafts[req'[u].project].entry
  <2>1. (Old(v) \/ New(v)) /\ (Old(w) \/ New(w))
    OBVIOUS
  <2>2. CASE Old(v) /\ Old(w)
    BY <2>2 DEF AimsApart
  <2>3. CASE Old(v) /\ New(w)
    BY <1>0, <2>3 DEF LinkSound
  <2>4. CASE New(v) /\ Old(w)
    BY <1>0, <2>4 DEF LinkSound
  <2>5. CASE New(v) /\ New(w)
    BY <2>5 DEF LinkSound
  <2> QED
    BY <2>1, <2>2, <2>3, <2>4, <2>5
<1>3. ReviewedExists'
  BY <1>0 DEF ReviewedExists
<1> QED
  BY <1>1, <1>2, <1>3

(* An approval links its project's draft to an entry no other project's    *)
(* draft or approval knows: a new one, or the one it has read.             *)
LEMMA LinkMoved ==
  ASSUME TypeOK, LinksInv, NEW w \in Workers, ApproveCreate(w) \/ ApproveCorrect(w)
  PROVE  LinksInv'
<1> DEFINE p == req[w].project
           n == IF ApproveCreate(w) THEN Len(entries) + 1 ELSE req[w].entry
<1> USE ProjectAssumption DEF LinksInv
<1>1. /\ n \in 1..Len(entries') /\ Len(entries') >= Len(entries)
      /\ drafts' = [drafts EXCEPT ![p] = Row("APPROVED", drafts[p].amount, n)]
      /\ n = Len(entries) + 1 \/ n = req[w].entry
  <2>0. Len(entries) \in Nat
    BY DEF TypeOK
  <2>1. CASE ApproveCreate(w)
    <3>1. /\ Len(entries') = Len(entries) + 1
          /\ drafts' = [drafts EXCEPT ![p] = Row("APPROVED", drafts[p].amount, Len(entries) + 1)]
      BY <2>1, CreateEffect
    <3> QED
      BY <2>0, <2>1, <3>1
  <2>2. CASE ApproveCorrect(w)
    <3>1. Writes(w) /\ ~ApproveCreate(w)
      BY <2>2 DEF Writes, ApproveCreate, ApproveCorrect
    <3>2. drafts' = [drafts EXCEPT ![p] = Row("APPROVED", drafts[p].amount, req[w].entry)]
      BY <2>2, <3>1, DraftEffect
    <3>3. req[w].entry \in 1..Len(entries) /\ Len(entries') = Len(entries)
      BY <2>2, RewriteEffect
    <3> QED
      BY <2>0, <3>1, <3>2, <3>3
  <2> QED
    BY <2>1, <2>2
<1> HIDE DEF n
<1>2. /\ p \in Projects /\ req[w].at = "approve"
      /\ \A v \in Workers : req'[v] = IF v = w THEN IdleReq ELSE req[v]
      /\ Len(entries) \in Nat
      /\ \A v \in Workers : req[v].at \in {"approve", "reject"} =>
           req[v].project \in Projects /\ req[v].entry \in 0..Len(entries)
  BY WritesRequest DEF TypeOK, Request, RequestOK, ApproveCreate, ApproveCorrect, Writes
<1>3. \A q \in Projects : drafts'[q] = IF q = p THEN Row("APPROVED", drafts[p].amount, n) ELSE drafts[q]
  BY <1>1, <1>2 DEF TypeOK
<1>4. /\ \A q \in Projects : q # p => drafts[q].entry # n
      /\ \A v \in Workers : v # w /\ req[v].at = "approve" /\ req[v].project # p => req[v].entry # n
  <2>1. CASE n = Len(entries) + 1
    BY <1>2, <2>1 DEF LinkSound
  <2>2. CASE n = req[w].entry
    BY <1>1, <1>2, <2>2 DEF LinkSound, AimsApart
  <2> QED
    BY <1>1, <2>1, <2>2
<1>5. LinkSound'
  <2>1. \A q \in Projects :
          /\ drafts'[q].status = "APPROVED" => drafts'[q].entry # NoEntry
          /\ drafts'[q].entry \in 0..Len(entries')
    <3>1. \A q \in Projects : drafts[q].entry \in 0..Len(entries')
      BY <1>1, <1>2 DEF LinkSound
    <3>2. n # NoEntry /\ n \in 0..Len(entries')
      BY <1>1
    <3> QED
      BY <1>3, <3>1, <3>2 DEF LinkSound
  <2>2. ASSUME NEW x \in Projects, NEW q \in Projects, x # q, drafts'[x].entry # NoEntry
        PROVE  /\ drafts'[x].entry # drafts'[q].entry
               /\ \A v \in Workers :
                    req'[v].at = "approve" /\ req'[v].project = q => req'[v].entry # drafts'[x].entry
    BY <1>2, <1>3, <1>4, <2>2 DEF LinkSound
  <2> QED
    BY <2>1, <2>2 DEF LinkSound
<1>6. AimsApart'
  BY <1>2 DEF AimsApart
<1>7. ReviewedExists'
  BY <1>2, <1>3 DEF ReviewedExists
<1> QED
  BY <1>5, <1>6, <1>7

LEMMA StepLinksInv == TypeOK /\ LinksInv /\ [Next]_vars => LinksInv'
<1> SUFFICES ASSUME TypeOK, LinksInv, [Next]_vars PROVE LinksInv'
  OBVIOUS
<1>0. Len(entries) \in Nat /\ LinkSound
  BY DEF TypeOK, LinksInv
<1>1. CASE UNCHANGED <<drafts, entries, req>>
  BY <1>0, <1>1, LinksKept
<1>2. ASSUME NEW p \in Projects, NEW a \in DealAmounts \cup {NoAmount}, DealChanges(p, a)
      PROVE  LinksInv'
  BY <1>1, <1>2 DEF DealChanges
<1>3. ASSUME NEW w \in Workers, Reads(w)
      PROVE  LinksInv'
  <2>1. UNCHANGED <<drafts, entries>> /\ \A v \in Workers : v # w => req'[v] = req[v]
    BY <1>0, <1>3, ReadsTypeOK DEF TypeOK
  <2>2. \/ req'[w].at \notin {"approve", "reject"}
        \/ /\ req'[w].project \in Projects
           /\ drafts[req'[w].project].status = "PENDING"
           /\ req'[w].at = "approve" => req'[w].entry = drafts[req'[w].project].entry
    BY <1>3 DEF TypeOK, Reads, ApproveRead, RejectRead, ApproveRefused, EditRead, DeleteRead
  <2> QED
    BY <1>0, <2>1, <2>2, LinksKept
<1>4. ASSUME NEW w \in Workers, EditCommit(w) \/ DeleteCommit(w) \/ RejectCommit(w)
      PROVE  LinksInv'
  <2>1. Writes(w)
    BY <1>4 DEF Writes
  <2>2. \A v \in Workers : req'[v] = IF v = w THEN IdleReq ELSE req[v]
    BY <2>1, WritesRequest DEF TypeOK
  <2>3. Len(entries') = Len(entries)
    BY <1>4, <2>1, RewriteEffect DEF RejectCommit
  <2>4. \A p \in Projects :
          /\ drafts'[p].entry = drafts[p].entry
          /\ drafts'[p].status = "APPROVED" => drafts[p].status = "APPROVED"
          /\ drafts[p].status # "NONE" => drafts'[p].status # "NONE"
    <3>1. CASE RejectCommit(w)
      <4>1. /\ req[w].project \in Projects
            /\ drafts' = [drafts EXCEPT ![req[w].project] =
                  Row("REJECTED", drafts[req[w].project].amount, drafts[req[w].project].entry)]
        BY <2>1, <3>1, DraftEffect
      <4> QED
        BY <4>1 DEF TypeOK
    <3>2. CASE drafts' = drafts
      BY <3>2
    <3> QED
      BY <1>4, <2>1, <3>1, <3>2, DraftEffect
  <2> QED
    BY <1>0, <2>2, <2>3, <2>4, LinksKept
<1>5. ASSUME NEW j \in Jobs, Sync(j)
      PROVE  LinksInv'
  <2>1. \A p \in Projects :
          /\ drafts'[p].entry = drafts[p].entry
          /\ drafts'[p].status = "APPROVED" => drafts[p].status = "APPROVED"
          /\ drafts[p].status # "NONE" => drafts'[p].status # "NONE"
    <3>1. CASE SyncWrite(j) /\ job[j].project \in Projects
               /\ drafts' = [drafts EXCEPT ![job[j].project] =
                     Row("PENDING", job[j].amount, drafts[job[j].project].entry)]
      BY <3>1 DEF TypeOK
    <3>2. CASE drafts' = drafts
      BY <3>2
    <3> QED
      BY <1>5, <3>1, <3>2, SyncEffect
  <2>2. UNCHANGED <<entries, req>>
    BY <1>5, SyncEffect
  <2> QED
    BY <1>0, <2>1, <2>2, LinksKept
<1> QED
  BY <1>1, <1>2, <1>3, <1>4, <1>5, LinkMoved, NextCases DEF vars, Writes

(* Every row and every process stays well formed, and every link belongs   *)
(* to one project, however reviews, edits and nightly runs interleave.     *)
THEOREM LinksAreSound == Spec => [](TypeOK /\ LinkSound)
<1>1. Init => TypeOK /\ LinksInv
  BY InitTypeOK, InitLinksInv
<1>2. TypeOK /\ LinksInv /\ [Next]_vars => (TypeOK /\ LinksInv)'
  BY StepTypeOK, StepLinksInv DEF LinksInv
<1>3. TypeOK /\ LinksInv => TypeOK /\ LinkSound
  BY DEF LinksInv
<1> QED
  BY <1>1, <1>2, <1>3, PTL DEF Spec

-----------------------------------------------------------------------------
LEMMA FreshReadStands ==
  ASSUME TypeOK, LinkSound, ProductsEntered, NEW w \in Workers, Reads(w)
  PROVE  /\ ApprovalStands(w)' /\ EditStands(w)'
         /\ req'[w].product \in EditAmounts \cup {NoAmount}
<1>0. UNCHANGED <<drafts, entries>>
  BY ReadsTypeOK
<1>1. ASSUME NEW e \in 1..Len(entries), NEW kind \in Edits, NEW a \in EditAmounts,
             NEW p \in Projects \cup {NoProject}, EditRead(w, e, kind, a, p)
      PROVE  EditStands(w)' /\ req'[w].product \in EditAmounts \cup {NoAmount}
  <2>1. entries[e] \in EntryOf(Projects) /\ entries[e].product \in EditAmounts \cup {NoAmount}
    BY DEF TypeOK, ProductsEntered
  <2>2. req'[w] = EditReq(e, ResolvedAmount(kind, a, entries[e]),
                          ResolvedProduct(kind, a, entries[e]), kind, p)
    BY <1>1 DEF EditRead, TypeOK
  <2>3. /\ req'[w].entry = e /\ req'[w].kind = kind
        /\ req'[w].amount = ResolvedAmount(kind, a, entries[e])
        /\ req'[w].product = ResolvedProduct(kind, a, entries[e])
    BY <2>2
  <2>4. /\ req'[w].amount \in {entries[e].amount} \cup EditAmounts
        /\ req'[w].product \in EditAmounts \cup {NoAmount}
        /\ kind = "text" => req'[w].amount = entries[e].amount /\ req'[w].product = entries[e].product
    BY <2>1, <2>3, ResolvedType
  <2> QED
    BY <1>0, <2>3, <2>4 DEF EditStands
<1>2. ASSUME NEW e \in 1..Len(entries), NEW kind \in Edits, NEW a \in EditAmounts,
             NEW p \in Projects \cup {NoProject}, EditRead(w, e, kind, a, p)
      PROVE  ApprovalStands(w)'
  BY <1>2 DEF EditRead, TypeOK, ApprovalStands
<1>3. ASSUME NEW p \in Projects, ApproveRead(w, p)
      PROVE  ApprovalStands(w)' /\ EditStands(w)' /\ req'[w].product = NoAmount
  BY <1>3 DEF ApproveRead, TypeOK, ApprovalStands, EditStands
<1>4. CASE req'[w].at \in {"reject", "idle", "delete"} /\ req'[w].product = NoAmount
  BY <1>4 DEF ApprovalStands, EditStands
<1> QED
  BY <1>1, <1>2, <1>3, <1>4 DEF TypeOK, Reads, RejectRead, ApproveRefused, DeleteRead

(* A transaction does not touch what a request it does not meet has read.  *)
LEMMA WritesKeepReads ==
  ASSUME TypeOK, Exclusive, NEW w \in Workers, Writes(w), NEW v \in Workers, v # w
  PROVE  /\ ApprovalStands(v) => ApprovalStands(v)'
         /\ EditStands(v) => EditStands(v)'
<1>0. req'[v] = req[v] /\ req[v] \in Request /\ RequestOK(req[v])
  BY WritesRequest DEF TypeOK
<1>1. ASSUME req[v].at = "approve"
      PROVE  drafts'[req[v].project] = drafts[req[v].project]
  <2> DEFINE q == req[v].project
  <2>1. q \in Projects /\ q # req[w].project
    BY <1>0, <1>1, ProjectAssumption DEF Request, RequestOK, Exclusive
  <2>2. CASE drafts' = drafts
    BY <2>2
  <2>3. ASSUME NEW d, drafts' = [drafts EXCEPT ![req[w].project] = d]
        PROVE  drafts'[q] = drafts[q]
    BY <2>1, <2>3 DEF TypeOK
  <2>4. CASE ApproveCreate(w)
    BY <2>3, <2>4, CreateEffect
  <2> QED
    BY <2>2, <2>3, <2>4, DraftEffect DEF Writes
<1>2. ASSUME req[v].at = "edit"
      PROVE  entries'[req[v].entry] = entries[req[v].entry]
  <2> DEFINE n == req[v].entry
  <2>1. n \in 1..Len(entries) /\ n # req[w].entry
    BY <1>0, <1>2 DEF RequestOK, TypeOK, Exclusive
  <2>2. CASE ApproveCreate(w)
    BY <2>1, <2>2, CreateEffect
  <2>3. CASE RejectCommit(w)
    BY <2>3, DraftEffect
  <2> QED
    BY <2>1, <2>2, <2>3, RewriteEffect DEF Writes
<1> QED
  BY <1>0, <1>1, <1>2 DEF ApprovalStands, EditStands

LEMMA SyncKeepsReads ==
  ASSUME TypeOK, Exclusive, NEW j \in Jobs, Sync(j), NEW v \in Workers
  PROVE  /\ ApprovalStands(v) => ApprovalStands(v)'
         /\ EditStands(v) => EditStands(v)'
<1>0. UNCHANGED <<entries, req>>
  BY SyncEffect
<1>1. ASSUME req[v].at = "approve"
      PROVE  drafts'[req[v].project] = drafts[req[v].project]
  <2>1. req[v].project \in Projects
    BY <1>1 DEF TypeOK, Request, RequestOK
  <2>2. CASE drafts' = drafts
    BY <2>2
  <2>3. CASE /\ job[j].project \in Projects
             /\ drafts' = [drafts EXCEPT ![job[j].project] =
                   Row("PENDING", job[j].amount, drafts[job[j].project].entry)]
    <3>1. req[v].project # job[j].project
      BY <2>1, ProjectAssumption DEF Exclusive
    <3> QED
      BY <2>1, <2>3, <3>1 DEF TypeOK
  <2> QED
    BY <2>2, <2>3, SyncEffect
<1> QED
  BY <1>0, <1>1 DEF ApprovalStands, EditStands

LEMMA StepProductsEntered ==
  ASSUME TypeOK, LinkSound, ProductsEntered, [Next]_vars
  PROVE  ProductsEntered'
<1> USE DEF ProductsEntered
<1>0. Len(entries) \in Nat /\ \A e \in 1..Len(entries) : entries[e] \in EntryOf(Projects)
  BY DEF TypeOK
<1>1. CASE UNCHANGED <<entries, req>>
  BY <1>1
<1>2. ASSUME NEW w \in Workers, Reads(w)
      PROVE  ProductsEntered'
  BY <1>2, ReadsTypeOK, FreshReadStands DEF TypeOK
<1>3. ASSUME NEW w \in Workers, Writes(w)
      PROVE  ProductsEntered'
  <2>1. \A v \in Workers : req'[v].product \in EditAmounts \cup {NoAmount}
    BY <1>3, WritesRequest DEF TypeOK
  <2>2. CASE ApproveCreate(w)
    <3>1. /\ Len(entries') = Len(entries) + 1
          /\ \A e \in 1..Len(entries) : entries'[e] = entries[e]
          /\ entries'[Len(entries) + 1] = NewIncome(req[w].project, req[w].amount)
      BY <2>2, CreateEffect
    <3>2. entries'[Len(entries) + 1].product = NoAmount
      BY <3>1 DEF NewIncome
    <3>3. \A e \in 1..Len(entries') : e \in 1..Len(entries) \/ e = Len(entries) + 1
      BY <1>0, <3>1
    <3> QED
      BY <2>1, <3>1, <3>2, <3>3
  <2>3. CASE RejectCommit(w)
    BY <1>3, <2>1, <2>3, DraftEffect
  <2>4. CASE ApproveCorrect(w) \/ EditCommit(w) \/ DeleteCommit(w)
    <3>1. /\ req[w].entry \in 1..Len(entries) /\ Len(entries') = Len(entries)
          /\ \A e \in 1..Len(entries) : e # req[w].entry => entries'[e] = entries[e]
          /\ \/ entries'[req[w].entry] = Corrected(entries[req[w].entry], req[w].amount)
             \/ entries'[req[w].entry] = Edited(entries[req[w].entry], req[w].kind, req[w].to,
                                               req[w].amount, req[w].product)
             \/ entries'[req[w].entry] = Deleted(entries[req[w].entry])
      BY <2>4, RewriteEffect
    <3>2. entries'[req[w].entry].product \in {entries[req[w].entry].product, req[w].product}
      BY <3>1 DEF Corrected, Edited, Deleted
    <3> QED
      BY <2>1, <3>1, <3>2
  <2> QED
    BY <1>3, <2>2, <2>3, <2>4 DEF Writes
<1> QED
  BY <1>1, <1>2, <1>3, NextCases, SyncEffect DEF vars, DealChanges

-----------------------------------------------------------------------------
(* What holds in a state where no processes have overlapped yet.           *)
StandsApart == Exclusive /\ \A w \in Workers : ApprovalStands(w) /\ EditStands(w)

OneIncome == \A e \in 1..Len(entries) : \E p \in Projects : drafts[p].entry = e

BooksShow ==
  \A p \in Projects :
    drafts[p].status = "APPROVED" =>
      entries[drafts[p].entry].amount \in {drafts[p].amount} \cup EditAmounts

LEMMA StepStandsApart ==
  ASSUME TypeOK, LinkSound, ProductsEntered, StandsApart, [Next]_vars, Exclusive'
  PROVE  StandsApart'
<1> USE DEF StandsApart
<1>1. CASE UNCHANGED <<drafts, entries, req>>
  BY <1>1 DEF ApprovalStands, EditStands
<1>2. ASSUME NEW w \in Workers, Reads(w)
      PROVE  StandsApart'
  <2>1. UNCHANGED <<drafts, entries>> /\ \A v \in Workers : v # w => req'[v] = req[v]
    BY <1>2, ReadsTypeOK DEF TypeOK
  <2>2. \A v \in Workers : v # w => ApprovalStands(v)' /\ EditStands(v)'
    BY <2>1 DEF ApprovalStands, EditStands
  <2> QED
    BY <1>2, <2>2, FreshReadStands
<1>3. ASSUME NEW w \in Workers, Writes(w)
      PROVE  StandsApart'
  <2>1. ApprovalStands(w)' /\ EditStands(w)'
    BY <1>3, WritesRequest DEF TypeOK, ApprovalStands, EditStands
  <2> QED
    BY <1>3, <2>1, WritesKeepReads
<1>4. ASSUME NEW j \in Jobs, Sync(j)
      PROVE  StandsApart'
  BY <1>4, SyncKeepsReads
<1> QED
  BY <1>1, <1>2, <1>3, <1>4, NextCases DEF vars, DealChanges

(* A transaction whose read stands keeps one income per project, and the   *)
(* books at what was decided or entered.                                   *)
LEMMA WritesKeepBooks ==
  ASSUME TypeOK, LinkSound, StandsApart, OneIncome, BooksShow, NEW w \in Workers, Writes(w)
  PROVE  OneIncome' /\ BooksShow'
<1> DEFINE p == req[w].project
           n == req[w].entry
<1>0. /\ Len(entries) \in Nat /\ ApprovalStands(w) /\ EditStands(w)
      /\ \A q \in Projects : drafts[q].status = "APPROVED" => drafts[q].entry \in 1..Len(entries)
  BY DEF TypeOK, StandsApart, LinkSound
<1>1. CASE ApproveCreate(w)
  <2> DEFINE m == Len(entries) + 1
  <2>1. /\ p \in Projects /\ req[w].entry = NoEntry /\ Len(entries') = m
        /\ \A e \in 1..Len(entries) : entries'[e] = entries[e]
        /\ entries'[m] = NewIncome(p, req[w].amount)
        /\ drafts' = [drafts EXCEPT ![p] = Row("APPROVED", drafts[p].amount, m)]
    BY <1>1, CreateEffect
  <2>2. drafts[p].entry = NoEntry /\ drafts[p].amount = req[w].amount
    BY <1>0, <1>1, <2>1 DEF ApproveCreate, ApprovalStands
  <2>3. \A q \in Projects : drafts'[q] = IF q = p THEN Row("APPROVED", drafts[p].amount, m) ELSE drafts[q]
    BY <2>1 DEF TypeOK
  <2>4. OneIncome'
    <3> SUFFICES ASSUME NEW e \in 1..Len(entries') PROVE \E q \in Projects : drafts'[q].entry = e
      BY DEF OneIncome
    <3>1. CASE e = m
      BY <2>1, <2>3, <3>1
    <3>2. CASE e \in 1..Len(entries)
      <4>1. PICK q \in Projects : drafts[q].entry = e
        BY <3>2 DEF OneIncome
      <4>2. q # p
        BY <2>2, <3>2, <4>1
      <4> QED
        BY <2>3, <4>1, <4>2
    <3> QED
      BY <1>0, <2>1, <3>1, <3>2
  <2>5. BooksShow'
    <3>1. entries'[m].amount = drafts[p].amount
      BY <2>1, <2>2 DEF NewIncome
    <3>2. \A q \in Projects : drafts[q].status = "APPROVED" =>
            entries'[drafts[q].entry].amount \in {drafts[q].amount} \cup EditAmounts
      BY <1>0, <2>1 DEF BooksShow
    <3> QED
      BY <2>3, <3>1, <3>2 DEF BooksShow
  <2> QED
    BY <2>4, <2>5
<1>2. CASE ApproveCorrect(w)
  <2>1. /\ p \in Projects
        /\ drafts' = [drafts EXCEPT ![p] = Row("APPROVED", drafts[p].amount, n)]
    BY <1>2, DraftEffect
  <2>2. /\ n \in 1..Len(entries) /\ Len(entries') = Len(entries)
        /\ \A e \in 1..Len(entries) : e # n => entries'[e] = entries[e]
        /\ entries'[n] = Corrected(entries[n], req[w].amount)
    BY <1>2, RewriteEffect
  <2>3. drafts[p].entry = n /\ drafts[p].amount = req[w].amount
    BY <1>0, <1>2 DEF ApproveCorrect, ApprovalStands
  <2>4. \A q \in Projects : drafts'[q] = IF q = p THEN Row("APPROVED", drafts[p].amount, n) ELSE drafts[q]
    BY <2>1 DEF TypeOK
  <2>5. OneIncome'
    BY <2>2, <2>3, <2>4 DEF OneIncome
  <2>6. BooksShow'
    <3>1. entries'[n].amount = drafts[p].amount
      BY <2>2, <2>3 DEF Corrected
    <3>2. ASSUME NEW q \in Projects, q # p, drafts[q].status = "APPROVED"
          PROVE  entries'[drafts[q].entry] = entries[drafts[q].entry]
      <4>1. drafts[q].entry # n
        BY <2>1, <2>2, <2>3, <3>2 DEF LinkSound
      <4> QED
        BY <1>0, <2>2, <3>2, <4>1
    <3> QED
      BY <2>4, <3>1, <3>2 DEF BooksShow
  <2> QED
    BY <2>5, <2>6
<1>3. CASE RejectCommit(w)
  <2>1. /\ p \in Projects /\ UNCHANGED entries
        /\ drafts' = [drafts EXCEPT ![p] = Row("REJECTED", drafts[p].amount, drafts[p].entry)]
    BY <1>3, DraftEffect
  <2>2. \A q \in Projects :
          drafts'[q] = IF q = p THEN Row("REJECTED", drafts[p].amount, drafts[p].entry) ELSE drafts[q]
    BY <2>1 DEF TypeOK
  <2> QED
    BY <2>1, <2>2 DEF OneIncome, BooksShow
<1>4. CASE EditCommit(w) \/ DeleteCommit(w)
  <2>1. drafts' = drafts
    BY <1>4, DraftEffect
  <2>2. /\ n \in 1..Len(entries) /\ Len(entries') = Len(entries)
        /\ \A e \in 1..Len(entries) : e # n => entries'[e] = entries[e]
    BY <1>4, RewriteEffect
  <2>3. entries'[n].amount \in {entries[n].amount} \cup EditAmounts
    <3>1. CASE EditCommit(w)
      <4>1. entries'[n] = Edited(entries[n], req[w].kind, req[w].to, req[w].amount, req[w].product)
        BY <3>1, RewriteEffect
      <4>2. entries'[n].amount = req[w].amount
        BY <4>1 DEF Edited
      <4> QED
        BY <1>0, <3>1, <4>2 DEF EditCommit, EditStands
    <3>2. CASE DeleteCommit(w)
      <4>1. entries'[n] = Deleted(entries[n])
        BY <3>2, RewriteEffect
      <4> QED
        BY <4>1 DEF Deleted
    <3> QED
      BY <1>4, <3>1, <3>2
  <2>4. OneIncome'
    BY <2>1, <2>2 DEF OneIncome
  <2>5. BooksShow'
    <3>1. \A q \in Projects : drafts[q].status = "APPROVED" =>
            entries'[drafts[q].entry].amount \in {entries[drafts[q].entry].amount} \cup EditAmounts
      BY <1>0, <2>2, <2>3
    <3> QED
      BY <2>1, <3>1 DEF BooksShow
  <2> QED
    BY <2>4, <2>5
<1> QED
  BY <1>1, <1>2, <1>3, <1>4 DEF Writes

LEMMA StepKeepsBooks ==
  ASSUME TypeOK, LinkSound, StandsApart, OneIncome, BooksShow, [Next]_vars
  PROVE  OneIncome' /\ BooksShow'
<1>1. CASE UNCHANGED <<drafts, entries>>
  BY <1>1 DEF OneIncome, BooksShow
<1>2. ASSUME NEW j \in Jobs, Sync(j)
      PROVE  OneIncome' /\ BooksShow'
  <2>1. entries' = entries
    BY <1>2, SyncEffect
  <2>2. CASE /\ job[j].project \in Projects
             /\ drafts' = [drafts EXCEPT ![job[j].project] =
                   Row("PENDING", job[j].amount, drafts[job[j].project].entry)]
    <3>1. \A q \in Projects :
            drafts'[q] = IF q = job[j].project
                         THEN Row("PENDING", job[j].amount, drafts[q].entry) ELSE drafts[q]
      BY <2>2 DEF TypeOK
    <3>2. \A q \in Projects :
            /\ drafts'[q].entry = drafts[q].entry
            /\ drafts'[q].status = "APPROVED" => drafts'[q] = drafts[q]
      <4> TAKE q \in Projects
      <4>1. CASE q = job[j].project
        <5>1. drafts'[q] = Row("PENDING", job[j].amount, drafts[q].entry)
          BY <3>1, <4>1
        <5> QED
          BY <5>1
      <4>2. CASE q # job[j].project
        BY <3>1, <4>2
      <4> QED
        BY <4>1, <4>2
    <3>3. OneIncome'
      BY <2>1, <3>2 DEF OneIncome
    <3>4. BooksShow'
      <4> SUFFICES ASSUME NEW q \in Projects, drafts'[q].status = "APPROVED"
                   PROVE  entries'[drafts'[q].entry].amount \in {drafts'[q].amount} \cup EditAmounts
        BY DEF BooksShow
      <4>1. drafts'[q] = drafts[q]
        BY <3>2
      <4> QED
        BY <2>1, <4>1 DEF BooksShow
    <3> QED
      BY <3>3, <3>4
  <2> QED
    BY <1>1, <1>2, <2>1, <2>2, SyncEffect
<1> QED
  BY <1>1, <1>2, NextCases, ReadsTypeOK, WritesKeepBooks DEF vars, DealChanges

LEMMA ApartForms ==
  /\ ReadsStandApart <=> (~overlapped => StandsApart)
  /\ OneIncomePerProject <=> (~overlapped => OneIncome)
  /\ BooksShowDecision <=> (~overlapped => BooksShow)
BY DEF ReadsStandApart, StandsApart, OneIncomePerProject, OneIncome, BooksShowDecision, BooksShow

LEMMA InitIncomeInv == Init => IncomeInv
<1> SUFFICES ASSUME Init PROVE IncomeInv
  OBVIOUS
<1>1. ProductsEntered
  BY DEF Init, ProductsEntered
<1>2. ReadsStandApart
  BY DEF Init, ReadsStandApart, Exclusive, ApprovalStands, EditStands
<1>3. OneIncomePerProject /\ BooksShowDecision
  BY DEF Init, OneIncomePerProject, BooksShowDecision
<1> QED
  BY <1>1, <1>2, <1>3, InitTypeOK, InitLinksInv DEF IncomeInv, LinksInv

LEMMA StepIncomeInv == IncomeInv /\ [Next]_vars => IncomeInv'
<1> SUFFICES ASSUME IncomeInv, [Next]_vars PROVE IncomeInv'
  OBVIOUS
<1> USE DEF IncomeInv
<1>1. TypeOK' /\ LinksInv'
  BY StepTypeOK, StepLinksInv DEF LinksInv
<1>2. ProductsEntered'
  BY StepProductsEntered
<1>3. ~overlapped' => ~overlapped /\ (Next => Exclusive')
  BY NextCases DEF vars
<1>4. ASSUME ~overlapped'
      PROVE  StandsApart' /\ OneIncome' /\ BooksShow'
  <2>1. StandsApart /\ OneIncome /\ BooksShow
    BY <1>3, <1>4, ApartForms
  <2>2. StandsApart'
    <3>1. CASE Next
      BY <1>3, <1>4, <2>1, <3>1, StepStandsApart
    <3>2. CASE UNCHANGED vars
      BY <2>1, <3>2 DEF vars, StandsApart, Exclusive, ApprovalStands, EditStands
    <3> QED
      BY <3>1, <3>2
  <2> QED
    BY <2>1, <2>2, StepKeepsBooks
<1>5. ReadsStandApart' /\ OneIncomePerProject' /\ BooksShowDecision'
  BY <1>4 DEF ReadsStandApart, StandsApart, OneIncomePerProject, OneIncome, BooksShowDecision, BooksShow
<1> QED
  BY <1>1, <1>2, <1>5 DEF LinksInv

(* As long as no two processes overlap on one draft or entry, a project's  *)
(* income is never booked twice: every entry is the one a draft points at. *)
THEOREM IncomeBookedOnce == Spec => []OneIncomePerProject
<1>1. IncomeInv => OneIncomePerProject
  BY DEF IncomeInv
<1> QED
  BY <1>1, InitIncomeInv, StepIncomeInv, PTL DEF Spec

(* A PATCH of metadata finds the money as it read it.                      *)
LEMMA StepMetadataEdit == IncomeInv /\ [Next]_vars => [MetadataEditKeepsAmount]_vars
<1> SUFFICES ASSUME IncomeInv, Next, ~overlapped, NEW w \in Workers,
                    req[w].at = "edit", req[w].kind = "text", req'[w].at = "idle"
             PROVE  entries'[req[w].entry] = entries[req[w].entry]
  BY DEF MetadataEditKeepsAmount
<1> USE DEF IncomeInv
<1>1. EditCommit(w)
  <2>1. req'[w] # req[w]
    OBVIOUS
  <2>2. \A v \in Workers : Reads(v) \/ Writes(v) => v = w
    BY <2>1, ReadsTypeOK, WritesRequest DEF TypeOK
  <2>3. Reads(w) \/ Writes(w)
    BY <2>1, <2>2, NextCases, SyncEffect DEF DealChanges
  <2> QED
    BY <2>3 DEF Reads, Writes, ApproveRead, RejectRead, ApproveRefused, EditRead, DeleteRead,
                ApproveCreate, ApproveCorrect, RejectCommit, DeleteCommit
<1>2. entries[req[w].entry] \in EntryOf(Projects)
  BY <1>1, RewriteEffect DEF TypeOK
<1>3. /\ req[w].amount = entries[req[w].entry].amount
      /\ req[w].product = entries[req[w].entry].product
  BY DEF ReadsStandApart, EditStands
<1>4. entries'[req[w].entry] =
        Edited(entries[req[w].entry], "text", req[w].to, req[w].amount, req[w].product)
  BY <1>1, RewriteEffect
<1> QED
  BY <1>2, <1>3, <1>4 DEF Edited, EntryOf

(* Every decision is in the books through a link of its own, with the      *)
(* amount it was about, and an edit of anything else leaves it there.      *)
THEOREM DecisionsAreFollowed == Spec => BooksFollowDecisions
<1>1. IncomeInv => TypeOK /\ LinkSound /\ BooksShowDecision
  BY DEF IncomeInv
<1> QED
  BY <1>1, InitIncomeInv, StepIncomeInv, StepMetadataEdit, PTL DEF Spec, BooksFollowDecisions

-----------------------------------------------------------------------------
(* Runs of the job that do not overlap: the cron starts one a night.       *)
OneRunAtATime == \A i, j \in Jobs : i # j => job[i].at = "idle" \/ job[j].at = "idle"

SequentialSpec == Init /\ [][Next /\ OneRunAtATime']_vars

(* What the job is about to write is news to the draft.                    *)
WritesNews == \A j \in Jobs : job[j].at = "write" => ~Shows(drafts[job[j].project], job[j].amount)

NewsInv == TypeOK /\ LinksInv /\ OneRunAtATime /\ WritesNews

(* No request changes the amount of a draft, or makes or removes one.      *)
LEMMA RequestsKeepAmount ==
  ASSUME TypeOK, LinksInv, NEW w \in Workers, Writes(w), NEW p \in Projects
  PROVE  /\ drafts'[p].amount = drafts[p].amount
         /\ drafts'[p].status = "NONE" <=> drafts[p].status = "NONE"
         /\ drafts'[p].status = "PENDING" => drafts[p].status = "PENDING"
<1> DEFINE q == req[w].project
<1>1. CASE drafts' = drafts
  BY <1>1
<1>2. ASSUME NEW e, NEW s \in {"APPROVED", "REJECTED"}, q \in Projects,
             req[w].at \in {"approve", "reject"},
             drafts' = [drafts EXCEPT ![q] = Row(s, drafts[q].amount, e)]
      PROVE  /\ drafts'[p].amount = drafts[p].amount
             /\ drafts'[p].status = "NONE" <=> drafts[p].status = "NONE"
             /\ drafts'[p].status = "PENDING" => drafts[p].status = "PENDING"
  <2>1. drafts[q].status # "NONE"
    BY <1>2 DEF LinksInv, ReviewedExists
  <2>2. CASE p = q
    <3>1. drafts'[p] = Row(s, drafts[q].amount, e)
      BY <1>2, <2>2 DEF TypeOK
    <3> QED
      BY <2>1, <2>2, <3>1
  <2>3. CASE p # q
    BY <1>2, <2>3 DEF TypeOK
  <2> QED
    BY <2>2, <2>3
<1>3. CASE ApproveCreate(w)
  BY <1>2, <1>3, CreateEffect DEF ApproveCreate
<1>4. CASE ApproveCorrect(w)
  BY <1>2, <1>4, DraftEffect DEF ApproveCorrect
<1>5. CASE RejectCommit(w)
  BY <1>2, <1>5, DraftEffect DEF RejectCommit
<1> QED
  BY <1>1, <1>3, <1>4, <1>5, DraftEffect DEF Writes

LEMMA StepWritesNews ==
  ASSUME NewsInv, [Next]_vars
  PROVE  WritesNews'
<1> USE DEF NewsInv
<1> SUFFICES ASSUME NEW j \in Jobs, job'[j].at = "write"
             PROVE  ~Shows(drafts'[job'[j].project], job'[j].amount)
  BY DEF WritesNews, Shows
<1>1. CASE UNCHANGED <<drafts, job>>
  BY <1>1 DEF WritesNews, Shows
<1>2. ASSUME NEW w \in Workers, Writes(w)
      PROVE  ~Shows(drafts'[job'[j].project], job'[j].amount)
  <2>1. job' = job
    BY <1>2, WritesRequest
  <2>2. job[j].project \in Projects
    BY <2>1 DEF TypeOK, JobState
  <2> QED
    BY <1>2, <2>1, <2>2, RequestsKeepAmount DEF WritesNews, Shows
<1>3. ASSUME NEW i \in Jobs, Sync(i), i # j
      PROVE  ~Shows(drafts'[job'[j].project], job'[j].amount)
  <2>1. job'[j] = job[j]
    BY <1>3, SyncEffect
  <2>2. ~SyncWrite(i)
    BY <1>3, <2>1 DEF SyncWrite, OneRunAtATime
  <2>3. drafts' = drafts
    BY <1>3, <2>2, SyncEffect
  <2> QED
    BY <2>1, <2>3 DEF WritesNews
<1>4. CASE Sync(j)
  <2>1. SyncReadDraft(j)
    BY <1>4 DEF TypeOK, Sync, SyncStart, SyncGetDeal, SyncSkipProject, SyncUnchanged, SyncWrite, SyncEnd
  <2>2. /\ drafts' = drafts /\ job'[j].project = job[j].project /\ job'[j].amount = job[j].amount
        /\ ~Shows(drafts[job[j].project], job[j].amount)
    BY <2>1 DEF SyncReadDraft, TypeOK
  <2> QED
    BY <2>2
<1> QED
  BY <1>1, <1>2, <1>3, <1>4, NextCases, ReadsTypeOK DEF vars, DealChanges, LinksInv

(* A manager's decision survives every run of the job that finds the       *)
(* deal's amount unchanged, as long as runs do not overlap.                *)
THEOREM SequentialRunsKeepDecisions == SequentialSpec => UnchangedDealKeepsDecision
<1>1. Init => NewsInv
  <2>1. Init => OneRunAtATime /\ WritesNews
    BY DEF Init, OneRunAtATime, WritesNews
  <2> QED
    BY <2>1, InitTypeOK, InitLinksInv DEF NewsInv
<1>2. NewsInv /\ [Next /\ OneRunAtATime']_vars => NewsInv'
  <2> SUFFICES ASSUME NewsInv, [Next /\ OneRunAtATime']_vars PROVE NewsInv'
    OBVIOUS
  <2>1. TypeOK' /\ LinksInv' /\ WritesNews'
    BY StepTypeOK, StepLinksInv, StepWritesNews DEF NewsInv, LinksInv
  <2>2. OneRunAtATime'
    BY DEF NewsInv, OneRunAtATime, vars
  <2> QED
    BY <2>1, <2>2 DEF NewsInv
<1>3. NewsInv /\ [Next /\ OneRunAtATime']_vars =>
        [\A p \in Projects :
           drafts[p].status \in {"APPROVED", "REJECTED"} /\ drafts'[p].status = "PENDING"
             => drafts'[p].amount # drafts[p].amount]_vars
  <2> SUFFICES ASSUME NewsInv, Next, NEW p \in Projects,
                      drafts[p].status \in {"APPROVED", "REJECTED"}, drafts'[p].status = "PENDING"
               PROVE  drafts'[p].amount # drafts[p].amount
    OBVIOUS
  <2> USE DEF NewsInv
  <2>1. PICK j \in Jobs : Sync(j)
    BY NextCases, ReadsTypeOK, RequestsKeepAmount DEF DealChanges, LinksInv
  <2>2. /\ SyncWrite(j) /\ job[j].project \in Projects
        /\ drafts' = [drafts EXCEPT ![job[j].project] =
              Row("PENDING", job[j].amount, drafts[job[j].project].entry)]
    BY <2>1, SyncEffect
  <2>3. p = job[j].project
    BY <2>2 DEF TypeOK
  <2>4. drafts'[p] = Row("PENDING", job[j].amount, drafts[p].entry)
    BY <2>2, <2>3 DEF TypeOK
  <2>5. ~Shows(drafts[p], job[j].amount)
    BY <2>2, <2>3 DEF SyncWrite, WritesNews
  <2> QED
    BY <2>4, <2>5 DEF Shows
<1> QED
  BY <1>1, <1>2, <1>3, PTL DEF SequentialSpec, UnchangedDealKeepsDecision

(* A portal whose nightly run is the only one there is needs no more.      *)
THEOREM OneRunKeepsDecisions ==
  ASSUME \A i, j \in Jobs : i = j
  PROVE  Spec => UnchangedDealKeepsDecision
<1>1. [Next]_vars => [Next /\ OneRunAtATime']_vars
  BY DEF OneRunAtATime
<1>2. Spec => SequentialSpec
  BY <1>1, PTL DEF Spec, SequentialSpec
<1> QED
  BY <1>2, SequentialRunsKeepDecisions

=============================================================================
