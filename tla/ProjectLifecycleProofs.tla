----------------------- MODULE ProjectLifecycleProofs -----------------------
(***************************************************************************)
(* Proofs about ProjectLifecycle, for every number of projects, users and  *)
(* requests in progress, and every limit of the FREE plan; about CrmPicker *)
(* for every number of sections, searches and requests; and about          *)
(* ProjectImport for every number of elements and lines.                   *)
(***************************************************************************)
EXTENDS ProjectLifecycle, CrmPicker, ProjectImport, FiniteSetTheorems, SequenceTheorems, TLAPS

USE DEF Row, Line, Req, CreateReq, StatusReq, MembersReq, EntryReq, IdleReq, NoEntry

(* What a request has read before its transaction and nothing has changed  *)
(* since: no live entry in what it deletes, room for what it creates, the  *)
(* members its difference was taken to.                                    *)
ReadStands(w) ==
  LET r == req[w] IN
  /\ r.at = "delete" => LiveEntries(r.project) = {}
  /\ r.at = "create" /\ r.plan = "FREE" => Cardinality(WithinLimit) < Limit
  /\ r.at = "members" =>
       /\ r.adds = r.members \ projects[r.project].members
       /\ r.removes = projects[r.project].members \ r.members

(* A project a request is about has been created.                          *)
RequestedWasCreated ==
  \A w \in Workers : req[w].project # NoProject => projects[req[w].project].status # "NONE"

(* Until requests have overlapped, what each has read still stands.        *)
ReadsStandApart == ~overlapped => Exclusive /\ \A w \in Workers : ReadStands(w)

ProjectsInv == ProjectsSound /\ RequestedWasCreated /\ ReadsStandApart

-----------------------------------------------------------------------------
(* Steps that leave the rows of projects, entries and journal alone.       *)
Reads(w) ==
  \/ \E status \in Chosen, members \in SUBSET Users : CreateStart(w, status, members)
  \/ CreateCount(w)
  \/ \E p \in Projects, status \in {"ACTIVE", "COMPLETED", "KEEP"} : UpdateRead(w, p, status)
  \/ \E p \in Projects, status \in {"ACTIVE", "ARCHIVED"} : ArchiveRead(w, p, status)
  \/ \E p \in Projects : DeleteRead(w, p)
  \/ \E p \in Projects, members \in SUBSET Users : MembersRead(w, p, members)
  \/ \E p \in Projects : EntryRead(w, p)
  \/ \E e \in 1..Len(entries), p \in Projects : MoveRead(w, e, p)
  \/ \E e \in 1..Len(entries) : EntryDeleteRead(w, e)
  \/ Fails(w)

(* The transactions of the requests.                                       *)
Writes(w) ==
  \/ \E p \in Projects : CreateCommit(w, p)
  \/ UpdateCommit(w)
  \/ ArchiveCommit(w)
  \/ DeleteCommit(w)
  \/ MembersCommit(w)
  \/ EntryCommit(w)
  \/ MoveCommit(w)
  \/ EntryDeleteCommit(w)

LEMMA StepIsOne ==
  ASSUME Step
  PROVE  \/ UNCHANGED <<projects, entries, journal, req>> /\ plan' \in Plans
         \/ \E w \in Workers : Reads(w) \/ Writes(w)
BY DEF Step, PlanChanges, ProjectWorker, EntryWorker, Reads, Writes

(* A read changes the record of its own request and nothing else.          *)
LEMMA ReadsChangeRequest ==
  ASSUME TypeOK, NEW w \in Workers, Reads(w)
  PROVE  /\ UNCHANGED <<plan, projects, entries, journal>>
         /\ req' = [req EXCEPT ![w] = req'[w]]
<1>1. UNCHANGED <<plan, projects, entries, journal>>
  BY DEF Reads, CreateStart, CreateCount, UpdateRead, ArchiveRead, DeleteRead, MembersRead,
         EntryRead, MoveRead, EntryDeleteRead, Fails
<1>2. \E r : req' = [req EXCEPT ![w] = r]
  BY DEF Reads, CreateStart, CreateCount, UpdateRead, ArchiveRead, DeleteRead, MembersRead,
         EntryRead, MoveRead, EntryDeleteRead, Fails, Done
<1> QED
  BY <1>1, <1>2 DEF TypeOK

(* What a read leaves in its request's record is well formed.              *)
LEMMA ReadsTypeOK ==
  ASSUME TypeOK, NEW w \in Workers, Reads(w)
  PROVE  req'[w] \in Request /\ RequestOK(req'[w])
<1> USE ProjectAssumption DEF TypeOK
<1>1. ASSUME NEW status \in Chosen, NEW members \in SUBSET Users, CreateStart(w, status, members)
      PROVE  req'[w] \in Request /\ RequestOK(req'[w])
  <2>1. plan \in {"FREE", "PRO"}
    BY PlanAssumption
  <2> QED
    BY <1>1, <2>1 DEF CreateStart, Request, ReqSteps, RequestOK, Chosen
<1>2. CASE CreateCount(w)
  BY <1>2 DEF CreateCount, Request, ReqSteps, RequestOK
<1>3. ASSUME NEW p \in Projects, Exists(p),
             NEW at \in {"update", "archive", "delete"},
             NEW status \in Chosen \cup {"KEEP"}, at = "archive" => status # "KEEP",
             req' = [req EXCEPT ![w] = StatusReq(at, p, status, projects[p].status)]
      PROVE  req'[w] \in Request /\ RequestOK(req'[w])
  BY <1>3 DEF Exists, Request, ReqSteps, RequestOK
<1>4. ASSUME NEW p \in Projects, NEW members \in SUBSET Users, MembersRead(w, p, members)
      PROVE  req'[w] \in Request /\ RequestOK(req'[w])
  <2>1. projects[p].members \in SUBSET Users
    BY DEF Project
  <2> QED
    BY <1>4, <2>1 DEF MembersRead, Request, ReqSteps, RequestOK
<1>5. ASSUME NEW p \in Projects, EntryRead(w, p)
      PROVE  req'[w] \in Request /\ RequestOK(req'[w])
  BY <1>5 DEF EntryRead, Request, ReqSteps, RequestOK
<1>6. ASSUME NEW e \in 1..Len(entries), NEW p \in Projects, MoveRead(w, e, p)
      PROVE  req'[w] \in Request /\ RequestOK(req'[w])
  BY <1>6 DEF MoveRead, Request, ReqSteps, RequestOK
<1>7. ASSUME NEW e \in 1..Len(entries), EntryDeleteRead(w, e)
      PROVE  req'[w] \in Request /\ RequestOK(req'[w])
  BY <1>7 DEF EntryDeleteRead, Request, ReqSteps, RequestOK
<1>8. CASE Fails(w)
  BY <1>8 DEF Fails, Done, Request, ReqSteps, RequestOK
<1> QED
  BY <1>1, <1>2, <1>3, <1>4, <1>5, <1>6, <1>7, <1>8
     DEF Reads, UpdateRead, ArchiveRead, DeleteRead, Chosen

(* Requests stay well formed when rows of entries are added or rewritten,  *)
(* since no row is ever taken out.                                         *)
LEMMA RequestsStayOK ==
  ASSUME TypeOK, NEW w \in Workers, entries' \in Seq(Entry), Len(entries') >= Len(entries),
         req' = [req EXCEPT ![w] = req'[w]], req'[w] \in Request, RequestOK(req'[w])
  PROVE  req' \in [Workers -> Request] /\ \A v \in Workers : RequestOK(req[v])'
BY DEF TypeOK, RequestOK

(* A transaction ends its request; what it does to rows keeps their types  *)
(* and takes none out.                                                     *)
LEMMA WritesTypeOK ==
  ASSUME TypeOK, NEW w \in Workers, Writes(w)
  PROVE  /\ plan' = plan
         /\ projects' \in [Projects -> Project]
         /\ journal' \in [Projects -> Statuses]
         /\ entries' \in Seq(Entry) /\ Len(entries') >= Len(entries)
         /\ req' = [req EXCEPT ![w] = IdleReq]
<1> USE ProjectAssumption DEF TypeOK
<1>1. plan' = plan /\ req' = [req EXCEPT ![w] = IdleReq]
  BY DEF Writes, CreateCommit, UpdateCommit, ArchiveCommit, DeleteCommit, MembersCommit,
         EntryCommit, MoveCommit, EntryDeleteCommit, Done
<1>2. projects' \in [Projects -> Project] /\ journal' \in [Projects -> Statuses]
  <2>1. ASSUME NEW p \in Projects, CreateCommit(w, p)
        PROVE  projects' \in [Projects -> Project] /\ journal' \in [Projects -> Statuses]
    <3>1. req[w].status \in Chosen /\ req[w].members \in SUBSET Users
      BY <2>1 DEF CreateCommit, Request, RequestOK
    <3> QED
      BY <2>1, <3>1 DEF CreateCommit, Project, Statuses
  <2>2. CASE UpdateCommit(w)
    BY <2>2 DEF UpdateCommit, Exists, Kept, Project, Statuses, Request, RequestOK
  <2>3. CASE ArchiveCommit(w)
    BY <2>3 DEF ArchiveCommit, Project, Statuses, Request, RequestOK
  <2>4. CASE DeleteCommit(w)
    BY <2>4 DEF DeleteCommit, Project, Statuses, Request, RequestOK
  <2>5. CASE MembersCommit(w)
    BY <2>5 DEF MembersCommit, Project, Request, RequestOK
  <2>6. CASE EntryCommit(w) \/ MoveCommit(w) \/ EntryDeleteCommit(w)
    BY <2>6 DEF EntryCommit, MoveCommit, EntryDeleteCommit
  <2> QED
    BY <2>1, <2>2, <2>3, <2>4, <2>5, <2>6 DEF Writes
<1>3. entries' \in Seq(Entry) /\ Len(entries') >= Len(entries)
  <2>1. CASE EntryCommit(w)
    <3>1. Line(req[w].project, "live") \in Entry
      BY <2>1 DEF EntryCommit, Entry, Request, RequestOK
    <3> QED
      BY <2>1, <3>1 DEF EntryCommit
  <2>2. CASE MoveCommit(w)
    <3>1. req[w].entry \in 1..Len(entries) /\ req[w].project \in Projects
      BY <2>2 DEF MoveCommit, Request, RequestOK
    <3>2. Line(req[w].project, entries[req[w].entry].state) \in Entry
      <4>1. entries[req[w].entry] \in Entry
        BY <3>1
      <4> QED
        BY <3>1, <4>1 DEF Entry
    <3> QED
      BY <2>2, <3>1, <3>2 DEF MoveCommit
  <2>3. CASE EntryDeleteCommit(w)
    <3>1. req[w].entry \in 1..Len(entries)
      BY <2>3 DEF EntryDeleteCommit, RequestOK
    <3>2. Line(entries[req[w].entry].project, "deleted") \in Entry
      <4>1. entries[req[w].entry] \in Entry
        BY <3>1
      <4> QED
        BY <4>1 DEF Entry
    <3> QED
      BY <2>3, <3>1, <3>2 DEF EntryDeleteCommit
  <2>4. CASE DeleteCommit(w)
    <3>1. req[w].project \in Projects
      BY <2>4 DEF DeleteCommit, Request, RequestOK
    <3>2. Erased(entries, req[w].project) \in [1..Len(entries) -> Entry]
      <4>1. Line(req[w].project, "erased") \in Entry
        BY <3>1 DEF Entry
      <4>2. \A e \in 1..Len(entries) : entries[e] \in Entry
        OBVIOUS
      <4> QED
        BY <4>1, <4>2 DEF Erased
    <3>3. Erased(entries, req[w].project) \in Seq(Entry)
      BY <3>2
    <3>4. Len(Erased(entries, req[w].project)) = Len(entries)
      BY <3>2
    <3> QED
      BY <2>4, <3>3, <3>4 DEF DeleteCommit
  <2>5. CASE UNCHANGED entries
    BY <2>5
  <2> QED
    BY <2>1, <2>2, <2>3, <2>4, <2>5
       DEF Writes, CreateCommit, UpdateCommit, ArchiveCommit, MembersCommit
<1> QED
  BY <1>1, <1>2, <1>3

LEMMA StepTypeOK == TypeOK /\ [Next]_vars => TypeOK'
<1> SUFFICES ASSUME TypeOK, [Next]_vars PROVE TypeOK'
  OBVIOUS
<1>1. CASE UNCHANGED vars
  BY <1>1 DEF vars, TypeOK, RequestOK
<1>2. CASE Next
  <2>1. overlapped' \in BOOLEAN
    BY <1>2 DEF Next, TypeOK
  <2>2. CASE UNCHANGED <<projects, entries, journal, req>> /\ plan' \in Plans
    BY <2>1, <2>2 DEF TypeOK, RequestOK
  <2>3. ASSUME NEW w \in Workers, Reads(w)
        PROVE  TypeOK'
    <3>1. req' \in [Workers -> Request] /\ \A v \in Workers : RequestOK(req[v])'
      BY <2>3, ReadsChangeRequest, ReadsTypeOK, RequestsStayOK DEF TypeOK
    <3> QED
      BY <2>1, <2>3, <3>1, ReadsChangeRequest DEF TypeOK
  <2>4. ASSUME NEW w \in Workers, Writes(w)
        PROVE  TypeOK'
    <3>1. IdleReq \in Request /\ RequestOK(IdleReq)
      BY DEF Request, ReqSteps, RequestOK
    <3>2. req'[w] = IdleReq /\ req' = [req EXCEPT ![w] = req'[w]]
      BY <2>4, WritesTypeOK DEF TypeOK
    <3>3. req' \in [Workers -> Request] /\ \A v \in Workers : RequestOK(req[v])'
      BY <2>4, <3>1, <3>2, WritesTypeOK, RequestsStayOK
    <3> QED
      BY <2>1, <2>4, <3>3, WritesTypeOK DEF TypeOK
  <2> QED
    BY <1>2, <2>2, <2>3, <2>4, StepIsOne DEF Next
<1> QED
  BY <1>1, <1>2

-----------------------------------------------------------------------------
(* A created row stays one, in use or gone.                                *)
CreatedStays ==
  \A p \in Projects : projects[p].status # "NONE" => projects'[p].status # "NONE"

(* What every step keeps of the rows.                                      *)
RowsKept ==
  NothingOutlivesProject' /\ JournalShowsStatus' /\ DeletedStaysDeleted /\ CreatedStays

(* A row of a project in use, or of a new one, is written with the status  *)
(* its journal gets; a row that is gone stays as it is.                    *)
LEMMA RowWritten ==
  ASSUME ProjectsSound, NEW p \in Projects, NEW row \in Project,
         projects' = [projects EXCEPT ![p] = row],
         journal' = [journal EXCEPT ![p] = row.status],
         entries' = entries,
         row.status \in Chosen \cup {projects[p].status},
         projects[p].status = "GONE" => row = projects[p]
  PROVE  RowsKept
<1> USE DEF ProjectsSound, TypeOK
<1>1. \A q \in Projects : projects'[q] = IF q = p THEN row ELSE projects[q]
  OBVIOUS
<1>2. \A q \in Projects : Exists(q) => Exists(q)'
  BY <1>1 DEF Exists
<1>3. NothingOutlivesProject'
  <2>1. \A q \in Projects : projects'[q].status = "GONE" => projects'[q].members = {}
    BY <1>1 DEF NothingOutlivesProject, Chosen
  <2>2. \A e \in 1..Len(entries) : entries[e].state # "erased" => Exists(entries[e].project)'
    <3>1. \A e \in 1..Len(entries) : entries[e] \in Entry
      OBVIOUS
    <3> QED
      BY <1>2, <3>1 DEF NothingOutlivesProject, Entry
  <2> QED
    BY <2>1, <2>2 DEF NothingOutlivesProject
<1>4. JournalShowsStatus'
  BY <1>1 DEF JournalShowsStatus
<1>5. DeletedStaysDeleted
  BY <1>1 DEF DeletedStaysDeleted
<1>6. CreatedStays
  BY <1>1 DEF CreatedStays, Chosen
<1> QED
  BY <1>3, <1>4, <1>5, <1>6 DEF RowsKept

(* A new entry is in a project in use; an entry that is not erased may     *)
(* move to such a project or be deleted, and is never brought to life.     *)
LEMMA EntriesWritten ==
  ASSUME ProjectsSound, UNCHANGED <<projects, journal>>, Len(entries') >= Len(entries),
         entries' \in Seq(Entry),
         \A e \in 1..Len(entries') :
           \/ e \in 1..Len(entries) /\ entries'[e] = entries[e]
           \/ /\ Exists(entries'[e].project)
              /\ e \in 1..Len(entries) => /\ entries[e].state # "erased"
                                          /\ entries'[e].state \in {entries[e].state, "deleted"}
  PROVE  RowsKept
<1> USE DEF ProjectsSound, TypeOK
<1>1. NothingOutlivesProject'
  BY DEF NothingOutlivesProject, Exists
<1>2. DeletedStaysDeleted
  BY DEF DeletedStaysDeleted
<1> QED
  BY <1>1, <1>2 DEF RowsKept, JournalShowsStatus, CreatedStays

LEMMA DeleteKeepsRows ==
  ASSUME ProjectsSound, NEW w \in Workers, DeleteCommit(w)
  PROVE  RowsKept
<1> DEFINE p == req[w].project
<1> USE DEF ProjectsSound, TypeOK
<1>1. p \in Projects
  BY DEF DeleteCommit, Request, RequestOK
<1>2. /\ projects' = [projects EXCEPT ![p] = Row("GONE", {})]
      /\ journal' = [journal EXCEPT ![p] = "GONE"]
      /\ entries' = Erased(entries, p)
  BY DEF DeleteCommit
<1>3. /\ Len(entries') = Len(entries)
      /\ \A e \in 1..Len(entries) :
           entries'[e] = IF entries[e].project = p THEN Line(p, "erased") ELSE entries[e]
  <2>1. entries' \in [1..Len(entries) -> {entries'[e] : e \in 1..Len(entries)}]
    BY <1>2 DEF Erased
  <2>2. Len(entries') = Len(entries)
    BY <2>1
  <2> QED
    BY <1>2, <2>2 DEF Erased
<1>4. NothingOutlivesProject'
  <2>1. \A q \in Projects : projects'[q].status = "GONE" => projects'[q].members = {}
    BY <1>1, <1>2 DEF NothingOutlivesProject
  <2>2. ASSUME NEW e \in 1..Len(entries'), entries'[e].state # "erased"
        PROVE  Exists(entries[e].project)'
    <3>1. e \in 1..Len(entries) /\ entries[e] \in Entry
      BY <1>3
    <3>2. entries[e].project # p /\ entries'[e] = entries[e]
      BY <1>3, <2>2, <3>1
    <3> QED
      BY <1>1, <1>2, <2>2, <3>1, <3>2 DEF NothingOutlivesProject, Exists, Entry
  <2> QED
    BY <2>1, <2>2 DEF NothingOutlivesProject
<1>5. JournalShowsStatus' /\ CreatedStays
  BY <1>1, <1>2 DEF JournalShowsStatus, CreatedStays
<1>6. DeletedStaysDeleted
  <2>1. \A q \in Projects : projects[q].status = "GONE" => projects'[q].status = "GONE"
    BY <1>1, <1>2
  <2>2. ASSUME NEW e \in 1..Len(entries)
        PROVE  /\ entries[e].state # "live" => entries'[e].state # "live"
               /\ entries[e].state = "erased" => entries'[e] = entries[e]
    <3>1. entries[e] \in Entry
      OBVIOUS
    <3>2. entries[e] = [project |-> entries[e].project, state |-> entries[e].state]
      BY <3>1 DEF Entry
    <3> QED
      BY <1>3, <3>2
  <2> QED
    BY <2>1, <2>2 DEF DeletedStaysDeleted
<1> QED
  BY <1>4, <1>5, <1>6 DEF RowsKept

LEMMA WritesKeepRows ==
  ASSUME ProjectsSound, NEW w \in Workers, Writes(w)
  PROVE  RowsKept
<1> USE ProjectAssumption DEF ProjectsSound, TypeOK
<1>1. ASSUME NEW p \in Projects, CreateCommit(w, p)
      PROVE  RowsKept
  <2>1. Row(req[w].status, req[w].members) \in Project /\ req[w].status \in Chosen
    BY <1>1 DEF CreateCommit, Request, RequestOK, Project, Statuses
  <2> QED
    BY <1>1, <2>1, RowWritten DEF CreateCommit
<1>2. CASE UpdateCommit(w)
  <2> DEFINE p == req[w].project  s == Kept(req[w].status, projects[p].status)
             row == Row(s, projects[p].members)
  <2>1. p \in Projects /\ Exists(p)
    BY <1>2 DEF UpdateCommit, Request, RequestOK
  <2>2. s \in Chosen
    BY <1>2, <2>1 DEF UpdateCommit, Kept, Exists, Request
  <2>3. row \in Project
    BY <2>1, <2>2 DEF Project, Statuses
  <2>4. projects' = [projects EXCEPT ![p] = row] /\ journal' = [journal EXCEPT ![p] = row.status]
    BY <1>2 DEF UpdateCommit
  <2>5. entries' = entries /\ projects[p].status # "GONE" /\ row.status \in Chosen
    BY <1>2, <2>1, <2>2 DEF UpdateCommit, Exists, Chosen
  <2> HIDE DEF row
  <2> QED
    BY <2>1, <2>3, <2>4, <2>5, RowWritten
<1>3. CASE ArchiveCommit(w)
  <2> DEFINE p == req[w].project  row == Row(req[w].status, projects[p].members)
  <2>1. p \in Projects /\ Exists(p) /\ req[w].status \in Chosen
    BY <1>3 DEF ArchiveCommit, Request, RequestOK
  <2>2. row \in Project
    BY <2>1 DEF Project, Statuses
  <2>3. projects' = [projects EXCEPT ![p] = row] /\ journal' = [journal EXCEPT ![p] = row.status]
    BY <1>3 DEF ArchiveCommit
  <2>4. entries' = entries /\ projects[p].status # "GONE" /\ row.status \in Chosen
    BY <1>3, <2>1 DEF ArchiveCommit, Exists, Chosen
  <2> HIDE DEF row
  <2> QED
    BY <2>1, <2>2, <2>3, <2>4, RowWritten
<1>4. CASE MembersCommit(w)
  <2> DEFINE p == req[w].project
             row == Row(projects[p].status, (projects[p].members \ req[w].removes) \cup req[w].adds)
  <2>1. p \in Projects
    BY <1>4 DEF MembersCommit, Request, RequestOK
  <2>2. row \in Project
    BY <2>1 DEF Project, Request
  <2>3. projects' = [projects EXCEPT ![p] = row] /\ entries' = entries
    BY <1>4 DEF MembersCommit
  <2>4. journal' = [journal EXCEPT ![p] = row.status]
    <3>1. journal[p] = row.status
      BY <2>1 DEF JournalShowsStatus
    <3>2. journal' = journal
      BY <1>4 DEF MembersCommit
    <3> QED
      BY <2>1, <3>1, <3>2
  <2>5. projects[p].status = "GONE" => row = projects[p]
    <3> SUFFICES ASSUME projects[p].status = "GONE" PROVE row = projects[p]
      OBVIOUS
    <3>1. projects[p] \in Project /\ req[w].adds = {}
      BY <1>4, <2>1 DEF MembersCommit, Exists, Chosen
    <3>2. projects[p].members = {}
      BY <2>1 DEF NothingOutlivesProject
    <3> QED
      BY <3>1, <3>2 DEF Project
  <2>6. row.status = projects[p].status
    OBVIOUS
  <2> HIDE DEF row
  <2> QED
    BY <2>1, <2>2, <2>3, <2>4, <2>5, <2>6, RowWritten
<1>5. CASE EntryCommit(w)
  <2>1. /\ entries' = Append(entries, Line(req[w].project, "live"))
        /\ Exists(req[w].project) /\ UNCHANGED <<projects, journal>>
    BY <1>5 DEF EntryCommit
  <2>2. entries' \in Seq(Entry) /\ Len(entries') >= Len(entries)
    BY <1>5, WritesTypeOK DEF Writes
  <2> QED
    BY <2>1, <2>2, EntriesWritten DEF Exists
<1>6. CASE MoveCommit(w)
  <2>1. /\ entries' = [entries EXCEPT ![req[w].entry] = Line(req[w].project, @.state)]
        /\ entries[req[w].entry].state # "erased"
        /\ Exists(req[w].project) /\ UNCHANGED <<projects, journal>>
    BY <1>6 DEF MoveCommit
  <2>2. entries' \in Seq(Entry) /\ Len(entries') = Len(entries)
    BY <1>6, <2>1, WritesTypeOK DEF Writes
  <2> QED
    BY <2>1, <2>2, EntriesWritten
<1>7. CASE EntryDeleteCommit(w)
  <2>1. /\ entries' = [entries EXCEPT ![req[w].entry] = Line(@.project, "deleted")]
        /\ entries[req[w].entry].state # "erased" /\ UNCHANGED <<projects, journal>>
        /\ req[w].entry \in 1..Len(entries)
    BY <1>7 DEF EntryDeleteCommit, RequestOK
  <2>2. entries' \in Seq(Entry) /\ Len(entries') = Len(entries)
    BY <1>7, <2>1, WritesTypeOK DEF Writes
  <2>3. Exists(entries[req[w].entry].project)
    BY <2>1 DEF NothingOutlivesProject
  <2> QED
    BY <2>1, <2>2, <2>3, EntriesWritten
<1> QED
  BY <1>1, <1>2, <1>3, <1>4, <1>5, <1>6, <1>7, DeleteKeepsRows DEF Writes

LEMMA InitProjectsSound == Init => ProjectsSound
<1> SUFFICES ASSUME Init PROVE ProjectsSound
  OBVIOUS
<1> USE ProjectAssumption DEF Init
<1>1. TypeOK
  <2>1. projects \in [Projects -> Project] /\ journal \in [Projects -> Statuses]
    BY DEF Project, Statuses
  <2>2. req \in [Workers -> Request] /\ \A w \in Workers : RequestOK(req[w])
    BY DEF Request, ReqSteps, RequestOK
  <2>3. entries \in Seq(Entry)
    OBVIOUS
  <2> QED
    BY <2>1, <2>2, <2>3 DEF TypeOK
<1>2. NothingOutlivesProject /\ JournalShowsStatus
  BY DEF NothingOutlivesProject, JournalShowsStatus
<1> QED
  BY <1>1, <1>2 DEF ProjectsSound

LEMMA StepRowsKept == ProjectsSound /\ [Next]_vars => RowsKept
<1> SUFFICES ASSUME ProjectsSound, [Next]_vars PROVE RowsKept
  OBVIOUS
<1>1. CASE UNCHANGED <<projects, entries, journal>>
  BY <1>1 DEF RowsKept, ProjectsSound, NothingOutlivesProject, Exists, JournalShowsStatus,
              DeletedStaysDeleted, CreatedStays
<1>2. ASSUME NEW w \in Workers, Reads(w)
      PROVE  RowsKept
  BY <1>1, <1>2, ReadsChangeRequest DEF ProjectsSound
<1>3. ASSUME NEW w \in Workers, Writes(w)
      PROVE  RowsKept
  BY <1>3, WritesKeepRows
<1> QED
  BY <1>1, <1>2, <1>3, StepIsOne DEF Next, vars

(* Whatever requests overlap, a deleted project leaves nothing behind and  *)
(* the last audit row about a project shows the status it has.             *)
THEOREM ProjectsAreSound == Spec => []ProjectsSound
<1>1. ProjectsSound /\ [Next]_vars => ProjectsSound'
  BY StepTypeOK, StepRowsKept DEF ProjectsSound, RowsKept
<1> QED
  BY <1>1, InitProjectsSound, PTL DEF Spec

(* Whatever requests overlap, none brings a deleted project or entry back. *)
THEOREM DeletionsAreFinal == Spec => [][DeletedStaysDeleted]_vars
<1>1. ProjectsSound /\ [Next]_vars => [DeletedStaysDeleted]_vars
  BY StepRowsKept DEF RowsKept
<1> QED
  BY <1>1, ProjectsAreSound, PTL DEF Spec

-----------------------------------------------------------------------------
(* What a request has just read stands, and it is about a created project. *)
LEMMA FreshReadStands ==
  ASSUME TypeOK, NEW w \in Workers, Reads(w)
  PROVE  /\ ReadStands(w)'
         /\ req'[w].project # NoProject => projects'[req'[w].project].status # "NONE"
<1> USE ProjectAssumption DEF TypeOK
<1>0. UNCHANGED <<projects, entries>>
  BY ReadsChangeRequest
<1>1. CASE CreateCount(w)
  <2>1. /\ req'[w].at = "create" /\ req'[w].plan = req[w].plan /\ req'[w].project = NoProject
        /\ req[w].plan = "PRO" \/ Cardinality(WithinLimit) < Limit
    BY <1>1 DEF CreateCount
  <2> QED
    BY <1>0, <2>1 DEF ReadStands, WithinLimit
<1>2. ASSUME NEW p \in Projects, DeleteRead(w, p)
      PROVE  ReadStands(w)' /\ projects'[req'[w].project].status # "NONE"
  BY <1>0, <1>2 DEF DeleteRead, ReadStands, LiveEntries, Exists, Chosen
<1>3. ASSUME NEW p \in Projects, NEW members \in SUBSET Users, MembersRead(w, p, members)
      PROVE  ReadStands(w)' /\ projects'[req'[w].project].status # "NONE"
  BY <1>0, <1>3 DEF MembersRead, ReadStands, Exists, Chosen
<1>4. ASSUME NEW p \in Projects, Exists(p), NEW at \in {"update", "archive", "entry", "move"},
             req'[w].at = at, req'[w].project = p
      PROVE  ReadStands(w)' /\ projects'[req'[w].project].status # "NONE"
  BY <1>0, <1>4 DEF ReadStands, Exists, Chosen
<1>5. ASSUME req'[w].at \in {"createCount", "deleteEntry", "idle"}, req'[w].project = NoProject
      PROVE  ReadStands(w)'
  BY <1>5 DEF ReadStands
<1> QED
  BY <1>1, <1>2, <1>3, <1>4, <1>5
     DEF Reads, CreateStart, CreateCount, UpdateRead, ArchiveRead, EntryRead, MoveRead,
         EntryDeleteRead, Fails, Done

(* A transaction adds no live entry to projects of other requests.         *)
LEMMA WritesAddNoLiveEntries ==
  ASSUME TypeOK, NEW w \in Workers, Writes(w), NEW p \in Projects, p # req[w].project
  PROVE  LiveEntries(p)' \subseteq LiveEntries(p)
<1> USE DEF TypeOK
<1>0. entries' \in Seq(Entry) /\ Len(entries') >= Len(entries)
  BY WritesTypeOK
<1> SUFFICES ASSUME NEW e \in 1..Len(entries'), entries'[e] = Line(p, "live")
             PROVE  e \in 1..Len(entries) /\ entries[e] = Line(p, "live")
  BY DEF LiveEntries
<1>1. CASE EntryCommit(w)
  BY <1>1 DEF EntryCommit
<1>2. CASE MoveCommit(w)
  BY <1>2 DEF MoveCommit
<1>3. CASE EntryDeleteCommit(w)
  BY <1>3 DEF EntryDeleteCommit
<1>4. CASE DeleteCommit(w)
  <2>1. entries' = Erased(entries, req[w].project)
    BY <1>4 DEF DeleteCommit
  <2>2. entries' \in [1..Len(entries) -> {entries'[k] : k \in 1..Len(entries)}]
    BY <2>1 DEF Erased
  <2>3. e \in 1..Len(entries)
    BY <2>2
  <2> QED
    BY <2>1, <2>3 DEF Erased
<1> QED
  BY <1>1, <1>2, <1>3, <1>4
     DEF Writes, CreateCommit, UpdateCommit, ArchiveCommit, MembersCommit

(* Only creating, updating and archiving let more projects count.          *)
LEMMA WritesAddNoProjects ==
  ASSUME TypeOK, NEW w \in Workers, Writes(w), req[w].at \notin {"create", "update", "archive"}
  PROVE  WithinLimit' \subseteq WithinLimit
<1> USE DEF TypeOK
<1>1. CASE DeleteCommit(w) \/ MembersCommit(w)
  <2>1. req[w].project \in Projects
    BY <1>1 DEF DeleteCommit, MembersCommit, Request, RequestOK
  <2> QED
    BY <1>1, <2>1 DEF DeleteCommit, MembersCommit, WithinLimit
<1>2. CASE UNCHANGED projects
  BY <1>2 DEF WithinLimit
<1> QED
  BY <1>1, <1>2 DEF Writes, CreateCommit, UpdateCommit, ArchiveCommit, EntryCommit, MoveCommit,
                    EntryDeleteCommit

(* A transaction leaves the members of projects of other requests alone.   *)
LEMMA WritesKeepMembers ==
  ASSUME TypeOK, NEW w \in Workers, Writes(w), NEW p \in Projects, p # req[w].project,
         projects[p].status # "NONE"
  PROVE  projects'[p].members = projects[p].members
BY DEF TypeOK, Writes, CreateCommit, UpdateCommit, ArchiveCommit, DeleteCommit, MembersCommit,
       EntryCommit, MoveCommit, EntryDeleteCommit

LEMMA WithinLimitIsFinite == IsFiniteSet(WithinLimit)
BY ProjectAssumption, FS_Subset DEF WithinLimit

(* A transaction does not disturb what a request has read that it does not *)
(* meet.                                                                   *)
LEMMA WritesKeepReads ==
  ASSUME TypeOK, RequestedWasCreated, Exclusive, NEW w \in Workers, Writes(w),
         NEW v \in Workers, v # w, ReadStands(v)
  PROVE  ReadStands(v)'
<1> DEFINE r == req[v]
<1>0. req'[v] = r /\ r \in Request /\ RequestOK(r)
  BY WritesTypeOK DEF TypeOK
<1>1. r.project \in Projects => r.project # req[w].project
  BY ProjectAssumption DEF Exclusive
<1>2. ASSUME r.at = "delete"
      PROVE  LiveEntries(r.project)' = {}
  <2>1. r.project \in Projects
    BY <1>0, <1>2 DEF Request, RequestOK
  <2>2. LiveEntries(r.project) = {}
    BY <1>2 DEF ReadStands
  <2>3. LiveEntries(r.project)' \subseteq {e \in 1..Len(entries) : entries[e] = Line(r.project, "live")}
    BY <1>0, <1>1, <2>1, WritesAddNoLiveEntries DEF LiveEntries
  <2> QED
    BY <2>2, <2>3 DEF LiveEntries
<1>3. ASSUME r.at = "create", r.plan = "FREE"
      PROVE  Cardinality(WithinLimit)' < Limit
  <2>1. req[w].at \notin {"create", "update", "archive"}
    BY <1>3 DEF Exclusive
  <2>2. WithinLimit' \subseteq WithinLimit
    BY <2>1, WritesAddNoProjects
  <2>3. Cardinality(WithinLimit') <= Cardinality(WithinLimit) /\ Cardinality(WithinLimit) \in Nat
        /\ Cardinality(WithinLimit') \in Nat
    BY <2>2, WithinLimitIsFinite, FS_Subset, FS_CardinalityType
  <2>4. Cardinality(WithinLimit) < Limit
    BY <1>3 DEF ReadStands
  <2> QED
    BY <2>3, <2>4, PlanAssumption
<1>4. ASSUME r.at = "members"
      PROVE  projects'[r.project].members = projects[r.project].members
  <2>1. r.project \in Projects /\ projects[r.project].status # "NONE"
    BY <1>0, <1>4, ProjectAssumption DEF Request, RequestOK, RequestedWasCreated
  <2> QED
    BY <1>1, <2>1, WritesKeepMembers
<1> QED
  BY <1>0, <1>2, <1>3, <1>4 DEF ReadStands

LEMMA InitProjectsInv == Init => ProjectsInv
<1> SUFFICES ASSUME Init PROVE ProjectsInv
  OBVIOUS
<1>1. RequestedWasCreated
  BY DEF Init, RequestedWasCreated
<1>2. ReadsStandApart
  BY DEF Init, ReadsStandApart, Exclusive, ReadStands
<1> QED
  BY <1>1, <1>2, InitProjectsSound DEF ProjectsInv

LEMMA StepProjectsInv == ProjectsInv /\ [Next]_vars => ProjectsInv'
<1> SUFFICES ASSUME ProjectsInv, [Next]_vars PROVE ProjectsInv'
  OBVIOUS
<1> USE DEF ProjectsInv
<1>1. ProjectsSound' /\ TypeOK /\ CreatedStays
  BY StepTypeOK, StepRowsKept DEF ProjectsSound, RowsKept
<1>2. CASE UNCHANGED vars
  BY <1>1, <1>2 DEF vars, RequestedWasCreated, ReadsStandApart, Exclusive, ReadStands, LiveEntries,
               WithinLimit
<1>3. CASE Next
  <2>1. ~overlapped' => ~overlapped /\ Exclusive'
    BY <1>3 DEF Next
  <2>2. CASE UNCHANGED <<projects, entries, journal, req>>
    BY <1>1, <2>1, <2>2 DEF RequestedWasCreated, ReadsStandApart, Exclusive, ReadStands,
                            LiveEntries, WithinLimit
  <2>3. ASSUME NEW w \in Workers, Reads(w)
        PROVE  RequestedWasCreated' /\ ReadsStandApart'
    <3>1. /\ UNCHANGED <<projects, entries>>
          /\ \A v \in Workers : v # w => req'[v] = req[v]
      BY <1>1, <2>3, ReadsChangeRequest DEF TypeOK
    <3>2. /\ ReadStands(w)'
          /\ req'[w].project # NoProject => projects'[req'[w].project].status # "NONE"
      BY <1>1, <2>3, FreshReadStands
    <3>3. \A v \in Workers : v # w /\ ReadStands(v) => ReadStands(v)'
      BY <3>1 DEF ReadStands, LiveEntries, WithinLimit
    <3> QED
      BY <2>1, <3>1, <3>2, <3>3 DEF RequestedWasCreated, ReadsStandApart
  <2>4. ASSUME NEW w \in Workers, Writes(w)
        PROVE  RequestedWasCreated' /\ ReadsStandApart'
    <3>1. /\ req'[w] = IdleReq
          /\ \A v \in Workers : v # w => req'[v] = req[v]
      BY <1>1, <2>4, WritesTypeOK DEF TypeOK
    <3>2. RequestedWasCreated'
      BY <1>1, <3>1, ProjectAssumption DEF RequestedWasCreated, CreatedStays, TypeOK, Request
    <3>3. ReadStands(w)'
      BY <3>1 DEF ReadStands
    <3>4. ASSUME ~overlapped, NEW v \in Workers, v # w
          PROVE  ReadStands(v)'
      BY <1>1, <2>4, <3>4, WritesKeepReads DEF ReadsStandApart
    <3> QED
      BY <2>1, <3>2, <3>3, <3>4 DEF ReadsStandApart
  <2> QED
    BY <1>1, <1>3, <2>2, <2>3, <2>4, StepIsOne DEF Next
<1> QED
  BY <1>2, <1>3

-----------------------------------------------------------------------------
(* Without overlap a deletion meets no live entry of its project, and      *)
(* nothing else erases a row.                                              *)
LEMMA StepOnlyDeletedErased ==
  ASSUME TypeOK, NEW w \in Workers, Writes(w), ReadStands(w)
  PROVE  OnlyDeletedEntriesErased
<1> USE DEF TypeOK
<1> SUFFICES ASSUME NEW e \in 1..Len(entries), entries'[e].state = "erased"
             PROVE  entries[e].state # "live"
  BY DEF OnlyDeletedEntriesErased
<1>0. entries[e] \in Entry
  OBVIOUS
<1>1. CASE EntryCommit(w)
  <2>1. entries'[e] = entries[e]
    BY <1>1 DEF EntryCommit
  <2> QED
    BY <2>1
<1>2. CASE MoveCommit(w) \/ EntryDeleteCommit(w)
  BY <1>2 DEF MoveCommit, EntryDeleteCommit
<1>3. CASE DeleteCommit(w)
  <2>1. entries'[e] = IF entries[e].project = req[w].project
                      THEN Line(req[w].project, "erased") ELSE entries[e]
    BY <1>3 DEF DeleteCommit, Erased
  <2>2. LiveEntries(req[w].project) = {}
    BY <1>3 DEF DeleteCommit, ReadStands
  <2>3. entries[e] = [project |-> entries[e].project, state |-> entries[e].state]
    BY <1>0 DEF Entry
  <2> QED
    BY <2>1, <2>2, <2>3 DEF LiveEntries
<1>4. CASE UNCHANGED entries
  BY <1>4
<1> QED
  BY <1>1, <1>2, <1>3, <1>4
     DEF Writes, CreateCommit, UpdateCommit, ArchiveCommit, MembersCommit

(* Without overlap a creation adds one project where there was room.       *)
LEMMA StepCreationKeepsLimit ==
  ASSUME TypeOK, NEW w \in Workers, Writes(w), ReadStands(w)
  PROVE  CreationKeepsLimit
<1> USE DEF TypeOK
<1> SUFFICES ASSUME NEW v \in Workers, projects' # projects,
                    req[v].at = "create", req[v].plan = "FREE", req'[v] = IdleReq
             PROVE  Cardinality(WithinLimit') <= Limit
  BY DEF CreationKeepsLimit
<1>1. v = w
  BY WritesTypeOK
<1>2. PICK p \in Projects : CreateCommit(w, p)
  BY <1>1 DEF Writes, UpdateCommit, ArchiveCommit, DeleteCommit, MembersCommit, EntryCommit,
              MoveCommit, EntryDeleteCommit
<1>3. WithinLimit' \subseteq WithinLimit \cup {p}
  BY <1>2 DEF CreateCommit, WithinLimit
<1>4. Cardinality(WithinLimit) < Limit
  BY <1>1 DEF ReadStands
<1>5. /\ IsFiniteSet(WithinLimit \cup {p})
      /\ Cardinality(WithinLimit \cup {p}) <= Cardinality(WithinLimit) + 1
  <2> DEFINE S == WithinLimit
  <2>1. IsFiniteSet(S) /\ Cardinality(S) \in Nat
    BY WithinLimitIsFinite, FS_CardinalityType
  <2> HIDE DEF S
  <2>2. /\ IsFiniteSet(S \cup {p})
        /\ Cardinality(S \cup {p}) = IF p \in S THEN Cardinality(S) ELSE Cardinality(S) + 1
    BY <2>1, FS_AddElement
  <2>3. IsFiniteSet(S \cup {p}) /\ Cardinality(S \cup {p}) <= Cardinality(S) + 1
    BY <2>1, <2>2
  <2> QED
    BY <2>3 DEF S
<1>6. /\ Cardinality(WithinLimit') <= Cardinality(WithinLimit \cup {p})
      /\ Cardinality(WithinLimit') \in Nat /\ Cardinality(WithinLimit \cup {p}) \in Nat
  BY <1>3, <1>5, FS_Subset, FS_CardinalityType
<1> QED
  BY <1>4, <1>5, <1>6, WithinLimitIsFinite, FS_CardinalityType, PlanAssumption

(* Without overlap the difference is taken to the members that are there.  *)
LEMMA StepMembersAsSet ==
  ASSUME TypeOK, \A w \in Workers : ReadStands(w)
  PROVE  MembersAsSet
<1> USE DEF TypeOK
<1> SUFFICES ASSUME NEW w \in Workers, MembersCommit(w)
             PROVE  LET p == req[w].project  kept == req[w].members \cap projects[p].members IN
                      /\ projects'[p].members = req[w].members
                      /\ kept \cap (req[w].adds \cup req[w].removes) = {}
  BY DEF MembersAsSet
<1>1. req[w].project \in Projects
  BY ProjectAssumption DEF MembersCommit, Request, RequestOK
<1>2. /\ req[w].adds = req[w].members \ projects[req[w].project].members
      /\ req[w].removes = projects[req[w].project].members \ req[w].members
  BY DEF MembersCommit, ReadStands
<1> QED
  BY <1>1, <1>2 DEF MembersCommit

(* Requests that do not overlap keep their promises: no live money is      *)
(* erased, a creation keeps the limit, members are set as asked; and no    *)
(* request, overlapping or not, undoes a deletion.                         *)
THEOREM PromisesAreKept == Spec => RequestsKeepPromises
<1>1. ProjectsInv /\ [Next]_vars =>
        [/\ DeletedStaysDeleted
         /\ ~overlapped' => OnlyDeletedEntriesErased /\ CreationKeepsLimit /\ MembersAsSet]_vars
  <2> SUFFICES ASSUME ProjectsInv, Next
               PROVE  /\ DeletedStaysDeleted
                      /\ ~overlapped' => /\ OnlyDeletedEntriesErased
                                         /\ CreationKeepsLimit /\ MembersAsSet
    OBVIOUS
  <2> USE DEF ProjectsInv, ProjectsSound
  <2>1. DeletedStaysDeleted
    BY StepRowsKept DEF RowsKept
  <2>2. ASSUME ~overlapped'
        PROVE  OnlyDeletedEntriesErased /\ CreationKeepsLimit /\ MembersAsSet
    <3>1. \A w \in Workers : ReadStands(w)
      BY <2>2 DEF Next, ReadsStandApart
    <3>2. CASE UNCHANGED <<projects, entries>>
      BY <3>1, <3>2, StepMembersAsSet DEF OnlyDeletedEntriesErased, CreationKeepsLimit,
                                          DeletedStaysDeleted, TypeOK
    <3>3. ASSUME NEW w \in Workers, Writes(w)
          PROVE  OnlyDeletedEntriesErased /\ CreationKeepsLimit /\ MembersAsSet
      BY <3>1, <3>3, StepOnlyDeletedErased, StepCreationKeepsLimit, StepMembersAsSet
    <3> QED
      BY <3>2, <3>3, StepIsOne, ReadsChangeRequest DEF Next
  <2> QED
    BY <2>1, <2>2
<1>2. Spec => []ProjectsInv
  BY InitProjectsInv, StepProjectsInv, PTL DEF Spec
<1> QED
  BY <1>1, <1>2, PTL DEF Spec, RequestsKeepPromises

-----------------------------------------------------------------------------
(* Picking what a project is made from.                                    *)

PickerSpec == PickerInit /\ [][PickerNext]_pickerVars

Sections == BuiltIn \cup Smart

Asked == [section : Sections \cup {Groups}, q : Queries, page : {0, 1}, heard : BOOLEAN]

Rows == [section : Sections \cup {Groups}, q : Queries, page : {0, 1}]

Picker ==
  [kind : Kinds \cup {"none"}, sources : SUBSET Sections, reading : BOOLEAN,
   section : Sections \cup {NoSection, Groups}, q : Queries, rows : SUBSET Rows,
   loading : BOOLEAN, failed : BOOLEAN, more : BOOLEAN, asked : SUBSET Asked,
   calm : BOOLEAN, gone : SUBSET Sections, refused : SUBSET Sections]

OfChoice(p, x) == x.section = p.section /\ x.q = p.q

RowsRight(p) ==
  /\ \A row \in p.rows : OfChoice(p, row)
  /\ \E row \in p.rows : row.page = 0

(* The forms listen to the request of the choice there is and to no other, *)
(* and show its rows when it is answered.                                  *)
FormInTurn(p) ==
  p.kind # "bulk" =>
    /\ \A r \in p.asked : r.heard => OfChoice(p, r) /\ r.page = 0
    /\ p.section # NoSection /\ ~p.loading /\ ~p.failed => RowsRight(p)

(* The bulk import listens to every request; as long as they have neither  *)
(* overlapped nor failed there is one at most, that of the choice.         *)
BulkInTurn(p) ==
  p.kind = "bulk" =>
    /\ \A r \in p.asked : r.heard
    /\ p.section = NoSection => p.asked = {} /\ ~p.more
    /\ p.calm /\ p.asked = {} /\ p.section # NoSection => RowsRight(p)
    /\ p.calm /\ p.asked # {} =>
         /\ p.loading
         /\ \E r \in p.asked : /\ p.asked = {r} /\ OfChoice(p, r)
                               /\ r.page = 0 \/ RowsRight(p)

(* What is asked for was offered, and what was offered and is no source    *)
(* any more is remembered.                                                 *)
OffersRemembered(p, sources) ==
  /\ p.reading => p.sources = {}
  /\ p.section \in p.sources \cup {NoSection, Groups}
  /\ \A r \in p.asked : r.section \in p.sources \cup {Groups}
  /\ p.sources \ sources \subseteq p.gone
  /\ p.refused \subseteq p.gone

PickerGood(p, sources) ==
  p \in Picker /\ FormInTurn(p) /\ BulkInTurn(p) /\ OffersRemembered(p, sources)

Sources == BuiltIn \cup live \cup configured

PickerInv ==
  /\ live \subseteq Smart /\ configured \subseteq Smart
  /\ PickerGood(picker, Sources)

LEMMA PickerInvSound == PickerInv => PickerSound
<1> SUFFICES ASSUME PickerInv
             PROVE  PickerSound
  OBVIOUS
<1>1. picker \in Picker /\ FormInTurn(picker) /\ BulkInTurn(picker)
  BY DEF PickerInv, PickerGood
<1>2. OfferedCanBePicked
  BY DEF PickerInv, PickerGood, OffersRemembered, OfferedCanBePicked
<1>3. ItemsOfTheChoice
  BY <1>1 DEF ItemsOfTheChoice, FormInTurn, BulkInTurn, RowsRight, OfChoice
<1> QED BY <1>2, <1>3 DEF PickerSound

LEMMA NoPickerGood ==
  ASSUME NEW sources
  PROVE  /\ PickerGood(NoPicker, sources)
         /\ NoPicker \in Picker /\ NoPicker.asked = {} /\ NoPicker.sources = {}
         /\ NoPicker.section = NoSection /\ NoPicker.kind = "none" /\ NoPicker.refused = {}
         /\ NoPicker.calm /\ ~NoPicker.more /\ ~NoPicker.reading
<1>1. /\ NoPicker \in Picker /\ NoPicker.asked = {} /\ NoPicker.sources = {}
      /\ NoPicker.section = NoSection /\ NoPicker.kind = "none" /\ NoPicker.refused = {}
      /\ NoPicker.calm /\ ~NoPicker.more /\ ~NoPicker.reading
  BY PickerAssumption DEF NoPicker, Picker
<1> QED BY <1>1 DEF PickerGood, FormInTurn, BulkInTurn, OffersRemembered

(* A list is asked for: what was asked before is not listened to any more, *)
(* except by the bulk import, which is then not calm.                      *)
LEMMA FetchGood ==
  ASSUME NEW p \in Picker, NEW sources, NEW n \in {0, 1},
         p.section # NoSection, OffersRemembered(p, sources),
         p.kind = "bulk" => \A r \in p.asked : r.heard,
         n = 1 => p.kind = "bulk" /\ ~p.loading /\ BulkInTurn(p)
  PROVE  PickerGood(Fetch(p, n), sources)
<1> DEFINE new == [section |-> p.section, q |-> p.q, page |-> n, heard |-> TRUE]
           old == Overtaken(p)
           f == Fetch(p, n)
<1>1. /\ p.section \in Sections \cup {Groups} /\ p.q \in Queries /\ p.asked \in SUBSET Asked
      /\ p.kind \in Kinds \cup {"none"} /\ p.calm \in BOOLEAN
  BY DEF Picker
<1>2. /\ new \in Asked /\ new.section = p.section /\ new.q = p.q /\ new.page = n /\ new.heard
  BY <1>1 DEF Asked
<1>3. \A r \in p.asked : LET u == [r EXCEPT !.heard = FALSE] IN
        u \in Asked /\ u.section = r.section /\ ~u.heard
  BY <1>1 DEF Asked
<1>4. /\ old \in SUBSET Asked
      /\ \A r \in old : \E a \in p.asked : r.section = a.section
      /\ p.kind # "bulk" => \A r \in old : ~r.heard
      /\ p.kind = "bulk" => old = p.asked
  <2>1. CASE p.kind = "bulk"
    BY <2>1, <1>1 DEF Overtaken
  <2>2. CASE p.kind # "bulk"
    <3>1. old = {[r EXCEPT !.heard = FALSE] : r \in p.asked}
      BY <2>2 DEF Overtaken
    <3> HIDE DEF old
    <3> QED BY <2>2, <3>1, <1>3
  <2> QED BY <2>1, <2>2
<1> HIDE DEF new, old
<1>5. PICK calmly \in BOOLEAN :
        /\ calmly <=> p.asked = {} /\ (p.calm \/ n = 0)
        /\ f = [p EXCEPT !.loading = TRUE, !.failed = FALSE, !.calm = calmly, !.asked = old \cup {new}]
  <2>1. (p.asked = {} /\ (p.calm \/ n = 0)) \in BOOLEAN
    OBVIOUS
  <2> QED BY <2>1 DEF Fetch, old, new
<1> HIDE DEF f
<1>6. old \cup {new} \in SUBSET Asked
  BY <1>2, <1>4
<1>7. PICK asked \in SUBSET Asked : asked = old \cup {new}
  BY <1>6
<1>8. f = [p EXCEPT !.loading = TRUE, !.failed = FALSE, !.calm = calmly, !.asked = asked]
  BY <1>5, <1>7
<1>9. f \in Picker
  BY <1>8 DEF Picker
<1>10. /\ f.loading /\ f.asked = asked /\ f.calm = calmly
       /\ f.kind = p.kind /\ f.section = p.section /\ f.q = p.q /\ f.rows = p.rows
       /\ f.sources = p.sources /\ f.reading = p.reading /\ f.gone = p.gone /\ f.refused = p.refused
  BY <1>8 DEF Picker
<1>11. FormInTurn(f)
  <2> SUFFICES ASSUME p.kind # "bulk"
               PROVE  \A r \in asked : r.heard => OfChoice(f, r) /\ r.page = 0
    BY <1>10 DEF FormInTurn
  <2> QED BY <1>2, <1>4, <1>7, <1>10 DEF OfChoice
<1>12. BulkInTurn(f)
  <2> SUFFICES ASSUME p.kind = "bulk"
               PROVE  BulkInTurn(f)
    BY <1>10 DEF BulkInTurn
  <2>1. \A r \in asked : r.heard
    BY <1>2, <1>4, <1>7 DEF BulkInTurn
  <2>2. new \in asked /\ asked # {}
    BY <1>7
  <2>3. ASSUME calmly
        PROVE  \E r \in asked : /\ asked = {r} /\ OfChoice(f, r)
                                /\ r.page = 0 \/ RowsRight(f)
    <3>1. p.asked = {} /\ (p.calm \/ n = 0)
      BY <2>3, <1>5
    <3>2. asked = {new}
      BY <3>1, <1>4, <1>7
    <3>3. n = 0 \/ RowsRight(p)
      BY <3>1 DEF BulkInTurn
    <3>4. RowsRight(p) => RowsRight(f)
      BY <1>10 DEF RowsRight, OfChoice
    <3> QED BY <3>2, <3>3, <3>4, <1>2, <1>10 DEF OfChoice
  <2> QED BY <2>1, <2>2, <2>3, <1>10 DEF BulkInTurn
<1>13. OffersRemembered(f, sources)
  <2>1. p.section \in p.sources \cup {Groups}
    BY DEF OffersRemembered
  <2>2. \A r \in asked : r.section \in p.sources \cup {Groups}
    BY <2>1, <1>2, <1>4, <1>7 DEF OffersRemembered
  <2> QED BY <2>2, <1>10 DEF OffersRemembered
<1> QED BY <1>9, <1>11, <1>12, <1>13 DEF PickerGood, f

LEMMA PortalInv ==
  ASSUME PickerInv, NEW lives, NEW added, lives \subseteq Smart, added \subseteq Smart,
         Portal(lives, added)
  PROVE  PickerInv'
<1>1. /\ picker \in Picker /\ FormInTurn(picker) /\ BulkInTurn(picker)
      /\ OffersRemembered(picker, Sources)
  BY DEF PickerInv, PickerGood
<1> DEFINE lost == Gone(lives, added)
<1>2. lost \in SUBSET Sections
  BY <1>1 DEF Gone, Picker
<1>3. picker' = [picker EXCEPT !.gone = @ \cup lost] /\ live' = lives /\ configured' = added
  BY DEF Portal
<1>4. picker.sources \ Sources' \subseteq lost
  BY <1>3 DEF Gone, Sources
<1> HIDE DEF lost
<1>5. /\ picker' \in Picker /\ picker'.gone = picker.gone \cup lost
      /\ picker'.kind = picker.kind /\ picker'.asked = picker.asked
      /\ picker'.section = picker.section /\ picker'.q = picker.q /\ picker'.rows = picker.rows
      /\ picker'.loading = picker.loading /\ picker'.failed = picker.failed
      /\ picker'.more = picker.more /\ picker'.calm = picker.calm
      /\ picker'.sources = picker.sources /\ picker'.reading = picker.reading
      /\ picker'.refused = picker.refused
  BY <1>1, <1>2, <1>3 DEF Picker
<1>6. PICK p \in Picker : p = picker'
  BY <1>5
<1>7. FormInTurn(p) /\ BulkInTurn(p)
  BY <1>1, <1>5, <1>6 DEF FormInTurn, BulkInTurn, RowsRight, OfChoice
<1>8. OffersRemembered(p, Sources')
  BY <1>1, <1>4, <1>5, <1>6 DEF OffersRemembered
<1>9. PickerGood(picker', Sources')
  BY <1>6, <1>7, <1>8 DEF PickerGood
<1> QED BY <1>3, <1>9 DEF PickerInv, PickerGood, FormInTurn, BulkInTurn, OffersRemembered, RowsRight, OfChoice

(* A step of the list, with the portal as it is.                           *)
LEMMA ListInv ==
  ASSUME PickerInv, UNCHANGED <<live, configured>>, PickerGood(picker', Sources)
  PROVE  PickerInv'
<1>1. Sources' = Sources
  BY DEF Sources
<1>2. PICK p : p = picker' /\ PickerGood(p, Sources)
  OBVIOUS
<1>3. picker' \in Picker /\ PickerGood(p, Sources)'
  BY <1>1, <1>2 DEF PickerGood, FormInTurn, BulkInTurn, OffersRemembered, RowsRight, OfChoice
<1> QED BY <1>1, <1>2, <1>3 DEF PickerInv, PickerGood, FormInTurn, BulkInTurn, OffersRemembered, RowsRight, OfChoice

LEMMA OpenPickerInv ==
  ASSUME PickerInv, OpenPicker
  PROVE  PickerInv'
<1>1. UNCHANGED <<live, configured>>
  BY DEF OpenPicker
<1>2. PICK kind \in Kinds :
        picker' = IF kind = "groups" THEN Fetch([NoPicker EXCEPT !.kind = kind, !.section = Groups], 0)
                  ELSE [NoPicker EXCEPT !.kind = kind, !.reading = TRUE]
  BY DEF OpenPicker
<1>3. CASE kind = "groups"
  <2> DEFINE p == [NoPicker EXCEPT !.kind = kind, !.section = Groups]
  <2>1. /\ p \in Picker /\ p.kind = "groups" /\ p.section = Groups /\ p.asked = {}
        /\ p.sources = {} /\ p.refused = {} /\ ~p.reading
    <3>1. /\ NoPicker \in Picker /\ NoPicker.asked = {} /\ NoPicker.sources = {}
          /\ NoPicker.refused = {} /\ ~NoPicker.reading
      BY NoPickerGood
    <3>2. p \in Picker
      BY <3>1 DEF Picker
    <3>3. p.kind = "groups" /\ p.section = Groups
      BY <3>1, <1>3 DEF Picker
    <3> QED BY <3>1, <3>2, <3>3 DEF Picker
  <2> HIDE DEF p
  <2>2. OffersRemembered(p, Sources)
    BY <2>1 DEF OffersRemembered
  <2>3. Groups # NoSection
    BY PickerAssumption
  <2>4. PickerGood(Fetch(p, 0), Sources)
    BY <2>1, <2>2, <2>3, FetchGood
  <2> QED BY <1>1, <1>2, <1>3, <2>4, ListInv DEF p
<1>4. CASE kind # "groups"
  <2> DEFINE p == [NoPicker EXCEPT !.kind = kind, !.reading = TRUE]
  <2>1. /\ p \in Picker /\ p.section = NoSection /\ p.asked = {} /\ p.sources = {}
        /\ p.refused = {} /\ ~p.more
    BY NoPickerGood DEF Picker
  <2>2. p = picker'
    BY <1>2, <1>4
  <2> HIDE DEF p
  <2>3. FormInTurn(p) /\ BulkInTurn(p) /\ OffersRemembered(p, Sources)
    BY <2>1 DEF FormInTurn, BulkInTurn, OffersRemembered
  <2>4. PickerGood(p, Sources)
    BY <2>1, <2>3 DEF PickerGood
  <2> QED BY <1>1, <2>2, <2>4, ListInv
<1> QED BY <1>3, <1>4

LEMMA SourcesComeInv ==
  ASSUME PickerInv, SourcesCome
  PROVE  PickerInv'
<1>1. /\ picker \in Picker /\ FormInTurn(picker) /\ BulkInTurn(picker)
      /\ OffersRemembered(picker, Sources) /\ UNCHANGED <<live, configured>> /\ picker.reading
      /\ live \subseteq Smart /\ configured \subseteq Smart
  BY DEF PickerInv, PickerGood, SourcesCome
<1>2. PICK answers \in BOOLEAN :
        LET p == [picker EXCEPT !.reading = FALSE, !.sources = Offered(answers)] IN
          picker' = IF picker.kind = "crm" /\ picker.section = NoSection
                    THEN Fetch([p EXCEPT !.section = CHOOSE s \in BuiltIn : TRUE], 0)
                    ELSE p
  BY DEF SourcesCome
<1>3. PICK sources \in SUBSET Sections :
        sources = Offered(answers) /\ BuiltIn \subseteq sources /\ sources \subseteq Sources
  <2>1. /\ Offered(answers) \in SUBSET Sections /\ BuiltIn \subseteq Offered(answers)
        /\ Offered(answers) \subseteq Sources
    BY <1>1 DEF Offered, Listed, Sources, Sections
  <2> QED BY <2>1
<1> DEFINE p == [picker EXCEPT !.reading = FALSE, !.sources = sources]
<1>4. /\ p \in Picker /\ ~p.reading /\ p.sources = sources
      /\ p.gone = picker.gone
      /\ p.kind = picker.kind /\ p.asked = picker.asked
      /\ p.section = picker.section /\ p.q = picker.q /\ p.rows = picker.rows
      /\ p.loading = picker.loading /\ p.failed = picker.failed
      /\ p.more = picker.more /\ p.calm = picker.calm
      /\ p.refused = picker.refused
  BY <1>1 DEF Picker
<1>5. picker' = IF picker.kind = "crm" /\ picker.section = NoSection
                THEN Fetch([p EXCEPT !.section = CHOOSE s \in BuiltIn : TRUE], 0)
                ELSE p
  BY <1>2, <1>3
<1> HIDE DEF p
<1>6. FormInTurn(p) /\ BulkInTurn(p)
  BY <1>1, <1>4 DEF FormInTurn, BulkInTurn, RowsRight, OfChoice
<1>7. OffersRemembered(p, Sources)
  BY <1>1, <1>3, <1>4 DEF OffersRemembered
<1>8. CASE picker.kind = "crm" /\ picker.section = NoSection
  <2>1. PICK s \in BuiltIn : s = CHOOSE x \in BuiltIn : TRUE
    BY PickerAssumption
  <2> DEFINE f == [p EXCEPT !.section = s]
  <2>2. /\ f \in Picker /\ f.section = s /\ f.kind = "crm" /\ f.asked = p.asked
        /\ f.sources = p.sources /\ f.reading = p.reading /\ f.gone = p.gone
        /\ f.refused = p.refused
    BY <1>4, <1>8, <2>1 DEF Picker, Sections
  <2>3. picker' = Fetch(f, 0)
    BY <1>5, <1>8, <2>1
  <2>4. s # NoSection
    BY PickerAssumption, <2>1
  <2> HIDE DEF f
  <2>5. OffersRemembered(f, Sources)
    BY <1>3, <1>4, <1>7, <2>1, <2>2 DEF OffersRemembered
  <2>6. PickerGood(Fetch(f, 0), Sources)
    BY <2>2, <2>4, <2>5, FetchGood
  <2> QED BY <1>1, <2>3, <2>6, ListInv
<1>9. CASE ~(picker.kind = "crm" /\ picker.section = NoSection)
  <2>1. PickerGood(picker', Sources)
    BY <1>4, <1>5, <1>6, <1>7, <1>9 DEF PickerGood
  <2> QED BY <1>1, <2>1, ListInv
<1> QED BY <1>8, <1>9

LEMMA SourcesFailInv ==
  ASSUME PickerInv, SourcesFail
  PROVE  PickerInv'
<1>1. /\ picker \in Picker /\ FormInTurn(picker) /\ BulkInTurn(picker)
      /\ OffersRemembered(picker, Sources) /\ UNCHANGED <<live, configured>>
      /\ picker' = [picker EXCEPT !.reading = FALSE, !.failed = TRUE]
  BY DEF PickerInv, PickerGood, SourcesFail
<1>2. /\ picker' \in Picker /\ picker'.gone = picker.gone /\ picker'.failed /\ ~picker'.reading
      /\ picker'.kind = picker.kind /\ picker'.asked = picker.asked
      /\ picker'.section = picker.section /\ picker'.q = picker.q /\ picker'.rows = picker.rows
      /\ picker'.loading = picker.loading
      /\ picker'.more = picker.more /\ picker'.calm = picker.calm
      /\ picker'.sources = picker.sources
      /\ picker'.refused = picker.refused
  BY <1>1 DEF Picker
<1>3. FormInTurn(picker') /\ BulkInTurn(picker') /\ OffersRemembered(picker', Sources)
  BY <1>1, <1>2 DEF FormInTurn, BulkInTurn, OffersRemembered, RowsRight, OfChoice
<1> QED BY <1>1, <1>2, <1>3, ListInv DEF PickerGood

LEMMA ChooseSectionInv ==
  ASSUME PickerInv, ChooseSection
  PROVE  PickerInv'
<1>1. /\ picker \in Picker /\ BulkInTurn(picker)
      /\ OffersRemembered(picker, Sources) /\ UNCHANGED <<live, configured>>
  BY DEF PickerInv, PickerGood, ChooseSection
<1>2. PICK s \in picker.sources \cup {Groups} :
        s # picker.section /\ picker' = Fetch([picker EXCEPT !.section = s], 0)
  BY DEF ChooseSection
<1> DEFINE p == [picker EXCEPT !.section = s]
<1>3. s # NoSection /\ s \in Sections \cup {Groups}
  BY <1>1, PickerAssumption DEF Picker, Sections
<1>4. /\ p \in Picker /\ p.section = s
      /\ p.kind = picker.kind /\ p.asked = picker.asked /\ p.gone = picker.gone
      /\ p.q = picker.q /\ p.rows = picker.rows /\ p.calm = picker.calm
      /\ p.sources = picker.sources /\ p.reading = picker.reading /\ p.refused = picker.refused
      /\ p.loading = picker.loading
  BY <1>1, <1>3 DEF Picker
<1>5. picker' = Fetch(p, 0)
  BY <1>2
<1> HIDE DEF p
<1>6. OffersRemembered(p, Sources) /\ (p.kind = "bulk" => \A r \in p.asked : r.heard)
  BY <1>1, <1>2, <1>4 DEF OffersRemembered, BulkInTurn
<1>7. PickerGood(Fetch(p, 0), Sources)
  BY <1>3, <1>4, <1>6, FetchGood
<1> QED BY <1>1, <1>5, <1>7, ListInv

LEMMA TypeQueryInv ==
  ASSUME PickerInv, TypeQuery
  PROVE  PickerInv'
<1>1. /\ picker \in Picker /\ BulkInTurn(picker) /\ picker.section # NoSection
      /\ OffersRemembered(picker, Sources) /\ UNCHANGED <<live, configured>>
  BY DEF PickerInv, PickerGood, TypeQuery
<1>2. PICK q \in Queries : picker' = Fetch([picker EXCEPT !.q = q], 0)
  BY DEF TypeQuery
<1> DEFINE p == [picker EXCEPT !.q = q]
<1>4. /\ p \in Picker /\ p.section = picker.section
      /\ p.kind = picker.kind /\ p.asked = picker.asked /\ p.gone = picker.gone
      /\ p.rows = picker.rows /\ p.calm = picker.calm
      /\ p.sources = picker.sources /\ p.reading = picker.reading /\ p.refused = picker.refused
  BY <1>1 DEF Picker
<1>5. picker' = Fetch(p, 0)
  BY <1>2
<1> HIDE DEF p
<1>6. OffersRemembered(p, Sources) /\ (p.kind = "bulk" => \A r \in p.asked : r.heard)
  BY <1>1, <1>4 DEF OffersRemembered, BulkInTurn
<1>7. PickerGood(Fetch(p, 0), Sources)
  BY <1>1, <1>4, <1>6, FetchGood
<1> QED BY <1>1, <1>5, <1>7, ListInv

LEMMA ShowMoreInv ==
  ASSUME PickerInv, ShowMore
  PROVE  PickerInv'
<1>1. /\ picker \in Picker /\ BulkInTurn(picker) /\ picker.kind = "bulk" /\ picker.more
      /\ ~picker.loading /\ OffersRemembered(picker, Sources)
      /\ UNCHANGED <<live, configured>> /\ picker' = Fetch(picker, 1)
  BY DEF PickerInv, PickerGood, ShowMore
<1>2. picker.section # NoSection
  BY <1>1 DEF BulkInTurn
<1>3. PickerGood(Fetch(picker, 1), Sources)
  BY <1>1, <1>2, FetchGood DEF BulkInTurn
<1> QED BY <1>1, <1>3, ListInv

LEMMA LeaveSectionInv ==
  ASSUME PickerInv, LeaveSection
  PROVE  PickerInv'
<1>1. /\ picker \in Picker /\ picker.kind = "crm" /\ OffersRemembered(picker, Sources)
      /\ UNCHANGED <<live, configured>>
  BY DEF PickerInv, PickerGood, LeaveSection
<1>2. PICK left \in SUBSET Asked :
        /\ \A r \in left : ~r.heard /\ \E a \in picker.asked : r.section = a.section
        /\ picker' = [picker EXCEPT !.section = NoSection, !.asked = left]
  <2> DEFINE left == {[r EXCEPT !.heard = FALSE] : r \in picker.asked}
  <2>1. picker' = [picker EXCEPT !.section = NoSection, !.asked = left]
    BY <1>1 DEF LeaveSection, Overtaken
  <2>2. \A r \in picker.asked : r \in Asked
    BY <1>1 DEF Picker
  <2>3. \A r \in picker.asked : LET u == [r EXCEPT !.heard = FALSE] IN
          u \in Asked /\ u.section = r.section /\ ~u.heard
    BY <2>2 DEF Asked
  <2>4. /\ left \in SUBSET Asked
        /\ \A r \in left : ~r.heard /\ \E a \in picker.asked : r.section = a.section
    BY <2>3
  <2> HIDE DEF left
  <2> QED BY <2>1, <2>4
<1>3. /\ picker' \in Picker /\ picker'.section = NoSection /\ picker'.asked = left
      /\ picker'.gone = picker.gone /\ picker'.kind = picker.kind
      /\ picker'.sources = picker.sources /\ picker'.reading = picker.reading
      /\ picker'.refused = picker.refused
  BY <1>1, <1>2 DEF Picker
<1>4. FormInTurn(picker') /\ BulkInTurn(picker') /\ OffersRemembered(picker', Sources)
  BY <1>1, <1>2, <1>3 DEF FormInTurn, BulkInTurn, OffersRemembered
<1> QED BY <1>1, <1>3, <1>4, ListInv DEF PickerGood

(* What an answer changes of a list before its rows are looked at.         *)
LEMMA AnsweredIs ==
  ASSUME PickerInv, NEW r \in picker.asked
  PROVE  LET p == Answered(r) IN
         /\ p \in Picker /\ r \in Asked
         /\ p.asked = picker.asked \ {r}
         /\ r.heard => ~p.loading
         /\ ~r.heard => p.loading = picker.loading
         /\ p.kind = picker.kind /\ p.section = picker.section /\ p.q = picker.q
         /\ p.rows = picker.rows /\ p.failed = picker.failed /\ p.more = picker.more
         /\ p.calm = picker.calm /\ p.gone = picker.gone /\ p.refused = picker.refused
         /\ p.sources = picker.sources /\ p.reading = picker.reading
<1>1. picker \in Picker /\ r \in Asked
  BY DEF PickerInv, PickerGood, Picker
<1>2. PICK asked \in SUBSET Asked, loading \in BOOLEAN :
        /\ asked = picker.asked \ {r}
        /\ r.heard => ~loading
        /\ ~r.heard => loading = picker.loading
        /\ Answered(r) = [picker EXCEPT !.asked = asked, !.loading = loading]
  <2>1. picker.asked \ {r} \in SUBSET Asked /\ picker.loading \in BOOLEAN /\ r.heard \in BOOLEAN
    BY <1>1 DEF Picker, Asked
  <2>2. CASE r.heard
    BY <2>1, <2>2, <1>1 DEF Answered, Picker
  <2>3. CASE ~r.heard
    BY <2>1, <2>3, <1>1 DEF Answered, Picker
  <2> QED BY <2>1, <2>2, <2>3
<1> QED BY <1>1, <1>2 DEF Picker

(* An answer nobody listens to changes nothing that is shown; only the     *)
(* forms have such.                                                        *)
LEMMA UnheardGood ==
  ASSUME PickerInv, NEW r \in picker.asked, ~r.heard
  PROVE  PickerGood(Answered(r), Sources)
<1> DEFINE p == Answered(r)
<1>1. /\ FormInTurn(picker) /\ BulkInTurn(picker) /\ OffersRemembered(picker, Sources)
  BY DEF PickerInv, PickerGood
<1>2. /\ p \in Picker /\ p.asked = picker.asked \ {r} /\ p.loading = picker.loading
      /\ p.kind = picker.kind /\ p.section = picker.section /\ p.q = picker.q
      /\ p.rows = picker.rows /\ p.failed = picker.failed
      /\ p.gone = picker.gone /\ p.refused = picker.refused
      /\ p.sources = picker.sources /\ p.reading = picker.reading
  BY AnsweredIs
<1> HIDE DEF p
<1>3. p.kind # "bulk"
  BY <1>1, <1>2 DEF BulkInTurn
<1>4. FormInTurn(p) /\ BulkInTurn(p) /\ OffersRemembered(p, Sources)
  BY <1>1, <1>2, <1>3 DEF FormInTurn, BulkInTurn, OffersRemembered, RowsRight, OfChoice
<1> QED BY <1>2, <1>4 DEF PickerGood, p

LEMMA ItemsComeInv ==
  ASSUME PickerInv, ItemsCome
  PROVE  PickerInv'
<1>1. /\ picker \in Picker /\ FormInTurn(picker) /\ BulkInTurn(picker)
      /\ OffersRemembered(picker, Sources) /\ UNCHANGED <<live, configured>>
  BY DEF PickerInv, PickerGood, ItemsCome
<1>2. PICK r \in picker.asked, full \in BOOLEAN :
        LET row == [section |-> r.section, q |-> r.q, page |-> r.page]
            heard == [Answered(r) EXCEPT !.rows = IF r.page = 0 THEN {row} ELSE @ \cup {row},
                                         !.more = full /\ r.page = 0 /\ r.section # Groups] IN
          picker' = IF r.heard THEN heard ELSE Answered(r)
  BY DEF ItemsCome
<1>3. CASE ~r.heard
  BY <1>1, <1>2, <1>3, UnheardGood, ListInv
<1>4. CASE r.heard
  <2> DEFINE p == Answered(r)
             row == [section |-> r.section, q |-> r.q, page |-> r.page]
             f == picker'
  <2>1. /\ p \in Picker /\ r \in Asked /\ p.asked = picker.asked \ {r} /\ ~p.loading
        /\ p.kind = picker.kind /\ p.section = picker.section /\ p.q = picker.q
        /\ p.rows = picker.rows /\ p.calm = picker.calm
        /\ p.gone = picker.gone /\ p.refused = picker.refused
        /\ p.sources = picker.sources /\ p.reading = picker.reading
    BY <1>4, AnsweredIs
  <2>2. row \in Rows /\ row.section = r.section /\ row.q = r.q /\ row.page = r.page
    BY <2>1 DEF Asked, Rows
  <2>3. PICK more \in BOOLEAN, rows \in SUBSET Rows :
          /\ rows = IF r.page = 0 THEN {row} ELSE picker.rows \cup {row}
          /\ f = [p EXCEPT !.rows = rows, !.more = more]
    <3>1. f = [p EXCEPT !.rows = IF r.page = 0 THEN {row} ELSE @ \cup {row},
                        !.more = full /\ r.page = 0 /\ r.section # Groups]
      BY <1>2, <1>4
    <3>2. (full /\ r.page = 0 /\ r.section # Groups) \in BOOLEAN
      OBVIOUS
    <3>3. (IF r.page = 0 THEN {row} ELSE picker.rows \cup {row}) \in SUBSET Rows
      BY <1>1, <2>2 DEF Picker
    <3> HIDE DEF p, row, f
    <3>4. f = [p EXCEPT !.rows = IF r.page = 0 THEN {row} ELSE picker.rows \cup {row},
                        !.more = full /\ r.page = 0 /\ r.section # Groups]
      BY <2>1, <3>1
    <3> QED BY <3>2, <3>3, <3>4
  <2> HIDE DEF p, row, f
  <2>4. /\ f \in Picker /\ f.rows = rows /\ f.asked = p.asked /\ f.more = more
        /\ f.loading = p.loading
        /\ f.kind = p.kind /\ f.section = p.section /\ f.q = p.q /\ f.calm = p.calm
        /\ f.gone = p.gone /\ f.refused = p.refused
        /\ f.sources = p.sources /\ f.reading = p.reading
    BY <2>1, <2>3 DEF Picker
  <2>5. OfChoice(picker, r) /\ (r.page = 0 \/ RowsRight(picker)) => RowsRight(f)
    <3> SUFFICES ASSUME OfChoice(picker, r), r.page = 0 \/ RowsRight(picker)
                 PROVE  RowsRight(f)
      OBVIOUS
    <3>1. CASE r.page = 0
      BY <2>1, <2>2, <2>3, <2>4, <3>1 DEF RowsRight, OfChoice
    <3>2. CASE r.page # 0
      BY <2>1, <2>2, <2>3, <2>4, <3>2 DEF RowsRight, OfChoice
    <3> QED BY <3>1, <3>2
  <2>6. FormInTurn(f)
    <3> SUFFICES ASSUME picker.kind # "bulk"
                 PROVE  FormInTurn(f)
      BY <2>1, <2>4 DEF FormInTurn
    <3>1. RowsRight(f)
      BY <1>1, <1>4, <2>5 DEF FormInTurn
    <3> QED BY <1>1, <2>1, <2>4, <3>1 DEF FormInTurn, OfChoice
  <2>7. BulkInTurn(f)
    <3> SUFFICES ASSUME picker.kind = "bulk"
                 PROVE  BulkInTurn(f)
      BY <2>1, <2>4 DEF BulkInTurn
    <3>1. picker.section # NoSection
      BY <1>1 DEF BulkInTurn
    <3>2. picker.calm => f.asked = {} /\ RowsRight(f)
      BY <1>1, <2>1, <2>4, <2>5 DEF BulkInTurn
    <3> QED BY <1>1, <2>1, <2>4, <3>1, <3>2 DEF BulkInTurn
  <2>8. OffersRemembered(f, Sources)
    BY <1>1, <2>1, <2>4 DEF OffersRemembered
  <2>9. PickerGood(picker', Sources)
    BY <2>4, <2>6, <2>7, <2>8 DEF PickerGood, f
  <2> QED BY <1>1, <2>9, ListInv
<1> QED BY <1>3, <1>4

(* A request that failed, or was refused because of "more".                *)
LEMMA FailedGood ==
  ASSUME PickerInv, NEW r \in picker.asked, NEW refused \in SUBSET Sections,
         refused \subseteq picker.gone
  PROVE  PickerGood([Failed(Answered(r), r) EXCEPT !.refused = refused], Sources)
<1>1. /\ picker \in Picker /\ FormInTurn(picker) /\ BulkInTurn(picker)
      /\ OffersRemembered(picker, Sources)
  BY DEF PickerInv, PickerGood
<1> DEFINE p == Answered(r)
           f == [Failed(p, r) EXCEPT !.refused = refused]
<1>2. /\ p \in Picker /\ p.asked = picker.asked \ {r}
      /\ ~r.heard => p.loading = picker.loading /\ p.failed = picker.failed
      /\ p.kind = picker.kind /\ p.section = picker.section /\ p.q = picker.q
      /\ p.rows = picker.rows /\ p.more = picker.more
      /\ p.gone = picker.gone
      /\ p.sources = picker.sources /\ p.reading = picker.reading
  BY AnsweredIs
<1> HIDE DEF p
<1>3. /\ f \in Picker /\ f.refused = refused
      /\ f.asked = p.asked /\ f.kind = p.kind /\ f.section = p.section /\ f.q = p.q
      /\ f.rows = p.rows /\ f.more = p.more /\ f.loading = p.loading
      /\ f.gone = p.gone /\ f.sources = p.sources /\ f.reading = p.reading
      /\ r.heard => f.failed /\ ~f.calm
      /\ ~r.heard => f.failed = p.failed
  BY <1>2 DEF Failed, Picker
<1> HIDE DEF f
<1>4. FormInTurn(f)
  <2> SUFFICES ASSUME picker.kind # "bulk"
               PROVE  FormInTurn(f)
    BY <1>2, <1>3 DEF FormInTurn
  <2>1. \A a \in f.asked : a.heard => OfChoice(f, a) /\ a.page = 0
    BY <1>1, <1>2, <1>3 DEF FormInTurn, OfChoice
  <2>2. f.section # NoSection /\ ~f.loading /\ ~f.failed => RowsRight(f)
    BY <1>1, <1>2, <1>3 DEF FormInTurn, RowsRight, OfChoice
  <2> QED BY <2>1, <2>2 DEF FormInTurn
<1>5. BulkInTurn(f)
  BY <1>1, <1>2, <1>3 DEF BulkInTurn
<1>6. OffersRemembered(f, Sources)
  BY <1>1, <1>2, <1>3 DEF OffersRemembered
<1> QED BY <1>3, <1>4, <1>5, <1>6 DEF PickerGood, f, p

LEMMA FailuresInv ==
  ASSUME PickerInv, SectionRefused \/ ItemsFail
  PROVE  PickerInv'
<1>1. /\ picker \in Picker /\ OffersRemembered(picker, Sources) /\ UNCHANGED <<live, configured>>
  BY DEF PickerInv, PickerGood, SectionRefused, ItemsFail
<1>2. picker.refused \in SUBSET Sections /\ picker.refused \subseteq picker.gone
  BY <1>1 DEF Picker, OffersRemembered
<1>3. CASE SectionRefused
  <2>1. PICK r \in picker.asked, answers \in BOOLEAN :
          /\ r.section # Groups /\ r.section \notin Importable(answers)
          /\ picker' = [Failed(Answered(r), r) EXCEPT
                          !.refused = IF answers THEN @ \cup {r.section} ELSE @]
    BY <1>3 DEF SectionRefused
  <2>2. Failed(Answered(r), r) \in Picker /\ Failed(Answered(r), r).refused = picker.refused
    <3>1. Answered(r) \in Picker /\ Answered(r).refused = picker.refused
      BY AnsweredIs
    <3> QED BY <3>1 DEF Failed, Picker
  <2> DEFINE refused == IF answers THEN picker.refused \cup {r.section} ELSE picker.refused
  <2>3. picker' = [Failed(Answered(r), r) EXCEPT !.refused = refused]
    <3> DEFINE p == Failed(Answered(r), r)
    <3>1. p \in Picker /\ p.refused = picker.refused
          /\ picker' = [p EXCEPT !.refused = IF answers THEN @ \cup {r.section} ELSE @]
      BY <2>1, <2>2
    <3> HIDE DEF p
    <3>2. picker' = [p EXCEPT !.refused = refused]
      BY <3>1
    <3> QED BY <3>2 DEF p
  <2>4. refused \in SUBSET Sections /\ refused \subseteq picker.gone
    <3>1. r.section \in picker.sources /\ picker.sources \in SUBSET Sections
      BY <1>1, <2>1 DEF OffersRemembered, Picker
    <3>2. answers => r.section \notin Sources
      BY <2>1 DEF Importable, Listed, Sources
    <3>3. answers => r.section \in picker.gone
      BY <1>1, <3>1, <3>2 DEF OffersRemembered
    <3> QED BY <1>2, <3>1, <3>3
  <2> HIDE DEF refused
  <2> QED BY <1>1, <2>3, <2>4, FailedGood, ListInv
<1>4. CASE ItemsFail
  <2>1. PICK r \in picker.asked : picker' = Failed(Answered(r), r)
    BY <1>4 DEF ItemsFail
  <2>2. Failed(Answered(r), r) \in Picker /\ Failed(Answered(r), r).refused = picker.refused
    <3>1. Answered(r) \in Picker /\ Answered(r).refused = picker.refused
      BY AnsweredIs
    <3> QED BY <3>1 DEF Failed, Picker
  <2>3. picker' = [Failed(Answered(r), r) EXCEPT !.refused = picker.refused]
    BY <2>1, <2>2 DEF Picker
  <2> QED BY <1>1, <1>2, <2>3, FailedGood, ListInv
<1> QED BY <1>3, <1>4

LEMMA PickerInitInv == PickerInit => PickerInv
BY NoPickerGood DEF PickerInit, PickerInv

LEMMA PickerStep == PickerInv /\ [PickerNext]_pickerVars => PickerInv'
<1> SUFFICES ASSUME PickerInv, [PickerNext]_pickerVars
             PROVE  PickerInv'
  OBVIOUS
<1>1. live \subseteq Smart /\ configured \subseteq Smart
  BY DEF PickerInv
<1>2. CASE CreateType
  BY <1>1, <1>2, PortalInv DEF CreateType
<1>3. CASE DeleteType
  BY <1>1, <1>3, PortalInv DEF DeleteType
<1>4. CASE AddImportSource
  BY <1>1, <1>4, PortalInv DEF AddImportSource
<1>5. CASE RemoveImportSource
  BY <1>1, <1>5, PortalInv DEF RemoveImportSource
<1>6. CASE ClosePicker
  BY <1>6, NoPickerGood, ListInv DEF ClosePicker
<1>7. CASE SaveRole \/ UNCHANGED pickerVars
  <2>1. UNCHANGED <<live, configured, picker>>
    BY <1>7 DEF SaveRole, pickerVars
  <2> QED BY <2>1, ListInv DEF PickerInv
<1> QED BY <1>2, <1>3, <1>4, <1>5, <1>6, <1>7, OpenPickerInv, SourcesComeInv, SourcesFailInv,
           ChooseSectionInv, LeaveSectionInv, TypeQueryInv, ShowMoreInv, ItemsComeInv, FailuresInv
        DEF PickerNext

(* What a picker shows is what was chosen and can be picked, however many  *)
(* sections, searches and requests there are.                              *)
THEOREM PickerIsSound == PickerSpec => []PickerSound
<1> QED BY PickerInitInv, PickerStep, PickerInvSound, PTL DEF PickerSpec

-----------------------------------------------------------------------------
(* Many projects made at once.                                             *)

ImportSpec == ImportInit /\ [][ImportNext]_importVars

Page ==
  [pc : {"closed", "open", "running"}, reading : {"no", "asked", "read"}, answer : SUBSET Picks,
   linked : SUBSET Picks, picked : SUBSET Picks, text : SUBSET Lines,
   run : {"none", "bitrix", "list"}, asked : SUBSET Drafts, left : SUBSET Drafts,
   at : Drafts \cup {"none"}, done : SUBSET Drafts, failed : BOOLEAN]

ImportTypeOK == made \in [Drafts -> Nat] /\ page \in Page

(* What the page made itself in this run, as far as it was answered.       *)
Own == page.done \cup {page.at}

RunSound ==
  /\ page.pc # "running" =>
       page.left = {} /\ page.at = "none" /\ page.done = {} /\ page.run = "none" /\ page.asked = {}
  /\ page.pc = "closed" => page = NoImport
  /\ page.left \cup page.done \subseteq page.asked
  /\ page.at \in page.asked \cup {"none"}
  /\ page.run = "bitrix" => page.asked \subseteq Picks
  /\ page.run = "list" => page.asked \subseteq Lines
  /\ page.pc = "running" => page.run # "none"

(* Nothing that failed means that everything asked for is being made.      *)
RunAccounted == ~page.failed => page.asked \subseteq page.left \cup Own

(* Of the elements that have projects the page knows, made them itself, or *)
(* is excused.                                                             *)
KnowsMade ==
  /\ page.pc # "closed" /\ page.reading = "no" =>
       \A d \in Picks : made[d] > 0 => d \in page.linked \cup Own \cup excused
  /\ page.reading = "read" =>
       \A d \in Picks : made[d] > 0 => d \in page.answer \cup page.linked \cup Own \cup excused

PickedUnmade == \A d \in page.picked : made[d] > 0 => d \in Own \cup excused

TextUnmade ==
  \A l \in page.text : made[l] > 0 =>
    l \in excused \/ (page.run = "list" /\ l \in page.asked \ page.left)

LeftUnmade == \A d \in page.left : made[d] > 0 => d \in excused

ImportInv ==
  /\ ImportTypeOK /\ RunSound /\ RunAccounted
  /\ KnowsMade /\ PickedUnmade /\ TextUnmade /\ LeftUnmade
  /\ \A d \in Drafts : OneProjectEach(d)

LEMMA ImportInitInv == ImportInit => ImportInv
<1> SUFFICES ASSUME ImportInit
             PROVE  ImportInv
  OBVIOUS
<1>1. page = NoImport /\ NoImport \in Page
  BY DEF ImportInit, NoImport, Page
<1>2. /\ page.pc = "closed" /\ page.reading = "no" /\ page.picked = {} /\ page.text = {}
      /\ page.run = "none" /\ page.asked = {} /\ page.left = {} /\ page.at = "none" /\ page.done = {}
  BY <1>1 DEF NoImport
<1>3. \A d \in Drafts : made[d] = 0
  BY DEF ImportInit
<1>4. ImportTypeOK
  BY <1>1 DEF ImportInit, ImportTypeOK
<1>5. RunSound /\ RunAccounted
  BY <1>1, <1>2 DEF RunSound, RunAccounted
<1>6. KnowsMade /\ PickedUnmade /\ TextUnmade /\ LeftUnmade
  BY <1>2 DEF KnowsMade, PickedUnmade, TextUnmade, LeftUnmade
<1> QED BY <1>3, <1>4, <1>5, <1>6 DEF ImportInv, OneProjectEach

LEMMA SomebodyMakesInv ==
  ASSUME ImportInv, SomebodyMakes
  PROVE  ImportInv'
<1>1. /\ made \in [Drafts -> Nat] /\ page \in Page /\ RunSound /\ page' = page
  BY DEF ImportInv, ImportTypeOK, SomebodyMakes
<1>2. PICK d \in Picks :
        /\ made' = [made EXCEPT ![d] = @ + 1]
        /\ excused' = IF made[d] = 0 /\ (page.pc = "closed" \/ (page.reading = "asked" /\ d \notin page.picked \cup page.left))
                       THEN excused ELSE excused \cup {d}
  BY DEF SomebodyMakes
<1>3. /\ made' \in [Drafts -> Nat] /\ d \in Drafts /\ made[d] \in Nat /\ made'[d] = made[d] + 1
      /\ \A e \in Drafts : e # d => made'[e] = made[e]
      /\ excused \subseteq excused'
      /\ d \in excused' \/ (made[d] = 0 /\ (page.pc = "closed" \/ (page.reading = "asked" /\ d \notin page.picked \cup page.left)))
  <2>1. d \in Drafts /\ made[d] \in Nat
    BY <1>1 DEF Drafts
  <2>2. /\ made' \in [Drafts -> Nat] /\ made'[d] = made[d] + 1
        /\ \A e \in Drafts : e # d => made'[e] = made[e]
    BY <1>1, <1>2, <2>1
  <2>3. /\ excused \subseteq excused'
        /\ d \in excused' \/ (made[d] = 0 /\ (page.pc = "closed" \/ (page.reading = "asked" /\ d \notin page.picked \cup page.left)))
    BY <1>2
  <2> QED BY <2>1, <2>2, <2>3
<1>4. page.left \subseteq Drafts /\ page.picked \subseteq Picks /\ page.text \subseteq Lines
  BY <1>1 DEF Page
<1>5. ImportTypeOK' /\ RunSound' /\ RunAccounted'
  BY <1>1, <1>3 DEF ImportInv, ImportTypeOK, RunSound, RunAccounted, Own
<1>6. KnowsMade'
  <2>1. ASSUME NEW e \in Picks, made'[e] > 0, page.pc # "closed", page.reading # "asked"
        PROVE  made[e] > 0 \/ e \in excused'
    BY <1>3, <2>1 DEF Drafts
  <2> QED BY <1>1, <1>3, <2>1 DEF ImportInv, KnowsMade, RunSound, NoImport, Own
<1>7. PickedUnmade'
  <2> SUFFICES ASSUME NEW e \in page.picked, made'[e] > 0
               PROVE  e \in Own \cup excused'
    BY <1>1 DEF PickedUnmade, Own
  <2>1. CASE e = d /\ d \notin excused'
    <3>1. page.pc = "closed" /\ page.picked = {}
      BY <1>1, <1>3, <2>1 DEF RunSound, NoImport
    <3> QED BY <3>1
  <2> QED BY <1>3, <1>4, <2>1 DEF ImportInv, PickedUnmade, Drafts
<1>8. TextUnmade'
  <2>1. \A l \in page.text : l # d /\ l \in Drafts
    BY <1>2, <1>4, ImportAssumption DEF Drafts
  <2> QED BY <1>1, <1>3, <2>1 DEF ImportInv, TextUnmade
<1>9. LeftUnmade'
  <2> SUFFICES ASSUME NEW e \in page.left, made'[e] > 0
               PROVE  e \in excused'
    BY <1>1 DEF LeftUnmade
  <2>1. CASE e = d /\ d \notin excused'
    BY <1>1, <1>3, <2>1 DEF RunSound
  <2> QED BY <1>3, <1>4, <2>1 DEF ImportInv, LeftUnmade
<1>10. \A e \in Drafts : OneProjectEach(e)'
  BY <1>3 DEF ImportInv, OneProjectEach
<1> QED BY <1>5, <1>6, <1>7, <1>8, <1>9, <1>10 DEF ImportInv, Drafts

LEMMA OpenImportInv ==
  ASSUME ImportInv, OpenImport
  PROVE  ImportInv'
<1>1. page' = [NoImport EXCEPT !.pc = "open", !.reading = "asked"] /\ UNCHANGED <<made, excused>>
  BY DEF OpenImport
<1>2. /\ page' \in Page /\ page'.pc = "open" /\ page'.reading = "asked" /\ page'.picked = {}
      /\ page'.text = {} /\ page'.run = "none" /\ page'.asked = {} /\ page'.left = {}
      /\ page'.at = "none" /\ page'.done = {}
  BY <1>1 DEF NoImport, Page
<1>3. ImportTypeOK' /\ RunSound' /\ RunAccounted'
  BY <1>1, <1>2 DEF ImportInv, ImportTypeOK, RunSound, RunAccounted
<1>4. KnowsMade' /\ PickedUnmade' /\ TextUnmade' /\ LeftUnmade'
  BY <1>2 DEF KnowsMade, PickedUnmade, TextUnmade, LeftUnmade
<1> QED BY <1>1, <1>3, <1>4 DEF ImportInv, OneProjectEach

LEMMA CloseImportInv ==
  ASSUME ImportInv, CloseImport
  PROVE  ImportInv'
<1>1. page' = NoImport /\ UNCHANGED <<made, excused>>
  BY DEF CloseImport
<1>2. /\ page' \in Page /\ page'.pc = "closed" /\ page'.reading = "no" /\ page'.picked = {}
      /\ page'.text = {} /\ page'.run = "none" /\ page'.asked = {} /\ page'.left = {}
      /\ page'.at = "none" /\ page'.done = {}
  BY <1>1 DEF NoImport, Page
<1>3. ImportTypeOK' /\ RunSound' /\ RunAccounted'
  BY <1>1, <1>2 DEF ImportInv, ImportTypeOK, RunSound, RunAccounted
<1>4. KnowsMade' /\ PickedUnmade' /\ TextUnmade' /\ LeftUnmade'
  BY <1>2 DEF KnowsMade, PickedUnmade, TextUnmade, LeftUnmade
<1> QED BY <1>1, <1>3, <1>4 DEF ImportInv, OneProjectEach

LEMMA ReadLinkedInv ==
  ASSUME ImportInv, ReadLinked
  PROVE  ImportInv'
<1>1. /\ page \in Page /\ RunSound /\ page.reading = "asked" /\ UNCHANGED <<made, excused>>
      /\ page' = [page EXCEPT !.reading = "read", !.answer = Linked]
  BY DEF ImportInv, ImportTypeOK, ReadLinked
<1>2. Linked \in SUBSET Picks
  BY DEF Linked
<1>3. /\ page' \in Page /\ page'.reading = "read" /\ page'.answer = Linked
      /\ page'.pc = page.pc /\ page'.linked = page.linked /\ page'.picked = page.picked
      /\ page'.text = page.text /\ page'.run = page.run /\ page'.asked = page.asked
      /\ page'.left = page.left /\ page'.at = page.at /\ page'.done = page.done
      /\ page'.failed = page.failed
  BY <1>1, <1>2 DEF Page
<1>4. page.pc # "closed"
  BY <1>1 DEF RunSound, NoImport
<1>5. ImportTypeOK' /\ RunSound' /\ RunAccounted'
  BY <1>1, <1>3, <1>4 DEF ImportInv, ImportTypeOK, RunSound, RunAccounted, Own
<1>6. KnowsMade'
  BY <1>1, <1>3 DEF KnowsMade, Linked
<1>7. PickedUnmade' /\ TextUnmade' /\ LeftUnmade'
  BY <1>1, <1>3 DEF ImportInv, PickedUnmade, TextUnmade, LeftUnmade, Own
<1> QED BY <1>1, <1>5, <1>6, <1>7 DEF ImportInv, OneProjectEach

LEMMA LinkedComeInv ==
  ASSUME ImportInv, LinkedCome
  PROVE  ImportInv'
<1>1. /\ page \in Page /\ RunSound /\ page.reading = "read" /\ UNCHANGED made
      /\ page' = [page EXCEPT !.reading = "no", !.answer = {}, !.linked = page.answer]
      /\ excused' = excused \cup (page.linked \ page.answer)
  BY DEF ImportInv, ImportTypeOK, LinkedCome
<1>2. /\ page' \in Page /\ page'.reading = "no" /\ page'.linked = page.answer
      /\ page'.pc = page.pc /\ page'.picked = page.picked
      /\ page'.text = page.text /\ page'.run = page.run /\ page'.asked = page.asked
      /\ page'.left = page.left /\ page'.at = page.at /\ page'.done = page.done
      /\ page'.failed = page.failed
  BY <1>1 DEF Page
<1>3. page.pc # "closed"
  BY <1>1 DEF RunSound, NoImport
<1>4. ImportTypeOK' /\ RunSound' /\ RunAccounted'
  BY <1>1, <1>2, <1>3 DEF ImportInv, ImportTypeOK, RunSound, RunAccounted, Own
<1>5. KnowsMade'
  BY <1>1, <1>2 DEF ImportInv, KnowsMade, Own
<1>6. PickedUnmade' /\ TextUnmade' /\ LeftUnmade'
  BY <1>1, <1>2 DEF ImportInv, PickedUnmade, TextUnmade, LeftUnmade, Own
<1> QED BY <1>1, <1>4, <1>5, <1>6 DEF ImportInv, OneProjectEach

LEMMA ToggleInv ==
  ASSUME ImportInv, Toggle
  PROVE  ImportInv'
<1>1. /\ page \in Page /\ RunSound /\ page.pc # "closed" /\ UNCHANGED made
      /\ made \in [Drafts -> Nat]
  BY DEF ImportInv, ImportTypeOK, Toggle
<1>2. PICK d \in Picks : /\ d \notin page.linked
                         /\ page' = [page EXCEPT !.picked = Toggled(@, d)]
                         /\ excused' = IF page.reading # "no" /\ made[d] > 0 THEN excused \cup {d} ELSE excused
  BY DEF Toggle, Pickable
<1> DEFINE picked == Toggled(page.picked, d)
<1>3. picked \in SUBSET Picks /\ picked \subseteq page.picked \cup {d}
  BY <1>1 DEF Toggled, Page
<1>4. page' = [page EXCEPT !.picked = picked]
  BY <1>1, <1>2 DEF Page
<1> HIDE DEF picked
<1>5. /\ page' \in Page /\ page'.reading = page.reading /\ page'.linked = page.linked
      /\ page'.pc = page.pc /\ page'.picked = picked /\ page'.answer = page.answer
      /\ page'.text = page.text /\ page'.run = page.run /\ page'.asked = page.asked
      /\ page'.left = page.left /\ page'.at = page.at /\ page'.done = page.done
      /\ page'.failed = page.failed
  BY <1>1, <1>3, <1>4 DEF Page
<1>6. excused \subseteq excused' /\ (made[d] > 0 /\ page.reading # "no" => d \in excused')
  BY <1>2
<1>7. ImportTypeOK' /\ RunSound' /\ RunAccounted'
  BY <1>1, <1>5 DEF ImportInv, ImportTypeOK, RunSound, RunAccounted, Own
<1>8. KnowsMade' /\ TextUnmade' /\ LeftUnmade'
  BY <1>1, <1>5, <1>6 DEF ImportInv, KnowsMade, TextUnmade, LeftUnmade, Own
<1>9. made[d] > 0 => d \in Own \cup excused'
  BY <1>1, <1>2, <1>6 DEF ImportInv, KnowsMade
<1>10. PickedUnmade'
  BY <1>1, <1>3, <1>5, <1>6, <1>9 DEF ImportInv, PickedUnmade, Own
<1> QED BY <1>1, <1>6, <1>7, <1>8, <1>10 DEF ImportInv, OneProjectEach

LEMMA TypeLineInv ==
  ASSUME ImportInv, TypeLine
  PROVE  ImportInv'
<1>1. /\ page \in Page /\ RunSound /\ page.pc # "closed" /\ UNCHANGED made
      /\ made \in [Drafts -> Nat]
  BY DEF ImportInv, ImportTypeOK, TypeLine
<1>2. PICK l \in Lines : /\ page' = [page EXCEPT !.text = Toggled(@, l)]
                         /\ excused' = IF made[l] > 0 THEN excused \cup {l} ELSE excused
  BY DEF TypeLine
<1> DEFINE text == Toggled(page.text, l)
<1>3. text \in SUBSET Lines /\ text \subseteq page.text \cup {l}
  BY <1>1 DEF Toggled, Page
<1>4. page' = [page EXCEPT !.text = text]
  BY <1>1, <1>2 DEF Page
<1> HIDE DEF text
<1>5. /\ page' \in Page /\ page'.reading = page.reading /\ page'.linked = page.linked
      /\ page'.pc = page.pc /\ page'.picked = page.picked /\ page'.answer = page.answer
      /\ page'.text = text /\ page'.run = page.run /\ page'.asked = page.asked
      /\ page'.left = page.left /\ page'.at = page.at /\ page'.done = page.done
      /\ page'.failed = page.failed
  BY <1>1, <1>3, <1>4 DEF Page
<1>6. excused \subseteq excused' /\ (made[l] > 0 => l \in excused')
  BY <1>2
<1>7. ImportTypeOK' /\ RunSound' /\ RunAccounted'
  BY <1>1, <1>5 DEF ImportInv, ImportTypeOK, RunSound, RunAccounted, Own
<1>8. KnowsMade' /\ PickedUnmade' /\ LeftUnmade'
  BY <1>1, <1>5, <1>6 DEF ImportInv, KnowsMade, PickedUnmade, LeftUnmade, Own
<1>9. TextUnmade'
  BY <1>1, <1>3, <1>5, <1>6 DEF ImportInv, TextUnmade
<1> QED BY <1>1, <1>6, <1>7, <1>8, <1>9 DEF ImportInv, OneProjectEach

LEMMA RunInv ==
  ASSUME ImportInv, Run
  PROVE  ImportInv'
<1>1. /\ page \in Page /\ RunSound /\ page.pc = "open" /\ UNCHANGED made
      /\ made \in [Drafts -> Nat]
      /\ page.left = {} /\ page.at = "none" /\ page.done = {} /\ page.run = "none"
  BY DEF ImportInv, ImportTypeOK, RunSound, Run
<1>2. PICK mode \in {"bitrix", "list"}, drafts \in SUBSET Drafts :
        /\ drafts = IF mode = "bitrix" THEN page.picked ELSE page.text
        /\ page' = [page EXCEPT !.pc = "running", !.run = mode, !.asked = drafts, !.left = drafts]
        /\ excused' = excused \cup {d \in drafts \cap Picks : page.reading # "no" /\ made[d] > 0}
  <2>1. page.picked \in SUBSET Drafts /\ page.text \in SUBSET Drafts
    BY <1>1 DEF Page, Drafts
  <2> QED BY <2>1 DEF Run
<1>3. /\ page' \in Page /\ page'.pc = "running" /\ page'.run = mode /\ page'.asked = drafts
      /\ page'.left = drafts /\ page'.reading = page.reading /\ page'.linked = page.linked
      /\ page'.picked = page.picked /\ page'.answer = page.answer /\ page'.text = page.text
      /\ page'.at = page.at /\ page'.done = page.done
  BY <1>1, <1>2 DEF Page
<1>4. page.picked \subseteq Picks /\ page.text \subseteq Lines
  BY <1>1 DEF Page
<1>5. ImportTypeOK' /\ RunSound' /\ RunAccounted'
  BY <1>1, <1>2, <1>3, <1>4 DEF ImportInv, ImportTypeOK, RunSound, RunAccounted, Own
<1>6. KnowsMade' /\ PickedUnmade'
  BY <1>1, <1>2, <1>3 DEF ImportInv, KnowsMade, PickedUnmade, Own
<1>7. TextUnmade'
  BY <1>1, <1>2, <1>3 DEF ImportInv, TextUnmade
<1>8. LeftUnmade'
  <2>1. \A d \in page.picked : d # "none"
    BY <1>4, ImportAssumption
  <2>2. \A d \in page.picked : made[d] > 0 => d \in excused
    BY <1>1, <2>1 DEF ImportInv, PickedUnmade, Own
  <2>3. \A d \in page.text : made[d] > 0 => d \in excused
    BY <1>1 DEF ImportInv, TextUnmade
  <2> QED BY <1>1, <1>2, <1>3, <2>2, <2>3 DEF LeftUnmade
<1> QED BY <1>1, <1>2, <1>5, <1>6, <1>7, <1>8 DEF ImportInv, OneProjectEach

LEMMA CreateDraftInv ==
  ASSUME ImportInv, CreateDraft
  PROVE  ImportInv'
<1>1. /\ page \in Page /\ RunSound /\ page.pc = "running" /\ page.at = "none"
      /\ made \in [Drafts -> Nat]
  BY DEF ImportInv, ImportTypeOK, CreateDraft, Between
<1>2. PICK d \in page.left, answered \in BOOLEAN :
        /\ made' = [made EXCEPT ![d] = @ + 1]
        /\ excused' = IF answered THEN excused ELSE excused \cup {d}
        /\ page' = [page EXCEPT !.left = @ \ {d}, !.at = IF answered THEN d ELSE "none", !.failed = @ \/ ~answered]
  BY DEF CreateDraft
<1>3. d \in Drafts /\ made[d] \in Nat /\ d # "none" /\ d \in page.asked
  <2>1. d \in Drafts
    BY <1>1 DEF Page
  <2> QED BY <2>1, <1>1, ImportAssumption DEF Drafts, RunSound
<1>4. /\ made' \in [Drafts -> Nat] /\ made'[d] = made[d] + 1
      /\ \A e \in Drafts : e # d => made'[e] = made[e]
  BY <1>1, <1>2, <1>3
<1>5. PICK at \in Drafts \cup {"none"}, left \in SUBSET Drafts, failed \in BOOLEAN :
        /\ at = IF answered THEN d ELSE "none"
        /\ left = page.left \ {d}
        /\ ~failed => answered /\ ~page.failed
        /\ page' = [page EXCEPT !.left = left, !.at = at, !.failed = failed]
  <2>1. (page.failed \/ ~answered) \in BOOLEAN
    OBVIOUS
  <2>2. page.left \ {d} \in SUBSET Drafts
    BY <1>1 DEF Page
  <2>3. (IF answered THEN d ELSE "none") \in Drafts \cup {"none"}
    BY <1>3
  <2>4. page' = [page EXCEPT !.left = page.left \ {d}, !.at = IF answered THEN d ELSE "none",
                             !.failed = page.failed \/ ~answered]
    BY <1>1, <1>2 DEF Page
  <2> QED BY <2>1, <2>2, <2>3, <2>4
<1>6. /\ page' \in Page /\ page'.left = left /\ page'.at = at /\ page'.failed = failed
      /\ page'.pc = page.pc /\ page'.run = page.run /\ page'.asked = page.asked
      /\ page'.reading = page.reading /\ page'.linked = page.linked
      /\ page'.picked = page.picked /\ page'.answer = page.answer /\ page'.text = page.text
      /\ page'.done = page.done
  BY <1>1, <1>5 DEF Page
<1>7. excused \subseteq excused' /\ d \in {at} \cup excused' /\ Own \ {"none"} \subseteq Own'
  BY <1>1, <1>2, <1>5, <1>6 DEF Own
<1>8. ImportTypeOK' /\ RunSound'
  BY <1>1, <1>3, <1>4, <1>5, <1>6 DEF ImportInv, ImportTypeOK, RunSound
<1>9. RunAccounted'
  <2>1. "none" \notin page.asked
    BY <1>1, ImportAssumption DEF Page, Drafts
  <2> QED BY <2>1, <1>1, <1>5, <1>6 DEF ImportInv, RunAccounted, Own
<1>10. \A e \in Drafts : made'[e] > 0 => made[e] > 0 \/ e = d
  BY <1>4
<1>11. \A e \in Drafts : e # "none"
  BY ImportAssumption DEF Drafts
<1>12. KnowsMade'
  BY <1>6, <1>7, <1>10, <1>11 DEF ImportInv, KnowsMade, Own, Drafts
<1>13. PickedUnmade'
  <2>1. page.picked \subseteq Drafts
    BY <1>1 DEF Page, Drafts
  <2> QED BY <1>6, <1>7, <1>10, <1>11, <2>1 DEF ImportInv, PickedUnmade, Own
<1>14. TextUnmade'
  <2> SUFFICES ASSUME NEW l \in page.text, made'[l] > 0
               PROVE  l \in excused' \/ (page.run = "list" /\ l \in page.asked \ left)
    BY <1>6 DEF TextUnmade
  <2>1. l \in Lines /\ l \in Drafts
    BY <1>1 DEF Page, Drafts
  <2>2. CASE l = d
    <3>1. page.run = "list"
      BY <1>1, <1>3, <2>1, <2>2, ImportAssumption DEF RunSound, Page
    <3> QED BY <3>1, <2>2, <1>3, <1>5
  <2>3. CASE l # d
    BY <1>5, <1>7, <1>10, <2>1, <2>3 DEF ImportInv, TextUnmade
  <2> QED BY <2>2, <2>3
<1>15. LeftUnmade'
  <2>1. page.left \subseteq Drafts
    BY <1>1 DEF Page
  <2> QED BY <1>5, <1>6, <1>7, <1>10, <2>1 DEF ImportInv, LeftUnmade
<1>16. ASSUME NEW e \in Drafts
       PROVE  OneProjectEach(e)'
  <2>1. CASE e = d
    <3>1. made[d] > 0 => d \in excused
      BY DEF ImportInv, LeftUnmade
    <3> QED BY <2>1, <3>1, <1>3, <1>4, <1>7 DEF OneProjectEach
  <2>2. CASE e # d
    BY <2>2, <1>4, <1>7 DEF ImportInv, OneProjectEach
  <2> QED BY <2>1, <2>2
<1> QED BY <1>8, <1>9, <1>12, <1>13, <1>14, <1>15, <1>16 DEF ImportInv, Drafts

LEMMA RefusedInv ==
  ASSUME ImportInv, Refused
  PROVE  ImportInv'
<1>1. /\ page \in Page /\ RunSound /\ page.pc = "running" /\ UNCHANGED <<made, excused>>
  BY DEF ImportInv, ImportTypeOK, Refused, Between
<1>2. PICK d \in page.left : page' = [page EXCEPT !.left = @ \ {d}, !.failed = TRUE]
  BY DEF Refused
<1>3. PICK left \in SUBSET Drafts :
        left = page.left \ {d} /\ page' = [page EXCEPT !.left = left, !.failed = TRUE]
  BY <1>1, <1>2 DEF Page
<1>4. /\ page' \in Page /\ page'.left = left /\ page'.failed /\ page'.at = page.at
      /\ page'.pc = page.pc /\ page'.run = page.run /\ page'.asked = page.asked
      /\ page'.reading = page.reading /\ page'.linked = page.linked
      /\ page'.picked = page.picked /\ page'.answer = page.answer /\ page'.text = page.text
      /\ page'.done = page.done
  BY <1>1, <1>3 DEF Page
<1>5. ImportTypeOK' /\ RunSound' /\ RunAccounted'
  BY <1>1, <1>3, <1>4 DEF ImportInv, ImportTypeOK, RunSound, RunAccounted
<1>6. KnowsMade' /\ PickedUnmade' /\ TextUnmade' /\ LeftUnmade'
  BY <1>1, <1>3, <1>4 DEF ImportInv, KnowsMade, PickedUnmade, TextUnmade, LeftUnmade, Own
<1> QED BY <1>1, <1>5, <1>6 DEF ImportInv, OneProjectEach

LEMMA DirectInv ==
  ASSUME ImportInv, Direct
  PROVE  ImportInv'
<1>1. /\ page \in Page /\ RunSound /\ page.pc = "running" /\ page.at # "none"
      /\ UNCHANGED <<made, excused>>
  BY DEF ImportInv, ImportTypeOK, Direct
<1>2. PICK done \in SUBSET Drafts, failed \in BOOLEAN :
        /\ done = page.done \cup {page.at}
        /\ ~failed => ~page.failed
        /\ page' = [page EXCEPT !.at = "none", !.done = done, !.failed = failed]
  <2>1. PICK refused \in BOOLEAN :
          page' = [page EXCEPT !.at = "none", !.done = @ \cup {page.at}, !.failed = @ \/ refused]
    BY DEF Direct
  <2>2. page.done \cup {page.at} \in SUBSET Drafts
    BY <1>1 DEF Page
  <2>3. (page.failed \/ refused) \in BOOLEAN
    OBVIOUS
  <2>4. page' = [page EXCEPT !.at = "none", !.done = page.done \cup {page.at}, !.failed = page.failed \/ refused]
    BY <1>1, <2>1 DEF Page
  <2> QED BY <2>2, <2>3, <2>4
<1>3. /\ page' \in Page /\ page'.left = page.left /\ page'.at = "none" /\ page'.failed = failed
      /\ page'.pc = page.pc /\ page'.run = page.run /\ page'.asked = page.asked
      /\ page'.reading = page.reading /\ page'.linked = page.linked
      /\ page'.picked = page.picked /\ page'.answer = page.answer /\ page'.text = page.text
      /\ page'.done = done
  BY <1>1, <1>2 DEF Page
<1>4. Own \subseteq Own'
  BY <1>2, <1>3 DEF Own
<1>5. ImportTypeOK' /\ RunSound' /\ RunAccounted'
  BY <1>1, <1>2, <1>3, <1>4 DEF ImportInv, ImportTypeOK, RunSound, RunAccounted
<1>6. KnowsMade' /\ PickedUnmade' /\ TextUnmade' /\ LeftUnmade'
  BY <1>1, <1>3, <1>4 DEF ImportInv, KnowsMade, PickedUnmade, TextUnmade, LeftUnmade
<1> QED BY <1>1, <1>5, <1>6 DEF ImportInv, OneProjectEach

LEMMA EndRunInv ==
  ASSUME ImportInv, EndRun
  PROVE  /\ ImportInv'
         /\ (page.asked \cap (page.picked \cup page.text)) \ page.done \subseteq page'.picked \cup page'.text
<1>1. /\ page \in Page /\ RunSound /\ page.pc = "running" /\ page.at = "none" /\ page.left = {}
      /\ UNCHANGED made /\ excused \subseteq excused'
      /\ page.failed => page.text \subseteq excused'
  BY DEF ImportInv, ImportTypeOK, EndRun, Between
<1>2. PICK linked \in SUBSET Picks, picked \in SUBSET Picks, text \in SUBSET Lines :
        /\ linked = page.linked \cup (page.done \cap Picks)
        /\ picked = page.picked \ page.done
        /\ text = IF page.run = "list" /\ ~page.failed THEN {} ELSE page.text
        /\ page' = [page EXCEPT !.pc = "open", !.linked = linked, !.picked = picked, !.text = text,
                                !.run = "none", !.asked = {}, !.done = {}, !.failed = FALSE]
  <2>1. /\ page.linked \cup (page.done \cap Picks) \in SUBSET Picks
        /\ Remaining \in SUBSET Picks /\ TextLeft \in SUBSET Lines
    BY <1>1 DEF Page, Remaining, TextLeft
  <2>2. page' = [page EXCEPT !.pc = "open", !.linked = page.linked \cup (page.done \cap Picks),
                             !.picked = Remaining, !.text = TextLeft,
                             !.run = "none", !.asked = {}, !.done = {}, !.failed = FALSE]
    BY <1>1 DEF EndRun, Page
  <2> QED BY <2>1, <2>2 DEF Remaining, TextLeft
<1>3. /\ page' \in Page /\ page'.left = page.left /\ page'.at = "none" /\ ~page'.failed
      /\ page'.pc = "open" /\ page'.run = "none" /\ page'.asked = {}
      /\ page'.reading = page.reading /\ page'.linked = linked
      /\ page'.picked = picked /\ page'.answer = page.answer /\ page'.text = text
      /\ page'.done = {}
  BY <1>1, <1>2 DEF Page
<1>4. \A d \in Drafts : d \in Own => d \in page.done
  BY <1>1, ImportAssumption DEF Own, Drafts
<1>5. page.picked \subseteq Picks /\ Picks \subseteq Drafts
  BY <1>1 DEF Page, Drafts
<1>6. ImportTypeOK' /\ RunSound' /\ RunAccounted'
  BY <1>1, <1>3 DEF ImportInv, ImportTypeOK, RunSound, RunAccounted
<1>7. KnowsMade'
  BY <1>1, <1>2, <1>3, <1>4, <1>5 DEF ImportInv, KnowsMade
<1>8. PickedUnmade'
  BY <1>1, <1>2, <1>3, <1>4, <1>5 DEF ImportInv, PickedUnmade
<1>9. TextUnmade' /\ LeftUnmade'
  BY <1>1, <1>2, <1>3 DEF ImportInv, TextUnmade, LeftUnmade
<1>10. (page.asked \cap (page.picked \cup page.text)) \ page.done \subseteq page'.picked \cup page'.text
  <2>1. ~page.failed => page.asked \subseteq page.done
    <3>1. page.asked \subseteq Drafts
      BY <1>1 DEF Page
    <3> QED BY <1>1, <1>4, <3>1 DEF ImportInv, RunAccounted
  <2> QED BY <1>2, <1>3, <2>1
<1> QED BY <1>1, <1>6, <1>7, <1>8, <1>9, <1>10 DEF ImportInv, OneProjectEach

LEMMA ImportStep ==
  ImportInv /\ [ImportNext]_importVars => ImportInv' /\ [NothingPickedIsLost]_importVars
<1> SUFFICES ASSUME ImportInv, [ImportNext]_importVars
             PROVE  ImportInv' /\ [NothingPickedIsLost]_importVars
  OBVIOUS
<1>1. page \in Page
  BY DEF ImportInv, ImportTypeOK
<1>2. ASSUME page'.pc # "open" \/ page.pc # "running"
      PROVE  NothingPickedIsLost
  BY <1>2 DEF NothingPickedIsLost
<1>3. CASE SomebodyMakes
  BY <1>2, <1>3, SomebodyMakesInv DEF SomebodyMakes
<1>4. CASE OpenImport
  BY <1>2, <1>4, OpenImportInv DEF OpenImport
<1>5. CASE ReadLinked
  <2>1. page'.pc = page.pc
    BY <1>1, <1>5 DEF ReadLinked, Page
  <2> QED BY <2>1, <1>2, <1>5, ReadLinkedInv
<1>6. CASE LinkedCome
  <2>1. page'.pc = page.pc
    BY <1>1, <1>6 DEF LinkedCome, Page
  <2> QED BY <2>1, <1>2, <1>6, LinkedComeInv
<1>7. CASE Toggle
  <2>1. page'.pc = page.pc
    BY <1>1, <1>7 DEF Toggle, Page
  <2> QED BY <2>1, <1>2, <1>7, ToggleInv
<1>8. CASE TypeLine
  <2>1. page'.pc = page.pc
    BY <1>1, <1>8 DEF TypeLine, Page
  <2> QED BY <2>1, <1>2, <1>8, TypeLineInv
<1>9. CASE Run
  BY <1>2, <1>9, RunInv DEF Run
<1>10. CASE CreateDraft
  <2>1. page'.pc = page.pc
    BY <1>1, <1>10 DEF CreateDraft, Page
  <2> QED BY <2>1, <1>2, <1>10, CreateDraftInv
<1>11. CASE Refused
  <2>1. page'.pc = page.pc
    BY <1>1, <1>11 DEF Refused, Page
  <2> QED BY <2>1, <1>2, <1>11, RefusedInv
<1>12. CASE Direct
  <2>1. page'.pc = page.pc
    BY <1>1, <1>12 DEF Direct, Page
  <2> QED BY <2>1, <1>2, <1>12, DirectInv
<1>13. CASE EndRun
  BY <1>13, EndRunInv DEF NothingPickedIsLost
<1>14. CASE CloseImport
  BY <1>2, <1>14, CloseImportInv DEF CloseImport, NoImport
<1>15. CASE UNCHANGED importVars
  BY <1>15 DEF importVars, ImportInv, ImportTypeOK, RunSound, RunAccounted, KnowsMade,
     PickedUnmade, TextUnmade, LeftUnmade, OneProjectEach, Own
<1> QED BY <1>3, <1>4, <1>5, <1>6, <1>7, <1>8, <1>9, <1>10, <1>11, <1>12, <1>13, <1>14, <1>15
        DEF ImportNext

(* An import that is repeated until nothing is left makes each project     *)
(* once, of however many elements and lines.                               *)
THEOREM ImportsMakeEach == ImportSpec => ImportMakesEach
<1>1. ImportInv => \A d \in Drafts : OneProjectEach(d)
  BY DEF ImportInv
<1> QED BY <1>1, ImportInitInv, ImportStep, PTL DEF ImportSpec, ImportMakesEach
=============================================================================
