-------------------------- MODULE ProjectLifecycle --------------------------
(***************************************************************************)
(* The life of a portal's projects: created within the limit of the FREE   *)
(* plan, edited, archived and restored, given members, and deleted for     *)
(* good with everything that belongs to them, while their financial        *)
(* entries are created, moved and deleted by other requests.               *)
(*                                                                         *)
(* The granularity is that of HoursReview: a read outside a transaction    *)
(* and a transaction are actions, everything in between may interleave.    *)
(***************************************************************************)
EXTENDS Naturals, Sequences, FiniteSets

CONSTANTS
  Projects,    \* ids of projects; bound on how many are ever created
  NoProject,
  Users,       \* users who can be members
  Workers,     \* HTTP requests in progress at once
  Plans,       \* plans the portal can have: FREE, PRO or both
  Limit,       \* FREE_LIMITS.maxActiveProjects
  MaxEntries   \* bound: no entry is created beyond it

ASSUME ProjectAssumption == IsFiniteSet(Projects) /\ NoProject \notin Projects

ASSUME PlanAssumption == Plans \subseteq {"FREE", "PRO"} /\ Limit \in Nat

ASSUME BoundAssumption == MaxEntries \in Nat

VARIABLES
  plan,      \* effectivePlan of the portal
  projects,  \* Project rows with their members
  entries,   \* FinancialEntry rows in order of creation; an id is an index
  journal,   \* status in the last audit row about a project's status
  req,       \* what each request has read and still has to do
  overlapped \* history: requests have overlapped as Exclusive forbids

vars == <<plan, projects, entries, journal, req, overlapped>>

-----------------------------------------------------------------------------
NoEntry == 0

Chosen == {"ACTIVE", "COMPLETED", "ARCHIVED"}

(* NONE is a row not created yet, GONE one that was deleted.               *)
Statuses == Chosen \cup {"NONE", "GONE"}

Project == [status : Statuses, members : SUBSET Users]

Row(status, members) == [status |-> status, members |-> members]

Exists(p) == projects[p].status \in Chosen

Entry == [project : Projects, state : {"live", "deleted", "erased"}]

Line(p, state) == [project |-> p, state |-> state]

ReqSteps ==
  {"idle", "createCount", "create", "update", "archive", "delete", "members",
   "entry", "move", "deleteEntry"}

(* status is what the request sets, KEEP if nothing; from is the project's *)
(* status as it was read; members are those the body names, adds and       *)
(* removes their difference to the ones that were read.                    *)
Request ==
  [at : ReqSteps, project : Projects \cup {NoProject}, plan : {"FREE", "PRO"},
   status : Chosen \cup {"KEEP"}, from : Chosen \cup {"KEEP"},
   members : SUBSET Users, adds : SUBSET Users, removes : SUBSET Users, entry : Nat]

Req(at, p, pl, status, from, members, adds, removes, e) ==
  [at |-> at, project |-> p, plan |-> pl, status |-> status, from |-> from,
   members |-> members, adds |-> adds, removes |-> removes, entry |-> e]

CreateReq(at, pl, status, members) ==
  Req(at, NoProject, pl, status, "KEEP", members, {}, {}, NoEntry)

StatusReq(at, p, status, from) == Req(at, p, "FREE", status, from, {}, {}, {}, NoEntry)

MembersReq(p, members, adds, removes) ==
  Req("members", p, "FREE", "KEEP", "KEEP", members, adds, removes, NoEntry)

EntryReq(at, p, e) == Req(at, p, "FREE", "KEEP", "KEEP", {}, {}, {}, e)

IdleReq == EntryReq("idle", NoProject, NoEntry)

Done(w) == req' = [req EXCEPT ![w] = IdleReq]

Init ==
  /\ plan \in Plans
  /\ projects = [p \in Projects |-> Row("NONE", {})]
  /\ entries = <<>>
  /\ journal = [p \in Projects |-> "NONE"]
  /\ req = [w \in Workers |-> IdleReq]
  /\ overlapped = FALSE

(* The operator grants PRO, or a grant expires.                            *)
PlanChanges(pl) ==
  /\ plan' = pl
  /\ UNCHANGED <<projects, entries, journal, req>>

-----------------------------------------------------------------------------
(* Names ending in an underscore and a fault are faulty variants of the    *)
(* definition that follows them; no specification uses them.               *)

(* createProject: the session resolves the plan, then the projects that    *)
(* are not archived are counted; the transaction counts nothing again.     *)

CreateStart_NoDefault(w, status, members) ==
  /\ req[w] = IdleReq
  /\ req' = [req EXCEPT ![w] = CreateReq("createCount", plan, "KEEP", members)]
  /\ UNCHANGED <<plan, projects, entries, journal>>

CreateStart(w, status, members) ==
  /\ req[w] = IdleReq
  /\ req' = [req EXCEPT ![w] = CreateReq("createCount", plan, status, members)]
  /\ UNCHANGED <<plan, projects, entries, journal>>

WithinLimit == {p \in Projects : projects[p].status \in {"ACTIVE", "COMPLETED"}}

CreateCount_ActiveOnly(w) ==
  /\ req[w].at = "createCount"
  /\ req[w].plan = "PRO" \/ Cardinality({p \in Projects : projects[p].status = "ACTIVE"}) < Limit
  /\ req' = [req EXCEPT ![w] = CreateReq("create", @.plan, @.status, @.members)]
  /\ UNCHANGED <<plan, projects, entries, journal>>

CreateCount(w) ==
  /\ req[w].at = "createCount"
  /\ req[w].plan = "PRO" \/ Cardinality(WithinLimit) < Limit
  /\ req' = [req EXCEPT ![w] = CreateReq("create", @.plan, @.status, @.members)]
  /\ UNCHANGED <<plan, projects, entries, journal>>

CreateCommit(w, p) ==
  /\ req[w].at = "create"
  /\ projects[p].status = "NONE"
  /\ projects' = [projects EXCEPT ![p] = Row(req[w].status, req[w].members)]
  /\ journal' = [journal EXCEPT ![p] = req[w].status]
  /\ Done(w)
  /\ UNCHANGED <<plan, entries>>

(* updateProject: writes the status only if the body has one, and records  *)
(* the status of the row it has written.                                   *)

UpdateRead(w, p, status) ==
  /\ req[w] = IdleReq
  /\ Exists(p)
  /\ req' = [req EXCEPT ![w] = StatusReq("update", p, status, projects[p].status)]
  /\ UNCHANGED <<plan, projects, entries, journal>>

Kept(status, from) == IF status = "KEEP" THEN from ELSE status

UpdateCommit_RecordsWhatItRead(w) ==
  LET p == req[w].project IN
  /\ req[w].at = "update"
  /\ Exists(p)
  /\ projects' = [projects EXCEPT ![p] = Row(Kept(req[w].status, @.status), @.members)]
  /\ journal' = [journal EXCEPT ![p] = Kept(req[w].status, req[w].from)]
  /\ Done(w)
  /\ UNCHANGED <<plan, entries>>

UpdateCommit_Revives(w) ==
  LET p == req[w].project IN
  /\ req[w].at = "update"
  /\ projects' = [projects EXCEPT ![p] = Row(Kept(req[w].status, req[w].from), @.members)]
  /\ journal' = [journal EXCEPT ![p] = Kept(req[w].status, req[w].from)]
  /\ Done(w)
  /\ UNCHANGED <<plan, entries>>

UpdateCommit(w) ==
  LET p == req[w].project IN
  /\ req[w].at = "update"
  /\ Exists(p)
  /\ projects' = [projects EXCEPT ![p] = Row(Kept(req[w].status, @.status), @.members)]
  /\ journal' = [journal EXCEPT ![p] = Kept(req[w].status, projects[p].status)]
  /\ Done(w)
  /\ UNCHANGED <<plan, entries>>

(* archiveProject: archives what is not archived, restores what is; no     *)
(* limit is looked at.                                                     *)

ArchiveRead(w, p, status) ==
  /\ req[w] = IdleReq
  /\ Exists(p)
  /\ IF status = "ARCHIVED" THEN projects[p].status # "ARCHIVED"
                            ELSE projects[p].status = "ARCHIVED"
  /\ req' = [req EXCEPT ![w] = StatusReq("archive", p, status, projects[p].status)]
  /\ UNCHANGED <<plan, projects, entries, journal>>

ArchiveCommit(w) ==
  LET p == req[w].project IN
  /\ req[w].at = "archive"
  /\ Exists(p)
  /\ projects' = [projects EXCEPT ![p] = Row(req[w].status, @.members)]
  /\ journal' = [journal EXCEPT ![p] = req[w].status]
  /\ Done(w)
  /\ UNCHANGED <<plan, entries>>

(* deleteProject: the live entries are counted, then a transaction removes *)
(* the row, if it is still there, and the database everything under it.    *)

LiveEntries(p) == {e \in 1..Len(entries) : entries[e] = Line(p, "live")}

DeleteRead_Uncounted(w, p) ==
  /\ req[w] = IdleReq
  /\ Exists(p)
  /\ req' = [req EXCEPT ![w] = StatusReq("delete", p, "KEEP", projects[p].status)]
  /\ UNCHANGED <<plan, projects, entries, journal>>

DeleteRead(w, p) ==
  /\ req[w] = IdleReq
  /\ Exists(p)
  /\ LiveEntries(p) = {}
  /\ req' = [req EXCEPT ![w] = StatusReq("delete", p, "KEEP", projects[p].status)]
  /\ UNCHANGED <<plan, projects, entries, journal>>

Erased(es, p) ==
  [e \in 1..Len(es) |-> IF es[e].project = p THEN Line(p, "erased") ELSE es[e]]

DeleteCommit_NoCascade(w) ==
  LET p == req[w].project IN
  /\ req[w].at = "delete"
  /\ projects' = [projects EXCEPT ![p] = Row("GONE", {})]
  /\ journal' = [journal EXCEPT ![p] = "GONE"]
  /\ Done(w)
  /\ UNCHANGED <<plan, entries>>

DeleteCommit(w) ==
  LET p == req[w].project IN
  /\ req[w].at = "delete"
  /\ projects' = [projects EXCEPT ![p] = Row("GONE", {})]
  /\ entries' = Erased(entries, p)
  /\ journal' = [journal EXCEPT ![p] = "GONE"]
  /\ Done(w)
  /\ UNCHANGED plan

(* setProjectMembers: the difference to the members that were read is      *)
(* applied; adding a member twice or removing one twice does nothing.      *)

MembersRead_AddsOnly(w, p, members) ==
  /\ req[w] = IdleReq
  /\ Exists(p)
  /\ members # projects[p].members
  /\ req' = [req EXCEPT ![w] = MembersReq(p, members, members \ projects[p].members, {})]
  /\ UNCHANGED <<plan, projects, entries, journal>>

MembersRead(w, p, members) ==
  /\ req[w] = IdleReq
  /\ Exists(p)
  /\ members # projects[p].members
  /\ req' = [req EXCEPT ![w] =
       MembersReq(p, members, members \ projects[p].members, projects[p].members \ members)]
  /\ UNCHANGED <<plan, projects, entries, journal>>

MembersCommit(w) ==
  LET p == req[w].project IN
  /\ req[w].at = "members"
  /\ Exists(p) \/ req[w].adds = {}
  /\ projects' = [projects EXCEPT ![p] =
       Row(@.status, (@.members \ req[w].removes) \cup req[w].adds)]
  /\ Done(w)
  /\ UNCHANGED <<plan, entries, journal>>

-----------------------------------------------------------------------------
(* The writers of financial entries: createEntry, updateEntry moving an    *)
(* entry to another project, softDeleteEntry.                              *)

EntryRead(w, p) ==
  /\ req[w] = IdleReq
  /\ Exists(p)
  /\ req' = [req EXCEPT ![w] = EntryReq("entry", p, NoEntry)]
  /\ UNCHANGED <<plan, projects, entries, journal>>

EntryCommit(w) ==
  /\ req[w].at = "entry"
  /\ Exists(req[w].project)
  /\ Len(entries) < MaxEntries
  /\ entries' = Append(entries, Line(req[w].project, "live"))
  /\ Done(w)
  /\ UNCHANGED <<plan, projects, journal>>

MoveRead(w, e, p) ==
  /\ req[w] = IdleReq
  /\ entries[e].state = "live"
  /\ Exists(p)
  /\ req' = [req EXCEPT ![w] = EntryReq("move", p, e)]
  /\ UNCHANGED <<plan, projects, entries, journal>>

MoveCommit(w) ==
  /\ req[w].at = "move"
  /\ Exists(req[w].project)
  /\ entries[req[w].entry].state # "erased"
  /\ entries' = [entries EXCEPT ![req[w].entry] = Line(req[w].project, @.state)]
  /\ Done(w)
  /\ UNCHANGED <<plan, projects, journal>>

EntryDeleteRead(w, e) ==
  /\ req[w] = IdleReq
  /\ entries[e].state = "live"
  /\ req' = [req EXCEPT ![w] = EntryReq("deleteEntry", NoProject, e)]
  /\ UNCHANGED <<plan, projects, entries, journal>>

EntryDeleteCommit(w) ==
  /\ req[w].at = "deleteEntry"
  /\ entries[req[w].entry].state # "erased"
  /\ entries' = [entries EXCEPT ![req[w].entry] = Line(@.project, "deleted")]
  /\ Done(w)
  /\ UNCHANGED <<plan, projects, journal>>

(* The limit is reached, a member or a category does not fit, a row is     *)
(* gone when the transaction wants to write it or refer to it.             *)
Fails(w) ==
  /\ req[w] # IdleReq
  /\ Done(w)
  /\ UNCHANGED <<plan, projects, entries, journal>>

-----------------------------------------------------------------------------
ProjectWorker(w) ==
  \/ \E status \in Chosen, members \in SUBSET Users : CreateStart(w, status, members)
  \/ CreateCount(w)
  \/ \E p \in Projects : CreateCommit(w, p)
  \/ \E p \in Projects, status \in {"ACTIVE", "COMPLETED", "KEEP"} : UpdateRead(w, p, status)
  \/ UpdateCommit(w)
  \/ \E p \in Projects, status \in {"ACTIVE", "ARCHIVED"} : ArchiveRead(w, p, status)
  \/ ArchiveCommit(w)
  \/ \E p \in Projects : DeleteRead(w, p)
  \/ DeleteCommit(w)
  \/ \E p \in Projects, members \in SUBSET Users : MembersRead(w, p, members)
  \/ MembersCommit(w)
  \/ Fails(w)

EntryWorker(w) ==
  \/ \E p \in Projects : EntryRead(w, p)
  \/ EntryCommit(w)
  \/ \E e \in 1..Len(entries), p \in Projects : MoveRead(w, e, p)
  \/ MoveCommit(w)
  \/ \E e \in 1..Len(entries) : EntryDeleteRead(w, e)
  \/ EntryDeleteCommit(w)

Step ==
  \/ \E pl \in Plans : PlanChanges(pl)
  \/ \E w \in Workers : ProjectWorker(w) \/ EntryWorker(w)

(* What locks on a project's row and on the portal's list of projects      *)
(* would give and the code does not take: requests on one project do not   *)
(* overlap, and nothing changes the number of projects while a creation    *)
(* has counted them.                                                       *)
Exclusive ==
  \A v, w \in Workers : v # w =>
    /\ req[v].project = req[w].project => req[v].project = NoProject
    /\ req[v].at = "create" => req[w].at \notin {"create", "update", "archive"}

Next == Step /\ overlapped' = (overlapped \/ ~Exclusive')

Spec == Init /\ [][Next]_vars

-----------------------------------------------------------------------------
(* Type invariant.                                                         *)
RequestOK(r) ==
  /\ r.at \in {"update", "archive", "delete", "members", "entry", "move"} <=> r.project # NoProject
  /\ r.at \in {"createCount", "create", "archive"} => r.status # "KEEP"
  /\ r.at \in {"move", "deleteEntry"} => r.entry \in 1..Len(entries)

TypeOK ==
  /\ plan \in Plans
  /\ projects \in [Projects -> Project]
  /\ entries \in Seq(Entry)
  /\ journal \in [Projects -> Statuses]
  /\ req \in [Workers -> Request]
  /\ \A w \in Workers : RequestOK(req[w])
  /\ overlapped \in BOOLEAN

(* A deleted project leaves nothing behind: no member and no row of an     *)
(* entry, whatever requests on it were in progress.                        *)
NothingOutlivesProject ==
  /\ \A p \in Projects : projects[p].status = "GONE" => projects[p].members = {}
  /\ \A e \in 1..Len(entries) : entries[e].state # "erased" => Exists(entries[e].project)

(* What is deleted stays deleted: no request that read a project or an     *)
(* entry before it was removed brings it back.                             *)
DeletedStaysDeleted ==
  /\ \A p \in Projects : projects[p].status = "GONE" => projects'[p].status = "GONE"
  /\ \A e \in 1..Len(entries) :
       /\ entries[e].state # "live" => entries'[e].state # "live"
       /\ entries[e].state = "erased" => entries'[e] = entries[e]

(* The comment on writeAudit: "the entry changed but the audit didn't" is  *)
(* impossible.  The last audit row about a project's status shows the      *)
(* status it has, though a request may have read an older one.             *)
JournalShowsStatus == \A p \in Projects : journal[p] = projects[p].status

(* The rows of the projects, their members, entries and journal fit        *)
(* together, whatever requests overlap.                                    *)
ProjectsSound == TypeOK /\ NothingOutlivesProject /\ JournalShowsStatus

-----------------------------------------------------------------------------
(* Properties that hold as long as requests have not overlapped.           *)

(* ADR-042: money history is never erased silently.  A project goes only   *)
(* when each of its entries has been deleted before, one by one.           *)
OnlyDeletedEntriesErased ==
  \A e \in 1..Len(entries) : entries'[e].state = "erased" => entries[e].state # "live"

(* A project created on the FREE plan never takes the portal over the      *)
(* limit; completed projects count, archived ones do not.                  *)
CreationKeepsLimit ==
  \A w \in Workers :
    projects' # projects /\ req[w].at = "create" /\ req[w].plan = "FREE" /\ req'[w] = IdleReq
      => Cardinality(WithinLimit') <= Limit

(* Whoever sets the members of a project gets exactly those members, and   *)
(* those who stay are not taken out and put back.                          *)
MembersAsSet ==
  \A w \in Workers :
    LET p == req[w].project  kept == req[w].members \cap projects[p].members IN
      MembersCommit(w) =>
        /\ projects'[p].members = req[w].members
        /\ kept \cap (req[w].adds \cup req[w].removes) = {}

(* No request undoes a deletion; and one that meets no other keeps its     *)
(* promise: no live money erased, the limit kept, the members as set.      *)
RequestsKeepPromises ==
  [][/\ DeletedStaysDeleted
     /\ ~overlapped' => OnlyDeletedEntriesErased /\ CreationKeepsLimit /\ MembersAsSet]_vars
=============================================================================
