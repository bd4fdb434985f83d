------------------------------- MODULE Ledger -------------------------------
(***************************************************************************)
(* The books of a portal: financial entries, their categories and the      *)
(* directions (streams) of projects, changed by requests whose checks come *)
(* before the transaction that writes (finance-write, api/categories,      *)
(* streams).  A request reads through the scope of its session's portal    *)
(* (with-portal), which finds rows of that portal only.                    *)
(*                                                                         *)
(* Rows are written only by the commit steps.  A step that fails leaves    *)
(* the request idle.  Fields that no check looks at (texts, dates, people, *)
(* amounts) are left out; amounts are in IncomeReview and Entries.         *)
(***************************************************************************)
EXTENDS FinanceReports

CONSTANTS
  Portals,
  Reqs,                  \* requests running at once
  Users, ActorOf,        \* people and the session each has
  Projects,              \* rows of books.projects
  Entries, Facts,        \* ids of entries; budget, amount, day and moment of creation of each
  ThisDay,               \* the day the pages are read
  Cats, Streams,         \* ids of categories and directions
  Names,                 \* names of categories
  Keep,                  \* no direction given: the entry's own stays
  FirstCats, FirstStreams, FirstEntries,   \* what is there at the start
  MaxOps                 \* bound on the requests that are started

ProjectIds == { p.id : p \in Projects }

MoneyDirections == {"INCOME", "EXPENSE"}

ASSUME LedgerAssumption ==
  /\ IsFiniteSet(Projects) /\ IsFiniteSet(Streams) /\ IsFiniteSet(Entries)
  /\ Entries # {} /\ Entries \subseteq Int
  /\ \A e \in Entries : Facts[e].amount \in Int /\ Facts[e].day \in Int /\ Facts[e].created \in Int
  /\ ThisDay \in Int
  /\ \A p \in Projects :
       p.portal \in Portals /\ p.name \in Int /\ \A o \in Projects : o.id = p.id => o = p
  /\ \A u \in Users : ActorOf[u].portal \in Portals
  /\ None \notin Cats /\ None \notin Streams /\ None \notin ProjectIds /\ None \notin MoneyDirections
  /\ None \notin {"FACT", "PLAN", "ALL"} /\ Keep \notin Streams /\ Keep # None

CategoryRow ==
  [exists : {TRUE}, portal : Portals, kind : MoneyDirections, name : Names, archived : BOOLEAN]

StreamRow == [exists : {TRUE}, portal : Portals, project : ProjectIds, archived : BOOLEAN]

EntryRow ==
  [exists : {TRUE}, portal : Portals, deleted : BOOLEAN, project : ProjectIds,
   category : Cats, direction : MoneyDirections, stream : Streams \cup {None},
   planned : Entries \cup {None}]   \* the plan that an entry realises

(* What is there at the start was written by requests that did not meet.   *)
ASSUME FirstBooksAssumption ==
  /\ DOMAIN FirstCats \subseteq Cats /\ FirstCats \in [DOMAIN FirstCats -> CategoryRow]
  /\ DOMAIN FirstStreams \subseteq Streams /\ FirstStreams \in [DOMAIN FirstStreams -> StreamRow]
  /\ FirstEntries \in [DOMAIN FirstEntries -> EntryRow]
  /\ \A e \in DOMAIN FirstEntries :
       LET row == FirstEntries[e] IN
       /\ ~row.deleted /\ (\E p \in Projects : p.id = row.project /\ p.portal = row.portal)
       /\ row.category \in DOMAIN FirstCats
       /\ FirstCats[row.category].kind = row.direction /\ FirstCats[row.category].portal = row.portal
       /\ row.stream # None =>
            /\ row.stream \in DOMAIN FirstStreams
            /\ FirstStreams[row.stream].project = row.project
            /\ FirstStreams[row.stream].portal = row.portal
       /\ row.planned # None => row.planned \in DOMAIN FirstEntries

VARIABLES cats, streams, entries, journal, reqs, ops, late

vars == <<cats, streams, entries, journal, reqs, ops, late>>

Absent == [exists |-> FALSE]

(* A row that was deleted: ids are not given out again.                    *)
Gone == [exists |-> FALSE, gone |-> TRUE]

Idle == [op |-> "none", pc |-> "idle", actor |-> None, id |-> None, read |-> None,
         project |-> None, category |-> None, direction |-> None, stream |-> None, stale |-> FALSE]

Init ==
  /\ cats = [c \in Cats |-> IF c \in DOMAIN FirstCats THEN FirstCats[c] ELSE Absent]
  /\ streams = [s \in Streams |-> IF s \in DOMAIN FirstStreams THEN FirstStreams[s] ELSE Absent]
  /\ entries = [e \in Entries |-> IF e \in DOMAIN FirstEntries THEN FirstEntries[e] ELSE Absent]
  /\ journal = [e \in Entries |-> 0]     \* rows FINANCE_DELETED about an entry
  /\ reqs = [r \in Reqs |-> Idle] /\ ops = 0 /\ late = {}

(* findByIdOrThrow of the session's scope.                                 *)
Found_AnyPortal(row, actor) == row.exists

Found(row, actor) == row.exists /\ row.portal = actor.portal

ProjectFound(p, actor) == \E x \in Projects : x.id = p /\ x.portal = actor.portal

FoundStream(s, actor) == Found(streams[s], actor) /\ ~streams[s].archived

Start(r, req) ==
  /\ reqs[r].pc = "idle" /\ ops < MaxOps /\ ops' = ops + 1
  /\ reqs' = [reqs EXCEPT ![r] = req]
  /\ UNCHANGED <<cats, streams, entries, journal, late>>

Proceed(r, req) ==
  /\ reqs' = [reqs EXCEPT ![r] = req]
  /\ UNCHANGED <<cats, streams, entries, journal, ops, late>>

At(r, op, pc) == reqs[r].op = op /\ reqs[r].pc = pc

(* Managers and administrators only.                                       *)
By(u, op, pc) == [Idle EXCEPT !.op = op, !.pc = pc, !.actor = ActorOf[u]]

Managers == { u \in Users : CanMutate(ActorOf[u]) }

(* Marks what the other requests have checked and this commit changes.     *)
Outdates(r, Checked(_)) ==
  [q \in Reqs |-> IF q = r THEN Idle
                  ELSE IF reqs[q].pc # "idle" /\ Checked(reqs[q])
                       THEN [reqs[q] EXCEPT !.stale = TRUE] ELSE reqs[q]]

CommitEntry(r, e, row) ==
  /\ entries' = [entries EXCEPT ![e] = row]
  /\ reqs' = Outdates(r, LAMBDA q : q.op \in {"update", "delete"} /\ q.id = e)
  /\ late' = IF reqs[r].stale THEN late \cup {e} ELSE late
  /\ UNCHANGED <<cats, streams, ops>>

-----------------------------------------------------------------------------
(* createEntry                                                             *)

CreateProject(r) ==
  \E u \in Managers, p \in Projects :
    /\ ProjectFound(p.id, ActorOf[u])
    /\ Start(r, [By(u, "create", "category") EXCEPT !.project = p.id])

Usable_ArchivedToo(c, direction, actor) == Found(cats[c], actor) /\ cats[c].kind = direction

Usable(c, direction, actor) ==
  Found(cats[c], actor) /\ cats[c].kind = direction /\ ~cats[c].archived

CreateCategory(r) ==
  /\ At(r, "create", "category")
  /\ \E c \in Cats, d \in MoneyDirections :
       /\ Usable(c, d, reqs[r].actor)
       /\ Proceed(r, [reqs[r] EXCEPT !.pc = "stream", !.category = c, !.direction = d])

(* assertStream: a direction must belong to the entry's project (ADR-052). *)
StreamFits(s, project, actor) ==
  s # None => FoundStream(s, actor) /\ streams[s].project = project

CreateStream(r) ==
  /\ At(r, "create", "stream")
  /\ \E s \in Streams \cup {None} :
       /\ StreamFits(s, reqs[r].project, reqs[r].actor)
       /\ Proceed(r, [reqs[r] EXCEPT !.pc = "commit", !.stream = s])

(* The insertion fails when the category is gone or there is no such plan  *)
(* (foreign keys).  The plan is stored as it was sent: it need not be a    *)
(* plan, nor of the same portal.                                           *)
CreateCommit(r) ==
  /\ At(r, "create", "commit")
  /\ LET q == reqs[r] IN
     \/ /\ ~cats[q.category].exists \/ \E plan \in Entries : ~entries[plan].exists
        /\ Proceed(r, Idle)
     \/ /\ cats[q.category].exists
        /\ \E e \in Entries, plan \in Entries \cup {None} :
             /\ plan # None => entries[plan].exists
             /\ ~entries[e].exists /\ \A f \in Entries : ~entries[f].exists => e <= f
             /\ CommitEntry(r, e, [exists |-> TRUE, portal |-> q.actor.portal, deleted |-> FALSE,
                                   project |-> q.project, category |-> q.category,
                                   direction |-> q.direction, stream |-> q.stream,
                                   planned |-> plan])
        /\ UNCHANGED journal

-----------------------------------------------------------------------------
(* updateEntry                                                             *)

UpdateRead(r) ==
  \E u \in Managers, e \in Entries :
    /\ Found(entries[e], ActorOf[u]) /\ ~entries[e].deleted
    /\ Start(r, [By(u, "update", "category") EXCEPT !.id = e, !.read = entries[e]])

(* Whatever of project, category and direction changes, the pair is        *)
(* checked again, with what was read where nothing new is given.           *)
UpdateCategory_OnlyIfGiven(r) ==
  /\ At(r, "update", "category")
  /\ \E p \in ProjectIds \cup {None}, c \in Cats \cup {None},
        d \in MoneyDirections \cup {None} :
       LET q == reqs[r] IN
       /\ p # None => ProjectFound(p, q.actor)
       /\ c # None => Usable(c, IF d = None THEN q.read.direction ELSE d, q.actor)
       /\ Proceed(r, [q EXCEPT !.pc = "stream", !.project = p, !.category = c, !.direction = d])

UpdateCategory(r) ==
  /\ At(r, "update", "category")
  /\ \E p \in ProjectIds \cup {None}, c \in Cats \cup {None},
        d \in MoneyDirections \cup {None} :
       LET q == reqs[r]
           OrRead(given, read) == IF given = None THEN read ELSE given
       IN
       /\ <<p, c, d>> # <<None, None, None>> =>
            /\ ProjectFound(OrRead(p, q.read.project), q.actor)
            /\ Usable(OrRead(c, q.read.category), OrRead(d, q.read.direction), q.actor)
       /\ Proceed(r, [q EXCEPT !.pc = "stream", !.project = p, !.category = c, !.direction = d])

(* A direction is kept, cleared or chosen; moving to another project drops *)
(* one that is kept.                                                       *)
UpdateStream_KeepsOnMove(r) ==
  /\ At(r, "update", "stream")
  /\ \E s \in Streams \cup {None, Keep} :
       LET q == reqs[r] IN
       /\ s # Keep => StreamFits(s, IF q.project = None THEN q.read.project ELSE q.project, q.actor)
       /\ Proceed(r, [q EXCEPT !.pc = "commit", !.stream = s])

UpdateStream(r) ==
  /\ At(r, "update", "stream")
  /\ \E s \in Streams \cup {None, Keep} :
       LET q == reqs[r]
           moved == q.project # None /\ q.project # q.read.project
       IN
       /\ s # Keep => StreamFits(s, IF q.project = None THEN q.read.project ELSE q.project, q.actor)
       /\ Proceed(r, [q EXCEPT !.pc = "commit",
                               !.stream = IF s = Keep /\ moved THEN None ELSE s])

UpdateCommit(r) ==
  /\ At(r, "update", "commit")
  /\ LET q == reqs[r]
         Given(value, old) == IF value = None THEN old ELSE value
         now == entries[q.id]
         row == [now EXCEPT !.project = Given(q.project, @), !.category = Given(q.category, @),
                            !.direction = Given(q.direction, @),
                            !.stream = IF q.stream = Keep THEN @ ELSE q.stream]
     IN  \/ ~cats[row.category].exists /\ Proceed(r, Idle)
         \/ cats[row.category].exists /\ CommitEntry(r, q.id, row) /\ UNCHANGED journal

-----------------------------------------------------------------------------
(* softDeleteEntry                                                         *)

DeleteRead_DeletedToo(r) ==
  \E u \in Managers, e \in Entries :
    /\ Found(entries[e], ActorOf[u])
    /\ Start(r, [By(u, "delete", "commit") EXCEPT !.id = e])

DeleteRead(r) ==
  \E u \in Managers, e \in Entries :
    /\ Found(entries[e], ActorOf[u]) /\ ~entries[e].deleted
    /\ Start(r, [By(u, "delete", "commit") EXCEPT !.id = e])

DeleteCommit(r) ==
  /\ At(r, "delete", "commit")
  /\ LET e == reqs[r].id IN
       /\ CommitEntry(r, e, [entries[e] EXCEPT !.deleted = TRUE])
       /\ journal' = [journal EXCEPT ![e] = @ + 1]

-----------------------------------------------------------------------------
(* Categories.                                                             *)

NameTaken(kind, name, but, actor) ==
  \E c \in Cats \ {but} : Found(cats[c], actor) /\ cats[c].kind = kind /\ cats[c].name = name

(* @@unique([portalId, kind, name])                                        *)
Unique(rows) ==
  \A c, d \in Cats :
    rows[c].exists /\ rows[d].exists /\ c # d =>
      <<rows[c].portal, rows[c].kind, rows[c].name>> # <<rows[d].portal, rows[d].kind, rows[d].name>>

CommitCategory(r, c, row) ==
  LET rows == [cats EXCEPT ![c] = row] IN
    \/ ~Unique(rows) /\ Proceed(r, Idle)
    \/ /\ Unique(rows) /\ cats' = rows
       /\ reqs' = Outdates(r, LAMBDA q : q.category = c
                                           \/ (q.op = "update" /\ q.read.category = c)
                                           \/ (q.op = "category" /\ q.id = c))
       /\ UNCHANGED <<streams, entries, journal, ops, late>>

NewCategoryCheck(r) ==
  \E u \in Managers, kind \in MoneyDirections, name \in Names :
    /\ ~NameTaken(kind, name, None, ActorOf[u])
    /\ Start(r, [By(u, "newcategory", "commit") EXCEPT !.direction = kind, !.read = name])

NewCategoryCommit(r) ==
  /\ At(r, "newcategory", "commit")
  /\ \E c \in Cats :
       /\ cats[c] = Absent
       /\ CommitCategory(r, c, [exists |-> TRUE, portal |-> reqs[r].actor.portal,
                                kind |-> reqs[r].direction, name |-> reqs[r].read,
                                archived |-> FALSE])

(* A new name, or archived or not; the row is written as asked now.        *)
CategoryCheck(r) ==
  \E u \in Managers, c \in Cats, change \in Names \cup {"archive", "restore"} :
    /\ Found(cats[c], ActorOf[u])
    /\ change \in Names => ~NameTaken(cats[c].kind, change, c, ActorOf[u])
    /\ Start(r, [By(u, "category", "commit") EXCEPT !.id = c, !.read = change])

CategoryCommit(r) ==
  /\ At(r, "category", "commit")
  /\ LET c == reqs[r].id  change == reqs[r].read IN
       \/ ~cats[c].exists /\ Proceed(r, Idle)
       \/ /\ cats[c].exists
          /\ CommitCategory(r, c, IF change \in Names THEN [cats[c] EXCEPT !.name = change]
                                  ELSE [cats[c] EXCEPT !.archived = (change = "archive")])

(* Only a category no entry uses, deleted ones included.                   *)
InUse(c) == \E e \in Entries : entries[e].exists /\ entries[e].category = c

DropCategoryCheck(r) ==
  \E u \in Managers, c \in Cats :
    /\ Found(cats[c], ActorOf[u]) /\ ~InUse(c)
    /\ Start(r, [By(u, "dropcategory", "commit") EXCEPT !.id = c])

(* The foreign key refuses a category that has come into use since.        *)
DropCategoryCommit(r) ==
  /\ At(r, "dropcategory", "commit")
  /\ LET c == reqs[r].id IN
       \/ (InUse(c) \/ ~cats[c].exists) /\ Proceed(r, Idle)
       \/ ~InUse(c) /\ cats[c].exists /\ CommitCategory(r, c, Gone)

-----------------------------------------------------------------------------
(* Directions of a project.                                                *)

NewStreamCheck(r) ==
  \E u \in Managers, p \in Projects :
    /\ ProjectFound(p.id, ActorOf[u])
    /\ Start(r, [By(u, "newstream", "commit") EXCEPT !.project = p.id])

CommitStream(r, s, row) ==
  /\ streams' = [streams EXCEPT ![s] = row]
  /\ reqs' = Outdates(r, LAMBDA q : q.stream = s)
  /\ UNCHANGED <<cats, entries, journal, ops, late>>

NewStreamCommit(r) ==
  /\ At(r, "newstream", "commit")
  /\ \E s \in Streams :
       /\ ~streams[s].exists
       /\ CommitStream(r, s, [exists |-> TRUE, portal |-> reqs[r].actor.portal,
                              project |-> reqs[r].project, archived |-> FALSE])

ArchiveStreamCheck(r) ==
  \E u \in Managers, s \in Streams :
    /\ FoundStream(s, ActorOf[u])
    /\ Start(r, [By(u, "archivestream", "commit") EXCEPT !.id = s])

ArchiveStreamCommit(r) ==
  /\ At(r, "archivestream", "commit")
  /\ CommitStream(r, reqs[r].id, [streams[reqs[r].id] EXCEPT !.archived = TRUE])

-----------------------------------------------------------------------------
EntryRequest(r) ==
  \/ CreateProject(r) \/ CreateCategory(r) \/ CreateStream(r) \/ CreateCommit(r)
  \/ UpdateRead(r) \/ UpdateCategory(r) \/ UpdateStream(r) \/ UpdateCommit(r)
  \/ DeleteRead(r) \/ DeleteCommit(r)

SettingsRequest(r) ==
  \/ NewCategoryCheck(r) \/ NewCategoryCommit(r) \/ CategoryCheck(r) \/ CategoryCommit(r)
  \/ DropCategoryCheck(r) \/ DropCategoryCommit(r)
  \/ NewStreamCheck(r) \/ NewStreamCommit(r) \/ ArchiveStreamCheck(r) \/ ArchiveStreamCommit(r)

(* A request that finds nothing it may do ends; nothing is written.        *)
GiveUp(r) == reqs[r].pc \in {"category", "stream", "commit"} /\ Proceed(r, Idle)

Next == \E r \in Reqs : EntryRequest(r) \/ SettingsRequest(r) \/ GiveUp(r)

Spec == Init /\ [][Next]_vars

-----------------------------------------------------------------------------
(* The writers.  "late" holds the entries written by a request although    *)
(* another one changed, after its checks, what they had looked at: the     *)
(* code does not check again inside the transaction.                       *)

(* An entry has a category that exists, and unless written late one of its *)
(* own direction (assertProjectAndCategory).                               *)
FitsCategory ==
  \A e \in Entries :
    entries[e].exists =>
      /\ cats[entries[e].category].exists
      /\ e \notin late => cats[entries[e].category].kind = entries[e].direction

(* An entry tagged with a direction of a project is in that project,       *)
(* however it was moved about, unless written late (ADR-052).              *)
StreamOfItsProject ==
  \A e \in Entries :
    entries[e].exists /\ entries[e].stream # None /\ e \notin late =>
      streams[entries[e].stream].project = entries[e].project

(* Nothing is newly put into an archived category or direction, unless it  *)
(* was archived between the check and the transaction.                     *)
ArchivedGetsNothingNew ==
  \A e \in Entries :
    entries'[e].exists /\ e \notin late' =>
      LET Newly(field) == ~entries[e].exists \/ entries'[e][field] # entries[e][field] IN
        /\ Newly("category") => ~cats[entries'[e].category].archived
        /\ Newly("stream") /\ entries'[e].stream # None => ~streams[entries'[e].stream].archived

(* Rows of a portal are written by its own sessions, and their project,    *)
(* category and direction are of the same portal, late or not              *)
(* (with-portal: "a request for portal A can never touch portal B's data").*)
(* The plan of an entry is not checked and may be any portal's.            *)
PortalsApart ==
  \A e \in Entries :
    entries'[e] # entries[e] =>
      /\ \E r \in Reqs : reqs[r].pc = "commit" /\ reqs'[r] = Idle
                          /\ reqs[r].actor.portal = entries'[e].portal
      /\ cats[entries'[e].category].portal = entries'[e].portal
      /\ entries'[e].stream # None => streams[entries'[e].stream].portal = entries'[e].portal
      /\ \E p \in Projects : p.id = entries'[e].project /\ p.portal = entries'[e].portal

(* The journal tells of one deletion of every deleted entry, and of none   *)
(* of the others; two deletions at once are both told of.                  *)
JournalTellsDeletion ==
  \A e \in Entries :
    /\ journal[e] > 0 <=> entries[e].exists /\ entries[e].deleted
    /\ e \notin late => journal[e] <= 1

(* The plan an entry realises is there, deleted or not: an update leaves   *)
(* it alone and no row is ever taken out of the books.                     *)
PlanIsThere ==
  \A e \in Entries :
    entries[e].exists /\ entries[e].planned # None => entries[entries[e].planned].exists

(* Every entry fits its category, its project, its plan, its portal and    *)
(* the journal, and nothing new goes where nothing more may go.            *)
BooksFit ==
  /\ [](FitsCategory /\ StreamOfItsProject /\ PlanIsThere /\ JournalTellsDeletion)
  /\ [][ArchivedGetsNothingNew /\ PortalsApart]_vars

-----------------------------------------------------------------------------
(* The readers.  They look at rows only, so it is enough to look at them   *)
(* when no request is under way.                                           *)

Quiet == \A r \in Reqs : reqs[r].pc = "idle"

Books ==
  [projects |-> Projects,
   entries |-> { [id |-> e, portal |-> entries[e].portal, project |-> entries[e].project,
                  category |-> entries[e].category, direction |-> entries[e].direction,
                  stream |-> entries[e].stream, deleted |-> entries[e].deleted,
                  budget |-> Facts[e].budget, amount |-> Facts[e].amount, day |-> Facts[e].day,
                  created |-> Facts[e].created] :
                 e \in { x \in Entries : entries[x].exists } },
   streams |-> { [id |-> s, project |-> streams[s].project, archived |-> streams[s].archived] :
                 s \in { x \in Streams : streams[x].exists } }]

LatestDay == Max({ Facts[e].day : e \in Entries })

Query(from, to, status) ==
  [project |-> None, direction |-> None, budget |-> None, category |-> None, from |-> from, to |-> to,
   status |-> status, includeDeleted |-> TRUE, sort |-> "date", dir |-> "desc",
   page |-> 1, pageSize |-> 1]

(* Of all time, or of a period that begins or ends somewhere.              *)
Queries == { Query(f, t, "ALL") : f \in {None, 1}, t \in {None, 1, LatestDay} }

(* A chart without an end goes up to this month: what is planned   *)
(* for later is in the figures and not in the chart.                       *)
Charted(rows, q) == { e \in rows : q.to # None \/ MonthOf(e.day) <= MonthOf(ThisDay) }

Sum4(f, Pick(_)) == MapThenSumSet(LAMBDA x : Pick(f[x]), DOMAIN f)

(* Over the same period and projects, the ledger, the list of projects,    *)
(* the overview and each of its charts come to the same money; the chart   *)
(* over time shows what is Charted.                                        *)
FiguresAgree ==
  Quiet =>
    \A u \in Users, q \in Queries :
      LET actor == ActorOf[u]
          dash == LoadDashboard(Books, actor, "PRO", q, ThisDay)
          list == QueryProjects(Books, actor, q)
          Rows(d, b) == Live(LedgerRows(Books, actor, [q EXCEPT !.direction = d, !.budget = b]))
          Ledger(d, b) == Amounts(Rows(d, b))
          Shown(d, b) == Amounts(Charted(Rows(d, b), q))
      IN  /\ dash.kpi.factIncome = Ledger("INCOME", "FACT")
          /\ dash.kpi.factExpense = Ledger("EXPENSE", "FACT")
          /\ dash.kpi.planIncome = Ledger("INCOME", "PLAN")
          /\ dash.kpi.planExpense = Ledger("EXPENSE", "PLAN")
          /\ dash.projects = list
          /\ Sum4(dash.bars, LAMBDA x : x.factProfit) = dash.kpi.factProfit
          /\ FoldFunction(+, 0, dash.structure) = dash.kpi.factExpense
          /\ Sum4(dash.series, LAMBDA x : x.factIncome) = Shown("INCOME", "FACT")
          /\ Sum4(dash.series, LAMBDA x : x.factExpense) = Shown("EXPENSE", "FACT")
          /\ Sum4(dash.series, LAMBDA x : x.planExpense) = Shown("EXPENSE", "PLAN")

(* A project's directions and what is untagged come to the project's own   *)
(* money, also after a direction was archived or an entry was moved.       *)
StreamsAddUp ==
  Quiet =>
    \A p \in Projects :
      LET parts == ProjectStreams(Books, p.id)
          whole == AggregateProject({ e \in Books.entries : e.project = p.id })
          Rest(Pick(_)) == IF parts.untagged = None THEN 0 ELSE Pick(parts.untagged)
          Both(Pick(_)) == Sum4(parts.streams, Pick) + Rest(Pick)
      IN  DOMAIN parts.streams # {} =>
            /\ Both(LAMBDA x : x.factIncome) = whole.factIncome
            /\ Both(LAMBDA x : x.factExpense) = whole.factExpense
            /\ Both(LAMBDA x : x.planExpense) = whole.planExpense

(* An employee sees the live entries of their projects and no figure made  *)
(* of others; who may not see a project gets none of it; charts are PRO.   *)
SeesOnlyOwn ==
  Quiet =>
    \A u \in Users, q \in Queries :
      LET actor == ActorOf[u]
          own == { p \in Projects : p.portal = actor.portal
                                    /\ (u \in Managers \/ actor.user \in p.members) }
          rows == LedgerRows(Books, actor, q)
          free == LoadDashboard(Books, actor, "FREE", q, ThisDay)
      IN  /\ { e.project : e \in rows } \subseteq { p.id : p \in own }
          /\ u \notin Managers => rows = Live(rows)
          /\ DOMAIN QueryProjects(Books, actor, q) = { p.id : p \in own }
          /\ \A p \in Projects : p \in own <=> ProjectDetail(Books, actor, p) # None
          /\ free.kpi = LoadDashboard(Books, actor, "PRO", q, ThisDay).kpi
          /\ free.series = << >> /\ free.structure = << >> /\ free.bars = << >>

(* The pages of the ledger, read one after another while nothing is        *)
(* written: no row comes on a later page than one it stands before, and a  *)
(* row that no other one equals in the column and in the moment of its     *)
(* creation is on one page, and on no other.  Rows that are equal may come *)
(* twice or not at all (entries of one transaction are created at once).   *)
PagesTile ==
  Quiet =>
    \A u \in Users, size \in {1, 2}, sort \in {"date", "amount", "project"}, dir \in {"asc", "desc"} :
      LET q == [Query(None, None, "ALL") EXCEPT !.pageSize = size, !.sort = sort, !.dir = dir]
          rows == LedgerRows(Books, ActorOf[u], q)
          pages == 1 .. ((Cardinality(rows) + size - 1) \div size)
          Answers(k) == QueryEntries(Books, ActorOf[u], [q EXCEPT !.page = k])
          Stands(e, f) == Before(Books, q, e, f)
      IN  /\ \A j, k \in pages :
               j < k => \A A \in Answers(j), B \in Answers(k) :
                          \A e \in A.rows, f \in B.rows : ~Stands(f, e)
          /\ \A e \in rows :
               (\A f \in rows \ {e} : Stands(e, f) \/ Stands(f, e)) =>
                 \E k \in pages : \A j \in pages : \A A \in Answers(j) : e \in A.rows <=> j = k

(* All pages over the books say the same, and say it to who may know it.   *)
ReadersAgree == FiguresAgree /\ StreamsAddUp /\ SeesOnlyOwn /\ PagesTile
=============================================================================
