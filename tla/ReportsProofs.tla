---------------------------- MODULE ReportsProofs ----------------------------
(***************************************************************************)
(* What holds of the books of a portal (Ledger) and of the reports over    *)
(* its activity (Reports), for any number of requests, of people, of       *)
(* portals and of rows, for any calendar and any zones that keep its days. *)
(*                                                                         *)
(* The writers: LedgerInv says of every request what it has looked at, and *)
(* which of it still stands; every step keeps it, and BooksFit follows.    *)
(*                                                                         *)
(* The readers: whatever books satisfy LedgerInv, the pages over them      *)
(* agree (ReadersAgree).  Their sums are rearranged with the lemmas of     *)
(* Sums; that no entry falls outside a chart is a matter of the calendar   *)
(* (Calendar): buckets begin with themselves, and each day of a period is  *)
(* in one of the chart of the period.                                      *)
(*                                                                         *)
(* The support month: MonthAsAgreed, from rounding that never goes down.   *)
(*                                                                         *)
(* The calendar: a midnight is the first instant a clock shows one, so an  *)
(* instant is of day d or later when the midnight of d is past; months,    *)
(* periods, the period before and the charts follow (CalendarFits).        *)
(*                                                                         *)
(* The figures: ActivityInv says that numbers tell tasks and time records  *)
(* apart and that hours are logged on a task there is or on a deal.  Each  *)
(* figure, list and breakdown is then the same hours or tasks, counted     *)
(* whole, cut by day, source, status, project, person or month, or under   *)
(* other names, and Sums says that these come to the same                  *)
(* (AnalyticsAgree).                                                       *)
(***************************************************************************)
EXTENDS Ledger, Reports, Sums, SequenceTheorems, TLAPS

-----------------------------------------------------------------------------
(* The books of a portal.                                                  *)

Signed == { ActorOf[u] : u \in Users }

Changes == Names \cup {"archive", "restore"}

Readable(op) == IF op = "update" THEN EntryRow ELSE Changes \cup {None}

Started == {"create", "update", "delete", "newcategory", "category", "dropcategory", "newstream",
            "archivestream"}

RequestOf(Reads) ==
  [op : {"none", "create", "update", "delete", "newcategory", "category", "dropcategory",
         "newstream", "archivestream"},
   pc : {"idle", "category", "stream", "commit"}, actor : Signed \cup {None},
   id : Entries \cup Cats \cup Streams \cup {None}, read : Reads,
   project : ProjectIds \cup {None}, category : Cats \cup {None}, direction : MoneyDirections \cup {None},
   stream : Streams \cup {None, Keep}, stale : BOOLEAN]

IsRequest(q) == q \in RequestOf(Readable(q.op))

BooksTypeOK ==
  /\ cats \in [Cats -> CategoryRow \cup {Absent, Gone}]
  /\ streams \in [Streams -> StreamRow \cup {Absent}]
  /\ entries \in [Entries -> EntryRow \cup {Absent}]
  /\ journal \in [Entries -> Nat]
  /\ reqs = [r \in Reqs |-> reqs[r]] /\ \A r \in Reqs : IsRequest(reqs[r])
  /\ late \subseteq Entries

OrRead(given, read) == IF given = None THEN read ELSE given

NothingGiven(q) == q.project = None /\ q.category = None /\ q.direction = None

(* What a request has looked at and can not change while it runs.          *)
Lasting(q, cs, ss, es) ==
  /\ q.pc = "idle" => q.op = "none"
  /\ q.pc # "idle" => q.actor \in Signed
  /\ q.pc \in {"category", "stream"} => q.stream = None
  /\ q.op = "create" => q.project # None /\ q.id = None
  /\ q.op \in {"create", "update"} =>
       /\ q.project # None => ProjectFound(q.project, q.actor)
       /\ q.category # None => cs[q.category] # Absent /\ (cs[q.category].exists => cs[q.category].portal = q.actor.portal)
       /\ q.stream \in Streams =>
            /\ ss[q.stream].exists /\ ss[q.stream].portal = q.actor.portal
            /\ ss[q.stream].project = OrRead(q.project, q.read.project)
  /\ q.op = "create" /\ q.pc \in {"stream", "commit"} => q.category # None /\ q.direction # None
  /\ q.op = "create" => q.stream # Keep
  /\ q.op = "update" /\ q.stream = Keep => OrRead(q.project, q.read.project) = q.read.project
  /\ q.op \in {"update", "delete"} => q.id \in Entries /\ es[q.id].exists /\ es[q.id].portal = q.actor.portal
  /\ q.op \in {"category", "dropcategory"} => q.id \in Cats
  /\ q.op = "newcategory" => q.read \in Names /\ q.direction \in MoneyDirections
  /\ q.op = "newstream" => q.project \in ProjectIds
  /\ q.op = "archivestream" => q.id \in Streams /\ ss[q.id].exists

(* What it has looked at and still is so, unless another request that      *)
(* committed since has marked it.                                          *)
Standing(q, cs, ss, es) ==
  /\ q.op = "create" /\ q.pc \in {"stream", "commit"} =>
       cs[q.category].exists /\ cs[q.category].kind = q.direction /\ ~cs[q.category].archived
  /\ q.op = "update" => es[q.id] = q.read /\ ~q.read.deleted
  /\ q.op = "update" /\ q.pc \in {"stream", "commit"} /\ ~NothingGiven(q) =>
       LET c == OrRead(q.category, q.read.category) IN
         cs[c].exists /\ cs[c].kind = OrRead(q.direction, q.read.direction) /\ ~cs[c].archived
  /\ q.op \in {"create", "update"} /\ q.stream \in Streams => ~ss[q.stream].archived
  /\ q.op = "delete" => ~es[q.id].deleted

RequestSound(q, cs, ss, es) == Lasting(q, cs, ss, es) /\ (~q.stale => Standing(q, cs, ss, es))

(* What an entry refers to is there and of its portal, late or not.        *)
EntryApart(row, cs, ss) ==
  row.exists =>
    /\ cs[row.category].exists /\ cs[row.category].portal = row.portal
    /\ row.stream # None => ss[row.stream].exists /\ ss[row.stream].portal = row.portal
    /\ \E p \in Projects : p.id = row.project /\ p.portal = row.portal

(* The plan a row refers to is one of the books.                           *)
PlanFits(row, es) == row.exists /\ row.planned # None => es[row.planned].exists

LedgerInv ==
  /\ BooksTypeOK
  /\ \A r \in Reqs : RequestSound(reqs[r], cats, streams, entries)
  /\ \A e \in Entries : EntryApart(entries[e], cats, streams)
  /\ FitsCategory /\ StreamOfItsProject /\ PlanIsThere /\ JournalTellsDeletion
-----------------------------------------------------------------------------
LEMMA RowsDiffer ==
  /\ Absent.exists = FALSE /\ Gone.exists = FALSE /\ Gone # Absent
  /\ \A row \in CategoryRow : row.exists = TRUE /\ row # Absent
  /\ \A row \in StreamRow \cup EntryRow : row.exists = TRUE
<1>1. Absent.exists = FALSE /\ Gone.exists = FALSE
  BY DEF Absent, Gone
<1>2. "gone" \in DOMAIN Gone /\ "gone" \notin DOMAIN Absent
  BY DEF Absent, Gone
<1>3. \A row \in CategoryRow : row.exists = TRUE
  BY DEF CategoryRow
<1>4. \A row \in StreamRow \cup EntryRow : row.exists = TRUE
  BY DEF StreamRow, EntryRow
<1>5. Gone # Absent
  BY <1>2
<1>6. \A row \in CategoryRow : row # Absent
  BY <1>1, <1>3
<1> QED BY <1>1, <1>3, <1>4, <1>5, <1>6

(* The fields of a request, one by one.                                    *)
LEMMA RequestFields ==
  ASSUME NEW Reads, NEW q \in RequestOf(Reads)
  PROVE  /\ q.project \in ProjectIds \cup {None} /\ q.category \in Cats \cup {None}
         /\ q.direction \in MoneyDirections \cup {None} /\ q.stream \in Streams \cup {None, Keep}
         /\ q.stale \in BOOLEAN /\ q.actor \in Signed \cup {None} /\ q.read \in Reads
BY DEF RequestOf

LEMMA IdleSound ==
  ASSUME NEW cs, NEW ss, NEW es
  PROVE  IsRequest(Idle) /\ RequestSound(Idle, cs, ss, es)
<1>1. IsRequest(Idle)
  BY DEF IsRequest, RequestOf, Readable, Idle
<1>2. Idle.op = "none" /\ Idle.pc = "idle"
  BY DEF Idle
<1>3. Lasting(Idle, cs, ss, es) /\ Standing(Idle, cs, ss, es)
  BY <1>2 DEF Lasting, Standing
<1> QED BY <1>1, <1>3 DEF RequestSound

(* A request that starts.                                                  *)
Starting(b, u, o, p, Reads) ==
  /\ b \in RequestOf(Reads)
  /\ b.op = o /\ b.pc = p /\ b.actor = ActorOf[u] /\ b.actor \in Signed /\ b.id = None /\ b.read = None
  /\ b.project = None /\ b.category = None /\ b.direction = None /\ b.stream = None
  /\ b.stale = FALSE

LEMMA ByIs ==
  ASSUME NEW u, u \in Users, NEW o, o \in Started, NEW p, p \in {"category", "commit"},
         NEW Reads, None \in Reads, NEW b, b = By(u, o, p)
  PROVE  Starting(b, u, o, p, Reads)
<1>1. ActorOf[u] \in Signed
  BY DEF Signed
<1>2. PICK i : i = Idle
  OBVIOUS
<1>3. /\ i \in RequestOf(Reads)
      /\ i.id = None /\ i.read = None /\ i.project = None /\ i.category = None
      /\ i.direction = None /\ i.stream = None /\ i.stale = FALSE
  BY <1>2 DEF Idle, RequestOf
<1>4. b = [i EXCEPT !.op = o, !.pc = p, !.actor = ActorOf[u]]
  BY <1>2 DEF By
<1>5. b \in RequestOf(Reads)
  BY <1>1, <1>3, <1>4, ZenonT(60) DEF RequestOf, Started
<1> QED BY <1>1, <1>3, <1>4, <1>5 DEF RequestOf, Starting

(* A request marked by the commit of another one is marked and no more.    *)
LEMMA MarkedIs ==
  ASSUME NEW q, IsRequest(q), NEW m, m = [q EXCEPT !.stale = TRUE]
  PROVE  /\ IsRequest(m) /\ m.stale = TRUE
         /\ m.op = q.op /\ m.pc = q.pc /\ m.actor = q.actor /\ m.id = q.id /\ m.read = q.read
         /\ m.project = q.project /\ m.category = q.category /\ m.direction = q.direction
         /\ m.stream = q.stream
BY DEF IsRequest, RequestOf

LEMMA MarkedSound ==
  ASSUME NEW q, IsRequest(q), NEW m, m = [q EXCEPT !.stale = TRUE],
         NEW cs, NEW ss, NEW es, Lasting(q, cs, ss, es)
  PROVE  IsRequest(m) /\ RequestSound(m, cs, ss, es)
<1>1. /\ IsRequest(m) /\ m.stale = TRUE
      /\ m.op = q.op /\ m.pc = q.pc /\ m.actor = q.actor /\ m.id = q.id /\ m.read = q.read
      /\ m.project = q.project /\ m.category = q.category /\ m.direction = q.direction
      /\ m.stream = q.stream
  BY MarkedIs
<1>2. Lasting(m, cs, ss, es)
  BY <1>1 DEF Lasting
<1> QED BY <1>1, <1>2 DEF RequestSound

(* A step that only moves one request on.                                  *)
LEMMA RequestMoves ==
  ASSUME LedgerInv, NEW r \in Reqs, NEW q, IsRequest(q), RequestSound(q, cats, streams, entries),
         reqs' = [reqs EXCEPT ![r] = q], UNCHANGED <<cats, streams, entries, journal, late>>
  PROVE  LedgerInv'
<1>1. \A s \in Reqs : reqs'[s] = IF s = r THEN q ELSE reqs[s]
  BY DEF LedgerInv, BooksTypeOK
<1>2. reqs' = [s \in Reqs |-> reqs'[s]]
  BY DEF LedgerInv, BooksTypeOK
<1>3. \A s \in Reqs : IsRequest(reqs'[s]) /\ RequestSound(reqs'[s], cats, streams, entries)
  BY <1>1 DEF LedgerInv, BooksTypeOK
<1>4. BooksTypeOK'
  BY <1>2, <1>3 DEF LedgerInv, BooksTypeOK
<1>5. \A s \in Reqs : RequestSound(reqs[s], cats, streams, entries)'
  BY <1>3
<1>6. (\A e \in Entries : EntryApart(entries[e], cats, streams))'
  BY DEF LedgerInv
<1>7. (FitsCategory /\ StreamOfItsProject /\ PlanIsThere /\ JournalTellsDeletion)'
  BY DEF LedgerInv, FitsCategory, StreamOfItsProject, PlanIsThere, JournalTellsDeletion
<1> QED BY <1>4, <1>5, <1>6, <1>7 DEF LedgerInv

(* A request of a person starts.                                           *)
LEMMA StartMoves ==
  ASSUME LedgerInv, NEW r \in Reqs, NEW q, IsRequest(q), RequestSound(q, cats, streams, entries),
         Start(r, q) \/ Proceed(r, q)
  PROVE  LedgerInv'
BY RequestMoves DEF Start, Proceed
-----------------------------------------------------------------------------
(* Creating an entry.                                                      *)

LEMMA CreateProjectKeeps == ASSUME LedgerInv, NEW r \in Reqs, CreateProject(r) PROVE LedgerInv'
<1>1. PICK u \in Managers, p \in Projects :
        /\ ProjectFound(p.id, ActorOf[u])
        /\ Start(r, [By(u, "create", "category") EXCEPT !.project = p.id])
  BY DEF CreateProject
<1>2. u \in Users /\ ActorOf[u] \in Signed /\ p.id \in ProjectIds /\ p.id # None
  BY LedgerAssumption DEF Managers, Signed, ProjectIds
<1>3. PICK o, at, b, q :
        /\ o = "create" /\ at = "category" /\ b = By(u, o, at)
        /\ q = [b EXCEPT !.project = p.id]
  OBVIOUS
<1>o. o \in Started /\ at \in {"category", "commit"} /\ None \in Changes \cup {None} /\ b = By(u, o, at)
  BY <1>3 DEF Started
<1>4a. Starting(b, u, o, at, Changes \cup {None})
  BY <1>o, <1>2, ByIs
<1>4. /\ b \in RequestOf(Changes \cup {None})
      /\ b.op = "create" /\ b.pc = "category" /\ b.actor = ActorOf[u] /\ b.id = None /\ b.read = None
      /\ b.project = None /\ b.category = None /\ b.direction = None /\ b.stream = None
      /\ b.stale = FALSE
  BY <1>3, <1>4a DEF Starting
<1>5. /\ IsRequest(q)
      /\ q.op = "create" /\ q.pc = "category" /\ q.actor = ActorOf[u] /\ q.id = None
      /\ q.project = p.id /\ q.category = None /\ q.direction = None /\ q.stream = None
  BY <1>2, <1>3, <1>4 DEF IsRequest, RequestOf, Readable
<1>6. Lasting(q, cats, streams, entries)
  BY <1>1, <1>2, <1>5, LedgerAssumption DEF Lasting
<1>7. Standing(q, cats, streams, entries)
  BY <1>5, LedgerAssumption DEF Standing
<1> QED BY <1>1, <1>3, <1>5, <1>6, <1>7, StartMoves DEF RequestSound

LEMMA CreateCategoryKeeps == ASSUME LedgerInv, NEW r \in Reqs, CreateCategory(r) PROVE LedgerInv'
<1>1. PICK c \in Cats, d \in MoneyDirections :
        /\ Usable(c, d, reqs[r].actor)
        /\ Proceed(r, [reqs[r] EXCEPT !.pc = "stream", !.category = c, !.direction = d])
  BY DEF CreateCategory
<1>2. PICK o : o = reqs[r]
  OBVIOUS
<1>3. PICK q : q = [o EXCEPT !.pc = "stream", !.category = c, !.direction = d]
  OBVIOUS
<1>4. IsRequest(o) /\ RequestSound(o, cats, streams, entries) /\ o.op = "create" /\ o.pc = "category"
  BY <1>2 DEF LedgerInv, BooksTypeOK, CreateCategory, At
<1>5. /\ q.op = "create" /\ q.pc = "stream" /\ q.actor = o.actor /\ q.id = o.id /\ q.read = o.read
      /\ q.project = o.project /\ q.category = c /\ q.direction = d /\ q.stream = o.stream /\ q.stale = o.stale
      /\ IsRequest(q)
  BY <1>3, <1>4 DEF IsRequest, RequestOf
<1>6. /\ cats[c].exists /\ cats[c].portal = o.actor.portal /\ cats[c].kind = d /\ ~cats[c].archived
      /\ cats[c] # Absent /\ c # None /\ d # None
  BY <1>1, <1>2, RowsDiffer, LedgerAssumption DEF Usable, Found
<1>7. Lasting(q, cats, streams, entries)
  BY <1>4, <1>5, <1>6 DEF Lasting, RequestSound
<1>8. ~q.stale => Standing(q, cats, streams, entries)
  BY <1>4, <1>5, <1>6 DEF Standing, RequestSound
<1> QED BY <1>1, <1>2, <1>3, <1>5, <1>7, <1>8, StartMoves DEF RequestSound

LEMMA FitsMeans ==
  ASSUME NEW s \in Streams, NEW project, NEW actor, StreamFits(s, project, actor)
  PROVE  /\ streams[s].exists /\ streams[s].portal = actor.portal
         /\ streams[s].project = project /\ ~streams[s].archived
BY LedgerAssumption DEF StreamFits, FoundStream, Found

LEMMA CreateStreamKeeps == ASSUME LedgerInv, NEW r \in Reqs, CreateStream(r) PROVE LedgerInv'
<1>1. PICK s \in Streams \cup {None} :
        /\ StreamFits(s, reqs[r].project, reqs[r].actor)
        /\ Proceed(r, [reqs[r] EXCEPT !.pc = "commit", !.stream = s])
  BY DEF CreateStream
<1>2. PICK o : o = reqs[r]
  OBVIOUS
<1>3. PICK q : q = [o EXCEPT !.pc = "commit", !.stream = s]
  OBVIOUS
<1>4. IsRequest(o) /\ RequestSound(o, cats, streams, entries) /\ o.op = "create" /\ o.pc = "stream"
  BY <1>2 DEF LedgerInv, BooksTypeOK, CreateStream, At
<1>5. /\ q.op = "create" /\ q.pc = "commit" /\ q.actor = o.actor /\ q.id = o.id /\ q.read = o.read
      /\ q.project = o.project /\ q.category = o.category /\ q.direction = o.direction
      /\ q.stream = s /\ q.stale = o.stale
      /\ IsRequest(q)
  BY <1>1, <1>3, <1>4 DEF IsRequest, RequestOf
<1>6. s \in Streams => /\ streams[s].exists /\ streams[s].portal = o.actor.portal
                       /\ streams[s].project = o.project /\ ~streams[s].archived
  BY <1>1, <1>2, FitsMeans
<1>7. s # Keep /\ o.project # None
  BY <1>1, <1>4, LedgerAssumption DEF RequestSound, Lasting
<1>8. Lasting(q, cats, streams, entries)
  BY <1>4, <1>5, <1>6, <1>7 DEF Lasting, RequestSound, OrRead
<1>9. ~q.stale => Standing(q, cats, streams, entries)
  BY <1>4, <1>5, <1>6 DEF Standing, RequestSound
<1> QED BY <1>1, <1>2, <1>3, <1>5, <1>8, <1>9, StartMoves DEF RequestSound

-----------------------------------------------------------------------------
(* Changing an entry.                                                      *)

LEMMA UpdateReadKeeps == ASSUME LedgerInv, NEW r \in Reqs, UpdateRead(r) PROVE LedgerInv'
<1>1. PICK u \in Managers, e \in Entries :
        /\ Found(entries[e], ActorOf[u]) /\ ~entries[e].deleted
        /\ Start(r, [By(u, "update", "category") EXCEPT !.id = e, !.read = entries[e]])
  BY DEF UpdateRead
<1>2. u \in Users /\ ActorOf[u] \in Signed
  BY DEF Managers, Signed
<1>3. PICK o, at, b, q :
        /\ o = "update" /\ at = "category" /\ b = By(u, o, at)
        /\ q = [b EXCEPT !.id = e, !.read = entries[e]]
  OBVIOUS
<1>o. o \in Started /\ at \in {"category", "commit"} /\ None \in EntryRow \cup {None} /\ b = By(u, o, at)
  BY <1>3 DEF Started
<1>4a. Starting(b, u, o, at, EntryRow \cup {None})
  BY <1>o, <1>2, ByIs
<1>4. /\ b \in RequestOf(EntryRow \cup {None})
      /\ b.op = "update" /\ b.pc = "category" /\ b.actor = ActorOf[u]
      /\ b.project = None /\ b.category = None /\ b.direction = None /\ b.stream = None
      /\ b.stale = FALSE
  BY <1>3, <1>4a DEF Starting
<1>5. entries[e] \in EntryRow /\ entries[e].exists /\ entries[e].portal = ActorOf[u].portal
  BY <1>1, RowsDiffer DEF LedgerInv, BooksTypeOK, Found
<1>6. /\ IsRequest(q)
      /\ q.op = "update" /\ q.pc = "category" /\ q.actor = ActorOf[u] /\ q.id = e /\ q.read = entries[e]
      /\ q.project = None /\ q.category = None /\ q.direction = None /\ q.stream = None
  <2>1. q = [b EXCEPT !.id = e, !.read = entries[e]]
    BY <1>3
  <2>2. q \in RequestOf(EntryRow)
    BY <1>4, <1>5, <2>1 DEF RequestOf
  <2>3. /\ q.op = "update" /\ q.pc = "category" /\ q.actor = ActorOf[u] /\ q.id = e /\ q.read = entries[e]
        /\ q.project = None /\ q.category = None /\ q.direction = None /\ q.stream = None
    BY <1>4, <2>1 DEF RequestOf
  <2> QED BY <2>2, <2>3 DEF IsRequest, Readable
<1>7. Lasting(q, cats, streams, entries)
  BY <1>2, <1>5, <1>6, LedgerAssumption DEF Lasting
<1>8. Standing(q, cats, streams, entries)
  BY <1>1, <1>6, LedgerAssumption DEF Standing, NothingGiven
<1> QED BY <1>1, <1>3, <1>6, <1>7, <1>8, StartMoves DEF RequestSound

LEMMA UpdateCategoryKeeps == ASSUME LedgerInv, NEW r \in Reqs, UpdateCategory(r) PROVE LedgerInv'
<1>1. PICK p \in ProjectIds \cup {None}, c \in Cats \cup {None}, d \in MoneyDirections \cup {None} :
        /\ <<p, c, d>> # <<None, None, None>> =>
             /\ ProjectFound(OrRead(p, reqs[r].read.project), reqs[r].actor)
             /\ Usable(OrRead(c, reqs[r].read.category), OrRead(d, reqs[r].read.direction), reqs[r].actor)
        /\ Proceed(r, [reqs[r] EXCEPT !.pc = "stream", !.project = p, !.category = c, !.direction = d])
  BY DEF UpdateCategory, OrRead
<1>2. PICK o : o = reqs[r]
  OBVIOUS
<1>3. PICK q : q = [o EXCEPT !.pc = "stream", !.project = p, !.category = c, !.direction = d]
  OBVIOUS
<1>4. IsRequest(o) /\ RequestSound(o, cats, streams, entries) /\ o.op = "update" /\ o.pc = "category"
  BY <1>2 DEF LedgerInv, BooksTypeOK, UpdateCategory, At
<1>5. /\ q.op = "update" /\ q.pc = "stream" /\ q.actor = o.actor /\ q.id = o.id /\ q.read = o.read
      /\ q.project = p /\ q.category = c /\ q.direction = d /\ q.stream = o.stream /\ q.stale = o.stale
      /\ IsRequest(q)
  BY <1>1, <1>3, <1>4 DEF IsRequest, RequestOf
<1>6. ~NothingGiven(q) =>
        LET k == OrRead(c, o.read.category) IN
          /\ cats[k].exists /\ cats[k].portal = o.actor.portal
          /\ cats[k].kind = OrRead(d, o.read.direction) /\ ~cats[k].archived
          /\ cats[k] # Absent
          /\ ProjectFound(OrRead(p, o.read.project), o.actor)
  BY <1>1, <1>2, <1>5, RowsDiffer DEF NothingGiven, Usable, Found
<1>7. /\ c # None => cats[c].exists /\ cats[c].portal = o.actor.portal /\ cats[c] # Absent
      /\ p # None => ProjectFound(p, o.actor)
  BY <1>5, <1>6 DEF NothingGiven, OrRead
<1>8. o.stream \notin Streams /\ o.stream # Keep
  BY <1>4, LedgerAssumption DEF RequestSound, Lasting
<1>9. Lasting(q, cats, streams, entries)
  BY <1>4, <1>5, <1>7, <1>8 DEF Lasting, RequestSound
<1>10. ~q.stale => Standing(q, cats, streams, entries)
  BY <1>4, <1>5, <1>6, <1>8 DEF Standing, RequestSound
<1> QED BY <1>1, <1>2, <1>3, <1>5, <1>9, <1>10, StartMoves DEF RequestSound

LEMMA UpdateStreamKeeps == ASSUME LedgerInv, NEW r \in Reqs, UpdateStream(r) PROVE LedgerInv'
<1>1. PICK o : o = reqs[r]
  OBVIOUS
<1>2. IsRequest(o) /\ RequestSound(o, cats, streams, entries) /\ o.op = "update" /\ o.pc = "stream"
  BY <1>1 DEF LedgerInv, BooksTypeOK, UpdateStream, At
<1>3. PICK s, moved, t :
        /\ s \in Streams \cup {None, Keep}
        /\ moved = (o.project # None /\ o.project # o.read.project)
        /\ t = (IF s = Keep /\ moved THEN None ELSE s)
        /\ s # Keep => StreamFits(s, OrRead(o.project, o.read.project), o.actor)
        /\ Proceed(r, [o EXCEPT !.pc = "commit", !.stream = t])
  BY <1>1 DEF UpdateStream, OrRead
<1>4. PICK q : q = [o EXCEPT !.pc = "commit", !.stream = t]
  OBVIOUS
<1>5. /\ q.op = "update" /\ q.pc = "commit" /\ q.actor = o.actor /\ q.id = o.id /\ q.read = o.read
      /\ q.project = o.project /\ q.category = o.category /\ q.direction = o.direction
      /\ q.stream = t /\ q.stale = o.stale
      /\ IsRequest(q)
  BY <1>2, <1>3, <1>4, ZenonT(60) DEF IsRequest, RequestOf
<1>6. t \in Streams => /\ streams[t].exists /\ streams[t].portal = o.actor.portal
                       /\ streams[t].project = OrRead(o.project, o.read.project) /\ ~streams[t].archived
  BY <1>3, FitsMeans, LedgerAssumption
<1>7. t = Keep => OrRead(o.project, o.read.project) = o.read.project
  BY <1>3, LedgerAssumption DEF OrRead
<1>8. Lasting(q, cats, streams, entries)
  BY <1>2, <1>5, <1>6, <1>7 DEF Lasting, RequestSound
<1>9. ~q.stale => Standing(q, cats, streams, entries)
  BY <1>2, <1>5, <1>6 DEF Standing, RequestSound, NothingGiven
<1> QED BY <1>3, <1>4, <1>5, <1>8, <1>9, StartMoves DEF RequestSound

(* A request that begins at its only check.                                *)
LEMMA CheckStarts ==
  ASSUME NEW u, u \in Managers, NEW o, o \in Started, NEW Reads, None \in Reads, NEW b, NEW at,
         at = "commit", b = By(u, o, at)
  PROVE  Starting(b, u, o, at, Reads)
<1>1. u \in Users /\ at \in {"category", "commit"}
  BY DEF Managers
<1> QED BY <1>1, ByIs

LEMMA DeleteReadKeeps == ASSUME LedgerInv, NEW r \in Reqs, DeleteRead(r) PROVE LedgerInv'
<1>1. PICK u \in Managers, e \in Entries :
        /\ Found(entries[e], ActorOf[u]) /\ ~entries[e].deleted
        /\ Start(r, [By(u, "delete", "commit") EXCEPT !.id = e])
  BY DEF DeleteRead
<1>2. PICK o, at, b, q :
        o = "delete" /\ at = "commit" /\ b = By(u, o, at) /\ q = [b EXCEPT !.id = e]
  OBVIOUS
<1>3. o \in Started /\ None \in Changes \cup {None} /\ b = By(u, o, at) /\ at = "commit"
  BY <1>2 DEF Started
<1>4. Starting(b, u, o, at, Changes \cup {None})
  BY <1>3, CheckStarts
<1>5. /\ IsRequest(q)
      /\ q.op = "delete" /\ q.pc = "commit" /\ q.actor = ActorOf[u] /\ q.actor \in Signed /\ q.id = e
  BY <1>2, <1>4 DEF Starting, IsRequest, RequestOf, Readable
<1>6. Lasting(q, cats, streams, entries)
  BY <1>1, <1>5 DEF Lasting, Found
<1>7. Standing(q, cats, streams, entries)
  BY <1>1, <1>5 DEF Standing
<1> QED BY <1>1, <1>2, <1>5, <1>6, <1>7, StartMoves DEF RequestSound

-----------------------------------------------------------------------------
(* The checks of the settings.                                             *)

LEMMA NewCategoryCheckKeeps == ASSUME LedgerInv, NEW r \in Reqs, NewCategoryCheck(r) PROVE LedgerInv'
<1>1. PICK u \in Managers, kind \in MoneyDirections, name \in Names :
        Start(r, [By(u, "newcategory", "commit") EXCEPT !.direction = kind, !.read = name])
  BY DEF NewCategoryCheck
<1>2. PICK o, at, b, q :
        /\ o = "newcategory" /\ at = "commit" /\ b = By(u, o, at)
        /\ q = [b EXCEPT !.direction = kind, !.read = name]
  OBVIOUS
<1>3. o \in Started /\ None \in Changes \cup {None} /\ b = By(u, o, at) /\ at = "commit"
  BY <1>2 DEF Started
<1>4. Starting(b, u, o, at, Changes \cup {None})
  BY <1>3, CheckStarts
<1>5. /\ IsRequest(q)
      /\ q.op = "newcategory" /\ q.pc = "commit" /\ q.actor \in Signed
      /\ q.read = name /\ q.direction = kind
  BY <1>2, <1>4, ZenonT(60) DEF Starting, IsRequest, RequestOf, Readable, Changes
<1>6. Lasting(q, cats, streams, entries) /\ Standing(q, cats, streams, entries)
  BY <1>5 DEF Lasting, Standing
<1> QED BY <1>1, <1>2, <1>5, <1>6, StartMoves DEF RequestSound

LEMMA IdAndRead ==
  ASSUME NEW Reads, NEW b \in RequestOf(Reads), NEW c \in Cats, NEW x \in Reads,
         NEW q, q = [b EXCEPT !.id = c, !.read = x]
  PROVE  q \in RequestOf(Reads)
BY DEF RequestOf

LEMMA CategoryCheckKeeps == ASSUME LedgerInv, NEW r \in Reqs, CategoryCheck(r) PROVE LedgerInv'
<1>1. PICK u \in Managers, c \in Cats, change \in Changes :
        Start(r, [By(u, "category", "commit") EXCEPT !.id = c, !.read = change])
  BY DEF CategoryCheck, Changes
<1>2. PICK o, at, b, q :
        /\ o = "category" /\ at = "commit" /\ b = By(u, o, at)
        /\ q = [b EXCEPT !.id = c, !.read = change]
  OBVIOUS
<1>3. o \in Started /\ None \in Changes \cup {None} /\ b = By(u, o, at) /\ at = "commit"
  BY <1>2 DEF Started
<1>4. Starting(b, u, o, at, Changes \cup {None})
  BY <1>3, CheckStarts
<1>5. q.op = "category" /\ q.pc = "commit" /\ q.actor \in Signed /\ q.id = c
  BY <1>2, <1>4 DEF Starting, RequestOf
<1>5a. q \in RequestOf(Changes \cup {None})
  <2>1. b \in RequestOf(Changes \cup {None}) /\ change \in Changes \cup {None}
    BY <1>4 DEF Starting
  <2>2. q = [b EXCEPT !.id = c, !.read = change]
    BY <1>2
  <2> QED BY <2>1, <2>2, IdAndRead
<1>5b. IsRequest(q)
  BY <1>5, <1>5a DEF IsRequest, Readable
<1>6. Lasting(q, cats, streams, entries) /\ Standing(q, cats, streams, entries)
  BY <1>5 DEF Lasting, Standing
<1> QED BY <1>1, <1>2, <1>5b, <1>6, StartMoves DEF RequestSound

LEMMA DropCategoryCheckKeeps == ASSUME LedgerInv, NEW r \in Reqs, DropCategoryCheck(r) PROVE LedgerInv'
<1>1. PICK u \in Managers, c \in Cats : Start(r, [By(u, "dropcategory", "commit") EXCEPT !.id = c])
  BY DEF DropCategoryCheck
<1>2. PICK o, at, b, q :
        o = "dropcategory" /\ at = "commit" /\ b = By(u, o, at) /\ q = [b EXCEPT !.id = c]
  OBVIOUS
<1>3. o \in Started /\ None \in Changes \cup {None} /\ b = By(u, o, at) /\ at = "commit"
  BY <1>2 DEF Started
<1>4. Starting(b, u, o, at, Changes \cup {None})
  BY <1>3, CheckStarts
<1>5. IsRequest(q) /\ q.op = "dropcategory" /\ q.pc = "commit" /\ q.actor \in Signed /\ q.id = c
  BY <1>2, <1>4 DEF Starting, IsRequest, RequestOf, Readable
<1>6. Lasting(q, cats, streams, entries) /\ Standing(q, cats, streams, entries)
  BY <1>5 DEF Lasting, Standing
<1> QED BY <1>1, <1>2, <1>5, <1>6, StartMoves DEF RequestSound

LEMMA NewStreamCheckKeeps == ASSUME LedgerInv, NEW r \in Reqs, NewStreamCheck(r) PROVE LedgerInv'
<1>1. PICK u \in Managers, p \in Projects : Start(r, [By(u, "newstream", "commit") EXCEPT !.project = p.id])
  BY DEF NewStreamCheck
<1>2. PICK o, at, b, q :
        o = "newstream" /\ at = "commit" /\ b = By(u, o, at) /\ q = [b EXCEPT !.project = p.id]
  OBVIOUS
<1>3. o \in Started /\ None \in Changes \cup {None} /\ b = By(u, o, at) /\ at = "commit" /\ p.id \in ProjectIds
  BY <1>2 DEF Started, ProjectIds
<1>4. Starting(b, u, o, at, Changes \cup {None})
  BY <1>3, CheckStarts
<1>5. IsRequest(q) /\ q.op = "newstream" /\ q.pc = "commit" /\ q.actor \in Signed /\ q.project = p.id
  BY <1>2, <1>3, <1>4 DEF Starting, IsRequest, RequestOf, Readable
<1>6. Lasting(q, cats, streams, entries) /\ Standing(q, cats, streams, entries)
  BY <1>3, <1>5 DEF Lasting, Standing
<1> QED BY <1>1, <1>2, <1>5, <1>6, StartMoves DEF RequestSound

LEMMA ArchiveStreamCheckKeeps == ASSUME LedgerInv, NEW r \in Reqs, ArchiveStreamCheck(r) PROVE LedgerInv'
<1>1. PICK u \in Managers, s \in Streams :
        FoundStream(s, ActorOf[u]) /\ Start(r, [By(u, "archivestream", "commit") EXCEPT !.id = s])
  BY DEF ArchiveStreamCheck
<1>2. PICK o, at, b, q :
        o = "archivestream" /\ at = "commit" /\ b = By(u, o, at) /\ q = [b EXCEPT !.id = s]
  OBVIOUS
<1>3. o \in Started /\ None \in Changes \cup {None} /\ b = By(u, o, at) /\ at = "commit"
  BY <1>2 DEF Started
<1>4. Starting(b, u, o, at, Changes \cup {None})
  BY <1>3, CheckStarts
<1>5. IsRequest(q) /\ q.op = "archivestream" /\ q.pc = "commit" /\ q.actor \in Signed /\ q.id = s
  BY <1>2, <1>4 DEF Starting, IsRequest, RequestOf, Readable
<1>6. Lasting(q, cats, streams, entries) /\ Standing(q, cats, streams, entries)
  BY <1>1, <1>5 DEF Lasting, Standing, FoundStream, Found
<1> QED BY <1>1, <1>2, <1>5, <1>6, StartMoves DEF RequestSound

(* A request that ends writes nothing.                                     *)
LEMMA EndsKeeps == ASSUME LedgerInv, NEW r \in Reqs, Proceed(r, Idle) PROVE LedgerInv'
BY IdleSound, StartMoves

(* What the commit of one request leaves of the others: those in "marked"  *)
(* may have lost what they had checked, not what can not change.           *)
LEMMA OthersMarked ==
  ASSUME LedgerInv, NEW r \in Reqs, NEW marked,
         reqs' = [s \in Reqs |-> IF s = r THEN Idle
                                 ELSE IF s \in marked THEN [reqs[s] EXCEPT !.stale = TRUE] ELSE reqs[s]],
         \A s \in Reqs : Lasting(reqs[s], cats', streams', entries'),
         \A s \in Reqs : s \notin marked /\ ~reqs[s].stale => Standing(reqs[s], cats', streams', entries')
  PROVE  /\ reqs' = [s \in Reqs |-> reqs'[s]]
         /\ \A s \in Reqs : IsRequest(reqs'[s]) /\ RequestSound(reqs'[s], cats', streams', entries')
<1>1. reqs' = [s \in Reqs |-> reqs'[s]]
  OBVIOUS
<1>2. ASSUME NEW s \in Reqs
      PROVE  IsRequest(reqs'[s]) /\ RequestSound(reqs'[s], cats', streams', entries')
  <2>1. PICK o, m : o = reqs[s] /\ m = [o EXCEPT !.stale = TRUE]
    OBVIOUS
  <2>2. IsRequest(o) /\ Lasting(o, cats', streams', entries')
    BY <2>1 DEF LedgerInv, BooksTypeOK
  <2>3. CASE s = r
    BY <2>3, IdleSound
  <2>4. CASE s # r /\ s \in marked
    BY <2>1, <2>2, <2>4, MarkedSound
  <2>5. CASE s # r /\ s \notin marked
    <3>1. reqs'[s] = o
      BY <2>1, <2>5
    <3>2. ~o.stale => Standing(o, cats', streams', entries')
      BY <2>1, <2>5
    <3> QED BY <2>2, <3>1, <3>2 DEF RequestSound
  <2> QED BY <2>3, <2>4, <2>5
<1> QED BY <1>1, <1>2

-----------------------------------------------------------------------------
(* Commits of entries.                                                     *)

LEMMA EntryCommitRequests ==
  ASSUME LedgerInv, NEW r \in Reqs, NEW e \in Entries, NEW row \in EntryRow, CommitEntry(r, e, row),
         entries[e].exists => row.portal = entries[e].portal
  PROVE  /\ reqs' = [s \in Reqs |-> reqs'[s]]
         /\ \A s \in Reqs : IsRequest(reqs'[s]) /\ RequestSound(reqs'[s], cats', streams', entries')
<1>1. PICK marked : marked = { s \in Reqs : reqs[s].pc # "idle" /\ reqs[s].op \in {"update", "delete"}
                                              /\ reqs[s].id = e }
  OBVIOUS
<1>2. reqs' = [s \in Reqs |-> IF s = r THEN Idle
                               ELSE IF s \in marked THEN [reqs[s] EXCEPT !.stale = TRUE] ELSE reqs[s]]
  BY <1>1 DEF CommitEntry, Outdates
<1>3. /\ cats' = cats /\ streams' = streams
      /\ \A f \in Entries : entries'[f] = IF f = e THEN row ELSE entries[f]
  BY DEF CommitEntry, LedgerInv, BooksTypeOK
<1>4. row.exists
  BY RowsDiffer
<1>5. ASSUME NEW s \in Reqs
      PROVE  Lasting(reqs[s], cats', streams', entries')
  <2>1. Lasting(reqs[s], cats, streams, entries)
    BY DEF LedgerInv, RequestSound
  <2> QED BY <1>3, <1>4, <2>1 DEF Lasting
<1>6. ASSUME NEW s \in Reqs, s \notin marked, ~reqs[s].stale
      PROVE  Standing(reqs[s], cats', streams', entries')
  <2>1. Lasting(reqs[s], cats, streams, entries) /\ Standing(reqs[s], cats, streams, entries)
    BY <1>6 DEF LedgerInv, RequestSound
  <2>2. reqs[s].op \in {"update", "delete"} => reqs[s].id \in Entries /\ reqs[s].id # e
    BY <1>1, <1>6, <2>1 DEF Lasting
  <2> QED BY <1>3, <2>1, <2>2 DEF Standing
<1> QED BY <1>2, <1>5, <1>6, OthersMarked

(* What is true of the row that a request writes.                          *)
Written(r, e, row) ==
  /\ reqs[r].pc = "commit" /\ row \in EntryRow /\ row.portal = reqs[r].actor.portal
  /\ entries[e].exists => row.portal = entries[e].portal
  /\ EntryApart(row, cats, streams) /\ PlanFits(row, entries)
  /\ ~reqs[r].stale =>
       /\ e \notin late => cats[row.category].kind = row.direction
       /\ e \notin late /\ row.stream # None => streams[row.stream].project = row.project
       /\ ~entries[e].exists \/ row.category # entries[e].category => ~cats[row.category].archived
       /\ (~entries[e].exists \/ row.stream # entries[e].stream) /\ row.stream # None =>
            ~streams[row.stream].archived

LEMMA EntryCommitKeeps ==
  ASSUME LedgerInv, NEW r \in Reqs, NEW e \in Entries, NEW row, CommitEntry(r, e, row),
         Written(r, e, row), journal' \in [Entries -> Nat],
         \A f \in Entries : f # e => journal'[f] = journal[f],
         journal'[e] > 0 <=> row.deleted, e \notin late' => journal'[e] <= 1
  PROVE  LedgerInv'
<1>1. /\ cats' = cats /\ streams' = streams
      /\ entries' = [entries EXCEPT ![e] = row]
      /\ \A f \in Entries : entries'[f] = IF f = e THEN row ELSE entries[f]
      /\ late' = IF reqs[r].stale THEN late \cup {e} ELSE late
  BY DEF CommitEntry, LedgerInv, BooksTypeOK
<1>2. row \in EntryRow /\ row.exists = TRUE /\ EntryApart(row, cats, streams)
  BY RowsDiffer DEF Written
<1>3. /\ reqs' = [s \in Reqs |-> reqs'[s]]
      /\ \A s \in Reqs : IsRequest(reqs'[s]) /\ RequestSound(reqs'[s], cats', streams', entries')
  BY <1>2, EntryCommitRequests DEF Written
<1>4. BooksTypeOK'
  BY <1>1, <1>2, <1>3 DEF LedgerInv, BooksTypeOK
<1>5. ASSUME NEW f \in Entries PROVE EntryApart(entries[f], cats, streams)'
  BY <1>1, <1>2 DEF LedgerInv
<1>6. FitsCategory'
  BY <1>1, <1>2 DEF LedgerInv, FitsCategory, EntryApart, Written
<1>7. StreamOfItsProject'
  BY <1>1, <1>2 DEF LedgerInv, StreamOfItsProject, Written
<1>8. JournalTellsDeletion'
  BY <1>1, <1>2 DEF LedgerInv, JournalTellsDeletion
<1>p. PlanIsThere'
  <2>1. \A f \in Entries : entries[f].exists => entries'[f].exists
    BY <1>1, <1>2
  <2>2. row.planned \in Entries \cup {None}
    BY <1>2 DEF EntryRow
  <2>3. ASSUME NEW f \in Entries, entries'[f].exists, entries'[f].planned # None
        PROVE  entries'[entries'[f].planned].exists
    <3>1. CASE f = e
      BY <1>1, <1>2, <2>1, <2>2, <2>3, <3>1 DEF Written, PlanFits
    <3>2. CASE f # e
      <4>1. entries'[f] = entries[f] /\ entries[entries[f].planned].exists
        BY <1>1, <2>3, <3>2 DEF LedgerInv, PlanIsThere
      <4>2. entries[f] \in EntryRow
        BY <2>3, <4>1 DEF LedgerInv, BooksTypeOK, Absent
      <4> QED BY <2>1, <2>3, <4>1, <4>2 DEF EntryRow
    <3> QED BY <3>1, <3>2
  <2> QED BY <2>3 DEF PlanIsThere
<1>9. \A s \in Reqs : RequestSound(reqs[s], cats, streams, entries)'
  BY <1>3
<1> QED BY <1>4, <1>5, <1>6, <1>7, <1>8, <1>9, <1>p DEF LedgerInv

(* What such a step does to the entries.                                   *)
LEMMA EntryCommitMakes ==
  ASSUME LedgerInv, NEW r \in Reqs, NEW e \in Entries, NEW row, CommitEntry(r, e, row), Written(r, e, row)
  PROVE  ArchivedGetsNothingNew /\ PortalsApart
<1>1. /\ \A f \in Entries : entries'[f] = IF f = e THEN row ELSE entries[f]
      /\ late' = IF reqs[r].stale THEN late \cup {e} ELSE late
      /\ reqs'[r] = Idle
  BY DEF CommitEntry, Outdates, LedgerInv, BooksTypeOK
<1>2. row \in EntryRow /\ row.exists = TRUE /\ EntryApart(row, cats, streams)
  BY RowsDiffer DEF Written
<1>3. PortalsApart
  BY <1>1, <1>2 DEF PortalsApart, EntryApart, Written
<1>4. ArchivedGetsNothingNew
  BY <1>1, <1>2 DEF ArchivedGetsNothingNew, Written
<1> QED BY <1>3, <1>4

(* A step that leaves the entries alone.                                   *)
LEMMA EntriesLeft ==
  ASSUME entries' = entries
  PROVE  ArchivedGetsNothingNew /\ PortalsApart
BY DEF ArchivedGetsNothingNew, PortalsApart

LEMMA CreateCommitWrites ==
  ASSUME LedgerInv, NEW r \in Reqs, CreateCommit(r), ~Proceed(r, Idle)
  PROVE  \E e, row :
           /\ e \in Entries
           /\ CommitEntry(r, e, row) /\ Written(r, e, row) /\ journal' = journal
           /\ ~entries[e].exists /\ row.deleted = FALSE
<1>1. PICK o : o = reqs[r]
  OBVIOUS
<1>2. PICK e, plan, row :
        /\ e \in Entries /\ plan \in Entries \cup {None} /\ (plan # None => entries[plan].exists)
        /\ cats[o.category].exists /\ ~entries[e].exists
        /\ row = [exists |-> TRUE, portal |-> o.actor.portal, deleted |-> FALSE, project |-> o.project,
                  category |-> o.category, direction |-> o.direction, stream |-> o.stream,
                  planned |-> plan]
        /\ CommitEntry(r, e, row) /\ journal' = journal
  BY <1>1 DEF CreateCommit
<1>3. IsRequest(o) /\ RequestSound(o, cats, streams, entries) /\ o.op = "create" /\ o.pc = "commit"
  BY <1>1 DEF LedgerInv, BooksTypeOK, CreateCommit, At
<1>4. /\ o.actor \in Signed /\ o.category \in Cats /\ o.direction \in MoneyDirections
      /\ o.project \in ProjectIds /\ o.stream \in Streams \cup {None}
  BY <1>3 DEF RequestSound, Lasting, IsRequest, RequestOf
<1>5. o.actor.portal \in Portals
  BY <1>4, LedgerAssumption DEF Signed
<1>6. row \in EntryRow
  BY <1>2, <1>4, <1>5 DEF EntryRow
<1>7. /\ row.portal = o.actor.portal /\ row.project = o.project /\ row.category = o.category
      /\ row.direction = o.direction /\ row.stream = o.stream /\ row.deleted = FALSE
      /\ PlanFits(row, entries)
  BY <1>2 DEF PlanFits
<1>8. /\ cats[o.category].portal = o.actor.portal
      /\ o.stream \in Streams => /\ streams[o.stream].exists /\ streams[o.stream].portal = o.actor.portal
                                 /\ streams[o.stream].project = o.project
      /\ ProjectFound(o.project, o.actor)
  BY <1>2, <1>3, <1>4, LedgerAssumption DEF RequestSound, Lasting, OrRead
<1>9. EntryApart(row, cats, streams)
  BY <1>2, <1>4, <1>7, <1>8 DEF EntryApart, ProjectFound
<1>10. ~o.stale => /\ cats[o.category].kind = o.direction /\ ~cats[o.category].archived
                   /\ o.stream \in Streams => ~streams[o.stream].archived
  BY <1>3 DEF RequestSound, Standing
<1>11. Written(r, e, row)
  BY <1>1, <1>2, <1>3, <1>4, <1>6, <1>7, <1>8, <1>9, <1>10 DEF Written
<1> QED BY <1>2, <1>7, <1>11

LEMMA UpdateCommitWrites ==
  ASSUME LedgerInv, NEW r \in Reqs, UpdateCommit(r), ~Proceed(r, Idle)
  PROVE  \E e, row :
           /\ e \in Entries
           /\ CommitEntry(r, e, row) /\ Written(r, e, row) /\ journal' = journal
           /\ entries[e].exists /\ row.deleted = entries[e].deleted
<1>1. PICK o, found, p, c, d, t :
        /\ o = reqs[r] /\ found = entries[o.id]
        /\ p = OrRead(o.project, found.project) /\ c = OrRead(o.category, found.category)
        /\ d = OrRead(o.direction, found.direction) /\ t = (IF o.stream = Keep THEN found.stream ELSE o.stream)
  OBVIOUS
<1>2. PICK row :
        /\ row = [found EXCEPT !.project = p, !.category = c, !.direction = d, !.stream = t]
        /\ cats[row.category].exists /\ CommitEntry(r, o.id, row) /\ journal' = journal
  BY <1>1 DEF UpdateCommit, OrRead
<1>3. IsRequest(o) /\ RequestSound(o, cats, streams, entries) /\ o.op = "update" /\ o.pc = "commit"
  BY <1>1 DEF LedgerInv, BooksTypeOK, UpdateCommit, At
<1>4. PICK e \in Entries : e = o.id /\ found = entries[e] /\ found.exists /\ found.portal = o.actor.portal
  BY <1>1, <1>3 DEF RequestSound, Lasting
<1>5. found \in EntryRow
  BY <1>4 DEF LedgerInv, BooksTypeOK, Absent
<1>6. /\ o.category \in Cats \cup {None} /\ o.direction \in MoneyDirections \cup {None}
      /\ o.project \in ProjectIds \cup {None} /\ o.stream \in Streams \cup {None, Keep}
  BY <1>3 DEF IsRequest, RequestOf
<1>7. /\ p \in ProjectIds /\ c \in Cats /\ d \in MoneyDirections /\ t \in Streams \cup {None}
  BY <1>1, <1>5, <1>6 DEF OrRead, EntryRow
<1>8. /\ row \in EntryRow /\ row.exists = TRUE
      /\ row.portal = found.portal /\ row.project = p /\ row.category = c
      /\ row.direction = d /\ row.stream = t /\ row.deleted = found.deleted /\ row.planned = found.planned
  BY <1>2, <1>5, <1>7 DEF EntryRow
<1>9. /\ cats[found.category].exists /\ cats[found.category].portal = found.portal
      /\ found.stream # None => streams[found.stream].exists /\ streams[found.stream].portal = found.portal
      /\ \E x \in Projects : x.id = found.project /\ x.portal = found.portal
  BY <1>4 DEF LedgerInv, EntryApart
<1>10. EntryApart(row, cats, streams)
  <2>1. cats[c].exists /\ cats[c].portal = found.portal
    BY <1>1, <1>2, <1>3, <1>4, <1>8, <1>9 DEF OrRead, RequestSound, Lasting
  <2>2. t # None => streams[t].exists /\ streams[t].portal = found.portal
    BY <1>1, <1>3, <1>4, <1>6, <1>9 DEF RequestSound, Lasting
  <2>3. \E x \in Projects : x.id = p /\ x.portal = found.portal
    BY <1>1, <1>3, <1>4, <1>9 DEF OrRead, RequestSound, Lasting, ProjectFound
  <2> QED BY <1>8, <2>1, <2>2, <2>3 DEF EntryApart
<1>11. ASSUME ~o.stale
       PROVE  /\ e \notin late => cats[c].kind = d
              /\ e \notin late /\ t # None => streams[t].project = p
              /\ c # found.category => ~cats[c].archived
              /\ t # found.stream /\ t # None => ~streams[t].archived
  <2>1. Lasting(o, cats, streams, entries) /\ Standing(o, cats, streams, entries) /\ o.read = found
    BY <1>3, <1>4, <1>11 DEF RequestSound, Standing
  <2>2. /\ e \notin late => cats[found.category].kind = found.direction
        /\ e \notin late /\ found.stream # None => streams[found.stream].project = found.project
    BY <1>4 DEF LedgerInv, FitsCategory, StreamOfItsProject
  <2>3. CASE NothingGiven(o)
    <3>1. c = found.category /\ d = found.direction /\ p = found.project
      BY <1>1, <2>3 DEF NothingGiven, OrRead
    <3>2. OrRead(o.project, o.read.project) = p
      BY <1>1, <2>1
    <3> QED BY <1>1, <1>3, <1>6, <2>1, <2>2, <3>1, <3>2 DEF Lasting, Standing
  <2>4. CASE ~NothingGiven(o)
    <3>1. cats[c].kind = d /\ ~cats[c].archived
      BY <1>1, <1>3, <2>1, <2>4 DEF Standing
    <3>2. OrRead(o.project, o.read.project) = p
      BY <1>1, <2>1
    <3>3. o.stream = Keep => t = found.stream /\ p = found.project
      BY <1>1, <1>3, <2>1, <3>2 DEF Lasting
    <3>4. o.stream # Keep /\ t # None => t \in Streams /\ t = o.stream
      BY <1>1, <1>6
    <3>5. t \in Streams /\ t = o.stream => streams[t].project = p /\ ~streams[t].archived
      BY <1>3, <2>1, <3>2 DEF Lasting, Standing
    <3> QED BY <2>2, <3>1, <3>3, <3>4, <3>5
  <2> QED BY <2>3, <2>4
<1>p. PlanFits(row, entries)
  BY <1>4, <1>8 DEF LedgerInv, PlanIsThere, PlanFits
<1>12. Written(r, e, row)
  BY <1>1, <1>3, <1>4, <1>8, <1>10, <1>11, <1>p DEF Written
<1>13. CommitEntry(r, e, row) /\ journal' = journal /\ row.deleted = entries[e].deleted
  BY <1>2, <1>4, <1>8
<1> QED BY <1>4, <1>12, <1>13

LEMMA DeleteCommitWrites ==
  ASSUME LedgerInv, NEW r \in Reqs, DeleteCommit(r)
  PROVE  \E e, row :
           /\ e \in Entries
           /\ CommitEntry(r, e, row) /\ Written(r, e, row) /\ journal' = [journal EXCEPT ![e] = @ + 1]
           /\ entries[e].exists /\ row.deleted = TRUE
           /\ e \notin late' => ~entries[e].deleted
<1>1. PICK o, found : o = reqs[r] /\ found = entries[o.id]
  OBVIOUS
<1>2. IsRequest(o) /\ RequestSound(o, cats, streams, entries) /\ o.op = "delete" /\ o.pc = "commit"
  BY <1>1 DEF LedgerInv, BooksTypeOK, DeleteCommit, At
<1>3. PICK e \in Entries : e = o.id /\ found = entries[e] /\ found.exists /\ found.portal = o.actor.portal
  BY <1>1, <1>2 DEF RequestSound, Lasting
<1>4. PICK row :
        /\ row = [found EXCEPT !.deleted = TRUE]
        /\ CommitEntry(r, e, row) /\ journal' = [journal EXCEPT ![e] = @ + 1]
  BY <1>1, <1>3 DEF DeleteCommit
<1>5. found \in EntryRow
  BY <1>3 DEF LedgerInv, BooksTypeOK, Absent
<1>6. /\ row \in EntryRow /\ row.exists = TRUE
      /\ row.portal = found.portal /\ row.project = found.project /\ row.category = found.category
      /\ row.direction = found.direction /\ row.stream = found.stream /\ row.deleted = TRUE
      /\ row.planned = found.planned
  BY <1>4, <1>5 DEF EntryRow
<1>7. EntryApart(row, cats, streams) /\ PlanFits(row, entries)
  BY <1>3, <1>6 DEF LedgerInv, EntryApart, PlanIsThere, PlanFits
<1>8. /\ e \notin late => cats[found.category].kind = found.direction
      /\ e \notin late /\ found.stream # None => streams[found.stream].project = found.project
  BY <1>3 DEF LedgerInv, FitsCategory, StreamOfItsProject
<1>9. Written(r, e, row)
  BY <1>1, <1>2, <1>3, <1>6, <1>7, <1>8 DEF Written
<1>10. e \notin late' => ~entries[e].deleted
  BY <1>1, <1>2, <1>3, <1>4 DEF CommitEntry, RequestSound, Standing
<1> QED BY <1>3, <1>4, <1>6, <1>9, <1>10

LEMMA EntryCommitsKeep ==
  ASSUME LedgerInv, NEW r \in Reqs, CreateCommit(r) \/ UpdateCommit(r) \/ DeleteCommit(r)
  PROVE  LedgerInv' /\ ArchivedGetsNothingNew /\ PortalsApart
<1>1. CASE Proceed(r, Idle)
  BY <1>1, EndsKeeps, EntriesLeft DEF Proceed
<1>2. CASE (CreateCommit(r) \/ UpdateCommit(r)) /\ ~Proceed(r, Idle)
  <2>1. PICK e, row :
          /\ e \in Entries
          /\ CommitEntry(r, e, row) /\ Written(r, e, row) /\ journal' = journal
          /\ row.deleted <=> entries[e].exists /\ entries[e].deleted
    <3>1. CASE CreateCommit(r)
      <4>1. PICK e, row :
              /\ e \in Entries
              /\ CommitEntry(r, e, row) /\ Written(r, e, row) /\ journal' = journal
              /\ ~entries[e].exists /\ row.deleted = FALSE
        BY <1>2, <3>1, CreateCommitWrites
      <4> QED BY <4>1
    <3>2. CASE UpdateCommit(r)
      <4>1. PICK e, row :
              /\ e \in Entries
              /\ CommitEntry(r, e, row) /\ Written(r, e, row) /\ journal' = journal
              /\ entries[e].exists /\ row.deleted = entries[e].deleted
        BY <1>2, <3>2, UpdateCommitWrites
      <4> QED BY <4>1
    <3> QED BY <1>2, <3>1, <3>2
  <2>2. /\ journal \in [Entries -> Nat] /\ (journal[e] > 0 <=> entries[e].exists /\ entries[e].deleted)
        /\ e \notin late => journal[e] <= 1
    BY <2>1 DEF LedgerInv, BooksTypeOK, JournalTellsDeletion
  <2>3. e \notin late' => e \notin late
    BY <2>1 DEF CommitEntry
  <2>4. LedgerInv'
    BY <2>1, <2>2, <2>3, EntryCommitKeeps
  <2> QED BY <2>1, <2>4, EntryCommitMakes
<1>3. CASE DeleteCommit(r)
  <2>1. PICK e, row :
          /\ e \in Entries
          /\ CommitEntry(r, e, row) /\ Written(r, e, row) /\ journal' = [journal EXCEPT ![e] = @ + 1]
          /\ entries[e].exists /\ row.deleted = TRUE /\ (e \notin late' => ~entries[e].deleted)
    BY <1>3, DeleteCommitWrites
  <2>2. journal \in [Entries -> Nat] /\ (journal[e] > 0 <=> entries[e].exists /\ entries[e].deleted)
    BY <2>1 DEF LedgerInv, BooksTypeOK, JournalTellsDeletion
  <2>3. /\ journal' \in [Entries -> Nat] /\ journal'[e] > 0
        /\ \A f \in Entries : f # e => journal'[f] = journal[f]
        /\ e \notin late' => journal'[e] <= 1
    BY <2>1, <2>2
  <2>4. LedgerInv'
    BY <2>1, <2>3, EntryCommitKeeps
  <2> QED BY <2>1, <2>4, EntryCommitMakes
<1> QED BY <1>1, <1>2, <1>3

(* Commits of categories.                                                  *)

LEMMA CategoryCommitKeeps ==
  ASSUME LedgerInv, NEW r \in Reqs, NEW c \in Cats, NEW row \in CategoryRow \cup {Gone},
         CommitCategory(r, c, row),
         ~InUse(c) \/ (cats[c].exists /\ row.exists /\ row.kind = cats[c].kind),
         cats[c] = Absent \/ ~row.exists \/ (cats[c].exists /\ row.portal = cats[c].portal)
  PROVE  LedgerInv' /\ entries' = entries
<1>1. CASE Proceed(r, Idle)
  BY <1>1, EndsKeeps DEF Proceed
<1>2. CASE ~Proceed(r, Idle)
  <2>1. PICK marked : marked = { s \in Reqs : reqs[s].pc # "idle" /\
          (reqs[s].category = c \/ (reqs[s].op = "update" /\ reqs[s].read.category = c)
             \/ (reqs[s].op = "category" /\ reqs[s].id = c)) }
    OBVIOUS
  <2>2. /\ cats' = [cats EXCEPT ![c] = row]
        /\ streams' = streams /\ entries' = entries /\ journal' = journal /\ late' = late
        /\ reqs' = [s \in Reqs |-> IF s = r THEN Idle
                                   ELSE IF s \in marked THEN [reqs[s] EXCEPT !.stale = TRUE] ELSE reqs[s]]
    BY <1>2, <2>1 DEF CommitCategory, Outdates
  <2>3. \A k \in Cats : cats'[k] = IF k = c THEN row ELSE cats[k]
    BY <2>2 DEF LedgerInv, BooksTypeOK
  <2>4. row # Absent
    BY RowsDiffer
  <2>5. ASSUME NEW s \in Reqs
        PROVE  Lasting(reqs[s], cats', streams', entries')
    <3>1. PICK o : o = reqs[s]
      OBVIOUS
    <3>2. Lasting(o, cats, streams, entries) /\ IsRequest(o)
      BY <3>1 DEF LedgerInv, RequestSound, BooksTypeOK
    <3>3. o.category \in Cats \cup {None}
      BY <3>2 DEF IsRequest, RequestOf
    <3>4. ASSUME o.op \in {"create", "update"}, o.category # None
          PROVE  cats'[o.category] # Absent
                   /\ (cats'[o.category].exists => cats'[o.category].portal = o.actor.portal)
      <4>1. cats[o.category] # Absent /\ (cats[o.category].exists => cats[o.category].portal = o.actor.portal)
        BY <3>2, <3>4 DEF Lasting
      <4> QED BY <2>3, <2>4, <3>3, <3>4, <4>1
    <3>5. Lasting(o, cats', streams, entries)
      BY <3>2, <3>4 DEF Lasting
    <3> QED BY <2>2, <3>1, <3>5
  <2>6. ASSUME NEW s \in Reqs, s \notin marked, ~reqs[s].stale
        PROVE  Standing(reqs[s], cats', streams', entries')
    <3>1. PICK o : o = reqs[s]
      OBVIOUS
    <3>2. Lasting(o, cats, streams, entries) /\ Standing(o, cats, streams, entries) /\ IsRequest(o)
      BY <2>6, <3>1 DEF LedgerInv, RequestSound, BooksTypeOK
    <3>3. o.category \in Cats \cup {None} /\ (o.op = "update" => o.read \in EntryRow)
      BY <3>2 DEF IsRequest, RequestOf, Readable
    <3>4. o.op = "update" => o.read.category \in Cats
      BY <3>3 DEF EntryRow
    <3>5. o.op \in {"create", "update"} => o.category # c
      BY <2>1, <2>6, <3>1, <3>2 DEF Lasting
    <3>6. o.op = "update" => o.read.category # c
      BY <2>1, <2>6, <3>1, <3>2 DEF Lasting
    <3>7. o.op = "create" /\ o.pc \in {"stream", "commit"} => cats'[o.category] = cats[o.category]
      BY <2>3, <3>2, <3>3, <3>5 DEF Lasting
    <3>8. o.op = "update" => cats'[OrRead(o.category, o.read.category)] = cats[OrRead(o.category, o.read.category)]
      BY <2>3, <3>3, <3>4, <3>5, <3>6 DEF OrRead
    <3>9. Standing(o, cats', streams, entries)
      BY <3>2, <3>7, <3>8 DEF Standing
    <3> QED BY <2>2, <3>1, <3>9
  <2>7. /\ reqs' = [s \in Reqs |-> reqs'[s]]
        /\ \A s \in Reqs : IsRequest(reqs'[s]) /\ RequestSound(reqs'[s], cats', streams', entries')
    BY <2>2, <2>5, <2>6, OthersMarked
  <2>8. BooksTypeOK'
    BY <2>2, <2>7 DEF LedgerInv, BooksTypeOK
  <2>9. \A s \in Reqs : RequestSound(reqs[s], cats, streams, entries)'
    BY <2>7
  <2>10. ASSUME NEW e \in Entries, entries[e].exists
         PROVE  /\ cats'[entries[e].category].exists
                /\ cats'[entries[e].category].portal = cats[entries[e].category].portal
                /\ cats'[entries[e].category].kind = cats[entries[e].category].kind
    <3>1. cats[entries[e].category].exists /\ entries[e].category \in Cats
      BY <2>10, RowsDiffer DEF LedgerInv, EntryApart, BooksTypeOK, EntryRow
    <3>2. CASE entries[e].category # c
      BY <2>3, <3>1, <3>2
    <3>3. CASE entries[e].category = c
      <4>1. InUse(c) /\ cats[c] # Absent
        BY <2>10, <3>1, <3>3, RowsDiffer DEF InUse
      <4> QED BY <2>3, <3>1, <3>3, <4>1
    <3> QED BY <3>2, <3>3
  <2>11. (\A e \in Entries : EntryApart(entries[e], cats, streams))'
    BY <2>2, <2>10 DEF LedgerInv, EntryApart
  <2>12. (FitsCategory /\ StreamOfItsProject /\ PlanIsThere /\ JournalTellsDeletion)'
    BY <2>2, <2>10 DEF LedgerInv, FitsCategory, StreamOfItsProject, PlanIsThere, JournalTellsDeletion
  <2> QED BY <2>2, <2>8, <2>9, <2>11, <2>12 DEF LedgerInv
<1> QED BY <1>1, <1>2

LEMMA NewCategoryCommitKeeps ==
  ASSUME LedgerInv, NEW r \in Reqs, NewCategoryCommit(r) PROVE LedgerInv' /\ entries' = entries
<1>o. PICK o : o = reqs[r]
  OBVIOUS
<1>1. PICK c, row :
        /\ c \in Cats
        /\ cats[c] = Absent /\ CommitCategory(r, c, row)
        /\ row = [exists |-> TRUE, portal |-> o.actor.portal, kind |-> o.direction, name |-> o.read,
                  archived |-> FALSE]
  BY <1>o DEF NewCategoryCommit
<1>2. RequestSound(o, cats, streams, entries) /\ o.op = "newcategory" /\ o.pc = "commit"
  BY <1>o DEF LedgerInv, NewCategoryCommit, At
<1>3. o.actor \in Signed /\ o.direction \in MoneyDirections /\ o.read \in Names
  BY <1>2 DEF RequestSound, Lasting
<1>4. o.actor.portal \in Portals
  BY <1>3, LedgerAssumption DEF Signed
<1>5. row \in CategoryRow
  BY <1>1, <1>3, <1>4 DEF CategoryRow
<1>6. ~InUse(c)
  BY <1>1, RowsDiffer DEF InUse, LedgerInv, EntryApart
<1> QED BY <1>1, <1>5, <1>6, CategoryCommitKeeps

LEMMA ChangeCategoryCommitKeeps ==
  ASSUME LedgerInv, NEW r \in Reqs, CategoryCommit(r) PROVE LedgerInv' /\ entries' = entries
<1>1. CASE Proceed(r, Idle)
  BY <1>1, EndsKeeps DEF Proceed
<1>2. CASE ~Proceed(r, Idle)
  <2>1. reqs[r].op = "category" /\ RequestSound(reqs[r], cats, streams, entries)
    BY DEF LedgerInv, CategoryCommit, At
  <2>2. PICK c \in Cats : c = reqs[r].id
    BY <2>1 DEF RequestSound, Lasting
  <2>3. PICK change, old, row :
          /\ change = reqs[r].read /\ old = cats[c] /\ old.exists
          /\ row = (IF change \in Names THEN [old EXCEPT !.name = change]
                    ELSE [old EXCEPT !.archived = (change = "archive")])
          /\ CommitCategory(r, c, row)
    BY <1>2, <2>2 DEF CategoryCommit
  <2>4. old \in CategoryRow
    BY <2>3, RowsDiffer DEF LedgerInv, BooksTypeOK
  <2>5. row \in CategoryRow /\ row.exists = TRUE /\ row.kind = old.kind /\ row.portal = old.portal
    <3>1. CASE change \in Names
      BY <2>3, <2>4, <3>1 DEF CategoryRow
    <3>2. CASE change \notin Names
      <4>1. PICK yes \in BOOLEAN : yes = (change = "archive")
        OBVIOUS
      <4>2. row = [old EXCEPT !.archived = yes]
        BY <2>3, <3>2, <4>1
      <4> QED BY <2>4, <4>2 DEF CategoryRow
    <3> QED BY <3>1, <3>2
  <2> QED BY <2>3, <2>5, CategoryCommitKeeps
<1> QED BY <1>1, <1>2

LEMMA DropCategoryCommitKeeps ==
  ASSUME LedgerInv, NEW r \in Reqs, DropCategoryCommit(r) PROVE LedgerInv' /\ entries' = entries
<1>1. CASE Proceed(r, Idle)
  BY <1>1, EndsKeeps DEF Proceed
<1>2. CASE ~Proceed(r, Idle)
  <2>1. reqs[r].op = "dropcategory" /\ RequestSound(reqs[r], cats, streams, entries)
    BY DEF LedgerInv, DropCategoryCommit, At
  <2>2. PICK c \in Cats : c = reqs[r].id
    BY <2>1 DEF RequestSound, Lasting
  <2>3. ~InUse(c) /\ CommitCategory(r, c, Gone)
    BY <1>2, <2>2 DEF DropCategoryCommit
  <2> QED BY <2>3, RowsDiffer, CategoryCommitKeeps
<1> QED BY <1>1, <1>2

-----------------------------------------------------------------------------
(* Commits of directions.                                                  *)

LEMMA StreamCommitKeeps ==
  ASSUME LedgerInv, NEW r \in Reqs, NEW s \in Streams, NEW row \in StreamRow, CommitStream(r, s, row),
         streams[s].exists => row.portal = streams[s].portal /\ row.project = streams[s].project
  PROVE  LedgerInv' /\ entries' = entries
<1>1. PICK marked : marked = { q \in Reqs : reqs[q].pc # "idle" /\ reqs[q].stream = s }
  OBVIOUS
<1>2. /\ streams' = [streams EXCEPT ![s] = row]
      /\ cats' = cats /\ entries' = entries /\ journal' = journal /\ late' = late
      /\ reqs' = [q \in Reqs |-> IF q = r THEN Idle
                                 ELSE IF q \in marked THEN [reqs[q] EXCEPT !.stale = TRUE] ELSE reqs[q]]
  BY <1>1 DEF CommitStream, Outdates
<1>3. \A t \in Streams : streams'[t] = IF t = s THEN row ELSE streams[t]
  BY <1>2 DEF LedgerInv, BooksTypeOK
<1>4. \A t \in Streams :
        streams[t].exists => /\ streams'[t].exists /\ streams'[t].portal = streams[t].portal
                             /\ streams'[t].project = streams[t].project
  BY <1>3, RowsDiffer
<1>5. ASSUME NEW q \in Reqs
      PROVE  Lasting(reqs[q], cats', streams', entries')
  <2>1. Lasting(reqs[q], cats, streams, entries)
    BY DEF LedgerInv, RequestSound
  <2> QED BY <1>2, <1>4, <2>1 DEF Lasting
<1>6. ASSUME NEW q \in Reqs, q \notin marked, ~reqs[q].stale
      PROVE  Standing(reqs[q], cats', streams', entries')
  <2>1. Lasting(reqs[q], cats, streams, entries) /\ Standing(reqs[q], cats, streams, entries)
    BY <1>6 DEF LedgerInv, RequestSound
  <2>2. reqs[q].op \in {"create", "update"} => reqs[q].stream # s
    BY <1>1, <1>6, <2>1 DEF Lasting
  <2> QED BY <1>2, <1>3, <2>1, <2>2 DEF Standing
<1>7. /\ reqs' = [q \in Reqs |-> reqs'[q]]
      /\ \A q \in Reqs : IsRequest(reqs'[q]) /\ RequestSound(reqs'[q], cats', streams', entries')
  BY <1>2, <1>5, <1>6, OthersMarked
<1>8. BooksTypeOK'
  BY <1>2, <1>7 DEF LedgerInv, BooksTypeOK
<1>9. \A q \in Reqs : RequestSound(reqs[q], cats, streams, entries)'
  BY <1>7
<1>10. ASSUME NEW e \in Entries, entries[e].exists, entries[e].stream # None
       PROVE  /\ streams'[entries[e].stream].exists
              /\ streams'[entries[e].stream].portal = streams[entries[e].stream].portal
              /\ streams'[entries[e].stream].project = streams[entries[e].stream].project
  <2>1. streams[entries[e].stream].exists /\ entries[e].stream \in Streams
    BY <1>10, RowsDiffer DEF LedgerInv, EntryApart, BooksTypeOK, EntryRow
  <2> QED BY <1>4, <2>1
<1>11. (\A e \in Entries : EntryApart(entries[e], cats, streams))'
  BY <1>2, <1>10 DEF LedgerInv, EntryApart
<1>12. (FitsCategory /\ StreamOfItsProject /\ PlanIsThere /\ JournalTellsDeletion)'
  BY <1>2, <1>10 DEF LedgerInv, FitsCategory, StreamOfItsProject, PlanIsThere, JournalTellsDeletion
<1> QED BY <1>2, <1>8, <1>9, <1>11, <1>12 DEF LedgerInv

LEMMA NewStreamCommitKeeps ==
  ASSUME LedgerInv, NEW r \in Reqs, NewStreamCommit(r) PROVE LedgerInv' /\ entries' = entries
<1>o. PICK o : o = reqs[r]
  OBVIOUS
<1>1. PICK s, row :
        /\ s \in Streams
        /\ ~streams[s].exists /\ CommitStream(r, s, row)
        /\ row = [exists |-> TRUE, portal |-> o.actor.portal, project |-> o.project, archived |-> FALSE]
  BY <1>o DEF NewStreamCommit
<1>2. RequestSound(o, cats, streams, entries) /\ o.op = "newstream" /\ o.pc = "commit"
  BY <1>o DEF LedgerInv, NewStreamCommit, At
<1>3. o.actor \in Signed /\ o.project \in ProjectIds
  BY <1>2 DEF RequestSound, Lasting
<1>4. o.actor.portal \in Portals
  BY <1>3, LedgerAssumption DEF Signed
<1>5. row \in StreamRow
  BY <1>1, <1>3, <1>4 DEF StreamRow
<1> QED BY <1>1, <1>5, StreamCommitKeeps

LEMMA ArchiveStreamCommitKeeps ==
  ASSUME LedgerInv, NEW r \in Reqs, ArchiveStreamCommit(r) PROVE LedgerInv' /\ entries' = entries
<1>1. reqs[r].op = "archivestream" /\ RequestSound(reqs[r], cats, streams, entries)
  BY DEF LedgerInv, ArchiveStreamCommit, At
<1>2. PICK s \in Streams : s = reqs[r].id /\ streams[s].exists
  BY <1>1 DEF RequestSound, Lasting
<1>3. PICK old, row : old = streams[s] /\ row = [old EXCEPT !.archived = TRUE] /\ CommitStream(r, s, row)
  BY <1>2 DEF ArchiveStreamCommit
<1>4. old \in StreamRow
  BY <1>2, <1>3 DEF LedgerInv, BooksTypeOK, Absent
<1>5. row \in StreamRow /\ row.portal = old.portal /\ row.project = old.project
  BY <1>3, <1>4 DEF StreamRow
<1> QED BY <1>3, <1>5, StreamCommitKeeps

LEMMA LedgerStarts == Init => LedgerInv
<1> SUFFICES ASSUME Init PROVE LedgerInv
  OBVIOUS
<1>1. \A c \in Cats : cats[c] = IF c \in DOMAIN FirstCats THEN FirstCats[c] ELSE Absent
  BY DEF Init
<1>2. \A s \in Streams : streams[s] = IF s \in DOMAIN FirstStreams THEN FirstStreams[s] ELSE Absent
  BY DEF Init
<1>3. \A e \in Entries : entries[e] = IF e \in DOMAIN FirstEntries THEN FirstEntries[e] ELSE Absent
  BY DEF Init
<1>4. /\ \A c \in DOMAIN FirstCats : c \in Cats /\ FirstCats[c] \in CategoryRow
      /\ \A s \in DOMAIN FirstStreams : s \in Streams /\ FirstStreams[s] \in StreamRow
      /\ \A e \in DOMAIN FirstEntries : FirstEntries[e] \in EntryRow
  BY FirstBooksAssumption
<1>5. cats \in [Cats -> CategoryRow \cup {Absent, Gone}]
  <2>1. cats = [c \in Cats |-> cats[c]]
    BY DEF Init
  <2>2. \A c \in Cats : cats[c] \in CategoryRow \cup {Absent, Gone}
    BY <1>1, <1>4
  <2> QED BY <2>1, <2>2
<1>6. streams \in [Streams -> StreamRow \cup {Absent}]
  <2>1. streams = [s \in Streams |-> streams[s]]
    BY DEF Init
  <2>2. \A s \in Streams : streams[s] \in StreamRow \cup {Absent}
    BY <1>2, <1>4
  <2> QED BY <2>1, <2>2
<1>7. entries \in [Entries -> EntryRow \cup {Absent}]
  <2>1. entries = [e \in Entries |-> entries[e]]
    BY DEF Init
  <2>2. \A e \in Entries : entries[e] \in EntryRow \cup {Absent}
    BY <1>3, <1>4
  <2> QED BY <2>1, <2>2
<1>8. reqs = [r \in Reqs |-> reqs[r]] /\ \A r \in Reqs : reqs[r] = Idle
  BY DEF Init
<1>9. BooksTypeOK
  BY <1>5, <1>6, <1>7, <1>8, IdleSound DEF Init, BooksTypeOK
<1>10. \A r \in Reqs : RequestSound(reqs[r], cats, streams, entries)
  BY <1>8, IdleSound
<1>11. ASSUME NEW e \in Entries, entries[e].exists
       PROVE  /\ entries[e] \in EntryRow /\ ~entries[e].deleted
              /\ \E p \in Projects : p.id = entries[e].project /\ p.portal = entries[e].portal
              /\ cats[entries[e].category].exists
              /\ cats[entries[e].category].kind = entries[e].direction
              /\ cats[entries[e].category].portal = entries[e].portal
              /\ entries[e].stream # None =>
                   /\ streams[entries[e].stream].exists
                   /\ streams[entries[e].stream].project = entries[e].project
                   /\ streams[entries[e].stream].portal = entries[e].portal
  <2>1. PICK row : row = entries[e]
    OBVIOUS
  <2>2. e \in DOMAIN FirstEntries /\ row = FirstEntries[e] /\ row \in EntryRow
    BY <1>3, <1>4, <1>11, <2>1, RowsDiffer
  <2>3. /\ ~row.deleted /\ (\E p \in Projects : p.id = row.project /\ p.portal = row.portal)
        /\ row.category \in DOMAIN FirstCats
        /\ FirstCats[row.category].kind = row.direction /\ FirstCats[row.category].portal = row.portal
        /\ row.stream # None =>
             /\ row.stream \in DOMAIN FirstStreams
             /\ FirstStreams[row.stream].project = row.project
             /\ FirstStreams[row.stream].portal = row.portal
    BY <2>2, FirstBooksAssumption
  <2>4. cats[row.category] = FirstCats[row.category] /\ cats[row.category].exists
    BY <1>1, <1>4, <2>3, RowsDiffer
  <2>5. row.stream # None => streams[row.stream] = FirstStreams[row.stream] /\ streams[row.stream].exists
    BY <1>2, <1>4, <2>3, RowsDiffer
  <2> QED BY <2>1, <2>2, <2>3, <2>4, <2>5
<1>12. \A e \in Entries : EntryApart(entries[e], cats, streams)
  BY <1>11 DEF EntryApart
<1>13. FitsCategory /\ StreamOfItsProject
  BY <1>11 DEF FitsCategory, StreamOfItsProject
<1>p. PlanIsThere
  <2>1. ASSUME NEW e \in Entries, entries[e].exists, entries[e].planned # None
        PROVE  entries[entries[e].planned].exists
    <3>1. e \in DOMAIN FirstEntries /\ entries[e] = FirstEntries[e] /\ entries[e] \in EntryRow
      BY <1>3, <1>4, <2>1, RowsDiffer
    <3>2. PICK plan \in Entries : plan = entries[e].planned /\ plan \in DOMAIN FirstEntries
      BY <2>1, <3>1, FirstBooksAssumption DEF EntryRow
    <3> QED BY <1>3, <1>4, <3>2, RowsDiffer
  <2> QED BY <2>1 DEF PlanIsThere
<1>14. JournalTellsDeletion
  <2>1. \A e \in Entries : journal[e] = 0
    BY DEF Init
  <2> QED BY <1>11, <2>1 DEF JournalTellsDeletion
<1> QED BY <1>9, <1>10, <1>12, <1>13, <1>14, <1>p DEF LedgerInv

LEMMA EntryRequestKeeps ==
  ASSUME LedgerInv, NEW r \in Reqs, EntryRequest(r)
  PROVE  LedgerInv' /\ ArchivedGetsNothingNew /\ PortalsApart
<1>1. CASE CreateProject(r)
  BY <1>1, CreateProjectKeeps, EntriesLeft DEF CreateProject, Start
<1>2. CASE CreateCategory(r)
  BY <1>2, CreateCategoryKeeps, EntriesLeft DEF CreateCategory, Proceed
<1>3. CASE CreateStream(r)
  BY <1>3, CreateStreamKeeps, EntriesLeft DEF CreateStream, Proceed
<1>4. CASE UpdateRead(r)
  BY <1>4, UpdateReadKeeps, EntriesLeft DEF UpdateRead, Start
<1>5. CASE UpdateCategory(r)
  BY <1>5, UpdateCategoryKeeps, EntriesLeft DEF UpdateCategory, Proceed
<1>6. CASE UpdateStream(r)
  BY <1>6, UpdateStreamKeeps, EntriesLeft DEF UpdateStream, Proceed
<1>7. CASE DeleteRead(r)
  BY <1>7, DeleteReadKeeps, EntriesLeft DEF DeleteRead, Start
<1>8. CASE CreateCommit(r) \/ UpdateCommit(r) \/ DeleteCommit(r)
  BY <1>8, EntryCommitsKeep
<1> QED BY <1>1, <1>2, <1>3, <1>4, <1>5, <1>6, <1>7, <1>8 DEF EntryRequest

LEMMA SettingsRequestKeeps ==
  ASSUME LedgerInv, NEW r \in Reqs, SettingsRequest(r)
  PROVE  LedgerInv' /\ entries' = entries
<1>1. CASE NewCategoryCheck(r)
  BY <1>1, NewCategoryCheckKeeps DEF NewCategoryCheck, Start
<1>2. CASE CategoryCheck(r)
  BY <1>2, CategoryCheckKeeps DEF CategoryCheck, Start
<1>3. CASE DropCategoryCheck(r)
  BY <1>3, DropCategoryCheckKeeps DEF DropCategoryCheck, Start
<1>4. CASE NewStreamCheck(r)
  BY <1>4, NewStreamCheckKeeps DEF NewStreamCheck, Start
<1>5. CASE ArchiveStreamCheck(r)
  BY <1>5, ArchiveStreamCheckKeeps DEF ArchiveStreamCheck, Start
<1>6. CASE NewCategoryCommit(r) \/ CategoryCommit(r) \/ DropCategoryCommit(r)
  BY <1>6, NewCategoryCommitKeeps, ChangeCategoryCommitKeeps, DropCategoryCommitKeeps
<1>7. CASE NewStreamCommit(r) \/ ArchiveStreamCommit(r)
  BY <1>7, NewStreamCommitKeeps, ArchiveStreamCommitKeeps
<1> QED BY <1>1, <1>2, <1>3, <1>4, <1>5, <1>6, <1>7 DEF SettingsRequest

LEMMA LedgerKeeps ==
  LedgerInv /\ [Next]_vars => LedgerInv' /\ [ArchivedGetsNothingNew /\ PortalsApart]_vars
<1> SUFFICES ASSUME LedgerInv, [Next]_vars
             PROVE  LedgerInv' /\ [ArchivedGetsNothingNew /\ PortalsApart]_vars
  OBVIOUS
<1>1. CASE Next
  <2>1. PICK r \in Reqs : EntryRequest(r) \/ SettingsRequest(r) \/ GiveUp(r)
    BY <1>1 DEF Next
  <2>2. CASE EntryRequest(r)
    BY <2>2, EntryRequestKeeps
  <2>3. CASE SettingsRequest(r)
    BY <2>3, SettingsRequestKeeps, EntriesLeft
  <2>4. CASE GiveUp(r)
    BY <2>4, EndsKeeps, EntriesLeft DEF GiveUp, Proceed
  <2> QED BY <2>1, <2>2, <2>3, <2>4
<1>2. CASE UNCHANGED vars
  <2>1. /\ cats' = cats /\ streams' = streams /\ entries' = entries
        /\ journal' = journal /\ reqs' = reqs /\ late' = late
    BY <1>2 DEF vars
  <2>2. BooksTypeOK'
    BY <2>1 DEF LedgerInv, BooksTypeOK
  <2>3. (\A r \in Reqs : RequestSound(reqs[r], cats, streams, entries))'
    BY <2>1 DEF LedgerInv
  <2>4. (\A e \in Entries : EntryApart(entries[e], cats, streams))'
    BY <2>1 DEF LedgerInv
  <2>5. (FitsCategory /\ StreamOfItsProject /\ PlanIsThere /\ JournalTellsDeletion)'
    BY <2>1 DEF LedgerInv, FitsCategory, StreamOfItsProject, PlanIsThere, JournalTellsDeletion
  <2> QED BY <1>2, <2>2, <2>3, <2>4, <2>5 DEF LedgerInv
<1> QED BY <1>1, <1>2

(* An entry fits its category and its project unless it was written late,  *)
(* nothing new goes into what is archived, rows of portals stay apart and  *)
(* the journal tells of every deletion, however many requests run at once: *)
(* what a request has checked either still stands when it writes or was    *)
(* changed by a commit in between, and what can not change was checked.    *)
THEOREM BooksAreFit == Spec => BooksFit
<1>1. Spec => []LedgerInv
  BY LedgerStarts, LedgerKeeps, PTL DEF Spec
<1>2. LedgerInv => FitsCategory /\ StreamOfItsProject /\ PlanIsThere /\ JournalTellsDeletion
  BY DEF LedgerInv
<1>3. LedgerInv /\ [Next]_vars => [ArchivedGetsNothingNew /\ PortalsApart]_vars
  BY LedgerKeeps
<1> QED BY <1>1, <1>2, <1>3, PTL DEF Spec, BooksFit

-----------------------------------------------------------------------------
(* Dividing by a positive whole number leaves one quotient and one rest.   *)
LEMMA DivisionIs ==
  ASSUME NEW a \in Int, NEW b \in Nat \ {0}
  PROVE  a \div b \in Int /\ a % b \in 0 .. b - 1 /\ a = b * (a \div b) + (a % b)
BY SMT

LEMMA DivisionUnique ==
  ASSUME NEW a \in Int, NEW b \in Nat \ {0}, NEW q \in Int, NEW r \in 0 .. b - 1, a = b * q + r
  PROVE  a \div b = q /\ a % b = r
BY SMTT(20)

LEMMA FoldIsTheSum == ASSUME NEW f PROVE FoldFunction(+, 0, f) = SumOver(f, DOMAIN f)
BY DEF FoldFunction, FoldFunctionOnSet, SumOver, MapThenSumSet

-----------------------------------------------------------------------------
(* Days of a year before its month k.                                      *)
DaysBefore(k) == FoldFunction(+, 0, SubSeq(MonthDays, 1, k))

LEMMA MonthsAre ==
  /\ MonthsPerYear \in Nat \ {0} /\ DOMAIN MonthDays = 1 .. MonthsPerYear
  /\ \A k \in 1 .. MonthsPerYear : MonthDays[k] \in Nat \ {0}
<1>1. MonthDays \in Seq(Nat \ {0}) /\ MonthDays # << >>
  BY CalendarAssumption
<1>2. Len(MonthDays) \in Nat /\ Len(MonthDays) # 0 /\ DOMAIN MonthDays = 1 .. Len(MonthDays)
  BY <1>1, EmptySeq
<1>3. \A k \in 1 .. Len(MonthDays) : MonthDays[k] \in Nat \ {0}
  BY <1>1, <1>2
<1> QED BY <1>2, <1>3 DEF MonthsPerYear

LEMMA DaysBeforeIs ==
  ASSUME NEW k \in 0 .. MonthsPerYear
  PROVE  DaysBefore(k) = SumOver(MonthDays, 1 .. k) /\ IsFiniteSet(1 .. k)
<1> DEFINE s == SubSeq(MonthDays, 1, k)
<1>1. /\ DOMAIN s = 1 .. k /\ \A i \in 1 .. k : s[i] = MonthDays[i]
  BY MonthsAre, CalendarAssumption DEF MonthsPerYear
<1>2. IsFiniteSet(1 .. k)
  BY MonthsAre, FS_Interval
<1>3. DaysBefore(k) = SumOver(s, DOMAIN s)
  BY FoldIsTheSum DEF DaysBefore
<1> HIDE DEF s
<1> QED BY <1>1, <1>2, <1>3, TotalAgrees

LEMMA DaysBeforeNext ==
  /\ DaysBefore(0) = 0 /\ DaysBefore(MonthsPerYear) = DaysOfYear
  /\ \A k \in 0 .. MonthsPerYear : DaysBefore(k) \in Nat
  /\ \A k \in 0 .. MonthsPerYear - 1 : DaysBefore(k + 1) = DaysBefore(k) + MonthDays[k + 1]
<1>1. DaysBefore(0) = 0
  <2>1. 0 \in 0 .. MonthsPerYear /\ 1 .. 0 = {}
    BY MonthsAre
  <2> QED BY <2>1, DaysBeforeIs, TotalOfNone
<1>2. DaysBefore(MonthsPerYear) = DaysOfYear
  <2>1. MonthsPerYear \in 0 .. MonthsPerYear
    BY MonthsAre
  <2>2. DaysOfYear = SumOver(MonthDays, DOMAIN MonthDays)
    BY FoldIsTheSum DEF DaysOfYear
  <2> QED BY <2>1, <2>2, DaysBeforeIs, MonthsAre
<1>3. ASSUME NEW k \in 0 .. MonthsPerYear
      PROVE  DaysBefore(k) \in Nat
  <2>1. \A i \in 1 .. k : MonthDays[i] \in Nat
    BY MonthsAre
  <2> QED BY <2>1, DaysBeforeIs, TotalType
<1>4. ASSUME NEW k \in 0 .. MonthsPerYear - 1
      PROVE  DaysBefore(k + 1) = DaysBefore(k) + MonthDays[k + 1]
  <2> DEFINE l == k + 1
  <2>1. l \in 0 .. MonthsPerYear /\ l \in 1 .. l /\ (1 .. l) \ {l} = 1 .. k /\ k \in 0 .. MonthsPerYear
    BY MonthsAre
  <2>2. \A i \in 1 .. l : MonthDays[i] \in Int
    BY MonthsAre
  <2> HIDE DEF l
  <2>3. SumOver(MonthDays, 1 .. l) = MonthDays[l] + SumOver(MonthDays, (1 .. l) \ {l})
    BY <2>1, <2>2, DaysBeforeIs, TotalTakesAny
  <2>4. DaysBefore(l) = SumOver(MonthDays, 1 .. l) /\ DaysBefore(k) = SumOver(MonthDays, 1 .. k)
    BY <2>1, DaysBeforeIs
  <2>5. DaysBefore(k) \in Nat /\ MonthDays[l] \in Int
    BY <1>3, <2>1, <2>2
  <2>6. SumOver(MonthDays, 1 .. l) = MonthDays[l] + SumOver(MonthDays, 1 .. k)
    BY <2>1, <2>3
  <2>7. DaysBefore(l) = MonthDays[l] + DaysBefore(k)
    BY <2>4, <2>6
  <2> DEFINE more == MonthDays[l]
             sofar == DaysBefore(k)
  <2>8. more + sofar = sofar + more
    <3> HIDE DEF more, sofar
    <3> QED BY <2>5 DEF more, sofar
  <2> QED BY <2>7, <2>8 DEF l
<1> QED BY <1>1, <1>2, <1>3, <1>4

(* Months follow one another, each as long as one of the year.              *)
LEMMA NextMonthIs ==
  ASSUME NEW m \in Int
  PROVE  /\ FirstDay(m) \in Int
         /\ \E i \in 1 .. MonthsPerYear :
              FirstDay(m + 1) = FirstDay(m) + MonthDays[i] /\ MonthDays[i] \in Nat \ {0}
<1> DEFINE M == MonthsPerYear
           D == DaysOfYear
           q == m \div M
           k == m % M
<1>1. M \in Nat \ {0} /\ q \in Int /\ k \in 0 .. M - 1 /\ m = M * q + k
  BY MonthsAre, DivisionIs
<1>2. FirstDay(m) = q * D + DaysBefore(k)
  BY DEF FirstDay, DaysBefore
<1>3. D \in Nat /\ DaysBefore(k) \in Nat /\ k \in 0 .. M
  BY <1>1, DaysBeforeNext, MonthsAre
<1>4. DaysBefore(k + 1) = DaysBefore(k) + MonthDays[k + 1] /\ MonthDays[k + 1] \in Nat \ {0}
  BY <1>1, DaysBeforeNext, MonthsAre
<1> DEFINE d == DaysBefore(k)
           e == MonthDays[k + 1]
<1>5. FirstDay(m) \in Int
  <2> HIDE DEF M, D, q, k
  <2> QED BY <1>1, <1>2, <1>3
<1>6. FirstDay(m + 1) = q * D + d + e
  <2>1. CASE k < M - 1
    <3>1. k + 1 \in 0 .. M - 1 /\ m + 1 = M * q + (k + 1) /\ m + 1 \in Int
      <4> HIDE DEF M, q, k
      <4> QED BY <1>1, <2>1
    <3>2. (m + 1) \div M = q /\ (m + 1) % M = k + 1
      <4> HIDE DEF M, q, k
      <4> QED BY <1>1, <3>1, DivisionUnique
    <3>3. FirstDay(m + 1) = q * D + DaysBefore(k + 1)
      BY <3>2 DEF FirstDay, DaysBefore
    <3> HIDE DEF M, D, q, k
    <3> QED BY <1>1, <1>3, <1>4, <3>3
  <2>2. CASE k = M - 1
    <3>1. m + 1 = M * (q + 1) + 0 /\ m + 1 \in Int /\ 0 \in 0 .. M - 1 /\ q + 1 \in Int
      <4> HIDE DEF M, q, k
      <4> QED BY <1>1, <2>2
    <3>2. (m + 1) \div M = q + 1 /\ (m + 1) % M = 0
      <4> HIDE DEF M, q, k
      <4> QED BY <1>1, <3>1, DivisionUnique
    <3>3. FirstDay(m + 1) = (q + 1) * D + DaysBefore(0)
      BY <3>2 DEF FirstDay, DaysBefore
    <3>4. D = d + e /\ DaysBefore(0) = 0
      <4>1. k + 1 = M
        <5> HIDE DEF k, M
        <5> QED BY <1>1, <2>2
      <4> QED BY <1>4, <4>1, DaysBeforeNext
    <3>5. d \in Nat /\ e \in Nat
      BY <1>3, <1>4
    <3> HIDE DEF M, D, q, k, d, e
    <3> QED BY <1>1, <1>3, <3>3, <3>4, <3>5
  <2> QED BY <1>1, <2>1, <2>2
<1>7. d \in Nat /\ e \in Nat \ {0}
  BY <1>3, <1>4
<1> HIDE DEF M, D, q, k
<1>8. FirstDay(m) = q * D + d
  BY <1>2
<1>9. q * D \in Int
  BY <1>1, <1>3
<1> HIDE DEF d
<1>10. FirstDay(m + 1) = FirstDay(m) + e
  <2> HIDE DEF e
  <2> QED BY <1>6, <1>7, <1>8, <1>9
<1>11. k + 1 \in 1 .. MonthsPerYear
  BY <1>1 DEF M
<1> QED BY <1>5, <1>7, <1>10, <1>11

LEMMA FirstDayNext ==
  ASSUME NEW m \in Int
  PROVE  FirstDay(m) \in Int /\ FirstDay(m) < FirstDay(m + 1)
<1>1. PICK i \in 1 .. MonthsPerYear :
        FirstDay(m + 1) = FirstDay(m) + MonthDays[i] /\ MonthDays[i] \in Nat \ {0}
  BY NextMonthIs
<1>2. FirstDay(m) \in Int
  BY NextMonthIs
<1> DEFINE f == FirstDay(m)
           g == FirstDay(m + 1)
           e == MonthDays[i]
<1> HIDE DEF f, g, e
<1>3. f \in Int /\ e \in Nat \ {0} /\ g = f + e
  BY <1>1, <1>2 DEF f, g, e
<1>4. f < g
  BY <1>3
<1> QED BY <1>2, <1>4 DEF f, g

LEMMA FirstDayOfYear == ASSUME NEW y \in Int PROVE FirstDay(MonthsPerYear * y) = y * DaysOfYear
<1> DEFINE M == MonthsPerYear
           D == DaysOfYear
<1>1. M \in Nat \ {0} /\ D \in Nat
  BY MonthsAre, DaysBeforeNext
<1> HIDE DEF M, D
<1>2. M * y \in Int /\ 0 \in 0 .. M - 1 /\ M * y = M * y + 0
  BY <1>1
<1>3. (M * y) \div M = y /\ (M * y) % M = 0
  BY <1>1, <1>2, DivisionUnique
<1>4. FirstDay(M * y) = y * D + DaysBefore(0)
  BY <1>3 DEF FirstDay, DaysBefore, M, D
<1> QED BY <1>1, <1>4, DaysBeforeNext DEF M, D

LEMMA FirstDayIncreases ==
  ASSUME NEW m \in Int, NEW n \in Int, m < n
  PROVE  FirstDay(m) < FirstDay(n)
<1> DEFINE bad == {i \in Nat : ~(FirstDay(m) < FirstDay(m + i + 1))}
<1>1. bad = {}
  <2> SUFFICES ASSUME bad # {} PROVE FALSE
    OBVIOUS
  <2>1. PICK i \in bad : \A j \in bad : i <= j
    <3>1. bad \in SUBSET Nat
      OBVIOUS
    <3> HIDE DEF bad
    <3> QED BY <3>1, SmallestNumber
  <2>2. i \in Nat /\ ~(FirstDay(m) < FirstDay(m + i + 1))
    BY <2>1
  <2>3. i # 0
    <3>1. m + 0 + 1 = m + 1
      OBVIOUS
    <3> QED BY <2>2, <3>1, FirstDayNext
  <2>4. i - 1 \in Nat /\ i - 1 \notin bad
    <3>1. i - 1 \in Nat /\ ~(i <= i - 1)
      BY <2>2, <2>3
    <3> QED BY <2>1, <3>1
  <2>5. FirstDay(m) < FirstDay(m + (i - 1) + 1)
    BY <2>4
  <2>6. m + (i - 1) + 1 = m + i /\ m + i \in Int /\ m + i + 1 \in Int
    BY <2>2
  <2>7. FirstDay(m + i) < FirstDay(m + i + 1)
    BY <2>6, FirstDayNext
  <2>8. FirstDay(m) \in Int /\ FirstDay(m + i) \in Int /\ FirstDay(m + i + 1) \in Int
    BY <2>6, FirstDayNext
  <2>9. FirstDay(m) < FirstDay(m + i)
    BY <2>5, <2>6
  <2> HIDE DEF bad
  <2> QED BY <2>2, <2>7, <2>8, <2>9
<1>2. n - m - 1 \in Nat /\ m + (n - m - 1) + 1 = n
  OBVIOUS
<1>3. n - m - 1 \notin bad
  BY <1>1
<1> QED BY <1>2, <1>3

LEMMA MonthOfIs ==
  ASSUME NEW date \in Int
  PROVE  MonthOf(date) \in Int /\ FirstDay(MonthOf(date)) <= date /\ date < FirstDay(MonthOf(date) + 1)
<1> DEFINE M == MonthsPerYear
           D == DaysOfYear
           y == date \div D
           fits(m) == FirstDay(m) <= date /\ date < FirstDay(m + 1)
<1>1. M \in Nat \ {0} /\ D \in Nat
  BY MonthsAre, DaysBeforeNext
<1>2. D \in Nat \ {0}
  <2>1. FirstDay(M * 0) = 0 * D /\ FirstDay(M * 1) = 1 * D
    <3> HIDE DEF M, D
    <3> QED BY FirstDayOfYear DEF M, D
  <2>2. FirstDay(M * 0) < FirstDay(M * 1)
    <3>1. M * 0 \in Int /\ M * 1 \in Int /\ M * 0 < M * 1
      <4> HIDE DEF M
      <4> QED BY <1>1
    <3> QED BY <3>1, FirstDayIncreases
  <2> HIDE DEF M, D
  <2> QED BY <1>1, <2>1, <2>2
<1>3. y \in Int /\ D * y <= date /\ date < D * (y + 1)
  <2>1. y \in Int /\ date % D \in 0 .. D - 1 /\ date = D * y + (date % D)
    BY <1>2, DivisionIs
  <2> DEFINE r == date % D
  <2> HIDE DEF y, D, r
  <2> QED BY <1>2, <2>1 DEF r
<1> HIDE DEF y, D
<1>4. FirstDay(M * y) <= date /\ date < FirstDay(M * (y + 1))
  <2>1. FirstDay(M * y) = y * D /\ FirstDay(M * (y + 1)) = (y + 1) * D
    BY <1>3, FirstDayOfYear DEF D
  <2> HIDE DEF M
  <2> QED BY <1>2, <1>3, <2>1
<1> DEFINE bad == {i \in Nat : date < FirstDay(M * y + i + 1)}
<1>5. M - 1 \in bad
  <2>1. M - 1 \in Nat /\ M * y + (M - 1) + 1 = M * (y + 1)
    <3> HIDE DEF M
    <3> QED BY <1>1, <1>3
  <2> QED BY <1>4, <2>1
<1>6. PICK i \in bad : \A j \in bad : i <= j
  <2>1. bad \in SUBSET Nat /\ bad # {}
    BY <1>5
  <2> HIDE DEF bad
  <2> QED BY <2>1, SmallestNumber
<1>7. i \in Nat /\ i <= M - 1 /\ date < FirstDay(M * y + i + 1)
  BY <1>5, <1>6
<1> DEFINE a == M * y
<1>8. a \in Int /\ M * (y + 1) = a + M
  <2> HIDE DEF M
  <2> QED BY <1>1, <1>3
<1>9. a + i \in a .. a + M - 1 /\ a + i \in Int
  <2> HIDE DEF a, M, bad
  <2> QED BY <1>1, <1>7, <1>8
<1>10. FirstDay(a + i) <= date
  <2>1. CASE i = 0
    BY <1>4, <1>8, <2>1
  <2>2. CASE i # 0
    <3>1. i - 1 \in Nat /\ ~(i <= i - 1)
      BY <1>7, <2>2
    <3>2. i - 1 \notin bad
      BY <1>6, <3>1
    <3>3. ~(date < FirstDay(a + (i - 1) + 1))
      BY <3>1, <3>2
    <3>4. a + (i - 1) + 1 = a + i
      <4> HIDE DEF a, bad
      <4> QED BY <1>7, <1>8
    <3>5. FirstDay(a + i) \in Int
      BY <1>9, FirstDayNext
    <3> QED BY <3>3, <3>4, <3>5
  <2> QED BY <2>1, <2>2
<1>11. a + i \in a .. M * (y + 1) - 1 /\ fits(a + i)
  <2>1. a + i \in a .. M * (y + 1) - 1
    <3> DEFINE b == M * (y + 1)
    <3>1. b - 1 = a + M - 1
      <4>1. b = a + M
        BY <1>8
      <4> HIDE DEF a, b, M
      <4> QED BY <1>1, <1>8, <4>1
    <3> HIDE DEF a, M, bad
    <3> QED BY <1>9, <3>1
  <2>2. fits(a + i)
    BY <1>7, <1>10
  <2> HIDE DEF fits
  <2> QED BY <2>1, <2>2
<1>12. MonthOf(date) = CHOOSE m \in a .. M * (y + 1) - 1 : fits(m)
  BY DEF MonthOf, y, D
<1> HIDE DEF bad, a
<1>13. MonthOf(date) \in a .. M * (y + 1) - 1 /\ fits(MonthOf(date))
  <2> HIDE DEF M
  <2> QED BY <1>11, <1>12
<1>14. MonthOf(date) \in Int
  <2>1. M * (y + 1) - 1 \in Int
    <3> HIDE DEF M
    <3> QED BY <1>1, <1>3
  <2> QED BY <1>8, <1>13, <2>1
<1> QED BY <1>13, <1>14

LEMMA MonthOfUnique ==
  ASSUME NEW date \in Int, NEW m \in Int, FirstDay(m) <= date, date < FirstDay(m + 1)
  PROVE  MonthOf(date) = m
<1> DEFINE k == MonthOf(date)
<1>1. k \in Int /\ FirstDay(k) <= date /\ date < FirstDay(k + 1)
  BY MonthOfIs
<1> HIDE DEF k
<1>2. /\ FirstDay(k) \in Int /\ FirstDay(k + 1) \in Int /\ FirstDay(m) \in Int /\ FirstDay(m + 1) \in Int
      /\ k + 1 \in Int /\ m + 1 \in Int
  BY <1>1, FirstDayNext
<1>3. ~(k < m)
  <2> SUFFICES ASSUME k < m PROVE FALSE
    OBVIOUS
  <2>1. k + 1 = m \/ k + 1 < m
    BY <1>1
  <2>2. FirstDay(k + 1) <= FirstDay(m)
    BY <1>2, <2>1, FirstDayIncreases
  <2> QED BY <1>1, <1>2, <2>2
<1>4. ~(m < k)
  <2> SUFFICES ASSUME m < k PROVE FALSE
    OBVIOUS
  <2>1. m + 1 = k \/ m + 1 < k
    BY <1>1
  <2>2. FirstDay(m + 1) <= FirstDay(k)
    BY <1>1, <1>2, <2>1, FirstDayIncreases
  <2> QED BY <1>1, <1>2, <2>2
<1> QED BY <1>1, <1>3, <1>4 DEF k

-----------------------------------------------------------------------------
(* Charts.                                                                 *)

Granularities == {"day", "week", "month"}

IsBucket(b, g) == b \in Int /\ BucketStart(b, g) = b

(* A day is in its bucket, and buckets begin with themselves.              *)
LEMMA BucketOfDay ==
  ASSUME NEW g \in Granularities, NEW d \in Int
  PROVE  /\ IsBucket(BucketStart(d, g), g)
         /\ BucketStart(d, g) <= d /\ d < Advance(BucketStart(d, g), g)
<1>1. CASE g = "day"
  BY <1>1 DEF IsBucket, BucketStart, Advance
<1>2. CASE g = "week"
  <2> DEFINE W == DaysPerWeek
             k == d \div W
             x == d % W
             b == d - x
  <2>1. W \in Nat \ {0} /\ k \in Int /\ x \in 0 .. W - 1 /\ d = W * k + x
    BY CalendarAssumption, DivisionIs
  <2>2. BucketStart(d, g) = b /\ Advance(b, g) = b + W
    BY <1>2 DEF BucketStart, Advance
  <2>3. b \in Int /\ b <= d /\ d < b + W /\ b = W * k + 0 /\ 0 \in 0 .. W - 1
    <3> HIDE DEF W, k, x
    <3> QED BY <2>1
  <2>4. b % W = 0
    <3> HIDE DEF W, k, b, x
    <3> QED BY <2>1, <2>3, DivisionUnique
  <2>5. BucketStart(b, g) = b
    <3>1. BucketStart(b, g) = b - (b % W)
      BY <1>2 DEF BucketStart
    <3> HIDE DEF b, W, x
    <3> QED BY <2>3, <2>4, <3>1
  <2> HIDE DEF b, W
  <2> QED BY <2>2, <2>3, <2>5 DEF IsBucket
<1>3. CASE g = "month"
  <2> DEFINE m == MonthOf(d)
  <2>1. m \in Int /\ FirstDay(m) <= d /\ d < FirstDay(m + 1)
    BY MonthOfIs
  <2>2. FirstDay(m) \in Int /\ FirstDay(m) < FirstDay(m + 1)
    BY <2>1, FirstDayNext
  <2>3. BucketStart(d, g) = FirstDay(m) /\ BucketStart(FirstDay(m), g) = FirstDay(MonthOf(FirstDay(m)))
    BY <1>3 DEF BucketStart
  <2>4. MonthOf(FirstDay(m)) = m
    <3> HIDE DEF m
    <3> QED BY <2>1, <2>2, MonthOfUnique
  <2>5. Advance(FirstDay(m), g) = FirstDay(m + 1)
    BY <1>3, <2>4 DEF Advance
  <2> HIDE DEF m
  <2> QED BY <2>1, <2>2, <2>3, <2>4, <2>5 DEF IsBucket
<1> QED BY <1>1, <1>2, <1>3 DEF Granularities

(* The next bucket is the first one after, and the days between are of the *)
(* bucket before.                                                          *)
LEMMA NextBucket ==
  ASSUME NEW g \in Granularities, NEW b, IsBucket(b, g)
  PROVE  /\ IsBucket(Advance(b, g), g) /\ b < Advance(b, g)
         /\ \A d \in Int : b <= d /\ d < Advance(b, g) => BucketStart(d, g) = b
<1>0. b \in Int
  BY DEF IsBucket
<1>1. CASE g = "day"
  BY <1>0, <1>1 DEF IsBucket, BucketStart, Advance
<1>2. CASE g = "week"
  <2> DEFINE W == DaysPerWeek
             k == b \div W
  <2>1. W \in Nat \ {0} /\ k \in Int /\ b % W \in 0 .. W - 1 /\ b = W * k + (b % W)
    BY <1>0, CalendarAssumption, DivisionIs
  <2>2. \A d : BucketStart(d, g) = d - (d % W)
    BY <1>2 DEF BucketStart
  <2>3. Advance(b, g) = b + W
    BY <1>2 DEF Advance
  <2>4. b - (b % W) = b
    BY <2>2 DEF IsBucket
  <2> DEFINE x == b % W
  <2>5. x = 0 /\ b = W * k
    <3> HIDE DEF W, k, x
    <3> QED BY <1>0, <2>1, <2>4 DEF x
  <2> HIDE DEF W, k, x
  <2>6. b + W = W * (k + 1) + 0 /\ b + W \in Int /\ 0 \in 0 .. W - 1 /\ k + 1 \in Int
    BY <1>0, <2>1, <2>5
  <2>7. (b + W) % W = 0
    BY <2>1, <2>6, DivisionUnique
  <2>8. ASSUME NEW d \in Int, b <= d, d < b + W
        PROVE  BucketStart(d, g) = b
    <3>1. d - b \in 0 .. W - 1 /\ d = W * k + (d - b)
      BY <1>0, <2>1, <2>5, <2>8
    <3>2. d % W = d - b
      BY <2>1, <3>1, DivisionUnique
    <3>3. BucketStart(d, g) = d - (d - b)
      BY <2>2, <3>2
    <3> QED BY <1>0, <3>3
  <2>9. BucketStart(b + W, g) = b + W
    <3>1. BucketStart(b + W, g) = (b + W) - 0
      BY <2>2, <2>7
    <3> QED BY <2>6, <3>1
  <2>10. b < b + W
    BY <1>0, <2>1
  <2> QED BY <2>3, <2>6, <2>8, <2>9, <2>10 DEF IsBucket
<1>3. CASE g = "month"
  <2> DEFINE m == MonthOf(b)
  <2>1. m \in Int /\ FirstDay(m) <= b /\ b < FirstDay(m + 1)
    BY <1>0, MonthOfIs
  <2>2. b = FirstDay(m)
    BY <1>3 DEF IsBucket, BucketStart
  <2>3. Advance(b, g) = FirstDay(m + 1)
    BY <1>3 DEF Advance
  <2>4. \A d : BucketStart(d, g) = FirstDay(MonthOf(d))
    BY <1>3 DEF BucketStart
  <2> HIDE DEF m
  <2>5. m + 1 \in Int /\ FirstDay(m + 1) \in Int /\ FirstDay(m + 1) < FirstDay(m + 1 + 1)
    BY <2>1, FirstDayNext
  <2>6. MonthOf(FirstDay(m + 1)) = m + 1
    BY <2>5, MonthOfUnique
  <2>7. ASSUME NEW d \in Int, b <= d, d < FirstDay(m + 1)
        PROVE  BucketStart(d, g) = b
    <3>1. MonthOf(d) = m
      BY <2>1, <2>2, <2>7, MonthOfUnique
    <3> QED BY <2>2, <2>4, <3>1
  <2> QED BY <2>1, <2>3, <2>4, <2>5, <2>6, <2>7 DEF IsBucket
<1> QED BY <1>1, <1>2, <1>3 DEF Granularities

(* The buckets one after another, from the first one on.                   *)
Chart(f, first, n, g) == f = [i \in 0 .. n |-> IF i = 0 THEN first ELSE Advance(f[i - 1], g)]

LEMMA ChartExists ==
  ASSUME NEW first, NEW g, NEW n \in Int
  PROVE  \E f : Chart(f, first, n, g)
<1> DEFINE bad == {m \in Nat : ~ \E f : Chart(f, first, m, g)}
<1>1. bad = {}
  <2> SUFFICES ASSUME bad # {} PROVE FALSE
    OBVIOUS
  <2>1. PICK m \in bad : \A k \in bad : m <= k
    <3>1. bad \in SUBSET Nat
      OBVIOUS
    <3> HIDE DEF bad
    <3> QED BY <3>1, SmallestNumber
  <2>2. CASE m = 0
    <3>1. Chart([i \in 0 .. 0 |-> first], first, 0, g)
      BY DEF Chart
    <3> QED BY <2>2, <3>1
  <2>3. CASE m # 0
    <3>1. m - 1 \in Nat /\ m \in Nat /\ ~(m <= m - 1)
      BY <2>3
    <3>2. PICK f : Chart(f, first, m - 1, g)
      BY <2>1, <3>1
    <3> DEFINE longer == [i \in 0 .. m |-> IF i = m THEN Advance(f[m - 1], g) ELSE f[i]]
    <3>3. \A i \in 0 .. m : i # m => i \in 0 .. (m - 1) /\ longer[i] = f[i]
      BY <3>1
    <3>4. \A i \in 0 .. m : i # 0 => longer[i - 1] = f[i - 1]
      BY <3>1
    <3>5. ASSUME NEW i \in 0 .. m
          PROVE  longer[i] = IF i = 0 THEN first ELSE Advance(longer[i - 1], g)
      <4>1. CASE i = m
        <5>1. longer[i] = Advance(f[m - 1], g)
          BY <4>1
        <5> QED BY <2>3, <3>4, <4>1, <5>1
      <4>2. CASE i # m
        <5>1. longer[i] = f[i] /\ i \in 0 .. (m - 1)
          BY <3>3, <4>2
        <5>2. f[i] = IF i = 0 THEN first ELSE Advance(f[i - 1], g)
          BY <3>2, <5>1 DEF Chart
        <5> QED BY <3>4, <5>1, <5>2
      <4> QED BY <4>1, <4>2
    <3>6. longer = [i \in 0 .. m |-> longer[i]]
      OBVIOUS
    <3> HIDE DEF longer
    <3>7. Chart(longer, first, m, g)
      BY <3>5, <3>6 DEF Chart
    <3> QED BY <3>7
  <2> QED BY <2>2, <2>3
<1>2. CASE n \in Nat
  BY <1>1, <1>2
<1>3. CASE n \notin Nat
  <2>1. 0 .. n = {}
    BY <1>3
  <2>2. Chart([i \in 0 .. n |-> first], first, n, g)
    BY <2>1 DEF Chart
  <2> QED BY <2>2
<1> QED BY <1>2, <1>3

LEMMA BucketsAre ==
  ASSUME NEW from \in Int, NEW to \in Int, NEW g \in Granularities
  PROVE  \E f : /\ Chart(f, BucketStart(from, g), to - BucketStart(from, g) + 1, g)
                /\ Buckets(Span(from, to), g)
                     = { f[i] : i \in { j \in 0 .. to - BucketStart(from, g) + 1 : f[j] <= to } }
<1> DEFINE first == BucketStart(from, g)
           n == to - first + 1
           f == CHOOSE h : Chart(h, first, n, g)
<1>1. first \in Int /\ n \in Int
  BY BucketOfDay DEF IsBucket
<1>2. Chart(f, first, n, g)
  <2> HIDE DEF first, n
  <2> QED BY <1>1, ChartExists
<1>3. DOMAIN f = 0 .. n
  <2> HIDE DEF f, first, n
  <2> QED BY <1>2 DEF Chart
<1>4. Buckets(Span(from, to), g) = { f[i] : i \in { j \in DOMAIN f : f[j] <= to } }
  BY DEF Buckets, Span, Chart
<1> HIDE DEF f
<1> QED BY <1>2, <1>3, <1>4

LEMMA BucketsFinite ==
  ASSUME NEW from \in Int, NEW to \in Int, NEW g \in Granularities
  PROVE  IsFiniteSet(Buckets(Span(from, to), g))
<1> DEFINE first == BucketStart(from, g)
           n == to - first + 1
<1>1. n \in Int
  BY BucketOfDay DEF IsBucket
<1>2. PICK f : Buckets(Span(from, to), g) = { f[i] : i \in { j \in 0 .. n : f[j] <= to } }
  BY BucketsAre
<1> HIDE DEF n
<1> DEFINE I == { j \in 0 .. n : f[j] <= to }
<1>3. IsFiniteSet(I)
  <2>1. IsFiniteSet(0 .. n) /\ I \subseteq 0 .. n
    BY <1>1, FS_Interval
  <2> HIDE DEF I
  <2> QED BY <2>1, FS_Subset
<1> HIDE DEF I
<1>4. IsFiniteSet({ f[i] : i \in I })
  BY <1>3, FiniteImage
<1> QED BY <1>2, <1>4 DEF I

(* The chart of a period has the buckets of its days and no other.         *)
LEMMA ChartCovers ==
  ASSUME NEW from \in Int, NEW to \in Int, from <= to, NEW g \in Granularities
  PROVE  { BucketStart(d, g) : d \in from .. to } = Buckets(Span(from, to), g)
<1> DEFINE first == BucketStart(from, g)
           n == to - first + 1
<1>1. IsBucket(first, g) /\ first \in Int /\ first <= from /\ from < Advance(first, g)
  BY BucketOfDay DEF IsBucket
<1>2. n \in Nat /\ n # 0
  <2> HIDE DEF first
  <2> QED BY <1>1
<1>3. PICK f : /\ Chart(f, first, n, g)
               /\ Buckets(Span(from, to), g) = { f[i] : i \in { j \in 0 .. n : f[j] <= to } }
  BY BucketsAre
<1> HIDE DEF first
<1>4. f[0] = first /\ \A i \in 0 .. n : i # 0 => f[i] = Advance(f[i - 1], g)
  <2>1. \A i \in 0 .. n : f[i] = IF i = 0 THEN first ELSE Advance(f[i - 1], g)
    BY <1>3 DEF Chart
  <2>2. 0 \in 0 .. n
    BY <1>2
  <2> HIDE DEF n
  <2> QED BY <2>1, <2>2
<1> HIDE DEF n
<1>5. \A i \in 0 .. n : IsBucket(f[i], g) /\ f[i] >= first + i
  <2> DEFINE bad == {i \in Nat : i \in 0 .. n /\ ~(IsBucket(f[i], g) /\ f[i] >= first + i)}
  <2> SUFFICES ASSUME bad # {} PROVE FALSE
    BY <1>2
  <2>1. PICK i \in bad : \A j \in bad : i <= j
    <3>1. bad \in SUBSET Nat
      OBVIOUS
    <3> HIDE DEF bad
    <3> QED BY <3>1, SmallestNumber
  <2>2. i \in Nat /\ i \in 0 .. n /\ ~(IsBucket(f[i], g) /\ f[i] >= first + i)
    BY <2>1
  <2>3. CASE i = 0
    <3>1. f[0] >= first + 0
      BY <1>1, <1>4
    <3> QED BY <1>1, <1>4, <2>2, <2>3, <3>1
  <2>4. CASE i # 0
    <3>1. i - 1 \in Nat /\ i - 1 \in 0 .. n /\ ~(i <= i - 1)
      BY <1>2, <2>2, <2>4
    <3>2. i - 1 \notin bad
      BY <2>1, <3>1
    <3>3. IsBucket(f[i - 1], g) /\ f[i - 1] >= first + (i - 1)
      BY <3>1, <3>2
    <3>4. f[i] = Advance(f[i - 1], g)
      BY <1>4, <2>2, <2>4
    <3>5. IsBucket(f[i], g) /\ f[i - 1] < f[i]
      BY <3>3, <3>4, NextBucket
    <3>6. f[i - 1] \in Int /\ f[i] \in Int
      BY <3>3, <3>5 DEF IsBucket
    <3>7. f[i] >= first + i
      <4> DEFINE x == f[i]
                 y == f[i - 1]
      <4>1. x \in Int /\ y \in Int /\ y >= first + (i - 1) /\ y < x
        BY <3>3, <3>5, <3>6
      <4> HIDE DEF x, y
      <4>2. x >= first + i
        BY <1>1, <2>2, <4>1
      <4> QED BY <4>2 DEF x
    <3> QED BY <2>2, <3>5, <3>7
  <2> QED BY <2>3, <2>4
<1>6. ASSUME NEW d \in from .. to
      PROVE  \E i \in 0 .. n : f[i] <= to /\ f[i] = BucketStart(d, g)
  <2>0. d \in Int /\ from <= d /\ d <= to
    OBVIOUS
  <2> DEFINE bad == {i \in Nat : i \in 0 .. n /\ d < f[i]}
  <2>1. n \in bad
    <3>1. n \in 0 .. n /\ n \in Nat
      BY <1>2
    <3>2. f[n] >= first + n /\ f[n] \in Int
      BY <1>5, <3>1 DEF IsBucket
    <3>3. d < f[n]
      <4> DEFINE x == f[n]
      <4>1. x >= to + 1 /\ x \in Int
        <5> HIDE DEF x
        <5>1. x >= first + n /\ x \in Int
          BY <3>2 DEF x
        <5> QED BY <1>1, <5>1 DEF n
      <4> HIDE DEF x
      <4>2. d < x
        BY <2>0, <4>1
      <4> QED BY <4>2 DEF x
    <3> QED BY <3>1, <3>3
  <2>2. PICK i \in bad : \A j \in bad : i <= j
    <3>1. bad \in SUBSET Nat /\ bad # {}
      BY <2>1
    <3> HIDE DEF bad
    <3> QED BY <3>1, SmallestNumber
  <2>3. i \in Nat /\ i \in 0 .. n /\ d < f[i]
    BY <2>2
  <2>4. i # 0
    BY <1>1, <1>4, <2>0, <2>3
  <2>5. i - 1 \in Nat /\ i - 1 \in 0 .. n /\ ~(i <= i - 1)
    BY <1>2, <2>3, <2>4
  <2>6. i - 1 \notin bad
    BY <2>2, <2>5
  <2>7. ~(d < f[i - 1]) /\ IsBucket(f[i - 1], g) /\ f[i - 1] \in Int
    BY <1>5, <2>5, <2>6 DEF IsBucket
  <2>8. f[i] = Advance(f[i - 1], g)
    BY <1>4, <2>3, <2>4
  <2>9. f[i - 1] <= d
    BY <2>0, <2>7
  <2>10. BucketStart(d, g) = f[i - 1]
    BY <2>0, <2>3, <2>7, <2>8, <2>9, NextBucket
  <2>11. f[i - 1] <= to
    BY <2>0, <2>7, <2>9
  <2> QED BY <2>5, <2>10, <2>11
<1>7. ASSUME NEW i \in 0 .. n, f[i] <= to
      PROVE  \E d \in from .. to : f[i] = BucketStart(d, g)
  <2>1. IsBucket(f[i], g) /\ f[i] \in Int /\ BucketStart(f[i], g) = f[i]
    BY <1>5 DEF IsBucket
  <2>2. CASE from <= f[i]
    <3>1. f[i] \in from .. to
      BY <1>7, <2>1, <2>2
    <3> QED BY <2>1, <3>1
  <2>3. CASE f[i] < from
    <3>1. i = 0
      <4> SUFFICES ASSUME i # 0 PROVE FALSE
        OBVIOUS
      <4> DEFINE one == {j \in Nat : j \in 1 .. n /\ ~(f[1] <= f[j])}
      <4>1. 1 \in 0 .. n /\ f[1] = Advance(first, g)
        BY <1>2, <1>4
      <4>2. one = {}
        <5> SUFFICES ASSUME one # {} PROVE FALSE
          OBVIOUS
        <5>1. PICK j \in one : \A k \in one : j <= k
          <6>1. one \in SUBSET Nat
            OBVIOUS
          <6> HIDE DEF one
          <6> QED BY <6>1, SmallestNumber
        <5>2. j \in Nat /\ j \in 1 .. n /\ ~(f[1] <= f[j])
          BY <5>1
        <5>3. f[1] \in Int
          BY <1>5, <4>1 DEF IsBucket
        <5>4. j # 1
          BY <5>2, <5>3
        <5>5. j - 1 \in Nat /\ j - 1 \in 1 .. n /\ j - 1 \in 0 .. n /\ j \in 0 .. n /\ ~(j <= j - 1)
          BY <1>2, <5>2, <5>4
        <5>6. j - 1 \notin one
          BY <5>1, <5>5
        <5>7. f[1] <= f[j - 1]
          BY <5>5, <5>6
        <5>8. f[j - 1] < f[j] /\ f[j - 1] \in Int /\ f[j] \in Int
          <6>1. IsBucket(f[j - 1], g) /\ IsBucket(f[j], g)
            BY <1>5, <5>5
          <6>2. f[j] = Advance(f[j - 1], g)
            BY <1>4, <5>2, <5>5
          <6> QED BY <6>1, <6>2, NextBucket DEF IsBucket
        <5> HIDE DEF one
        <5> QED BY <5>2, <5>3, <5>7, <5>8
      <4>3. i \in Nat /\ i \in 1 .. n
        BY <1>2
      <4>4. f[1] <= f[i] /\ f[1] \in Int
        BY <1>5, <4>1, <4>2, <4>3 DEF IsBucket
      <4>5. from < f[1]
        BY <1>1, <4>1
      <4> HIDE DEF one
      <4> QED BY <2>1, <2>3, <4>4, <4>5
    <3>2. from \in from .. to
      OBVIOUS
    <3> QED BY <1>4, <3>1, <3>2 DEF first
  <2> QED BY <2>1, <2>2, <2>3
<1> QED BY <1>3, <1>6, <1>7

(* Days of later than the end of a period are in its chart when their      *)
(* bucket begins in time.                                                  *)
LEMMA ChartReaches ==
  ASSUME NEW from \in Int, NEW to \in Int, NEW g \in Granularities, NEW d \in Int, from <= d
  PROVE  BucketStart(d, g) \in Buckets(Span(from, to), g) <=> BucketStart(d, g) <= to
<1> DEFINE first == BucketStart(from, g)
           b == BucketStart(d, g)
           n == to - first + 1
<1>1. /\ IsBucket(first, g) /\ first \in Int /\ first <= from /\ from < Advance(first, g)
      /\ IsBucket(b, g) /\ b \in Int /\ b <= d /\ d < Advance(b, g) /\ BucketStart(b, g) = b
  BY BucketOfDay DEF IsBucket
<1>2. PICK f : /\ Chart(f, first, n, g)
               /\ Buckets(Span(from, to), g) = { f[i] : i \in { j \in 0 .. n : f[j] <= to } }
  BY BucketsAre
<1>3. ASSUME b \in Buckets(Span(from, to), g) PROVE b <= to
  <2> HIDE DEF b, n
  <2> QED BY <1>2, <1>3
<1>4. ASSUME b <= to, from <= b PROVE b \in Buckets(Span(from, to), g)
  <2>1. b \in from .. to /\ from <= to
    <3> HIDE DEF b
    <3> QED BY <1>1, <1>4
  <2>2. BucketStart(b, g) \in { BucketStart(x, g) : x \in from .. to }
    BY <2>1
  <2> HIDE DEF b
  <2> QED BY <1>1, <2>1, <2>2, ChartCovers
<1>5. ASSUME b <= to, b < from PROVE b \in Buckets(Span(from, to), g)
  <2>1. first = b
    <3>1. \A x \in Int : b <= x /\ x < Advance(b, g) => BucketStart(x, g) = b
      BY <1>1, NextBucket
    <3>2. b <= from /\ from < Advance(b, g)
      <4>1. Advance(b, g) \in Int
        BY <1>1, NextBucket DEF IsBucket
      <4> HIDE DEF b
      <4> QED BY <1>1, <1>5, <4>1
    <3> QED BY <3>1, <3>2
  <2>2. 0 \in 0 .. n
    <3> HIDE DEF first, b
    <3> QED BY <1>1, <1>5, <2>1
  <2> HIDE DEF n, first, b
  <2>3. f[0] = first
    BY <1>2, <2>2 DEF Chart
  <2> QED BY <1>2, <1>5, <2>1, <2>2, <2>3
<1>6. from <= b \/ b < from
  <2> HIDE DEF b
  <2> QED BY <1>1
<1> QED BY <1>3, <1>4, <1>5, <1>6

(* A month begins by a day when it is not later than the day's.            *)
LEMMA MonthBegun ==
  ASSUME NEW d \in Int, NEW e \in Int
  PROVE  BucketStart(d, "month") <= e <=> MonthOf(d) <= MonthOf(e)
<1> DEFINE m == MonthOf(d)
           n == MonthOf(e)
<1>1. /\ m \in Int /\ n \in Int /\ FirstDay(n) <= e /\ e < FirstDay(n + 1)
      /\ FirstDay(m) \in Int /\ FirstDay(n) \in Int /\ FirstDay(n + 1) \in Int
  BY MonthOfIs, FirstDayNext
<1>2. BucketStart(d, "month") = FirstDay(m)
  BY DEF BucketStart
<1> HIDE DEF m, n
<1>3. m = n \/ m < n => FirstDay(m) <= e
  BY <1>1, FirstDayIncreases
<1>4. n + 1 = m \/ n + 1 < m => ~(FirstDay(m) <= e)
  BY <1>1, FirstDayIncreases
<1> QED BY <1>1, <1>2, <1>3, <1>4 DEF m, n

-----------------------------------------------------------------------------
(* The least and the greatest of some numbers.                             *)
LEMMA LeastOfSome ==
  ASSUME NEW S \in SUBSET Int, IsFiniteSet(S), S # {}
  PROVE  Min(S) \in S /\ \A x \in S : Min(S) <= x
<1> DEFINE bad == {T \in SUBSET S : T # {} /\ ~ \E x \in T : \A y \in T : x <= y}
<1>1. bad = {}
  <2> SUFFICES ASSUME bad # {} PROVE FALSE
    OBVIOUS
  <2>1. PICK T \in bad : \A U \in SUBSET T : U # T => U \notin bad
    <3>1. bad \in SUBSET SUBSET S
      OBVIOUS
    <3> HIDE DEF bad
    <3> QED BY <3>1, SmallestSubset
  <2>2. T \in SUBSET S /\ T # {} /\ ~ \E x \in T : \A y \in T : x <= y
    OBVIOUS
  <2>3. PICK x \in T : TRUE
    BY <2>2
  <2>4. T \ {x} \in SUBSET T /\ T \ {x} # T /\ T \ {x} \in SUBSET S /\ T \subseteq Int
    BY <2>2, <2>3
  <2>5. T \ {x} \notin bad
    BY <2>1, <2>4
  <2>6. CASE T \ {x} = {}
    BY <2>2, <2>3, <2>4, <2>6
  <2>7. CASE T \ {x} # {}
    <3>1. PICK y \in T \ {x} : \A z \in T \ {x} : y <= z
      BY <2>4, <2>5, <2>7
    <3>2. x \in Int /\ \A z \in T : z \in Int /\ (z = x \/ y <= z)
      BY <2>3, <2>4, <3>1
    <3>3. CASE x <= y
      <4>1. \A z \in T : x <= z
        BY <3>1, <3>2, <3>3
      <4> QED BY <2>2, <2>3, <4>1
    <3>4. CASE ~(x <= y)
      <4>1. \A z \in T : y <= z
        BY <3>1, <3>2, <3>4
      <4> QED BY <2>2, <3>1, <4>1
    <3> QED BY <3>3, <3>4
  <2> QED BY <2>6, <2>7
<1>2. \E x \in S : \A y \in S : x <= y
  BY <1>1
<1> QED BY <1>2 DEF Min

LEMMA GreatestOfSome ==
  ASSUME NEW S \in SUBSET Int, IsFiniteSet(S), S # {}
  PROVE  Max(S) \in S /\ \A x \in S : x <= Max(S)
<1> DEFINE f == [x \in S |-> -x]
           N == {f[x] : x \in S}
<1>1. N \in SUBSET Int /\ N # {} /\ IsFiniteSet(N)
  <2>1. IsFiniteSet(N)
    <3> HIDE DEF f
    <3> QED BY FiniteImage
  <2>2. \A x \in S : f[x] \in Int
    OBVIOUS
  <2>3. N \in SUBSET Int /\ N # {}
    <3> HIDE DEF f
    <3> QED BY <2>2
  <2> QED BY <2>1, <2>3
<1>2. Min(N) \in N /\ \A x \in N : Min(N) <= x
  <2> HIDE DEF N
  <2> QED BY <1>1, LeastOfSome
<1>3. PICK x \in S : Min(N) = -x
  BY <1>2
<1>4. \A y \in S : -x <= -y
  BY <1>2, <1>3
<1>5. \A y \in S : y <= x
  BY <1>4
<1> QED BY <1>5 DEF Max

-----------------------------------------------------------------------------
(* Sums of money.                                                          *)

Money(B) == [e \in B |-> e.amount]

IsBooked(B) == IsFiniteSet(B) /\ \A e \in B : e.amount \in Int

LEMMA AmountsAre ==
  ASSUME NEW B, IsBooked(B), NEW S \in SUBSET B
  PROVE  Amounts(S) = SumOver(Money(B), S) /\ Amounts(S) \in Int /\ IsBooked(S)
<1> DEFINE adds(f) == f = [s \in SUBSET S |-> IF s = {} THEN 0 ELSE First(s).amount + f[s \ {First(s)}]]
           iter == CHOOSE f : adds(f)
<1>1. Amounts(S) = iter[S]
  BY DEF Amounts, MapThenSumSet, MapThenFoldSet, First
<1>2. IsFiniteSet(S) /\ (\A x \in S : Money(B)[x] \in Int) /\ IsBooked(S)
  BY FS_Subset DEF IsBooked, Money
<1>3. \A s \in SUBSET S : s # {} => Money(B)[First(s)] = First(s).amount
  BY FirstIn DEF Money
<1>4. \A f : AddsUp(f, Money(B), S) <=> adds(f)
  BY <1>3 DEF AddsUp
<1> HIDE DEF adds
<1>5. \E f : adds(f)
  BY <1>2, <1>4, SumsExist
<1>6. AddsUp(iter, Money(B), S)
  BY <1>4, <1>5
<1> HIDE DEF iter
<1>7. Amounts(S) = SumOver(Money(B), S)
  BY <1>1, <1>2, <1>6, TotalIsTheSum
<1> QED BY <1>2, <1>7, TotalType

(* A column of a table of economics.                                       *)
Column(rows, field) == [x \in DOMAIN rows |-> rows[x][field]]

FactIncomes(rows) == MapThenSumSet(LAMBDA x : rows[x].factIncome, DOMAIN rows)

FactExpenses(rows) == MapThenSumSet(LAMBDA x : rows[x].factExpense, DOMAIN rows)

PlanIncomes(rows) == MapThenSumSet(LAMBDA x : rows[x].planIncome, DOMAIN rows)

PlanExpenses(rows) == MapThenSumSet(LAMBDA x : rows[x].planExpense, DOMAIN rows)

FactProfits(rows) == MapThenSumSet(LAMBDA x : rows[x].factProfit, DOMAIN rows)

LEMMA ColumnsAddUp ==
  ASSUME NEW rows, IsFiniteSet(DOMAIN rows)
  PROVE  /\ FactIncomes(rows) = SumOver(Column(rows, "factIncome"), DOMAIN rows)
         /\ FactExpenses(rows) = SumOver(Column(rows, "factExpense"), DOMAIN rows)
         /\ PlanIncomes(rows) = SumOver(Column(rows, "planIncome"), DOMAIN rows)
         /\ PlanExpenses(rows) = SumOver(Column(rows, "planExpense"), DOMAIN rows)
         /\ FactProfits(rows) = SumOver(Column(rows, "factProfit"), DOMAIN rows)
<1> DEFINE D == DOMAIN rows
           adds(f, k) == f = [s \in SUBSET D |-> IF s = {} THEN 0 ELSE rows[First(s)][k] + f[s \ {First(s)}]]
           iter(k) == CHOOSE f : adds(f, k)
<1>1. ASSUME NEW k PROVE iter(k)[D] = SumOver(Column(rows, k), D)
  <2>1. \A s \in SUBSET D : s # {} => Column(rows, k)[First(s)] = rows[First(s)][k]
    BY FirstIn DEF Column
  <2>2. \A f : AddsUp(f, Column(rows, k), D) <=> adds(f, k)
    BY <2>1 DEF AddsUp
  <2> HIDE DEF adds, D
  <2>3. \E f : adds(f, k)
    BY <2>2, SumsExist DEF D
  <2>4. AddsUp(iter(k), Column(rows, k), D)
    BY <2>2, <2>3
  <2> HIDE DEF iter
  <2>5. IsFiniteSet(D) /\ D \in SUBSET D
    BY DEF D
  <2> QED BY <2>4, <2>5, TotalIsTheSum
<1>2. FactIncomes(rows) = iter("factIncome")[D]
  BY DEF FactIncomes, MapThenSumSet, MapThenFoldSet, First
<1>3. FactExpenses(rows) = iter("factExpense")[D]
  BY DEF FactExpenses, MapThenSumSet, MapThenFoldSet, First
<1>4. PlanIncomes(rows) = iter("planIncome")[D]
  BY DEF PlanIncomes, MapThenSumSet, MapThenFoldSet, First
<1>5. PlanExpenses(rows) = iter("planExpense")[D]
  BY DEF PlanExpenses, MapThenSumSet, MapThenFoldSet, First
<1>6. FactProfits(rows) = iter("factProfit")[D]
  BY DEF FactProfits, MapThenSumSet, MapThenFoldSet, First
<1> HIDE DEF iter
<1> QED BY <1>1, <1>2, <1>3, <1>4, <1>5, <1>6

LEMMA EconomicsAre ==
  ASSUME NEW B, IsBooked(B), NEW S \in SUBSET B
  PROVE  /\ AggregateProject(S) \in Economics /\ AggregateProject(S) # None
         /\ AggregateProject(S).factIncome = TotalOf(Live(S), "INCOME", "FACT")
         /\ AggregateProject(S).factExpense = TotalOf(Live(S), "EXPENSE", "FACT")
         /\ AggregateProject(S).planIncome = TotalOf(Live(S), "INCOME", "PLAN")
         /\ AggregateProject(S).planExpense = TotalOf(Live(S), "EXPENSE", "PLAN")
         /\ AggregateProject(S).factProfit
              = TotalOf(Live(S), "INCOME", "FACT") - TotalOf(Live(S), "EXPENSE", "FACT")
<1> DEFINE t == Totals(Live(S))
<1>1. \A direction, budget : TotalOf(Live(S), direction, budget) \in Int
  <2> TAKE direction, budget
  <2>1. { e \in Live(S) : e.direction = direction /\ e.budget = budget } \in SUBSET B
    BY DEF Live
  <2> QED BY <2>1, AmountsAre DEF TotalOf
<1>2. /\ t.factIncome = TotalOf(Live(S), "INCOME", "FACT") /\ t.factExpense = TotalOf(Live(S), "EXPENSE", "FACT")
      /\ t.planIncome = TotalOf(Live(S), "INCOME", "PLAN") /\ t.planExpense = TotalOf(Live(S), "EXPENSE", "PLAN")
  BY DEF Totals
<1>3. AggregateProject(S) = FromTotals(t)
  BY DEF AggregateProject
<1>4. t.factIncome \in Int /\ t.factExpense \in Int /\ t.planIncome \in Int /\ t.planExpense \in Int
  BY <1>1, <1>2
<1> HIDE DEF t
<1>5. \A income \in Int, profit \in Int : Margin(income, profit) \in {None} \cup [num : Int, den : Int]
  <2> TAKE income \in Int, profit \in Int
  <2>1. 100 * profit \in Int
    OBVIOUS
  <2>2. [num |-> 100 * profit, den |-> income] \in [num : Int, den : Int]
    BY <2>1
  <2> QED BY <2>2 DEF Margin
<1>6. FromTotals(t) \in Economics
  <2> DEFINE a == t.factIncome
             b == t.factExpense
             c == t.planIncome
             d == t.planExpense
             fp == a - b
             pp == c - d
  <2>1. fp \in Int /\ pp \in Int /\ a - c \in Int /\ b - d \in Int /\ fp - pp \in Int
    BY <1>4
  <2>2. Margin(a, fp) \in {None} \cup [num : Int, den : Int] /\ Margin(c, pp) \in {None} \cup [num : Int, den : Int]
    <3> HIDE DEF fp, pp
    <3> QED BY <1>4, <1>5, <2>1
  <2>3. FromTotals(t) = [factIncome |-> a, factExpense |-> b, planIncome |-> c, planExpense |-> d,
                         factProfit |-> fp, planProfit |-> pp, factMargin |-> Margin(a, fp),
                         planMargin |-> Margin(c, pp), incomeDeviation |-> a - c,
                         expenseDeviation |-> b - d, profitDeviation |-> fp - pp]
    BY DEF FromTotals
  <2> HIDE DEF a, b, c, d, fp, pp
  <2>4. a \in Int /\ b \in Int /\ c \in Int /\ d \in Int
    BY <1>4 DEF a, b, c, d
  <2> QED BY <2>1, <2>2, <2>3, <2>4 DEF Economics
<1>7. FromTotals(t) # None
  BY <1>6, FinanceAssumption
<1>8. /\ FromTotals(t).factIncome = t.factIncome /\ FromTotals(t).factExpense = t.factExpense
      /\ FromTotals(t).planIncome = t.planIncome /\ FromTotals(t).planExpense = t.planExpense
      /\ FromTotals(t).factProfit = t.factIncome - t.factExpense
  BY DEF FromTotals
<1> QED BY <1>2, <1>3, <1>6, <1>7, <1>8

(* Entries B split into parts, one for each member of J.                   *)
IsSplit(B, J, f, cut) ==
  /\ IsBooked(B) /\ IsFiniteSet(J)
  /\ \A e \in B : f[e] \in J
  /\ CutBy(cut, B, f, J)

TotalsOf(cut, J, direction, budget) == [j \in J |-> TotalOf(cut[j], direction, budget)]

(* Money split into parts comes to the whole, for either direction and in  *)
(* either budget.                                                          *)
LEMMA PartsAddUp ==
  ASSUME NEW B, NEW J, NEW f, NEW cut, IsSplit(B, J, f, cut), NEW direction, NEW budget
  PROVE  /\ SumOver(TotalsOf(cut, J, direction, budget), J) = TotalOf(B, direction, budget)
         /\ \A j \in J : TotalsOf(cut, J, direction, budget)[j] \in Int
<1> DEFINE col == TotalsOf(cut, J, direction, budget)
<1>0. /\ IsBooked(B) /\ IsFiniteSet(J) /\ (\A e \in B : f[e] \in J) /\ CutBy(cut, B, f, J)
      /\ \A j \in J : col[j] = TotalOf(cut[j], direction, budget)
  BY DEF IsSplit, TotalsOf
<1> HIDE DEF col
<1> DEFINE S == { e \in B : e.direction = direction /\ e.budget = budget }
           h == Money(B)
           share == [j \in J |-> { e \in S : f[e] = j }]
<1>1. S \in SUBSET B /\ IsFiniteSet(S)
  BY <1>0, FS_Subset DEF IsBooked
<1>2. TotalOf(B, direction, budget) = SumOver(h, S)
  BY <1>0, <1>1, AmountsAre DEF TotalOf
<1>3. ASSUME NEW j \in J
      PROVE  col[j] = SumOver(h, share[j]) /\ col[j] \in Int
  <2> DEFINE P == { e \in cut[j] : e.direction = direction /\ e.budget = budget }
  <2>1. P = share[j] /\ P \in SUBSET B
    BY <1>0 DEF CutBy
  <2>2. col[j] = Amounts(P)
    BY <1>0 DEF TotalOf
  <2> HIDE DEF P, S, share
  <2> QED BY <1>0, <2>1, <2>2, AmountsAre
<1>4. \A e \in S : f[e] \in J
  BY <1>0, <1>1
<1>5. \A e \in S : h[e] \in Int
  BY <1>0, <1>1 DEF IsBooked, Money
<1>6. CutBy(share, S, f, J)
  BY DEF CutBy
<1> HIDE DEF h, share, S
<1>7. SumOver(col, J) = SumOver(h, S)
  BY <1>0, <1>1, <1>3, <1>4, <1>5, <1>6, TotalByParts
<1> QED BY <1>2, <1>3, <1>7 DEF col

LEMMA TableAddsUp ==
  ASSUME NEW B, NEW J, NEW f, NEW cut, IsSplit(B, J, f, cut), NEW rows, DOMAIN rows = J,
         \A j \in J : rows[j].factIncome = TotalOf(cut[j], "INCOME", "FACT"),
         \A j \in J : rows[j].factExpense = TotalOf(cut[j], "EXPENSE", "FACT"),
         \A j \in J : rows[j].planIncome = TotalOf(cut[j], "INCOME", "PLAN"),
         \A j \in J : rows[j].planExpense = TotalOf(cut[j], "EXPENSE", "PLAN")
  PROVE  /\ FactIncomes(rows) = TotalOf(B, "INCOME", "FACT")
         /\ FactExpenses(rows) = TotalOf(B, "EXPENSE", "FACT")
         /\ PlanIncomes(rows) = TotalOf(B, "INCOME", "PLAN")
         /\ PlanExpenses(rows) = TotalOf(B, "EXPENSE", "PLAN")
         /\ (\A j \in J : rows[j].factProfit = rows[j].factIncome - rows[j].factExpense) =>
              FactProfits(rows)
                = TotalOf(B, "INCOME", "FACT") - TotalOf(B, "EXPENSE", "FACT")
<1> DEFINE income == TotalsOf(cut, J, "INCOME", "FACT")
           expense == TotalsOf(cut, J, "EXPENSE", "FACT")
<1>0. IsFiniteSet(J)
  BY DEF IsSplit
<1>1. /\ Column(rows, "factIncome") = income /\ Column(rows, "factExpense") = expense
      /\ Column(rows, "planIncome") = TotalsOf(cut, J, "INCOME", "PLAN")
      /\ Column(rows, "planExpense") = TotalsOf(cut, J, "EXPENSE", "PLAN")
  BY DEF Column, TotalsOf
<1>2. /\ SumOver(income, J) = TotalOf(B, "INCOME", "FACT") /\ \A j \in J : income[j] \in Int
      /\ SumOver(expense, J) = TotalOf(B, "EXPENSE", "FACT") /\ \A j \in J : expense[j] \in Int
      /\ SumOver(TotalsOf(cut, J, "INCOME", "PLAN"), J) = TotalOf(B, "INCOME", "PLAN")
      /\ SumOver(TotalsOf(cut, J, "EXPENSE", "PLAN"), J) = TotalOf(B, "EXPENSE", "PLAN")
  BY PartsAddUp
<1>3. ASSUME \A j \in J : rows[j].factProfit = rows[j].factIncome - rows[j].factExpense
      PROVE  SumOver(Column(rows, "factProfit"), J) = SumOver(income, J) - SumOver(expense, J)
  <2> DEFINE profit == Column(rows, "factProfit")
  <2>1. \A j \in J : income[j] = rows[j].factIncome /\ expense[j] = rows[j].factExpense /\ profit[j] = rows[j].factProfit
    BY DEF Column, TotalsOf
  <2> HIDE DEF profit, income, expense
  <2>2. \A j \in J : income[j] \in Int /\ expense[j] \in Int /\ profit[j] = income[j] - expense[j]
    BY <1>2, <1>3, <2>1
  <2>3. SumOver(profit, J) = SumOver(income, J) - SumOver(expense, J)
    BY <1>0, <2>2, TotalOfDifference
  <2> QED BY <2>3 DEF profit
<1> HIDE DEF income, expense
<1>4. /\ FactIncomes(rows) = SumOver(Column(rows, "factIncome"), J)
      /\ FactExpenses(rows) = SumOver(Column(rows, "factExpense"), J)
      /\ PlanIncomes(rows) = SumOver(Column(rows, "planIncome"), J)
      /\ PlanExpenses(rows) = SumOver(Column(rows, "planExpense"), J)
      /\ FactProfits(rows) = SumOver(Column(rows, "factProfit"), J)
  BY <1>0, ColumnsAddUp
<1> QED BY <1>1, <1>2, <1>3, <1>4

-----------------------------------------------------------------------------
(* What the pages read.                                                    *)

Present == { e \in Entries : entries[e].exists }

Line == [e \in Entries |->
           [id |-> e, portal |-> entries[e].portal, project |-> entries[e].project,
            category |-> entries[e].category, direction |-> entries[e].direction,
            stream |-> entries[e].stream, deleted |-> entries[e].deleted,
            budget |-> Facts[e].budget, amount |-> Facts[e].amount, day |-> Facts[e].day,
            created |-> Facts[e].created]]

LEMMA BooksAre ==
  ASSUME LedgerInv
  PROVE  /\ IsBooked(Books.entries) /\ Books.projects = Projects /\ LatestDay \in Int
         /\ \A e \in Books.entries :
              /\ e.day \in Int /\ e.amount \in Int /\ e.created \in Int /\ e.deleted \in BOOLEAN
              /\ \E p \in Projects : p.id = e.project /\ p.portal = e.portal
         /\ IsFiniteSet(Books.streams)
<1>1. Books.entries = { Line[e] : e \in Present } /\ Books.projects = Projects
  BY DEF Books, Line, Present
<1>2. IsFiniteSet(Present) /\ Present \subseteq Entries
  BY LedgerAssumption, FS_Subset DEF Present
<1>3. \A e \in Entries : Facts[e].amount \in Int /\ Facts[e].day \in Int /\ Facts[e].created \in Int
  BY LedgerAssumption
<1>4. LatestDay \in Int
  <2> DEFINE f == [e \in Entries |-> Facts[e].day]
             D == { f[e] : e \in Entries }
  <2>1. IsFiniteSet(D)
    <3>1. IsFiniteSet(Entries)
      BY LedgerAssumption
    <3> HIDE DEF f
    <3> QED BY <3>1, FiniteImage
  <2>2. D \in SUBSET Int /\ D # {} /\ \A e \in Entries : Facts[e].day \in D
    <3>1. \A e \in Entries : f[e] = Facts[e].day /\ f[e] \in Int
      BY <1>3
    <3>2. Entries # {}
      BY LedgerAssumption
    <3> HIDE DEF f
    <3> QED BY <3>1, <3>2
  <2>3. LatestDay = Max(D)
    BY DEF LatestDay
  <2> HIDE DEF D
  <2>4. Max(D) \in Int /\ \A x \in D : x <= Max(D)
    BY <2>1, <2>2, GreatestOfSome
  <2> QED BY <2>2, <2>3, <2>4
<1>5. ASSUME NEW e \in Present
      PROVE  /\ entries[e] \in EntryRow /\ entries[e].deleted \in BOOLEAN
             /\ \E p \in Projects : p.id = entries[e].project /\ p.portal = entries[e].portal
  <2>1. e \in Entries /\ entries[e].exists
    BY DEF Present
  <2>2. entries[e] \in EntryRow
    BY <2>1 DEF LedgerInv, BooksTypeOK, Absent
  <2>3. EntryApart(entries[e], cats, streams)
    BY <2>1 DEF LedgerInv
  <2>4. entries[e].deleted \in BOOLEAN
    BY <2>2 DEF EntryRow
  <2> QED BY <2>1, <2>2, <2>3, <2>4 DEF EntryApart
<1>6. ASSUME NEW e \in Present
      PROVE  /\ Line[e].created = Facts[e].created /\ Line[e].day = Facts[e].day /\ Line[e].amount = Facts[e].amount
             /\ Line[e].deleted = entries[e].deleted
             /\ Line[e].project = entries[e].project /\ Line[e].portal = entries[e].portal
  BY <1>2 DEF Line
<1>7. IsBooked(Books.entries)
  <2>1. IsFiniteSet({ Line[e] : e \in Present })
    BY <1>2, FiniteImage
  <2> QED BY <1>1, <1>2, <1>3, <1>6, <2>1 DEF IsBooked
<1>8. ASSUME NEW e \in Books.entries
      PROVE  /\ e.day \in Int /\ e.amount \in Int /\ e.created \in Int /\ e.deleted \in BOOLEAN
             /\ \E p \in Projects : p.id = e.project /\ p.portal = e.portal
  <2>1. PICK x \in Present : e = Line[x]
    BY <1>1
  <2> QED BY <1>2, <1>3, <1>5, <1>6, <2>1
<1>10. IsFiniteSet(Books.streams)
  <2> DEFINE f == [s \in Streams |-> [id |-> s, project |-> streams[s].project, archived |-> streams[s].archived]]
             T == { s \in Streams : streams[s].exists }
  <2>1. Books.streams = { f[s] : s \in T }
    BY DEF Books
  <2>2. IsFiniteSet(T)
    BY LedgerAssumption, FS_Subset
  <2> HIDE DEF f, T
  <2> QED BY <2>1, <2>2, FiniteImage
<1> QED BY <1>1, <1>4, <1>7, <1>8, <1>10

(* The projects of a portal an actor may see.                              *)
Seen(actor) == { p \in Projects : p.portal = actor.portal /\ CanViewProject(actor, p) }

LEMMA ProjectsSeen ==
  ASSUME LedgerInv, NEW actor, NEW q, q.status = "ALL", q.project = None
  PROVE  /\ DashboardProjects(Books, actor, q) = Seen(actor)
         /\ VisibleProjects(Books, actor, q) = Seen(actor)
         /\ IsFiniteSet({ p.id : p \in Seen(actor) })
<1>1. Books.projects = Projects
  BY BooksAre
<1>2. DashboardProjects(Books, actor, q) = Seen(actor)
  <2>1. \A p : (CASE q.status = "ALL" -> TRUE
                  [] q.status = None -> p.status # "ARCHIVED"
                  [] OTHER -> p.status = q.status)
    BY LedgerAssumption
  <2> QED BY <1>1, <2>1 DEF DashboardProjects, Seen, AnyOr
<1>3. VisibleProjects(Books, actor, q) = Seen(actor)
  BY <1>1 DEF VisibleProjects, Seen
<1>4. IsFiniteSet({ p.id : p \in Seen(actor) })
  <2> DEFINE f == [p \in Projects |-> p.id]
             S == Seen(actor)
  <2>1. IsFiniteSet(S) /\ S \subseteq Projects
    BY LedgerAssumption, FS_Subset DEF Seen
  <2> HIDE DEF S
  <2>2. { f[p] : p \in S } = { p.id : p \in S }
    BY <2>1
  <2> HIDE DEF f
  <2> QED BY <2>1, <2>2, FiniteImage DEF S
<1> QED BY <1>2, <1>3, <1>4

(* The entry's project is the one that has its id.                         *)
LEMMA ProjectOfEntry ==
  ASSUME LedgerInv, NEW e \in Books.entries, NEW actor
  PROVE  /\ ProjectOf(Books, e) \in Projects /\ ProjectOf(Books, e).id = e.project
         /\ ProjectOf(Books, e).portal = e.portal
         /\ e.portal = actor.portal =>
              (CanViewProject(actor, ProjectOf(Books, e)) <=> e.project \in { p.id : p \in Seen(actor) })
<1>1. PICK p \in Projects : p.id = e.project /\ p.portal = e.portal
  BY BooksAre
<1>2. \A o \in Projects : o.id = e.project => o = p
  BY <1>1, LedgerAssumption
<1>3. ProjectOf(Books, e) = p
  <2>1. ProjectOf(Books, e) = CHOOSE o \in Projects : o.id = e.project
    BY BooksAre DEF ProjectOf
  <2> QED BY <1>1, <1>2, <2>1
<1>4. e.portal = actor.portal => (CanViewProject(actor, p) <=> e.project \in { o.id : o \in Seen(actor) })
  BY <1>1, <1>2 DEF Seen
<1> QED BY <1>1, <1>3, <1>4

LEMMA QueryIs ==
  ASSUME NEW q \in Queries, LatestDay \in Int
  PROVE  /\ q.project = None /\ q.direction = None /\ q.budget = None /\ q.category = None
         /\ q.status = "ALL" /\ q.includeDeleted = TRUE
         /\ q.from = None \/ q.from \in Int
         /\ q.to = None \/ q.to \in Int
         /\ \E f, t : q = Query(f, t, "ALL")
<1>1. PICK f \in {None, 1}, t \in {None, 1, LatestDay} : q = Query(f, t, "ALL")
  BY DEF Queries
<1>2. t = None \/ t \in Int
  OBVIOUS
<1>3. /\ q.project = None /\ q.direction = None /\ q.budget = None /\ q.category = None
      /\ q.status = "ALL" /\ q.includeDeleted = TRUE /\ q.from = f /\ q.to = t
  BY <1>1 DEF Query
<1>4. f = None \/ f \in Int
  OBVIOUS
<1> QED BY <1>1, <1>2, <1>3, <1>4

(* A list of the ledger that a figure of the overview opens.               *)
ListOf(actor, q, d, m) == Live(LedgerRows(Books, actor, [q EXCEPT !.direction = d, !.budget = m]))

(* The rows of the overview are the live ones of the ledger.               *)
LEMMA OverviewRows ==
  ASSUME LedgerInv, NEW actor, NEW q \in Queries
  PROVE  LET R == DashboardEntries(Books, actor, q) IN
         /\ R \subseteq OfPortal(Books, actor) /\ R \subseteq Books.entries
         /\ \A e \in R : ~e.deleted /\ InPeriod(e, q) /\ e.project \in { p.id : p \in Seen(actor) }
         /\ \A e \in OfPortal(Books, actor) :
              ~e.deleted /\ InPeriod(e, q) /\ e.project \in { p.id : p \in Seen(actor) } => e \in R
         /\ \A d \in MoneyDirections, m \in {"FACT", "PLAN"} :
              ListOf(actor, q, d, m) = { e \in R : e.direction = d /\ e.budget = m }
<1> DEFINE R == DashboardEntries(Books, actor, q)
           ids == { p.id : p \in Seen(actor) }
<1>1. q.project = None /\ q.category = None /\ q.status = "ALL"
  BY QueryIs, BooksAre
<1>2. R = { e \in OfPortal(Books, actor) : e.project \in ids /\ ~e.deleted /\ InPeriod(e, q) }
  <2>1. DashboardProjects(Books, actor, q) = Seen(actor)
    BY <1>1, ProjectsSeen
  <2> QED BY <1>1, <2>1 DEF DashboardEntries, AnyOr
<1>3. OfPortal(Books, actor) \subseteq Books.entries /\ \A e \in OfPortal(Books, actor) : e.portal = actor.portal
  BY DEF OfPortal
<1>4. ASSUME NEW direction \in MoneyDirections, NEW budget \in {"FACT", "PLAN"}
      PROVE  ListOf(actor, q, direction, budget) = { e \in R : e.direction = direction /\ e.budget = budget }
  <2> DEFINE r == [q EXCEPT !.direction = direction, !.budget = budget]
             L == Live(LedgerRows(Books, actor, r))
             T == { e \in R : e.direction = direction /\ e.budget = budget }
  <2>1. /\ r.direction = direction /\ r.budget = budget /\ r.project = None /\ r.category = None
        /\ r.from = q.from /\ r.to = q.to
    <3>1. PICK f, t : q = Query(f, t, "ALL")
      BY QueryIs, BooksAre
    <3> QED BY <3>1 DEF Query
  <2>2. direction # None /\ budget # None
    BY LedgerAssumption
  <2> HIDE DEF r
  <2>3. \A e : InPeriod(e, r) <=> InPeriod(e, q)
    BY <2>1 DEF InPeriod
  <2>4. LedgerRows(Books, actor, r) =
          { e \in OfPortal(Books, actor) :
              /\ e.direction = direction /\ e.budget = budget /\ InPeriod(e, r)
              /\ ~e.deleted \/ (r.includeDeleted /\ CanViewAll(actor))
              /\ CanViewProject(actor, ProjectOf(Books, e)) }
    BY <2>1, <2>2 DEF LedgerRows, AnyOr
  <2>5. \A e \in OfPortal(Books, actor) : CanViewProject(actor, ProjectOf(Books, e)) <=> e.project \in ids
    BY <1>3, ProjectOfEntry
  <2> HIDE DEF R, ids
  <2>6. L = T
    BY <1>2, <2>3, <2>4, <2>5 DEF Live
  <2> QED BY <2>6 DEF r, ListOf
<1> HIDE DEF R
<1>5. \A d \in MoneyDirections, m \in {"FACT", "PLAN"} :
        ListOf(actor, q, d, m) = { e \in R : e.direction = d /\ e.budget = m }
  BY <1>4
<1>6. /\ R \subseteq OfPortal(Books, actor) /\ R \subseteq Books.entries
      /\ \A e \in R : ~e.deleted /\ InPeriod(e, q) /\ e.project \in ids
      /\ \A e \in OfPortal(Books, actor) : ~e.deleted /\ InPeriod(e, q) /\ e.project \in ids => e \in R
  BY <1>2, <1>3
<1> QED BY <1>5, <1>6 DEF R

-----------------------------------------------------------------------------
(* The figures of the overview.                                            *)

IsLive(R) == IsBooked(R) /\ \A e \in R : ~e.deleted

LEMMA LiveAre == ASSUME NEW R, IsLive(R), NEW S \in SUBSET R PROVE IsLive(S) /\ Live(S) = S
<1>1. IsBooked(S)
  BY AmountsAre DEF IsLive
<1>2. \A e \in S : ~e.deleted
  BY DEF IsLive
<1> QED BY <1>1, <1>2 DEF IsLive, Live

(* Entries by a value they all have: by project, by day of a chart.        *)
Parts(R, J, f) == [j \in J |-> { e \in R : f[e] = j }]

LEMMA PartsAre ==
  ASSUME NEW R, IsLive(R), NEW J, IsFiniteSet(J), NEW f, \A e \in R : f[e] \in J
  PROVE  IsSplit(R, J, f, Parts(R, J, f)) /\ \A j \in J : Parts(R, J, f)[j] \in SUBSET R
<1>1. \A j \in J : Parts(R, J, f)[j] \in SUBSET R
  BY DEF Parts
<1>2. CutBy(Parts(R, J, f), R, f, J)
  BY DEF CutBy, Parts
<1> QED BY <1>1, <1>2 DEF IsSplit, IsLive

PerProject(R, ids) == [p \in ids |-> AggregateProject({ e \in R : e.project = p })]

LEMMA CompanyAddsUp ==
  ASSUME NEW R, IsLive(R), NEW ids, IsFiniteSet(ids), \A e \in R : e.project \in ids
  PROVE  LET rows == PerProject(R, ids)
             kpi == AggregateCompany(rows) IN
         /\ kpi.factIncome = TotalOf(R, "INCOME", "FACT")
         /\ kpi.factExpense = TotalOf(R, "EXPENSE", "FACT")
         /\ kpi.planIncome = TotalOf(R, "INCOME", "PLAN")
         /\ kpi.planExpense = TotalOf(R, "EXPENSE", "PLAN")
         /\ kpi.factProfit = FactProfits(rows)
<1> DEFINE rows == PerProject(R, ids)
           f == [e \in R |-> e.project]
           cut == Parts(R, ids, f)
<1>1. \A e \in R : f[e] = e.project /\ f[e] \in ids
  OBVIOUS
<1>2. \A j \in ids : rows[j] = AggregateProject(cut[j])
  BY DEF PerProject, Parts
<1>3. DOMAIN rows = ids
  BY DEF PerProject
<1> HIDE DEF rows, f
<1>4. IsSplit(R, ids, f, cut) /\ \A j \in ids : cut[j] \in SUBSET R
  BY <1>1, PartsAre
<1> HIDE DEF cut
<1>5. ASSUME NEW j \in ids
      PROVE  /\ rows[j].factIncome = TotalOf(cut[j], "INCOME", "FACT")
             /\ rows[j].factExpense = TotalOf(cut[j], "EXPENSE", "FACT")
             /\ rows[j].planIncome = TotalOf(cut[j], "INCOME", "PLAN")
             /\ rows[j].planExpense = TotalOf(cut[j], "EXPENSE", "PLAN")
             /\ rows[j].factProfit = rows[j].factIncome - rows[j].factExpense
  <2>1. cut[j] \in SUBSET R /\ IsBooked(R) /\ Live(cut[j]) = cut[j]
    BY <1>4, LiveAre DEF IsLive
  <2> QED BY <1>2, <2>1, EconomicsAre
<1>6. /\ FactIncomes(rows) = TotalOf(R, "INCOME", "FACT")
      /\ FactExpenses(rows) = TotalOf(R, "EXPENSE", "FACT")
      /\ PlanIncomes(rows) = TotalOf(R, "INCOME", "PLAN")
      /\ PlanExpenses(rows) = TotalOf(R, "EXPENSE", "PLAN")
      /\ FactProfits(rows)
           = TotalOf(R, "INCOME", "FACT") - TotalOf(R, "EXPENSE", "FACT")
  BY <1>3, <1>4, <1>5, TableAddsUp
<1>7. AggregateCompany(rows)
        = FromTotals([factIncome |-> FactIncomes(rows),
                      factExpense |-> FactExpenses(rows),
                      planIncome |-> PlanIncomes(rows),
                      planExpense |-> PlanExpenses(rows)])
  BY DEF AggregateCompany, FactIncomes, FactExpenses, PlanIncomes, PlanExpenses
<1>8. AggregateCompany(rows)
        = FromTotals([factIncome |-> TotalOf(R, "INCOME", "FACT"), factExpense |-> TotalOf(R, "EXPENSE", "FACT"),
                      planIncome |-> TotalOf(R, "INCOME", "PLAN"), planExpense |-> TotalOf(R, "EXPENSE", "PLAN")])
  BY <1>6, <1>7
<1>9. /\ AggregateCompany(rows).factIncome = TotalOf(R, "INCOME", "FACT")
      /\ AggregateCompany(rows).factExpense = TotalOf(R, "EXPENSE", "FACT")
      /\ AggregateCompany(rows).planIncome = TotalOf(R, "INCOME", "PLAN")
      /\ AggregateCompany(rows).planExpense = TotalOf(R, "EXPENSE", "PLAN")
      /\ AggregateCompany(rows).factProfit = TotalOf(R, "INCOME", "FACT") - TotalOf(R, "EXPENSE", "FACT")
  BY <1>8 DEF FromTotals
<1>10. FactProfits(rows)
         = TotalOf(R, "INCOME", "FACT") - TotalOf(R, "EXPENSE", "FACT")
  BY <1>3, <1>6
<1> QED BY <1>9, <1>10 DEF rows

LEMMA ChartAddsUp ==
  ASSUME NEW R, IsLive(R), NEW from \in Int, NEW to \in Int, NEW g \in Granularities, NEW C \in SUBSET R,
         \A e \in R : e \in C <=> BucketStart(e.day, g) \in Buckets(Span(from, to), g)
  PROVE  LET rows == TimeSeries(R, from, to, g) IN
         /\ FactIncomes(rows) = TotalOf(C, "INCOME", "FACT")
         /\ FactExpenses(rows) = TotalOf(C, "EXPENSE", "FACT")
         /\ PlanExpenses(rows) = TotalOf(C, "EXPENSE", "PLAN")
<1> DEFINE rows == TimeSeries(R, from, to, g)
           J == Buckets(Span(from, to), g)
           f == [e \in C |-> BucketStart(e.day, g)]
           cut == Parts(C, J, f)
<1>1. \A e \in C : f[e] = BucketStart(e.day, g) /\ f[e] \in J
  OBVIOUS
<1>3. Live(R) = R /\ IsLive(C)
  BY LiveAre
<1>4. DOMAIN rows = J /\ \A j \in J : rows[j] = Totals(cut[j])
  <2>1. rows = [b \in J |-> Totals({ e \in R : BucketStart(e.day, g) = b })]
    BY <1>3 DEF TimeSeries
  <2>2. \A j \in J : cut[j] = { e \in C : BucketStart(e.day, g) = j }
    BY DEF Parts
  <2>3. \A j \in J : { e \in C : BucketStart(e.day, g) = j } = { e \in R : BucketStart(e.day, g) = j }
    <3> HIDE DEF J
    <3> QED BY DEF J
  <2> HIDE DEF rows, cut, J
  <2> QED BY <2>1, <2>2, <2>3
<1>5. IsFiniteSet(J)
  BY BucketsFinite
<1> HIDE DEF rows, f, J
<1>6. IsSplit(C, J, f, cut) /\ \A j \in J : cut[j] \in SUBSET C
  BY <1>1, <1>3, <1>5, PartsAre
<1> HIDE DEF cut
<1>7. ASSUME NEW j \in J
      PROVE  /\ rows[j].factIncome = TotalOf(cut[j], "INCOME", "FACT")
             /\ rows[j].factExpense = TotalOf(cut[j], "EXPENSE", "FACT")
             /\ rows[j].planIncome = TotalOf(cut[j], "INCOME", "PLAN")
             /\ rows[j].planExpense = TotalOf(cut[j], "EXPENSE", "PLAN")
  BY <1>4 DEF Totals
<1>8. /\ FactIncomes(rows) = TotalOf(C, "INCOME", "FACT")
      /\ FactExpenses(rows) = TotalOf(C, "EXPENSE", "FACT")
      /\ PlanExpenses(rows) = TotalOf(C, "EXPENSE", "PLAN")
  BY <1>4, <1>6, <1>7, TableAddsUp
<1> QED BY <1>4, <1>8 DEF rows

LEMMA StructureAddsUp ==
  ASSUME NEW R, IsLive(R)
  PROVE  FoldFunction(+, 0, ExpenseStructure(R, "FACT")) = TotalOf(R, "EXPENSE", "FACT")
<1> DEFINE S == { e \in R : e.direction = "EXPENSE" /\ e.budget = "FACT" }
           f == [e \in S |-> e.category]
           J == { f[e] : e \in S }
           cut == Parts(S, J, f)
           h == ExpenseStructure(R, "FACT")
<1>1. S \in SUBSET R /\ IsLive(S) /\ Live(R) = R /\ Live(S) = S
  BY LiveAre
<1>2. TotalOf(R, "EXPENSE", "FACT") = SumOver(Money(S), S)
  <2>1. TotalOf(R, "EXPENSE", "FACT") = Amounts(S)
    BY DEF TotalOf
  <2> HIDE DEF S
  <2> QED BY <1>1, <2>1, AmountsAre DEF IsLive
<1>3. h = [c \in J |-> Amounts({ e \in S : e.category = c })]
  <2>1. h = [c \in { e.category : e \in S } |-> Amounts({ e \in S : e.category = c })]
    BY <1>1 DEF ExpenseStructure
  <2>2. J = { e.category : e \in S }
    OBVIOUS
  <2> HIDE DEF J, h, S
  <2> QED BY <2>1, <2>2
<1>4. \A c \in J : cut[c] = { e \in S : e.category = c }
  BY DEF Parts
<1>5. DOMAIN h = J /\ \A c \in J : h[c] = Amounts(cut[c])
  <2> HIDE DEF h, J, cut, S
  <2> QED BY <1>3, <1>4
<1>6. IsFiniteSet(J) /\ \A e \in S : f[e] \in J
  <2>1. IsFiniteSet(S)
    BY <1>1 DEF IsLive, IsBooked
  <2>2. \A e \in S : f[e] \in J
    OBVIOUS
  <2> HIDE DEF f, S
  <2> QED BY <2>1, <2>2, FiniteImage
<1> HIDE DEF f, J, S, h
<1>7. IsSplit(S, J, f, cut) /\ \A j \in J : cut[j] \in SUBSET S
  BY <1>1, <1>6, PartsAre
<1> HIDE DEF cut
<1>8. ASSUME NEW j \in J
      PROVE  h[j] = SumOver(Money(S), cut[j]) /\ h[j] \in Int
  BY <1>1, <1>5, <1>7, AmountsAre DEF IsLive
<1>9. \A e \in S : Money(S)[e] \in Int
  BY <1>1 DEF IsLive, IsBooked, Money
<1>10. SumOver(h, J) = SumOver(Money(S), S)
  <2>1. IsFiniteSet(S) /\ IsFiniteSet(J) /\ (\A e \in S : f[e] \in J) /\ CutBy(cut, S, f, J)
    BY <1>7 DEF IsSplit, IsBooked
  <2> DEFINE m == Money(S)
  <2> HIDE DEF m
  <2> QED BY <1>8, <1>9, <2>1, TotalByParts DEF m
<1> QED BY <1>2, <1>5, <1>10, FoldIsTheSum DEF h

(* From when to when, and in what steps, the chart of a period is drawn.   *)
IsChartOf(R, q, from, to, g) ==
  /\ from \in Int /\ to \in Int /\ g \in Granularities
  /\ \A e \in R : e.day \in Int /\ from <= e.day
  /\ q.to = None => to = ThisDay /\ g = "month"
  /\ q.to # None => to = q.to /\ \A e \in R : e.day <= to

LEMMA ChartedIs ==
  ASSUME NEW R, NEW q, NEW from, NEW to, NEW g, IsChartOf(R, q, from, to, g)
  PROVE  \A e \in R : e \in Charted(R, q) <=> BucketStart(e.day, g) \in Buckets(Span(from, to), g)
<1> SUFFICES ASSUME NEW e \in R
    PROVE  e \in Charted(R, q) <=> BucketStart(e.day, g) \in Buckets(Span(from, to), g)
  OBVIOUS
<1>1. /\ from \in Int /\ to \in Int /\ g \in Granularities /\ e.day \in Int /\ from <= e.day
      /\ BucketStart(e.day, g) <= e.day /\ BucketStart(e.day, g) \in Int
  BY BucketOfDay DEF IsChartOf, IsBucket
<1>2. BucketStart(e.day, g) \in Buckets(Span(from, to), g) <=> BucketStart(e.day, g) <= to
  BY <1>1, ChartReaches
<1>3. CASE q.to = None
  <2>1. to = ThisDay /\ g = "month"
    BY <1>3 DEF IsChartOf
  <2>2. BucketStart(e.day, g) <= to <=> MonthOf(e.day) <= MonthOf(ThisDay)
    BY <1>1, <2>1, MonthBegun
  <2> QED BY <1>2, <1>3, <2>2 DEF Charted
<1>4. CASE q.to # None
  <2>1. e.day <= to
    BY <1>4 DEF IsChartOf
  <2>2. BucketStart(e.day, g) <= to
    BY <1>1, <2>1
  <2> QED BY <1>2, <1>4, <2>2 DEF Charted
<1> QED BY <1>3, <1>4

(* What is on the overview.                                                *)
LEMMA OverviewIs ==
  ASSUME LedgerInv, NEW actor, NEW q \in Queries, NEW tier
  PROVE  LET R == DashboardEntries(Books, actor, q)
             rows == PerProject(R, { p.id : p \in Seen(actor) })
             dash == LoadDashboard(Books, actor, tier, q, ThisDay) IN
         /\ IsLive(R)
         /\ dash.kpi = AggregateCompany(rows) /\ dash.projects = rows /\ dash.bars = ForPro(tier, rows)
         /\ dash.structure = ForPro(tier, ExpenseStructure(R, "FACT"))
         /\ \E from, to, g :
              /\ IsChartOf(R, q, from, to, g)
              /\ dash.series = ForPro(tier, TimeSeries(R, from, to, g))
<1> DEFINE R == DashboardEntries(Books, actor, q)
           rows == PerProject(R, { p.id : p \in Seen(actor) })
           dash == LoadDashboard(Books, actor, tier, q, ThisDay)
           days == { e.day : e \in R }
           from == CASE q.from # None -> q.from
                     [] R = {} -> ThisDay
                     [] OTHER -> Min(days)
           to == IF q.to = None THEN ThisDay ELSE q.to
           g == GranularityFor(q.from, q.to)
<1>1. /\ q.project = None /\ q.status = "ALL" /\ (q.from = None \/ q.from \in Int)
      /\ (q.to = None \/ q.to \in Int) /\ ThisDay \in Int
  BY QueryIs, BooksAre, LedgerAssumption
<1>2. R \in SUBSET Books.entries /\ \A e \in R : ~e.deleted /\ InPeriod(e, q) /\ e.day \in Int
  BY OverviewRows, BooksAre
<1>3. IsLive(R)
  <2>1. IsBooked(R)
    <3> HIDE DEF R
    <3> QED BY <1>2, BooksAre, AmountsAre
  <2> QED BY <1>2, <2>1 DEF IsLive
<1>4. DashboardProjects(Books, actor, q) = Seen(actor)
  <2> HIDE DEF R, rows, dash, from, to, g
  <2> QED BY <1>1, ProjectsSeen
<1>5. rows = [p \in { x.id : x \in DashboardProjects(Books, actor, q) } |->
                AggregateProject({ e \in R : e.project = p })]
  BY <1>4 DEF PerProject
<1>6. /\ dash.kpi = AggregateCompany(rows) /\ dash.projects = rows /\ dash.bars = ForPro(tier, rows)
      /\ dash.structure = ForPro(tier, ExpenseStructure(R, "FACT"))
      /\ dash.series = ForPro(tier, TimeSeries(R, from, to, g))
  <2>1. dash = [kpi |-> AggregateCompany(rows), projects |-> rows,
                series |-> ForPro(tier, TimeSeries(R, from, to, g)),
                structure |-> ForPro(tier, ExpenseStructure(R, "FACT")), bars |-> ForPro(tier, rows)]
    BY <1>5 DEF LoadDashboard
  <2> HIDE DEF dash, rows, R, from, to, g
  <2> QED BY <1>1, <2>1
<1>7. g \in Granularities /\ (q.to = None => g = "month") /\ to \in Int
  <2>1. g \in Granularities
    BY DEF GranularityFor, Granularities
  <2>2. q.to = None => g = "month"
    BY DEF GranularityFor
  <2> QED BY <1>1, <2>1, <2>2
<1>8. days \in SUBSET Int /\ IsFiniteSet(days)
  <2> DEFINE f == [e \in R |-> e.day]
  <2>1. days = { f[e] : e \in R }
    OBVIOUS
  <2>2. IsFiniteSet(R)
    BY <1>3 DEF IsLive, IsBooked
  <2>3. days \in SUBSET Int
    BY <1>2
  <2> HIDE DEF f, R, days
  <2> QED BY <2>1, <2>2, <2>3, FiniteImage
<1>9. from \in Int /\ \A e \in R : from <= e.day
  <2>1. from = q.from \/ (R = {} /\ from = ThisDay) \/ (R # {} /\ from = Min(days))
    OBVIOUS
  <2>2. from = q.from => q.from # None
    <3>1. CASE q.from = None
      <4>1. from \in Int
        <5>1. CASE R = {}
          BY <1>1, <3>1, <5>1
        <5>2. CASE R # {}
          <6>1. from = Min(days)
            BY <3>1, <5>2
          <6>2. days # {}
            BY <5>2
          <6> HIDE DEF days, R, from
          <6> QED BY <1>8, <6>1, <6>2, LeastOfSome
        <5> QED BY <5>1, <5>2
      <4> QED BY <4>1, CalendarAssumption
    <3> QED BY <3>1
  <2>3. CASE from = q.from
    <3>1. q.from \in Int
      BY <1>1, <2>2, <2>3
    <3> HIDE DEF from, R
    <3> QED BY <1>2, <2>2, <2>3, <3>1 DEF InPeriod
  <2>4. CASE R = {} /\ from = ThisDay
    BY <1>1, <2>4
  <2>5. CASE R # {} /\ from = Min(days)
    <3>1. days # {} /\ \A e \in R : e.day \in days
      BY <2>5
    <3> HIDE DEF from, R, days
    <3> QED BY <1>8, <2>5, <3>1, LeastOfSome
  <2> HIDE DEF from
  <2> QED BY <2>1, <2>3, <2>4, <2>5
<1>10. IsChartOf(R, q, from, to, g)
  <2>1. \A e \in R : q.to # None => e.day <= q.to
    <3> HIDE DEF R
    <3> QED BY <1>1, <1>2 DEF InPeriod
  <2> HIDE DEF R, from, g
  <2> QED BY <1>1, <1>2, <1>7, <1>9, <2>1 DEF IsChartOf
<1> HIDE DEF R, rows, dash, from, to, g
<1>11. \E first, last, h :
         IsChartOf(R, q, first, last, h) /\ dash.series = ForPro(tier, TimeSeries(R, first, last, h))
  BY <1>6, <1>10
<1> QED BY <1>3, <1>6, <1>11 DEF R, rows, dash

(* The list of projects says what the overview says of each.               *)
LEMMA ListIs ==
  ASSUME LedgerInv, NEW actor, NEW q \in Queries
  PROVE  QueryProjects(Books, actor, q)
           = PerProject(DashboardEntries(Books, actor, q), { p.id : p \in Seen(actor) })
<1> DEFINE R == DashboardEntries(Books, actor, q)
           ids == { p.id : p \in Seen(actor) }
           all(p) == { e \in OfPortal(Books, actor) : e.project = p /\ InPeriod(e, q) }
           own(p) == { e \in R : e.project = p }
<1>1. q.project = None /\ q.status = "ALL"
  BY QueryIs, BooksAre
<1>2. /\ R \subseteq OfPortal(Books, actor)
      /\ \A e \in R : ~e.deleted /\ InPeriod(e, q)
      /\ \A e \in OfPortal(Books, actor) : ~e.deleted /\ InPeriod(e, q) /\ e.project \in ids => e \in R
  BY OverviewRows
<1>3. QueryProjects(Books, actor, q) = [p \in ids |-> AggregateProject(all(p))]
  <2>1. VisibleProjects(Books, actor, q) = Seen(actor)
    BY <1>1, ProjectsSeen
  <2> QED BY <2>1 DEF QueryProjects, LoadEconomics
<1>4. ASSUME NEW p \in ids PROVE AggregateProject(all(p)) = AggregateProject(own(p))
  <2>1. Live(all(p)) = Live(own(p))
    <3> HIDE DEF R, ids
    <3> QED BY <1>2 DEF Live
  <2> QED BY <2>1 DEF AggregateProject
<1>5. PerProject(R, ids) = [p \in ids |-> AggregateProject(own(p))]
  BY DEF PerProject
<1> HIDE DEF ids, all, own, R
<1>6. [p \in ids |-> AggregateProject(all(p))] = [p \in ids |-> AggregateProject(own(p))]
  BY <1>4
<1> QED BY <1>3, <1>5, <1>6 DEF ids, R

LEMMA FiguresSayTheSame == LedgerInv => FiguresAgree
<1> SUFFICES ASSUME LedgerInv, NEW u \in Users, NEW q \in Queries
    PROVE  LET actor == ActorOf[u]
               dash == LoadDashboard(Books, actor, "PRO", q, ThisDay)
               list == QueryProjects(Books, actor, q)
               Rows(d, b) == Live(LedgerRows(Books, actor, [q EXCEPT !.direction = d, !.budget = b]))
               Ledger(d, b) == Amounts(Rows(d, b))
               Shown(d, b) == Amounts(Charted(Rows(d, b), q))
           IN  /\ dash.kpi.factIncome = Ledger("INCOME", "FACT")
               /\ dash.kpi.factExpense = Ledger("EXPENSE", "FACT")
               /\ dash.kpi.planIncome = Ledger("INCOME", "PLAN")
               /\ dash.kpi.planExpense = Ledger("EXPENSE", "PLAN")
               /\ dash.projects = list
               /\ FactProfits(dash.bars) = dash.kpi.factProfit
               /\ FoldFunction(+, 0, dash.structure) = dash.kpi.factExpense
               /\ FactIncomes(dash.series) = Shown("INCOME", "FACT")
               /\ FactExpenses(dash.series) = Shown("EXPENSE", "FACT")
               /\ PlanExpenses(dash.series) = Shown("EXPENSE", "PLAN")
  BY DEF FiguresAgree, Sum4, FactProfits, FactIncomes, FactExpenses, PlanExpenses
<1> DEFINE actor == ActorOf[u]
           R == DashboardEntries(Books, actor, q)
           ids == { p.id : p \in Seen(actor) }
           rows == PerProject(R, ids)
           dash == LoadDashboard(Books, actor, "PRO", q, ThisDay)
           Rows(d, b) == ListOf(actor, q, d, b)
           Ledger(d, b) == Amounts(Rows(d, b))
           Shown(d, b) == Amounts(Charted(Rows(d, b), q))
           C == Charted(R, q)
<1>1. /\ IsLive(R) /\ dash.kpi = AggregateCompany(rows) /\ dash.projects = rows
      /\ dash.bars = rows /\ dash.structure = ExpenseStructure(R, "FACT")
      /\ \E from, to, g : IsChartOf(R, q, from, to, g) /\ dash.series = TimeSeries(R, from, to, g)
  <2>1. \A chart : ForPro("PRO", chart) = chart
    BY DEF ForPro
  <2> HIDE DEF actor
  <2>2. /\ IsLive(R) /\ dash.kpi = AggregateCompany(rows) /\ dash.projects = rows
        /\ dash.bars = ForPro("PRO", rows) /\ dash.structure = ForPro("PRO", ExpenseStructure(R, "FACT"))
        /\ \E from, to, g : IsChartOf(R, q, from, to, g) /\ dash.series = ForPro("PRO", TimeSeries(R, from, to, g))
    BY OverviewIs
  <2> HIDE DEF R, rows, dash
  <2>3. \E from, to, g : IsChartOf(R, q, from, to, g) /\ dash.series = TimeSeries(R, from, to, g)
    <3>1. PICK from, to, g :
            IsChartOf(R, q, from, to, g) /\ dash.series = ForPro("PRO", TimeSeries(R, from, to, g))
      BY <2>2
    <3>2. dash.series = TimeSeries(R, from, to, g)
      BY <2>1, <3>1
    <3> QED BY <3>1, <3>2
  <2>4. dash.bars = rows /\ dash.structure = ExpenseStructure(R, "FACT")
    BY <2>1, <2>2
  <2> QED BY <2>2, <2>3, <2>4
<1>2. dash.projects = QueryProjects(Books, actor, q)
  BY <1>1, ListIs
<1>3. /\ \A e \in R : e.project \in ids
      /\ \A d \in MoneyDirections, m \in {"FACT", "PLAN"} :
           Rows(d, m) = { e \in R : e.direction = d /\ e.budget = m }
  BY OverviewRows
<1>a. \A d \in MoneyDirections, m \in {"FACT", "PLAN"} :
        Ledger(d, m) = TotalOf(R, d, m) /\ Shown(d, m) = TotalOf(C, d, m)
  <2> TAKE d \in MoneyDirections, m \in {"FACT", "PLAN"}
  <2> DEFINE S == Rows(d, m)
  <2>1. S = { e \in R : e.direction = d /\ e.budget = m }
    BY <1>3
  <2> HIDE DEF S, R
  <2>2. Charted(S, q) = { e \in C : e.direction = d /\ e.budget = m }
    BY <2>1 DEF Charted
  <2> HIDE DEF C
  <2> QED BY <2>1, <2>2 DEF TotalOf, S
<1>b. /\ Ledger("INCOME", "FACT") = TotalOf(R, "INCOME", "FACT")
      /\ Ledger("EXPENSE", "FACT") = TotalOf(R, "EXPENSE", "FACT")
      /\ Ledger("INCOME", "PLAN") = TotalOf(R, "INCOME", "PLAN")
      /\ Ledger("EXPENSE", "PLAN") = TotalOf(R, "EXPENSE", "PLAN")
      /\ Shown("INCOME", "FACT") = TotalOf(C, "INCOME", "FACT")
      /\ Shown("EXPENSE", "FACT") = TotalOf(C, "EXPENSE", "FACT")
      /\ Shown("EXPENSE", "PLAN") = TotalOf(C, "EXPENSE", "PLAN")
  <2> HIDE DEF Ledger, Shown, C, R
  <2> QED BY <1>a DEF MoneyDirections
<1>4. IsFiniteSet(ids)
  BY QueryIs, BooksAre, ProjectsSeen
<1> HIDE DEF R, ids, Ledger, Shown
<1>5. /\ dash.kpi.factIncome = TotalOf(R, "INCOME", "FACT")
      /\ dash.kpi.factExpense = TotalOf(R, "EXPENSE", "FACT")
      /\ dash.kpi.planIncome = TotalOf(R, "INCOME", "PLAN")
      /\ dash.kpi.planExpense = TotalOf(R, "EXPENSE", "PLAN")
      /\ dash.kpi.factProfit = FactProfits(rows)
  <2> HIDE DEF dash, Rows
  <2>1. IsLive(R) /\ IsFiniteSet(ids) /\ (\A e \in R : e.project \in ids)
    BY <1>1, <1>3, <1>4
  <2>2. dash.kpi = AggregateCompany(rows)
    BY <1>1
  <2>3. /\ AggregateCompany(rows).factIncome = TotalOf(R, "INCOME", "FACT")
        /\ AggregateCompany(rows).factExpense = TotalOf(R, "EXPENSE", "FACT")
        /\ AggregateCompany(rows).planIncome = TotalOf(R, "INCOME", "PLAN")
        /\ AggregateCompany(rows).planExpense = TotalOf(R, "EXPENSE", "PLAN")
        /\ AggregateCompany(rows).factProfit = FactProfits(rows)
    BY <2>1, CompanyAddsUp
  <2> QED BY <2>2, <2>3
<1>6. FoldFunction(+, 0, dash.structure) = TotalOf(R, "EXPENSE", "FACT")
  BY <1>1, StructureAddsUp
<1>7. /\ FactIncomes(dash.series) = TotalOf(C, "INCOME", "FACT")
      /\ FactExpenses(dash.series) = TotalOf(C, "EXPENSE", "FACT")
      /\ PlanExpenses(dash.series) = TotalOf(C, "EXPENSE", "PLAN")
  <2>1. PICK from, to, g : IsChartOf(R, q, from, to, g) /\ dash.series = TimeSeries(R, from, to, g)
    BY <1>1
  <2>2. \A e \in R : e \in C <=> BucketStart(e.day, g) \in Buckets(Span(from, to), g)
    BY <2>1, ChartedIs
  <2>3. C \in SUBSET R
    BY DEF Charted
  <2>4. from \in Int /\ to \in Int /\ g \in Granularities
    BY <2>1 DEF IsChartOf
  <2> HIDE DEF dash, C
  <2> QED BY <1>1, <2>1, <2>2, <2>3, <2>4, ChartAddsUp
<1>8. FactProfits(dash.bars) = dash.kpi.factProfit
  BY <1>1, <1>5
<1> HIDE DEF dash, C
<1> QED BY <1>2, <1>b, <1>5, <1>6, <1>7, <1>8 DEF dash, Ledger, Shown, ListOf

LEMMA StreamsSayTheSame == LedgerInv => StreamsAddUp
<1> SUFFICES ASSUME LedgerInv, NEW p \in Projects, DOMAIN ProjectStreams(Books, p.id).streams # {}
    PROVE  LET parts == ProjectStreams(Books, p.id)
               whole == AggregateProject({ e \in Books.entries : e.project = p.id })
           IN  /\ FactIncomes(parts.streams) + (IF parts.untagged = None THEN 0 ELSE parts.untagged.factIncome)
                    = whole.factIncome
               /\ FactExpenses(parts.streams) + (IF parts.untagged = None THEN 0 ELSE parts.untagged.factExpense)
                    = whole.factExpense
               /\ PlanExpenses(parts.streams) + (IF parts.untagged = None THEN 0 ELSE parts.untagged.planExpense)
                    = whole.planExpense
  BY DEF StreamsAddUp, Sum4, FactIncomes, FactExpenses, PlanExpenses
<1> DEFINE B == { e \in Books.entries : e.project = p.id }
           shown == { s \in Books.streams : s.project = p.id /\ ~s.archived }
           ids == { x.id : x \in shown }
           U == Untagged(B, shown)
           parts == ProjectStreams(Books, p.id)
           rows == [s \in ids |-> AggregateProject({ e \in B : e.stream = s })]
           tagged == { e \in Live(B) : e.stream \in ids }
           f == [e \in tagged |-> e.stream]
           cut == Parts(tagged, ids, f)
           rest == parts.untagged
<1>1. /\ parts.streams = rows /\ DOMAIN rows = ids
      /\ rest = IF shown # {} /\ U # {} THEN AggregateProject(U) ELSE None
  BY DEF ProjectStreams
<1>2. shown # {}
  BY <1>1
<1>3. IsBooked(B) /\ B \in SUBSET Books.entries
  BY BooksAre, AmountsAre
<1>4. IsFiniteSet(ids)
  <2> DEFINE g == [x \in shown |-> x.id]
  <2>1. ids = { g[x] : x \in shown }
    OBVIOUS
  <2>2. IsFiniteSet(shown)
    BY BooksAre, FS_Subset
  <2> HIDE DEF g, shown, ids
  <2> QED BY <2>1, <2>2, FiniteImage
<1>5. /\ U \in SUBSET B /\ tagged \in SUBSET B /\ Live(B) \in SUBSET B
      /\ tagged = Live(B) \cap tagged /\ Live(U) = Live(B) \ tagged
      /\ \A s \in ids : { e \in B : e.stream = s } \in SUBSET B
      /\ \A e \in tagged : ~e.deleted /\ f[e] = e.stream /\ f[e] \in ids
  BY DEF Untagged, Live
<1>6. \A s \in ids : Live({ e \in B : e.stream = s }) = cut[s]
  BY DEF Live, Parts
<1>7. \A s \in ids : rows[s] = AggregateProject({ e \in B : e.stream = s })
  OBVIOUS
<1> HIDE DEF B, shown, ids, U, parts, rows, tagged, f, rest
<1>8. IsLive(tagged)
  BY <1>3, <1>5, AmountsAre DEF IsLive
<1>9. IsSplit(tagged, ids, f, cut)
  BY <1>4, <1>5, <1>8, PartsAre
<1> HIDE DEF cut
<1>10. ASSUME NEW s \in ids
       PROVE  /\ rows[s].factIncome = TotalOf(cut[s], "INCOME", "FACT")
              /\ rows[s].factExpense = TotalOf(cut[s], "EXPENSE", "FACT")
              /\ rows[s].planIncome = TotalOf(cut[s], "INCOME", "PLAN")
              /\ rows[s].planExpense = TotalOf(cut[s], "EXPENSE", "PLAN")
  <2> DEFINE S == { e \in B : e.stream = s }
  <2>1. S \in SUBSET B /\ Live(S) = cut[s] /\ rows[s] = AggregateProject(S)
    BY <1>5, <1>6, <1>7
  <2> HIDE DEF S
  <2> QED BY <1>3, <2>1, EconomicsAre
<1>11. /\ FactIncomes(rows) = TotalOf(tagged, "INCOME", "FACT")
       /\ FactExpenses(rows) = TotalOf(tagged, "EXPENSE", "FACT")
       /\ PlanExpenses(rows) = TotalOf(tagged, "EXPENSE", "PLAN")
  BY <1>1, <1>9, <1>10, TableAddsUp
<1>12. ASSUME NEW direction, NEW budget
       PROVE  /\ TotalOf(Live(B), direction, budget)
                   = TotalOf(tagged, direction, budget) + TotalOf(Live(U), direction, budget)
              /\ TotalOf(tagged, direction, budget) \in Int
              /\ U = {} => TotalOf(Live(U), direction, budget) = 0
  <2> DEFINE S == { e \in Live(B) : e.direction = direction /\ e.budget = budget }
             T == { e \in tagged : e.direction = direction /\ e.budget = budget }
             V == { e \in Live(U) : e.direction = direction /\ e.budget = budget }
             h == Money(B)
  <2>1. S \cap tagged = T /\ S \ tagged = V /\ S \in SUBSET B /\ T \in SUBSET B /\ V \in SUBSET B
    BY <1>5
  <2>2. /\ TotalOf(Live(B), direction, budget) = Amounts(S) /\ TotalOf(tagged, direction, budget) = Amounts(T)
        /\ TotalOf(Live(U), direction, budget) = Amounts(V)
    BY DEF TotalOf
  <2>3. U = {} => V = {}
    BY DEF Live
  <2> HIDE DEF S, T, V
  <2>4. /\ Amounts(S) = SumOver(h, S) /\ Amounts(T) = SumOver(h, T) /\ Amounts(V) = SumOver(h, V)
        /\ Amounts(T) \in Int /\ IsBooked(S)
    BY <1>3, <2>1, AmountsAre
  <2>5. \A x \in S : h[x] \in Int
    BY <1>3, <2>1 DEF IsBooked, Money
  <2> HIDE DEF h
  <2>6. SumOver(h, S) = SumOver(h, S \cap tagged) + SumOver(h, S \ tagged)
    BY <2>4, <2>5, TotalOfTwo DEF IsBooked
  <2>7. SumOver(h, {}) = 0
    BY TotalOfNone
  <2> QED BY <2>1, <2>2, <2>3, <2>4, <2>6, <2>7
<1>13. /\ AggregateProject(B).factIncome = TotalOf(Live(B), "INCOME", "FACT")
       /\ AggregateProject(B).factExpense = TotalOf(Live(B), "EXPENSE", "FACT")
       /\ AggregateProject(B).planExpense = TotalOf(Live(B), "EXPENSE", "PLAN")
  <2>1. B \in SUBSET B
    OBVIOUS
  <2> QED BY <1>3, <2>1, EconomicsAre
<1>14. /\ AggregateProject(U).factIncome = TotalOf(Live(U), "INCOME", "FACT")
       /\ AggregateProject(U).factExpense = TotalOf(Live(U), "EXPENSE", "FACT")
       /\ AggregateProject(U).planExpense = TotalOf(Live(U), "EXPENSE", "PLAN")
       /\ AggregateProject(U) # None
  BY <1>3, <1>5, EconomicsAre
<1>15. /\ (IF rest = None THEN 0 ELSE rest.factIncome) = TotalOf(Live(U), "INCOME", "FACT")
       /\ (IF rest = None THEN 0 ELSE rest.factExpense) = TotalOf(Live(U), "EXPENSE", "FACT")
       /\ (IF rest = None THEN 0 ELSE rest.planExpense) = TotalOf(Live(U), "EXPENSE", "PLAN")
  <2>1. CASE U = {}
    BY <1>1, <1>12, <2>1
  <2>2. CASE U # {}
    <3>1. rest = AggregateProject(U)
      BY <1>1, <1>2, <2>2
    <3> QED BY <1>14, <3>1
  <2> QED BY <2>1, <2>2
<1>16. /\ FactIncomes(parts.streams) + (IF rest = None THEN 0 ELSE rest.factIncome) = AggregateProject(B).factIncome
       /\ FactExpenses(parts.streams) + (IF rest = None THEN 0 ELSE rest.factExpense) = AggregateProject(B).factExpense
       /\ PlanExpenses(parts.streams) + (IF rest = None THEN 0 ELSE rest.planExpense) = AggregateProject(B).planExpense
  BY <1>1, <1>11, <1>12, <1>13, <1>15
<1> QED BY <1>16 DEF B, parts, rest

LEMMA OnlyOwnIsSeen == LedgerInv => SeesOnlyOwn
<1> SUFFICES ASSUME LedgerInv, NEW u \in Users, NEW q \in Queries
    PROVE  LET actor == ActorOf[u]
               own == { p \in Projects : p.portal = actor.portal
                                         /\ (u \in Managers \/ actor.user \in p.members) }
               rows == LedgerRows(Books, actor, q)
               free == LoadDashboard(Books, actor, "FREE", q, ThisDay)
           IN  /\ { e.project : e \in rows } \subseteq { p.id : p \in own }
               /\ u \notin Managers => rows = Live(rows)
               /\ DOMAIN QueryProjects(Books, actor, q) = { p.id : p \in own }
               /\ \A p \in Projects : p \in own <=> ProjectDetail(Books, actor, p) # None
               /\ free.kpi = LoadDashboard(Books, actor, "PRO", q, ThisDay).kpi
               /\ free.series = << >> /\ free.structure = << >> /\ free.bars = << >>
  BY DEF SeesOnlyOwn
<1> DEFINE actor == ActorOf[u]
           own == { p \in Projects : p.portal = actor.portal
                                     /\ (u \in Managers \/ actor.user \in p.members) }
           rows == LedgerRows(Books, actor, q)
           free == LoadDashboard(Books, actor, "FREE", q, ThisDay)
           pro == LoadDashboard(Books, actor, "PRO", q, ThisDay)
           ids == { p.id : p \in Seen(actor) }
<1>1. own = Seen(actor) /\ (u \in Managers <=> CanViewAll(actor))
  BY DEF Managers, CanMutate, CanViewAll, Seen, CanViewProject
<1>2. /\ \A e \in rows : e \in Books.entries /\ e.portal = actor.portal
      /\ \A e \in rows : CanViewProject(actor, ProjectOf(Books, e)) /\ (~e.deleted \/ CanViewAll(actor))
  BY DEF LedgerRows, OfPortal
<1> HIDE DEF actor, own, rows
<1>3. \A e \in rows : e.project \in ids
  BY <1>2, ProjectOfEntry
<1>4. ~CanViewAll(actor) => rows = Live(rows)
  BY <1>2 DEF Live
<1>5. DOMAIN QueryProjects(Books, actor, q) = ids
  BY ListIs DEF PerProject
<1>6. ASSUME NEW p \in Projects PROVE p \in Seen(actor) <=> ProjectDetail(Books, actor, p) # None
  <2> DEFINE any == [from |-> None, to |-> None]
             S == { e \in OfPortal(Books, actor) : e.project = p.id /\ InPeriod(e, any) }
  <2>1. S \in SUBSET Books.entries /\ IsBooked(Books.entries)
    BY BooksAre DEF OfPortal
  <2>2. AggregateProject(S) # None
    <3> HIDE DEF S
    <3> QED BY <2>1, EconomicsAre
  <2>3. LoadEconomics(Books, actor, {p.id}, any)[p.id] = AggregateProject(S)
    BY DEF LoadEconomics
  <2>4. ProjectDetail(Books, actor, p) = IF p \in Seen(actor) THEN AggregateProject(S) ELSE None
    <3> HIDE DEF S
    <3>1. ProjectDetail(Books, actor, p)
            = IF p \in Seen(actor) THEN LoadEconomics(Books, actor, {p.id}, any)[p.id] ELSE None
      BY DEF ProjectDetail, Seen
    <3> QED BY <2>3, <3>1
  <2> QED BY <2>2, <2>4
<1>7. free.kpi = pro.kpi /\ free.series = << >> /\ free.structure = << >> /\ free.bars = << >>
  <2>1. \A chart : ForPro("FREE", chart) = << >>
    BY DEF ForPro
  <2>2. /\ free.kpi = AggregateCompany(PerProject(DashboardEntries(Books, actor, q), ids))
        /\ pro.kpi = AggregateCompany(PerProject(DashboardEntries(Books, actor, q), ids))
        /\ free.bars = ForPro("FREE", PerProject(DashboardEntries(Books, actor, q), ids))
        /\ free.structure = ForPro("FREE", ExpenseStructure(DashboardEntries(Books, actor, q), "FACT"))
        /\ \E from, to, g : free.series
              = ForPro("FREE", TimeSeries(DashboardEntries(Books, actor, q), from, to, g))
    BY OverviewIs, ZenonT(60)
  <2> HIDE DEF free, pro, ids
  <2> QED BY <2>1, <2>2
<1>8. { e.project : e \in rows } \subseteq { p.id : p \in own }
  BY <1>1, <1>3
<1> HIDE DEF free, pro
<1> QED BY <1>1, <1>4, <1>5, <1>6, <1>7, <1>8 DEF actor, own, rows, free, pro

(* The rows that stand before a row, and what a page may be: the rows of   *)
(* the list that come after so many others (lt[f]: the rows before f).     *)
Ahead(rows, lt, e) == { f \in rows : f \in lt[e] }

IsFirst(rows, lt, top) == \A e \in top, f \in rows : f \in lt[e] => f \in top

PageAfter(rows, lt, skip, size, top, page) ==
  /\ page \in SUBSET rows /\ top \in SUBSET (rows \ page)
  /\ Cardinality(top) = Lesser(skip, Cardinality(rows))
  /\ Cardinality(page) = Lesser(size, Cardinality(rows) - Cardinality(top))
  /\ IsFirst(rows, lt, top) /\ IsFirst(rows, lt, top \cup page)

(* An order that has no cycles and in which rows may be equal.             *)
IsOrder(rows, lt) ==
  /\ IsFiniteSet(rows)
  /\ \A e \in rows : e \notin lt[e]
  /\ \A d, e, f \in rows : d \in lt[e] /\ e \in lt[f] => d \in lt[f]
  /\ \A d, e, f \in rows : e \in lt[f] => d \in lt[f] \/ e \in lt[d]

Alone(rows, lt, e) == \A f \in rows \ {e} : e \in lt[f] \/ f \in lt[e]

Sized(rows, skip, size, top, page) ==
  /\ IsFiniteSet(top) /\ IsFiniteSet(top \cup page) /\ Cardinality(rows) \in Nat
  /\ Cardinality(top) \in Nat /\ Cardinality(top \cup page) \in Nat
  /\ Cardinality(top) = skip \/ (Cardinality(top) = Cardinality(rows) /\ Cardinality(rows) <= skip)
  /\ Cardinality(top \cup page) <= skip + size /\ Cardinality(top \cup page) <= Cardinality(rows)
  /\ Cardinality(top \cup page) = skip + size \/ Cardinality(top \cup page) = Cardinality(rows)

LEMMA PageSizes ==
  ASSUME NEW rows, NEW lt, IsOrder(rows, lt), NEW skip \in Nat, NEW size \in Nat, NEW top, NEW page,
         PageAfter(rows, lt, skip, size, top, page)
  PROVE  Sized(rows, skip, size, top, page)
<1> DEFINE n == Cardinality(rows)
           t == Cardinality(top)
           p == Cardinality(page)
<1>1. IsFiniteSet(rows) /\ IsFiniteSet(top) /\ IsFiniteSet(page) /\ IsFiniteSet(top \cup page)
  BY FS_Subset, FS_Union DEF IsOrder, PageAfter
<1>2. n \in Nat /\ t \in Nat /\ p \in Nat /\ Cardinality(top \cup page) \in Nat
  BY <1>1, FS_CardinalityType
<1>3. Cardinality(top \cup page) = t + p
  <2>1. top \cap page = {}
    BY DEF PageAfter
  <2>2. Cardinality(top \cup page) = Cardinality(top) + Cardinality(page) - Cardinality(top \cap page)
    BY <1>1, FS_Union
  <2>3. Cardinality(top \cap page) = 0
    BY <2>1, FS_EmptySet
  <2> HIDE DEF t, p
  <2> QED BY <1>2, <2>2, <2>3 DEF t, p
<1>4. t = Lesser(skip, n) /\ p = Lesser(size, n - t)
  BY DEF PageAfter
<1> HIDE DEF n, t, p
<1>5. t = skip \/ (t = n /\ n <= skip)
  BY <1>2, <1>4 DEF Lesser
<1>6. t <= n /\ t <= skip
  BY <1>2, <1>4 DEF Lesser
<1>7. p <= size /\ (p = size \/ t + p = n) /\ t + p <= n
  BY <1>2, <1>4, <1>6 DEF Lesser
<1>8. t + p = skip + size \/ t + p = n
  BY <1>2, <1>5, <1>6, <1>7
<1> QED BY <1>1, <1>2, <1>3, <1>5, <1>6, <1>7, <1>8 DEF n, t, p, Sized

(* A part that leaves some row of another one out is smaller.              *)
LEMMA Smaller ==
  ASSUME NEW B, IsFiniteSet(B), NEW A, NEW e \in B \ A, A \cup {e} \subseteq B
  PROVE  Cardinality(A) \in Nat /\ Cardinality(B) \in Nat /\ Cardinality(A) + 1 <= Cardinality(B)
<1>1. IsFiniteSet(A)
  BY FS_Subset
<1>2. Cardinality(A) \in Nat /\ Cardinality(B) \in Nat
  BY <1>1, FS_CardinalityType
<1>3. Cardinality(A \cup {e}) = Cardinality(A) + 1
  BY <1>1, FS_AddElement
<1>4. Cardinality(A \cup {e}) <= Cardinality(B)
  BY FS_Subset
<1> QED BY <1>2, <1>3, <1>4

(* A row equal to no other is on the page of its place.                    *)
LEMMA PageOfPlace ==
  ASSUME NEW rows, NEW lt, IsOrder(rows, lt), NEW skip \in Nat, NEW size \in Nat, NEW top, NEW page,
         PageAfter(rows, lt, skip, size, top, page), NEW e \in rows, Alone(rows, lt, e)
  PROVE  LET r == Cardinality(Ahead(rows, lt, e)) IN
           r \in Nat /\ r < Cardinality(rows) /\ (e \in page <=> skip <= r /\ r < skip + size)
<1> DEFINE A == Ahead(rows, lt, e)
           r == Cardinality(A)
           n == Cardinality(rows)
           t == Cardinality(top)
           b == Cardinality(top \cup page)
<1>0. /\ page \in SUBSET rows /\ top \in SUBSET rows /\ top \cap page = {}
      /\ IsFirst(rows, lt, top) /\ IsFirst(rows, lt, top \cup page)
  BY DEF PageAfter
<1>1. A \subseteq rows /\ e \notin A /\ IsFiniteSet(rows) /\ IsFiniteSet(A)
  BY FS_Subset DEF Ahead, IsOrder
<1>2. r \in Nat /\ n \in Nat /\ r + 1 <= n
  <2> HIDE DEF A
  <2> QED BY <1>1, Smaller
<1>3. /\ IsFiniteSet(top) /\ IsFiniteSet(top \cup page) /\ t \in Nat /\ b \in Nat
      /\ t = skip \/ (t = n /\ n <= skip)
      /\ b <= skip + size /\ b <= n /\ (b = skip + size \/ b = n)
  <2>1. Sized(rows, skip, size, top, page)
    BY PageSizes
  <2> QED BY <2>1 DEF Sized
<1>4. ASSUME NEW X \in SUBSET rows, IsFirst(rows, lt, X), IsFiniteSet(X)
      PROVE  /\ e \in X => r + 1 <= Cardinality(X)
             /\ e \notin X => Cardinality(X) <= r
  <2>1. ASSUME e \in X PROVE r + 1 <= Cardinality(X)
    <3>1. A \cup {e} \subseteq X
      BY <1>4, <2>1 DEF Ahead, IsFirst
    <3> HIDE DEF A
    <3> QED BY <1>1, <1>4, <2>1, <3>1, Smaller
  <2>2. ASSUME e \notin X PROVE Cardinality(X) <= r
    <3>1. \A f \in X : f # e /\ e \notin lt[f]
      BY <1>4, <2>2 DEF IsFirst
    <3>2. X \subseteq A
      BY <3>1 DEF Ahead, Alone
    <3> HIDE DEF A
    <3> QED BY <1>1, <3>2, FS_Subset
  <2> QED BY <2>1, <2>2
<1>5. /\ e \in top => r + 1 <= t
      /\ e \notin top => t <= r
      /\ e \in top \cup page => r + 1 <= b
      /\ e \notin top \cup page => b <= r
  BY <1>0, <1>3, <1>4
<1>6. e \in page <=> e \in top \cup page /\ e \notin top
  BY <1>0
<1> HIDE DEF r, n, t, b, A
<1>7. e \in top <=> skip > r
  BY <1>2, <1>3, <1>5
<1>8. e \in top \cup page <=> skip + size > r
  BY <1>2, <1>3, <1>5
<1> QED BY <1>2, <1>6, <1>7, <1>8 DEF r, n, A

(* No row of a page stands before one of a page before.                    *)
LEMMA PagesInOrder ==
  ASSUME NEW rows, NEW lt, IsOrder(rows, lt), NEW skip \in Nat, NEW size \in Nat, NEW top, NEW page,
         PageAfter(rows, lt, skip, size, top, page),
         NEW skip2 \in Nat, NEW top2, NEW page2, PageAfter(rows, lt, skip2, size, top2, page2),
         skip + size <= skip2, skip2 < Cardinality(rows),
         NEW e \in page, NEW f \in page2
  PROVE  f \notin lt[e]
<1> SUFFICES ASSUME f \in lt[e] PROVE FALSE
  OBVIOUS
<1> DEFINE A == Ahead(rows, lt, e)
           r == Cardinality(A)
<1>1. /\ page \in SUBSET rows /\ top \in SUBSET rows /\ page2 \in SUBSET rows /\ top2 \in SUBSET rows
      /\ IsFirst(rows, lt, top \cup page) /\ IsFirst(rows, lt, top2) /\ f \notin top2
      /\ e \in rows /\ f \in rows
  BY DEF PageAfter
<1>2. /\ IsFiniteSet(top \cup page) /\ Cardinality(top \cup page) <= skip + size
      /\ Cardinality(top \cup page) \in Nat
  <2>1. Sized(rows, skip, size, top, page)
    BY PageSizes
  <2> QED BY <2>1 DEF Sized
<1>3. Cardinality(top2) = skip2
  <2>1. Sized(rows, skip2, size, top2, page2)
    BY PageSizes
  <2> QED BY <2>1 DEF Sized
<1>4. \A d \in top2 : d \in rows /\ f \notin lt[d]
  BY <1>1 DEF IsFirst
<1>5. top2 \cup {f} \subseteq A
  BY <1>1, <1>4 DEF Ahead, IsOrder
<1>6. IsFiniteSet(A) /\ e \notin A /\ A \cup {e} \subseteq top \cup page
  <2>1. A \subseteq rows /\ IsFiniteSet(rows)
    BY DEF Ahead, IsOrder
  <2>2. e \notin A
    BY <1>1 DEF Ahead, IsOrder
  <2>3. A \subseteq top \cup page
    BY <1>1 DEF Ahead, IsFirst
  <2> HIDE DEF A
  <2> QED BY <2>1, <2>2, <2>3, FS_Subset
<1> HIDE DEF A
<1>7. r \in Nat /\ Cardinality(top2) + 1 <= r
  BY <1>1, <1>5, <1>6, Smaller
<1>8. r + 1 <= Cardinality(top \cup page)
  BY <1>2, <1>6, Smaller
<1> HIDE DEF r
<1> QED BY <1>2, <1>3, <1>7, <1>8

(* The order of the ledger is one.                                         *)
LEMMA LedgerOrder ==
  ASSUME LedgerInv, NEW actor, NEW q, NEW rows, rows = LedgerRows(Books, actor, q),
         NEW lt, lt = [f \in rows |-> { e \in rows : Before(Books, q, e, f) }]
  PROVE  /\ IsOrder(rows, lt)
         /\ \A e, f \in rows : e \in lt[f] <=> Before(Books, q, e, f)
<1>1. rows \subseteq Books.entries /\ IsFiniteSet(rows)
  <2>1. rows \subseteq Books.entries
    BY DEF LedgerRows, OfPortal
  <2> QED BY <2>1, BooksAre, FS_Subset DEF IsBooked
<1>2. ASSUME NEW e \in rows PROVE SortKey(Books, q, e) \in Int /\ e.created \in Int
  <2>1. e.day \in Int /\ e.amount \in Int /\ e.created \in Int
    BY <1>1, BooksAre
  <2>2. ProjectOf(Books, e) \in Projects
    BY <1>1, ProjectOfEntry
  <2>3. ProjectOf(Books, e).name \in Int
    BY <2>2, LedgerAssumption
  <2> QED BY <2>1, <2>3 DEF SortKey
<1> DEFINE k == [e \in rows |-> SortKey(Books, q, e)]
           c == [e \in rows |-> e.created]
<1>3. \A e, f \in rows : e \in lt[f] <=>
         (IF q.dir = "asc" THEN k[e] < k[f] ELSE k[f] < k[e]) \/ (k[e] = k[f] /\ c[f] < c[e])
  BY DEF Before
<1>4. \A e, f \in rows : e \in lt[f] <=> Before(Books, q, e, f)
  OBVIOUS
<1>5. \A e \in rows : k[e] \in Int /\ c[e] \in Int
  BY <1>2
<1> HIDE DEF k, c
<1>6. \A e \in rows : e \notin lt[e]
  BY <1>3, <1>5
<1>7. ASSUME NEW d \in rows, NEW e \in rows, NEW f \in rows
      PROVE  /\ d \in lt[e] /\ e \in lt[f] => d \in lt[f]
             /\ e \in lt[f] => d \in lt[f] \/ e \in lt[d]
  <2> DEFINE x == k[d]
             y == k[e]
             z == k[f]
  <2>1. x \in Int /\ y \in Int /\ z \in Int /\ c[d] \in Int /\ c[e] \in Int /\ c[f] \in Int
    BY <1>5
  <2>2. /\ d \in lt[e] <=> (IF q.dir = "asc" THEN x < y ELSE y < x) \/ (x = y /\ c[e] < c[d])
        /\ e \in lt[f] <=> (IF q.dir = "asc" THEN y < z ELSE z < y) \/ (y = z /\ c[f] < c[e])
        /\ d \in lt[f] <=> (IF q.dir = "asc" THEN x < z ELSE z < x) \/ (x = z /\ c[f] < c[d])
        /\ e \in lt[d] <=> (IF q.dir = "asc" THEN y < x ELSE x < y) \/ (y = x /\ c[d] < c[e])
    BY <1>3
  <2> HIDE DEF x, y, z
  <2>3. CASE q.dir = "asc"
    BY <2>1, <2>2, <2>3
  <2>4. CASE q.dir # "asc"
    BY <2>1, <2>2, <2>4
  <2> QED BY <2>3, <2>4
<1> QED BY <1>1, <1>4, <1>6, <1>7 DEF IsOrder

(* The pages that may be answered with are those of some order.            *)
LEMMA AnswersAre ==
  ASSUME NEW actor, NEW q, NEW rows, rows = LedgerRows(Books, actor, q),
         NEW lt, lt = [f \in rows |-> { e \in rows : Before(Books, q, e, f) }], NEW A \in QueryEntries(Books, actor, q)
  PROVE  \E top : PageAfter(rows, lt, Skipped(q), q.pageSize, top, A.rows)
<1> DEFINE n == Cardinality(rows)
           IsPage(page) ==
             \E top \in SUBSET (rows \ page) :
               /\ Cardinality(top) = Lesser(Skipped(q), n)
               /\ Cardinality(page) = Lesser(q.pageSize, n - Cardinality(top))
               /\ IsTop(Books, q, rows, top) /\ IsTop(Books, q, rows, top \cup page)
<1>1. QueryEntries(Books, actor, q)
        = { [rows |-> page, total |-> n] : page \in { p \in SUBSET rows : IsPage(p) } }
  BY DEF QueryEntries
<1> HIDE DEF IsPage
<1>2. A.rows \in SUBSET rows /\ IsPage(A.rows)
  BY <1>1
<1>3. PICK top \in SUBSET (rows \ A.rows) :
        /\ Cardinality(top) = Lesser(Skipped(q), n)
        /\ Cardinality(A.rows) = Lesser(q.pageSize, n - Cardinality(top))
        /\ IsTop(Books, q, rows, top) /\ IsTop(Books, q, rows, top \cup A.rows)
  BY <1>2 DEF IsPage
<1>4. \A part \in SUBSET rows : IsTop(Books, q, rows, part) => IsFirst(rows, lt, part)
  BY DEF IsTop, IsFirst
<1> QED BY <1>2, <1>3, <1>4 DEF PageAfter

LEMMA PagesSayAll == LedgerInv => PagesTile
<1> SUFFICES ASSUME LedgerInv, NEW u \in Users, NEW size \in {1, 2},
                    NEW sort \in {"date", "amount", "project"}, NEW dir \in {"asc", "desc"}
    PROVE  LET q == [Query(None, None, "ALL") EXCEPT !.pageSize = size, !.sort = sort, !.dir = dir]
               rows == LedgerRows(Books, ActorOf[u], q)
               pages == 1 .. ((Cardinality(rows) + size - 1) \div size)
               Answers(k) == QueryEntries(Books, ActorOf[u], [q EXCEPT !.page = k])
               Stands(e, f) == Before(Books, q, e, f)
           IN  /\ \A j, k \in pages :
                    j < k => \A A \in Answers(j), B \in Answers(k) :
                               \A e \in A.rows, f \in B.rows : ~Stands(f, e)
               /\ \A e \in rows :
                    (\A f \in rows \ {e} : Stands(e, f) \/ Stands(f, e)) =>
                      \E k \in pages : \A j \in pages : \A A \in Answers(j) : e \in A.rows <=> j = k
  BY DEF PagesTile
<1> DEFINE actor == ActorOf[u]
           q == [Query(None, None, "ALL") EXCEPT !.pageSize = size, !.sort = sort, !.dir = dir]
           rows == LedgerRows(Books, actor, q)
           lt == [f \in rows |-> { e \in rows : Before(Books, q, e, f) }]
           n == Cardinality(rows)
           final == (n + size - 1) \div size
           pages == 1 .. final
           Answers(k) == QueryEntries(Books, actor, [q EXCEPT !.page = k])
<1>1. IsOrder(rows, lt) /\ \A e, f \in rows : e \in lt[f] <=> Before(Books, q, e, f)
  BY LedgerOrder
<1>2. ASSUME NEW k, NEW A \in Answers(k)
      PROVE  \E top : PageAfter(rows, lt, (k - 1) * size, size, top, A.rows)
  <2> DEFINE r == [q EXCEPT !.page = k]
  <2>1. r.page = k /\ r.pageSize = size
    BY DEF Query
  <2>2. /\ r.project = q.project /\ r.direction = q.direction /\ r.budget = q.budget /\ r.category = q.category
        /\ r.from = q.from /\ r.to = q.to /\ r.includeDeleted = q.includeDeleted
        /\ r.sort = q.sort /\ r.dir = q.dir
    BY DEF Query
  <2> HIDE DEF r, q
  <2>3. LedgerRows(Books, actor, r) = rows
    BY <2>2 DEF LedgerRows, InPeriod
  <2>4. \A e, f : Before(Books, r, e, f) = Before(Books, q, e, f)
    BY <2>2 DEF Before, SortKey
  <2>5. lt = [f \in rows |-> { e \in rows : Before(Books, r, e, f) }]
    BY <2>4
  <2>6. Skipped(r) = (k - 1) * size
    BY <2>1 DEF Skipped
  <2>7. A \in QueryEntries(Books, actor, r)
    BY <1>2 DEF r
  <2>8. \E top : PageAfter(rows, lt, Skipped(r), r.pageSize, top, A.rows)
    <3> HIDE DEF rows, lt
    <3> QED BY <2>3, <2>5, <2>7, AnswersAre
  <2> QED BY <2>1, <2>6, <2>8
<1> HIDE DEF q, rows, lt, Answers
<1>3. n \in Nat
  BY <1>1, FS_CardinalityType DEF IsOrder
<1> HIDE DEF n
<1>4. final \in Int /\ final * size < n + size /\ n <= final * size
  <2>1. CASE size = 1
    BY <1>3, <2>1
  <2>2. CASE size = 2
    BY <1>3, <2>2
  <2> QED BY <2>1, <2>2
<1> HIDE DEF final
<1>5. \A k \in pages : (k - 1) * size \in Nat /\ size \in Nat /\ (k - 1) * size < n
  <2>1. CASE size = 1
    BY <1>3, <1>4, <2>1
  <2>2. CASE size = 2
    BY <1>3, <1>4, <2>2
  <2> QED BY <2>1, <2>2
<1>6. ASSUME NEW j \in pages, NEW k \in pages, j < k, NEW A \in Answers(j), NEW B \in Answers(k),
             NEW e \in A.rows, NEW f \in B.rows
      PROVE  ~Before(Books, q, f, e)
  <2>1. PICK top, top2 :
          /\ PageAfter(rows, lt, (j - 1) * size, size, top, A.rows)
          /\ PageAfter(rows, lt, (k - 1) * size, size, top2, B.rows)
    BY <1>2
  <2>2. (j - 1) * size + size <= (k - 1) * size
    <3>1. CASE size = 1
      BY <1>4, <1>6, <3>1
    <3>2. CASE size = 2
      BY <1>4, <1>6, <3>2
    <3> QED BY <3>1, <3>2
  <2>3. f \notin lt[e]
    <3> DEFINE a == (j - 1) * size
               b == (k - 1) * size
    <3>1. /\ a \in Nat /\ b \in Nat /\ size \in Nat /\ a + size <= b /\ b < Cardinality(rows)
          /\ PageAfter(rows, lt, a, size, top, A.rows) /\ PageAfter(rows, lt, b, size, top2, B.rows)
      BY <1>5, <2>1, <2>2 DEF n
    <3> HIDE DEF a, b
    <3> QED BY <1>1, <3>1, PagesInOrder
  <2>4. e \in rows /\ f \in rows
    BY <2>1 DEF PageAfter
  <2> QED BY <1>1, <2>3, <2>4
<1>7. ASSUME NEW e \in rows, \A f \in rows \ {e} : Before(Books, q, e, f) \/ Before(Books, q, f, e)
      PROVE  \E k \in pages : \A j \in pages : \A A \in Answers(j) : e \in A.rows <=> j = k
  <2> DEFINE i == Cardinality(Ahead(rows, lt, e))
             k == i \div size + 1
  <2>1. Alone(rows, lt, e)
    BY <1>1, <1>7 DEF Alone
  <2>2. ASSUME NEW j \in pages, NEW A \in Answers(j)
        PROVE  i \in Nat /\ i < n /\ (e \in A.rows <=> (j - 1) * size <= i /\ i < (j - 1) * size + size)
    <3> DEFINE a == (j - 1) * size
    <3>1. a \in Nat /\ size \in Nat /\ \E top : PageAfter(rows, lt, a, size, top, A.rows)
      BY <1>2, <1>5
    <3> HIDE DEF a
    <3>2. i \in Nat /\ i < n /\ (e \in A.rows <=> a <= i /\ i < a + size)
      BY <1>1, <2>1, <3>1, PageOfPlace DEF n
    <3> QED BY <3>2 DEF a
  <2>3. i \in Nat /\ i < n
    <3>1. IsFiniteSet(rows) /\ e \notin Ahead(rows, lt, e) /\ Ahead(rows, lt, e) \cup {e} \subseteq rows
          /\ IsFiniteSet(Ahead(rows, lt, e))
      BY <1>1, FS_Subset DEF IsOrder, Ahead
    <3>2. i \in Nat /\ i + 1 <= n
      BY <3>1, Smaller DEF n
    <3> HIDE DEF i
    <3> QED BY <1>3, <3>2
  <2> HIDE DEF i
  <2>4. k \in pages /\ \A j \in pages : (j - 1) * size <= i /\ i < (j - 1) * size + size <=> j = k
    <3>1. CASE size = 1
      BY <1>3, <1>4, <2>3, <3>1
    <3>2. CASE size = 2
      BY <1>3, <1>4, <2>3, <3>2
    <3> QED BY <3>1, <3>2
  <2> HIDE DEF k, pages
  <2> QED BY <2>2, <2>4
<1> QED BY <1>6, <1>7 DEF actor, q, rows, Answers, pages, final, n

(* All pages over the books say the same, and say it to who may know it,   *)
(* whatever the requests did to the books before.                          *)
THEOREM ReadersSayTheSame == Spec => []ReadersAgree
<1>1. LedgerInv => ReadersAgree
  BY FiguresSayTheSame, StreamsSayTheSame, OnlyOwnIsSeen, PagesSayAll DEF ReadersAgree
<1>2. Init => LedgerInv
  BY LedgerStarts
<1>3. LedgerInv /\ [Next]_vars => LedgerInv'
  BY LedgerKeeps
<1> QED BY <1>1, <1>2, <1>3, PTL DEF Spec

-----------------------------------------------------------------------------
(* The support month.                                                      *)

MonthRow == [total : Nat, fee : Nat, hourRate : Nat, limit : Nat \cup {NoLimit}, rate : Nat]

MonthInv == month = NoMonth \/ month \in MonthRow

LEMMA DivisionGrows ==
  ASSUME NEW a \in Nat, NEW b \in Nat \ {0}, NEW c \in Nat, a <= c
  PROVE  a \div b \in Nat /\ a \div b <= c \div b
<1>1. /\ a = b * (a \div b) + (a % b) /\ a % b \in 0 .. b - 1 /\ a \div b \in Int
      /\ c = b * (c \div b) + (c % b) /\ c % b \in 0 .. b - 1 /\ c \div b \in Int
  BY DivisionIs
<1> DEFINE p == a \div b
           q == c \div b
           r == a % b
           s == c % b
<1>2. p \in Int /\ q \in Int /\ r \in 0 .. b - 1 /\ s \in 0 .. b - 1 /\ a = b * p + r /\ c = b * q + s
  BY <1>1
<1> HIDE DEF p, q, r, s
<1>3. p >= 0
  <2> SUFFICES ASSUME p <= -1 PROVE FALSE
    BY <1>2
  <2>1. b * p <= b * (-1)
    BY <1>2
  <2> QED BY <1>2, <2>1
<1>4. p <= q
  <2> SUFFICES ASSUME q + 1 <= p PROVE FALSE
    BY <1>2
  <2>1. b * (q + 1) <= b * p /\ b * (q + 1) = b * q + b
    BY <1>2
  <2> QED BY <1>2, <2>1
<1> QED BY <1>2, <1>3, <1>4 DEF p, q

LEMMA RoundedIs ==
  ASSUME NEW a \in Nat, NEW b \in Nat \ {0}
  PROVE  /\ RoundedDiv(a, b) \in Nat
         /\ 2 * b * RoundedDiv(a, b) <= 2 * a + b /\ 2 * a + b < 2 * b * RoundedDiv(a, b) + 2 * b
<1> DEFINE x == 2 * a + b
           y == 2 * b
           q == x \div y
           r == x % y
<1>1. x \in Nat /\ y \in Nat \ {0}
  OBVIOUS
<1> HIDE DEF x, y
<1>2. q \in Nat
  BY <1>1, DivisionGrows
<1>3. x = y * q + r /\ r \in 0 .. y - 1
  BY <1>1, DivisionIs
<1>4. y * q <= x /\ x < y * q + y
  <2> DEFINE z == y * q
  <2>1. z \in Int /\ x = z + r
    BY <1>1, <1>2, <1>3
  <2> HIDE DEF z, r
  <2> QED BY <1>1, <1>3, <2>1 DEF z
<1>5. RoundedDiv(a, b) = q
  BY DEF RoundedDiv, x, y
<1> QED BY <1>2, <1>4, <1>5 DEF x, y

LEMMA RoundedGrows ==
  ASSUME NEW a \in Nat, NEW b \in Nat \ {0}, NEW c \in Nat, a <= c
  PROVE  RoundedDiv(a, b) <= RoundedDiv(c, b)
<1>1. 2 * a + b \in Nat /\ 2 * c + b \in Nat /\ 2 * b \in Nat \ {0} /\ 2 * a + b <= 2 * c + b
  OBVIOUS
<1> QED BY <1>1, DivisionGrows DEF RoundedDiv

LEMMA BillableIs ==
  ASSUME NEW m \in MonthRow
  PROVE  /\ BillableSeconds(m.total, m.fee, m.limit) \in Nat
         /\ m.limit # NoLimit /\ m.total <= m.limit => BillableSeconds(m.total, m.fee, m.limit) = 0
BY LimitAssumption DEF MonthRow, BillableSeconds, Overage

LEMMA IncomeIs ==
  ASSUME NEW m \in MonthRow
  PROVE  /\ Income(m) >= m.fee
         /\ m.limit # NoLimit /\ m.total <= m.limit => Income(m) = m.fee
<1> DEFINE s == BillableSeconds(m.total, m.fee, m.limit)
           x == s * m.hourRate
<1>1. s \in Nat /\ m.fee \in Nat /\ m.hourRate \in Nat
  BY BillableIs DEF MonthRow
<1>2. m.limit # NoLimit /\ m.total <= m.limit => s = 0
  BY BillableIs
<1> HIDE DEF s
<1>3. x \in Nat /\ (s = 0 => x = 0)
  BY <1>1
<1>4. Income(m) = m.fee + RoundedDiv(x, 3600)
  BY DEF Income, MonthIncome, s
<1> HIDE DEF x
<1>5. RoundedDiv(x, 3600) \in Nat
  BY <1>3, RoundedIs
<1>6. x = 0 => RoundedDiv(x, 3600) = 0
  BY DEF RoundedDiv
<1> QED BY <1>1, <1>2, <1>3, <1>4, <1>5, <1>6

LEMMA FeeIsCovered == MonthInv => FeeCoversPackage
<1>1. CASE month \in MonthRow
  BY <1>1, IncomeIs DEF FeeCoversPackage
<1>2. CASE month = NoMonth
  <2>1. month.total = 0 /\ month.fee = 0 /\ month.hourRate = 0 /\ month.limit = NoLimit
    BY <1>2 DEF NoMonth
  <2>2. BillableSeconds(0, 0, NoLimit) = 0
    BY DEF BillableSeconds
  <2>3. RoundedDiv(0, 3600) = 0
    BY DEF RoundedDiv
  <2>4. Income(month) = 0
    BY <2>1, <2>2, <2>3 DEF Income, MonthIncome
  <2> QED BY <2>1, <2>4 DEF FeeCoversPackage
<1> QED BY <1>1, <1>2 DEF MonthInv

LEMMA WorkerIs ==
  ASSUME NEW total \in Nat, NEW rate \in Nat
  PROVE  /\ WorkerHours(total) \in Nat /\ WorkerAmount(total, rate) \in Nat
         /\ WorkerAmount(total, rate) = RoundedDiv(WorkerHours(total) * rate, 100)
<1>1. WorkerHours(total) \in Nat
  BY RoundedIs DEF WorkerHours
<1>2. WorkerHours(total) * rate \in Nat
  BY <1>1
<1>3. WorkerAmount(total, rate) = RoundedDiv(WorkerHours(total) * rate, 100)
  BY NoRateAssumption DEF WorkerAmount, HoursRateAmount
<1> QED BY <1>1, <1>2, <1>3, RoundedIs

LEMMA AmountFollows == MonthInv => AmountFollowsStoredHours
<1> SUFFICES ASSUME month \in MonthRow PROVE AmountFollowsStoredHours
  BY DEF MonthInv, AmountFollowsStoredHours
<1> DEFINE rate == month.rate
           total == month.total
           a == WorkerAmount(total, rate)
           h == WorkerHours(total)
<1>1. rate \in Nat /\ total \in Nat
  BY DEF MonthRow
<1> HIDE DEF rate, total
<1>2. h \in Nat /\ a \in Nat /\ a = RoundedDiv(h * rate, 100)
  BY <1>1, WorkerIs
<1>3. 72 * h <= 2 * total + 36 /\ 2 * total + 36 < 72 * h + 72
  BY <1>1, RoundedIs DEF WorkerHours
<1> HIDE DEF a, h
<1> DEFINE x == h * rate
<1>4. x \in Nat /\ 2 * h * rate = 2 * x
  BY <1>1, <1>2
<1>5. 200 * a <= 2 * x + 100 /\ 2 * x + 100 < 200 * a + 200
  <2>1. 100 \in Nat \ {0} /\ a = RoundedDiv(x, 100)
    BY <1>2
  <2> HIDE DEF x
  <2>2. /\ 2 * 100 * RoundedDiv(x, 100) <= 2 * x + 100
        /\ 2 * x + 100 < 2 * 100 * RoundedDiv(x, 100) + 2 * 100
    BY <1>4, <2>1, RoundedIs
  <2> QED BY <1>2, <2>1, <2>2
<1>6. /\ 72 * x <= 2 * (total * rate) + 36 * rate /\ 2 * (total * rate) <= 72 * x + 36 * rate
  <2>1. 36 * h <= total + 18 /\ total <= 36 * h + 18
    BY <1>1, <1>2, <1>3
  <2>2. (36 * h) * rate <= (total + 18) * rate /\ total * rate <= (36 * h + 18) * rate
    BY <1>1, <1>2, <2>1
  <2>3. (36 * h) * rate = 36 * x /\ (total + 18) * rate = total * rate + 18 * rate
        /\ (36 * h + 18) * rate = 36 * x + 18 * rate
    BY <1>1, <1>2
  <2> QED BY <1>1, <1>4, <2>2, <2>3
<1> DEFINE t == total * rate
<1>7. t \in Nat
  BY <1>1
<1> HIDE DEF x, t
<1>8. /\ 3600 * a <= t + 18 * rate + 1800 /\ t <= 3600 * a + 18 * rate + 1800
  BY <1>1, <1>2, <1>4, <1>5, <1>6, <1>7 DEF t
<1>9. 200 * a <= 2 * h * rate + 100 /\ 2 * h * rate < 200 * a + 100
  BY <1>2, <1>4, <1>5
<1> QED BY <1>8, <1>9 DEF AmountFollowsStoredHours, t, a, h, rate, total

LEMMA MoreTimeCosts ==
  ASSUME MonthInv, LogMore
  PROVE  MonthInv' /\ MoreTimeNeverCheaper
<1>1. month \in MonthRow
  BY DEF MonthInv, LogMore
<1>2. PICK s \in Seconds : s > month.total /\ month' = [month EXCEPT !.total = s]
  BY DEF LogMore
<1>3. /\ s \in Nat /\ month' \in MonthRow /\ month'.total = s /\ month'.fee = month.fee
      /\ month'.hourRate = month.hourRate /\ month'.limit = month.limit /\ month'.rate = month.rate
  BY <1>1, <1>2, ReportsAssumption DEF MonthRow
<1> DEFINE m == month
           n == month'
           b(x) == BillableSeconds(x.total, x.fee, x.limit)
<1>4. m \in MonthRow /\ n \in MonthRow /\ m.total <= n.total /\ n.total \in Nat /\ m.total \in Nat
  BY <1>1, <1>2, <1>3 DEF MonthRow
<1>5. b(m) \in Nat /\ b(n) \in Nat
  BY <1>4, BillableIs
<1>6. b(m) <= b(n)
  BY <1>3, <1>4, LimitAssumption DEF MonthRow, BillableSeconds, Overage
<1> HIDE DEF b
<1>7. Income(n) >= Income(m)
  <2>1. m.hourRate \in Nat /\ m.fee \in Nat
    BY <1>4 DEF MonthRow
  <2> DEFINE p == b(m) * m.hourRate
             q == b(n) * m.hourRate
  <2>2. p \in Nat /\ q \in Nat /\ p <= q
    BY <1>5, <1>6, <2>1
  <2>3. Income(m) = m.fee + RoundedDiv(p, 3600) /\ Income(n) = m.fee + RoundedDiv(q, 3600)
    BY <1>3 DEF Income, MonthIncome, b
  <2> HIDE DEF p, q
  <2>4. \A x \in Nat : RoundedDiv(x, 3600) \in Nat
    BY RoundedIs
  <2>5. RoundedDiv(p, 3600) <= RoundedDiv(q, 3600)
    BY <2>2, RoundedGrows
  <2> QED BY <2>1, <2>2, <2>3, <2>4, <2>5
<1>8. WorkerAmount(n.total, n.rate) >= WorkerAmount(m.total, m.rate)
  <2>1. m.rate \in Nat /\ n.rate = m.rate
    BY <1>3, <1>4 DEF MonthRow
  <2>2. WorkerHours(m.total) <= WorkerHours(n.total)
    BY <1>4, RoundedGrows DEF WorkerHours
  <2>3. WorkerHours(m.total) \in Nat /\ WorkerHours(n.total) \in Nat
    BY <1>4, <2>1, WorkerIs
  <2>4. /\ WorkerHours(m.total) * m.rate \in Nat /\ WorkerHours(n.total) * m.rate \in Nat
        /\ WorkerHours(m.total) * m.rate <= WorkerHours(n.total) * m.rate
    BY <2>1, <2>2, <2>3
  <2>5. RoundedDiv(WorkerHours(m.total) * m.rate, 100) <= RoundedDiv(WorkerHours(n.total) * m.rate, 100)
    BY <2>4, RoundedGrows
  <2>6. /\ WorkerAmount(m.total, m.rate) = RoundedDiv(WorkerHours(m.total) * m.rate, 100)
        /\ WorkerAmount(n.total, m.rate) = RoundedDiv(WorkerHours(n.total) * m.rate, 100)
        /\ WorkerAmount(m.total, m.rate) \in Nat /\ WorkerAmount(n.total, m.rate) \in Nat
    BY <1>4, <2>1, WorkerIs
  <2> QED BY <2>1, <2>5, <2>6
<1>9. MonthInv'
  BY <1>3 DEF MonthInv
<1> QED BY <1>7, <1>8, <1>9 DEF MoreTimeNeverCheaper

LEMMA MonthStarts == ReportsInit => MonthInv
BY ReportsAssumption DEF ReportsInit, MonthInv, MonthRow

LEMMA MonthStays ==
  ASSUME MonthInv, ReportsNext
  PROVE  MonthInv' /\ (LogMore \/ UNCHANGED month)
<1>1. LogMore \/ UNCHANGED month
  BY DEF ReportsNext, Tick, CreateTask, StartTask, CloseTask, ReopenTask, LogTime, Log, PlanMeeting,
         Replace, Change
<1>2. UNCHANGED month => MonthInv'
  BY DEF MonthInv
<1> QED BY <1>1, <1>2, MoreTimeCosts

(* A support month is charged and paid for as agreed, whatever its hours,  *)
(* its package, its fee and its rates are (MonthIncome, WorkerAmount).     *)
THEOREM MonthsAreAsAgreed == ReportsSpec => MonthAsAgreed
<1>1. MonthInv /\ [ReportsNext]_reportVars => MonthInv'
  <2> SUFFICES ASSUME MonthInv, [ReportsNext]_reportVars PROVE MonthInv'
    OBVIOUS
  <2>1. CASE UNCHANGED reportVars
    BY <2>1 DEF reportVars, MonthInv
  <2> QED BY <2>1, MonthStays
<1>2. MonthInv => FeeCoversPackage /\ AmountFollowsStoredHours
  BY FeeIsCovered, AmountFollows
<1>3. MonthInv /\ [ReportsNext]_reportVars => [MoreTimeNeverCheaper]_month
  BY MonthStays, MoreTimeCosts DEF reportVars
<1>4. ReportsSpec => []MonthInv
  BY <1>1, MonthStarts, PTL DEF ReportsSpec
<1> QED BY <1>1, <1>2, <1>3, <1>4, PTL DEF ReportsSpec, MonthAsAgreed

-----------------------------------------------------------------------------
(* Days of a zone.                                                         *)

Midnight(z, d) == ZonedTime(z, HoursPerDay * d)

LEMMA MidnightIs ==
  ASSUME NEW x \in Int, NEW d \in Int, x <= HoursPerDay * d, HoursPerDay * d < x + HoursPerDay
  PROVE  MidnightFrom(x) = HoursPerDay * d
<1> DEFINE H == HoursPerDay
           m == H * d
           r == x + H - 1 - m
<1>1. H \in Nat \ {0} /\ m \in Int
  BY CalendarAssumption
<1>2. r \in 0 .. H - 1 /\ x + H - 1 \in Int /\ x + H - 1 = H * d + r
  <2> HIDE DEF m
  <2>1. r \in 0 .. H - 1 /\ x + H - 1 \in Int /\ x + H - 1 = m + r
    <3>1. x <= m /\ m < x + H
      BY DEF m
    <3> QED BY <1>1, <3>1
  <2> QED BY <2>1 DEF m
<1> HIDE DEF r
<1>3. (x + H - 1) \div H = d
  BY <1>1, <1>2, DivisionUnique
<1> QED BY <1>3 DEF MidnightFrom

(* ZonedTime finds the first instant at which a clock that keeps its days  *)
(* shows a midnight or later; the day of that instant has begun.           *)
LEMMA MidnightIsFirst ==
  ASSUME NEW z, KeepsDays(z), NEW d \in Int
  PROVE  /\ Midnight(z, d) \in Int
         /\ \A u \in Int : Midnight(z, d) <= u <=> HoursPerDay * d <= Wall(z, u)
         /\ Wall(z, Midnight(z, d)) < HoursPerDay * d + HoursPerDay
<1> DEFINE H == HoursPerDay
           m == H * d
           s == z.shift
           b == z.before
           a == z.after
<1>1. H \in Nat \ {0} /\ m \in Int /\ s \in Int /\ b \in Int /\ a \in Int /\ b < a + H /\ a < b + H
  BY CalendarAssumption DEF KeepsDays
<1>2. s + b <= m /\ m < s + a => m = s + b /\ b >= 0
  <2> SUFFICES ASSUME s + b <= m, m < s + a PROVE m = s + b /\ b >= 0
    OBVIOUS
  <2>1. s + b \in Int /\ s + b <= H * d /\ H * d < s + b + H
    <3> HIDE DEF m
    <3>1. s + b \in Int /\ s + b <= m /\ m < s + b + H
      BY <1>1
    <3> QED BY <3>1 DEF m
  <2>2. MidnightFrom(s + b) = m
    <3> DEFINE x == s + b
    <3>1. x \in Int /\ x <= HoursPerDay * d /\ HoursPerDay * d < x + HoursPerDay
      BY <2>1
    <3> HIDE DEF x
    <3>2. MidnightFrom(x) = HoursPerDay * d
      BY <3>1, MidnightIs
    <3> QED BY <3>2 DEF x
  <2> HIDE DEF m
  <2> QED BY <2>2 DEF KeepsDays
<1>3. s + a <= m /\ m < s + b => m = s + a /\ a < 0
  <2> SUFFICES ASSUME s + a <= m, m < s + b PROVE m = s + a /\ a < 0
    OBVIOUS
  <2>1. s + a \in Int /\ s + a <= H * d /\ H * d < s + a + H
    <3> HIDE DEF m
    <3>1. s + a \in Int /\ s + a <= m /\ m < s + a + H
      BY <1>1
    <3> QED BY <3>1 DEF m
  <2>2. MidnightFrom(s + a) = m
    <3> DEFINE x == s + a
    <3>1. x \in Int /\ x <= HoursPerDay * d /\ HoursPerDay * d < x + HoursPerDay
      BY <2>1
    <3> HIDE DEF x
    <3>2. MidnightFrom(x) = HoursPerDay * d
      BY <3>1, MidnightIs
    <3> QED BY <3>2 DEF x
  <2> HIDE DEF m
  <2> QED BY <2>2 DEF KeepsDays
<1> DEFINE t == ZonedTime(z, m)
<1> HIDE DEF m
<1>4. t = IF m < s THEN IF m - b < s THEN m - b ELSE m - a
          ELSE IF m - a < s THEN m - b ELSE m - a
  <2>1. Offset(z, m) = IF m < s THEN b ELSE a
    BY DEF Offset
  <2>2. Offset(z, m - b) = IF m - b < s THEN b ELSE a
    BY DEF Offset
  <2>3. Offset(z, m - a) = IF m - a < s THEN b ELSE a
    BY DEF Offset
  <2>4. t = m - Offset(z, m - Offset(z, m))
    BY DEF ZonedTime
  <2> HIDE DEF t, s, a, b
  <2> QED BY <2>1, <2>2, <2>3, <2>4
<1> HIDE DEF t
<1>5. t \in Int
  BY <1>1, <1>4
<1>6. ASSUME NEW u \in Int PROVE t <= u <=> m <= Wall(z, u)
  <2>1. Wall(z, u) = IF u < s THEN u + b ELSE u + a
    BY DEF Wall, Offset
  <2> HIDE DEF s, a, b
  <2> QED BY <1>1, <1>2, <1>3, <1>4, <2>1
<1>7. Wall(z, t) < m + H
  <2>1. Wall(z, t) = IF t < s THEN t + b ELSE t + a
    BY DEF Wall, Offset
  <2> HIDE DEF s, a, b
  <2> QED BY <1>1, <1>2, <1>3, <1>4, <2>1
<1> QED BY <1>5, <1>6, <1>7 DEF t, m, Midnight

LEMMA DayOfWall ==
  ASSUME NEW w \in Int, NEW d \in Int
  PROVE  /\ w \div HoursPerDay \in Int
         /\ HoursPerDay * d <= w <=> d <= w \div HoursPerDay
<1> DEFINE H == HoursPerDay
           q == w \div H
           r == w % H
<1>1. H \in Nat \ {0} /\ q \in Int /\ r \in 0 .. H - 1 /\ w = H * q + r
  BY CalendarAssumption, DivisionIs
<1> HIDE DEF q, r
<1>2. d <= q => H * d <= w
  <2> SUFFICES ASSUME d <= q PROVE H * d <= w
    OBVIOUS
  <2>1. H * d <= H * q /\ H * d \in Int /\ H * q \in Int
    BY <1>1
  <2> QED BY <1>1, <2>1
<1>3. q + 1 <= d => w < H * d
  <2> SUFFICES ASSUME q + 1 <= d PROVE w < H * d
    OBVIOUS
  <2>1. H * (q + 1) <= H * d /\ H * (q + 1) = H * q + H /\ H * d \in Int /\ H * q \in Int
    BY <1>1
  <2> QED BY <1>1, <2>1
<1>4. H * d \in Int
  BY <1>1
<1> QED BY <1>1, <1>2, <1>3, <1>4 DEF q

(* An instant is of day d or a later one when the midnight of d is past.   *)
LEMMA DayBegins ==
  ASSUME NEW z, KeepsDays(z)
  PROVE  /\ \A d \in Int : Midnight(z, d) \in Int /\ DayKey(z, Midnight(z, d)) = d
         /\ \A u \in Int : DayKey(z, u) \in Int
         /\ \A u, d \in Int : Midnight(z, d) <= u <=> d <= DayKey(z, u)
<1>1. \A u \in Int : Wall(z, u) \in Int
  BY DEF Wall, Offset, KeepsDays
<1>2. \A u \in Int : DayKey(z, u) \in Int
  BY <1>1, DayOfWall DEF DayKey
<1>3. ASSUME NEW u \in Int, NEW d \in Int
      PROVE  Midnight(z, d) <= u <=> d <= DayKey(z, u)
  <2>1. Wall(z, u) \in Int
    BY <1>1
  <2>2. HoursPerDay * d <= Wall(z, u) <=> d <= DayKey(z, u)
    BY <2>1, DayOfWall DEF DayKey
  <2> QED BY <2>2, MidnightIsFirst
<1>4. ASSUME NEW d \in Int
      PROVE  Midnight(z, d) \in Int /\ DayKey(z, Midnight(z, d)) = d
  <2> DEFINE t == Midnight(z, d)
             w == Wall(z, t)
  <2>1. t \in Int /\ w < HoursPerDay * d + HoursPerDay
    BY MidnightIsFirst
  <2> HIDE DEF t
  <2>2. w \in Int /\ DayKey(z, t) \in Int
    BY <1>1, <1>2, <2>1
  <2>3. d <= DayKey(z, t)
    BY <1>3, <2>1 DEF t
  <2>4. ~(d + 1 <= DayKey(z, t))
    <3>1. DayKey(z, t) = w \div HoursPerDay
      BY DEF DayKey
    <3> HIDE DEF w
    <3>2. d + 1 \in Int /\ HoursPerDay * (d + 1) = HoursPerDay * d + HoursPerDay
      BY CalendarAssumption
    <3>3. HoursPerDay * (d + 1) <= w <=> d + 1 <= w \div HoursPerDay
      BY <2>2, <3>2, DayOfWall
    <3>4. HoursPerDay * d \in Int /\ HoursPerDay \in Int
      BY CalendarAssumption
    <3> QED BY <2>1, <2>2, <3>1, <3>2, <3>3, <3>4
  <2> QED BY <2>1, <2>2, <2>3, <2>4 DEF t
<1> QED BY <1>2, <1>3, <1>4

LEMMA MidnightsInOrder ==
  ASSUME NEW z, KeepsDays(z), NEW d \in Int, NEW e \in Int
  PROVE  Midnight(z, d) <= Midnight(z, e) <=> d <= e
<1>1. Midnight(z, e) \in Int /\ DayKey(z, Midnight(z, e)) = e
  BY DayBegins
<1> QED BY <1>1, DayBegins

LEMMA DayBefore ==
  ASSUME NEW z, KeepsDays(z), NEW d \in Int
  PROVE  Midnight(z, d) - 1 \in Int /\ DayKey(z, Midnight(z, d) - 1) = d - 1
<1> DEFINE t == Midnight(z, d)
           u == t - 1
<1>1. t \in Int /\ Midnight(z, d - 1) \in Int /\ d - 1 \in Int
  BY DayBegins
<1>2. ~(t <= Midnight(z, d - 1))
  BY <1>1, MidnightsInOrder
<1> HIDE DEF t
<1>3. u \in Int /\ Midnight(z, d - 1) <= u /\ ~(t <= u)
  BY <1>1, <1>2
<1> HIDE DEF u
<1>4. DayKey(z, u) \in Int /\ d - 1 <= DayKey(z, u) /\ ~(d <= DayKey(z, u))
  <2>1. d - 1 <= DayKey(z, u) /\ DayKey(z, u) \in Int
    BY <1>1, <1>3, DayBegins
  <2>2. ~(d <= DayKey(z, u))
    BY <1>3, DayBegins DEF t
  <2> QED BY <2>1, <2>2
<1>5. DayKey(z, u) = d - 1
  BY <1>4
<1> QED BY <1>3, <1>5 DEF t, u

(* The instants of a window that begins and ends at midnights.             *)
LEMMA WindowOfDays ==
  ASSUME NEW z, KeepsDays(z), NEW from \in Int, NEW after \in Int, NEW u \in Int
  PROVE  InWindow(u, Window(Midnight(z, from), Midnight(z, after)))
           <=> from <= DayKey(z, u) /\ DayKey(z, u) < after
<1>1. Midnight(z, from) <= u <=> from <= DayKey(z, u)
  BY DayBegins
<1>2. Midnight(z, after) <= u <=> after <= DayKey(z, u)
  BY DayBegins
<1>3. DayKey(z, u) \in Int /\ Midnight(z, after) \in Int
  BY DayBegins
<1>4. u < Midnight(z, after) <=> DayKey(z, u) < after
  BY <1>2, <1>3
<1>5. u # None
  BY CalendarAssumption
<1> QED BY <1>1, <1>4, <1>5 DEF InWindow, Window

LEMMA MonthPeriodIs ==
  ASSUME NEW z, KeepsDays(z), NEW m \in Int
  PROVE  /\ MonthPeriod(z, m) = Window(Midnight(z, FirstDay(m)), Midnight(z, FirstDay(m + 1)))
         /\ FirstDay(m) \in Int /\ FirstDay(m + 1) \in Int /\ FirstDay(m) < FirstDay(m + 1)
         /\ \A u \in Int : InWindow(u, MonthPeriod(z, m)) <=> MonthOf(DayKey(z, u)) = m
         /\ MonthsTouched(z, MonthPeriod(z, m)) = m .. m
<1>1. MonthPeriod(z, m) = Window(Midnight(z, FirstDay(m)), Midnight(z, FirstDay(m + 1)))
  BY DEF MonthPeriod, Midnight
<1>2. m + 1 \in Int /\ FirstDay(m) \in Int /\ FirstDay(m + 1) \in Int /\ FirstDay(m) < FirstDay(m + 1)
  BY FirstDayNext
<1>3. ASSUME NEW u \in Int
      PROVE  InWindow(u, MonthPeriod(z, m)) <=> MonthOf(DayKey(z, u)) = m
  <2> DEFINE d == DayKey(z, u)
  <2>1. d \in Int
    BY DayBegins
  <2>2. InWindow(u, MonthPeriod(z, m)) <=> FirstDay(m) <= d /\ d < FirstDay(m + 1)
    BY <1>1, <1>2, WindowOfDays
  <2> HIDE DEF d
  <2>3. FirstDay(m) <= d /\ d < FirstDay(m + 1) => MonthOf(d) = m
    BY <2>1, MonthOfUnique
  <2>4. MonthOf(d) = m => FirstDay(m) <= d /\ d < FirstDay(m + 1)
    BY <2>1, MonthOfIs
  <2> QED BY <2>2, <2>3, <2>4 DEF d
<1>4. MonthsTouched(z, MonthPeriod(z, m)) = m .. m
  <2> DEFINE w == MonthPeriod(z, m)
             f == FirstDay(m)
             g == FirstDay(m + 1)
  <2>1. w.start = Midnight(z, f) /\ w.end = Midnight(z, g)
    BY <1>1 DEF Window
  <2>2. f \in Int /\ g \in Int /\ f < g
    BY <1>2
  <2>3. MonthOf(f) = m
    BY <1>2, MonthOfUnique
  <2>4. MonthOf(g - 1) = m
    <3> DEFINE h == g - 1
    <3>1. h \in Int /\ FirstDay(m) <= h /\ h < FirstDay(m + 1)
      BY <1>2
    <3> HIDE DEF h
    <3>2. MonthOf(h) = m
      BY <3>1, MonthOfUnique
    <3> QED BY <3>2 DEF h
  <2> HIDE DEF w, f, g
  <2>5. DayKey(z, w.start) = f /\ DayKey(z, w.end - 1) = g - 1
    BY <2>1, <2>2, DayBegins, DayBefore
  <2> QED BY <2>3, <2>4, <2>5 DEF MonthsTouched, w
<1> QED BY <1>1, <1>2, <1>3, <1>4

(* The steps of daysBetween from a midnight on are the midnights after it. *)
Steps(f, z, start) ==
  f = [i \in 0 .. MaxPeriodDays |-> IF i = 0 THEN StartOfDay(z, start) ELSE AddDays(z, f[i - 1], 1)]

LEMMA StepsAreMidnights ==
  ASSUME NEW z, KeepsDays(z), NEW from \in Int
  PROVE  \E f : /\ Steps(f, z, Midnight(z, from))
                /\ \A h : Steps(h, z, Midnight(z, from)) =>
                     /\ DOMAIN h = 0 .. MaxPeriodDays
                     /\ \A i \in 0 .. MaxPeriodDays : h[i] = Midnight(z, from + i)
<1> DEFINE N == MaxPeriodDays
           start == Midnight(z, from)
           f == [i \in 0 .. N |-> Midnight(z, from + i)]
<1>0. N \in Nat
  BY CalendarAssumption
<1>1. start \in Int /\ StartOfDay(z, start) = start
  <2>1. start \in Int /\ DayKey(z, start) = from
    BY DayBegins
  <2> QED BY <2>1 DEF StartOfDay, Midnight
<1>2. ASSUME NEW i \in 0 .. N, i # 0
      PROVE  AddDays(z, Midnight(z, from + (i - 1)), 1) = Midnight(z, from + i)
  <2> DEFINE e == from + (i - 1)
  <2>1. e \in Int /\ e + 1 = from + i
    BY <1>0, <1>2
  <2> HIDE DEF e
  <2>2. DayKey(z, Midnight(z, e)) = e
    BY <2>1, DayBegins
  <2>3. AddDays(z, Midnight(z, e), 1) = Midnight(z, e + 1)
    BY <2>2 DEF AddDays, Midnight
  <2> QED BY <2>1, <2>3 DEF e
<1>3. Steps(f, z, start)
  <2>1. ASSUME NEW i \in 0 .. N
        PROVE  f[i] = IF i = 0 THEN StartOfDay(z, start) ELSE AddDays(z, f[i - 1], 1)
    <3>1. CASE i = 0
      <4>1. from + i = from
        BY <3>1
      <4> QED BY <1>1, <3>1, <4>1
    <3>2. CASE i # 0
      <4>1. i - 1 \in 0 .. N
        BY <1>0, <3>2
      <4>2. f[i - 1] = Midnight(z, from + (i - 1))
        BY <4>1
      <4> QED BY <1>2, <3>2, <4>2
    <3> QED BY <3>1, <3>2
  <2>2. f = [i \in 0 .. N |-> f[i]]
    OBVIOUS
  <2> HIDE DEF f, start
  <2> QED BY <2>1, <2>2 DEF Steps
<1>4. ASSUME NEW h, Steps(h, z, start)
      PROVE  DOMAIN h = 0 .. N /\ \A i \in 0 .. N : h[i] = Midnight(z, from + i)
  <2>1. /\ DOMAIN h = 0 .. N
        /\ \A i \in 0 .. N : h[i] = IF i = 0 THEN StartOfDay(z, start) ELSE AddDays(z, h[i - 1], 1)
    <3> HIDE DEF start
    <3> QED BY <1>4 DEF Steps
  <2> DEFINE bad == {i \in Nat : i \in 0 .. N /\ h[i] # Midnight(z, from + i)}
  <2>2. bad = {}
    <3> SUFFICES ASSUME bad # {} PROVE FALSE
      OBVIOUS
    <3>1. PICK i \in bad : \A j \in bad : i <= j
      <4>1. bad \in SUBSET Nat
        OBVIOUS
      <4> HIDE DEF bad
      <4> QED BY <4>1, SmallestNumber
    <3>2. i \in Nat /\ i \in 0 .. N /\ h[i] # Midnight(z, from + i)
      BY <3>1
    <3>3. i # 0
      <4> SUFFICES ASSUME i = 0 PROVE FALSE
        OBVIOUS
      <4>1. from + 0 = from
        OBVIOUS
      <4> QED BY <1>1, <2>1, <3>2, <4>1
    <3>4. i - 1 \in Nat /\ i - 1 \in 0 .. N /\ ~(i <= i - 1)
      BY <1>0, <3>2, <3>3
    <3>5. i - 1 \notin bad
      BY <3>1, <3>4
    <3>6. h[i - 1] = Midnight(z, from + (i - 1))
      BY <3>4, <3>5
    <3>7. h[i] = AddDays(z, h[i - 1], 1)
      BY <2>1, <3>2, <3>3
    <3> HIDE DEF bad
    <3> QED BY <1>2, <3>2, <3>3, <3>6, <3>7
  <2> QED BY <1>0, <2>1, <2>2
<1> HIDE DEF f
<1> QED BY <1>3, <1>4 DEF start

LEMMA DaysOfPeriod ==
  ASSUME NEW z, KeepsDays(z), NEW from \in Int, NEW after \in Int,
         after - from <= MaxPeriodDays
  PROVE  DaysBetween(z, Window(Midnight(z, from), Midnight(z, after))) = from .. after - 1
<1> DEFINE w == Window(Midnight(z, from), Midnight(z, after))
           N == MaxPeriodDays
           f == CHOOSE h : Steps(h, z, w.start)
<1>0. N \in Nat
  BY CalendarAssumption
<1>1. w.start = Midnight(z, from) /\ w.end = Midnight(z, after)
  BY DEF Window
<1>2. DaysBetween(z, w) = { DayKey(z, f[i]) : i \in { j \in DOMAIN f : f[j] < w.end } }
  BY DEF DaysBetween, Midnights, Steps
<1>3. DOMAIN f = 0 .. N /\ \A i \in 0 .. N : f[i] = Midnight(z, from + i)
  <2> HIDE DEF w
  <2> QED BY <1>1, StepsAreMidnights
<1> HIDE DEF f, w
<1>4. ASSUME NEW i \in 0 .. N
      PROVE  DayKey(z, f[i]) = from + i /\ (f[i] < w.end <=> from + i < after)
  <2>1. from + i \in Int
    BY <1>0
  <2> DEFINE e == from + i
  <2> HIDE DEF e
  <2>2. Midnight(z, e) \in Int /\ DayKey(z, Midnight(z, e)) = e /\ Midnight(z, after) \in Int
    BY <2>1, DayBegins DEF e
  <2>3. Midnight(z, after) <= Midnight(z, e) <=> after <= e
    BY <2>1, MidnightsInOrder DEF e
  <2>4. Midnight(z, e) < Midnight(z, after) <=> e < after
    BY <2>1, <2>2, <2>3 DEF e
  <2> QED BY <1>1, <1>3, <2>2, <2>4 DEF e
<1>5. DaysBetween(z, w) = { from + i : i \in { j \in 0 .. N : from + j < after } }
  BY <1>2, <1>3, <1>4
<1>6. { from + i : i \in { j \in 0 .. N : from + j < after } } = from .. after - 1
  <2>1. ASSUME NEW d \in from .. after - 1
        PROVE  \E i \in { j \in 0 .. N : from + j < after } : d = from + i
    <3>1. d - from \in 0 .. N /\ from + (d - from) = d /\ d < after
      BY <1>0
    <3> QED BY <3>1
  <2>2. ASSUME NEW i \in 0 .. N, from + i < after PROVE from + i \in from .. after - 1
    BY <1>0, <2>2
  <2> QED BY <2>1, <2>2
<1> QED BY <1>5, <1>6 DEF w

LEMMA MonthOfGrows ==
  ASSUME NEW d \in Int, NEW e \in Int, d <= e
  PROVE  MonthOf(d) <= MonthOf(e)
<1> DEFINE m == MonthOf(d)
           n == MonthOf(e)
<1>1. /\ m \in Int /\ FirstDay(m) <= d /\ n \in Int /\ e < FirstDay(n + 1)
      /\ FirstDay(m) \in Int /\ FirstDay(n + 1) \in Int
  BY MonthOfIs, FirstDayNext
<1> HIDE DEF m, n
<1>2. SUFFICES ASSUME n + 1 <= m PROVE FALSE
  BY <1>1 DEF m, n
<1>3. CASE n + 1 = m
  BY <1>1, <1>3
<1>4. CASE n + 1 < m
  <2>1. FirstDay(n + 1) < FirstDay(m)
    BY <1>1, <1>4, FirstDayIncreases
  <2> QED BY <1>1, <2>1
<1> QED BY <1>1, <1>2, <1>3, <1>4

LEMMA MonthsOfDays ==
  ASSUME NEW from \in Int, NEW to \in Int, from <= to
  PROVE  MonthOf(from) .. MonthOf(to) = { MonthOf(d) : d \in from .. to }
<1>1. ASSUME NEW d \in from .. to
      PROVE  MonthOf(d) \in MonthOf(from) .. MonthOf(to)
  <2>1. d \in Int /\ from <= d /\ d <= to
    OBVIOUS
  <2>2. MonthOf(from) <= MonthOf(d) /\ MonthOf(d) <= MonthOf(to)
    BY <2>1, MonthOfGrows
  <2>3. MonthOf(from) \in Int /\ MonthOf(to) \in Int /\ MonthOf(d) \in Int
    BY <2>1, MonthOfIs
  <2> QED BY <2>2, <2>3
<1>2. ASSUME NEW m \in MonthOf(from) .. MonthOf(to)
      PROVE  \E d \in from .. to : MonthOf(d) = m
  <2> DEFINE a == MonthOf(from)
             b == MonthOf(to)
  <2>1. /\ a \in Int /\ FirstDay(a) <= from /\ from < FirstDay(a + 1)
        /\ b \in Int /\ FirstDay(b) <= to /\ to < FirstDay(b + 1)
    BY MonthOfIs
  <2>2. m \in Int /\ a <= m /\ m <= b
    BY <2>1
  <2> HIDE DEF a, b
  <2>3. FirstDay(m) \in Int /\ FirstDay(m) < FirstDay(m + 1) /\ FirstDay(a + 1) \in Int /\ FirstDay(b) \in Int
    BY <2>1, <2>2, FirstDayNext
  <2>4. CASE m = a
    <3>1. from \in from .. to
      OBVIOUS
    <3> QED BY <2>4, <3>1 DEF a
  <2>5. CASE m # a
    <3>1. a + 1 = m \/ a + 1 < m
      BY <2>1, <2>2, <2>5
    <3>2. FirstDay(a + 1) <= FirstDay(m)
      <4>1. CASE a + 1 = m
        BY <2>3, <4>1
      <4>2. CASE a + 1 < m
        <5>1. FirstDay(a + 1) < FirstDay(m)
          BY <2>1, <2>2, <4>2, FirstDayIncreases
        <5> QED BY <2>3, <5>1
      <4> QED BY <3>1, <4>1, <4>2
    <3>3. FirstDay(m) <= FirstDay(b)
      <4>1. CASE m = b
        BY <2>3, <4>1
      <4>2. CASE m # b
        <5>1. m < b
          BY <2>1, <2>2, <4>2
        <5>2. FirstDay(m) < FirstDay(b)
          BY <2>1, <2>2, <5>1, FirstDayIncreases
        <5> QED BY <2>3, <5>2
      <4> QED BY <4>1, <4>2
    <3>4. FirstDay(m) \in from .. to
      BY <2>1, <2>3, <3>2, <3>3
    <3>5. MonthOf(FirstDay(m)) = m
      BY <2>2, <2>3, MonthOfUnique
    <3> QED BY <3>4, <3>5
  <2> QED BY <2>4, <2>5
<1> QED BY <1>1, <1>2

-----------------------------------------------------------------------------
(* The parts of CalendarFits.                                              *)

CalendarInv == KeepsDays(zone) /\ now \in Int

LEMMA InstantsHaveDays == CalendarInv => EveryInstantOneDay
<1> SUFFICES ASSUME KeepsDays(zone), now \in Int PROVE EveryInstantOneDay
  BY DEF CalendarInv
<1> DEFINE d == Today
           start == StartOfDay(zone, now)
<1>1. d \in Int /\ start = Midnight(zone, d)
  BY DayBegins DEF Today, StartOfDay, Midnight
<1>2. start \in Int /\ start <= now
  BY <1>1, DayBegins DEF Today
<1>3. ASSUME NEW u \in start .. now PROVE DayKey(zone, u) = d
  <2>1. u \in Int /\ start <= u /\ u <= now
    BY <1>2
  <2> DEFINE k == DayKey(zone, u)
  <2>2. k \in Int /\ d <= k
    BY <1>1, <2>1, DayBegins
  <2>3. ~(d + 1 <= k)
    <3>1. d + 1 \in Int /\ Midnight(zone, d + 1) \in Int
      BY <1>1, DayBegins
    <3>2. ~(Midnight(zone, d + 1) <= now)
      <4>1. ~(d + 1 <= DayKey(zone, now))
        BY <1>1 DEF Today
      <4> QED BY <3>1, <4>1, DayBegins
    <3>3. ~(Midnight(zone, d + 1) <= u)
      BY <2>1, <3>1, <3>2
    <3> QED BY <2>1, <3>1, <3>3, DayBegins
  <2> HIDE DEF d, k
  <2>4. k = d
    BY <1>1, <2>2, <2>3
  <2> QED BY <2>4 DEF k
<1>4. DayKey(zone, start - 1) = d - 1
  BY <1>1, DayBefore
<1>5. ASSUME NEW m \in Months
      PROVE  LET w == MonthPeriod(zone, m) IN
               /\ w.end = MonthPeriod(zone, m + 1).start
               /\ InWindow(now, w) <=> MonthOf(d) = m
               /\ MonthsTouched(zone, w) = m .. m
  <2>1. m \in Int
    BY <1>1, MonthOfIs DEF Months
  <2>2. m + 1 \in Int
    BY <2>1
  <2>3. MonthPeriod(zone, m).end = MonthPeriod(zone, m + 1).start
    BY DEF MonthPeriod, Window
  <2> QED BY <2>1, <2>3, MonthPeriodIs DEF Today
<1> QED BY <1>2, <1>3, <1>4, <1>5 DEF EveryInstantOneDay, Today

LEMMA LastDaysAre ==
  ASSUME NEW z, KeepsDays(z), NEW t \in Int, NEW n \in Int
  PROVE  AnalyticsPeriod(z, DaysQuery(n), t)
           = Window(Midnight(z, DayKey(z, t) - n + 1), Midnight(z, DayKey(z, t) + 1))
<1> DEFINE d == DayKey(z, t)
           today == StartOfDay(z, t)
           q == DaysQuery(n)
<1>1. d \in Int /\ today = Midnight(z, d)
  BY DayBegins DEF StartOfDay, Midnight
<1>2. DayKey(z, today) = d
  BY <1>1, DayBegins
<1>3. q.p = "days" /\ q.n = n
  BY DEF DaysQuery
<1>4. AnalyticsPeriod(z, q, t) = Window(AddDays(z, today, 1 - n), AddDays(z, today, 1))
  <2> HIDE DEF q
  <2> QED BY <1>3 DEF AnalyticsPeriod
<1>5. d + (1 - n) = d - n + 1
  <2> HIDE DEF d
  <2> QED BY <1>1
<1>6. AddDays(z, today, 1 - n) = Midnight(z, d - n + 1) /\ AddDays(z, today, 1) = Midnight(z, d + 1)
  <2> HIDE DEF d, today
  <2> QED BY <1>2, <1>5 DEF AddDays, Midnight
<1> QED BY <1>4, <1>6

LEMMA CustomIs ==
  ASSUME NEW z, KeepsDays(z), NEW t, NEW from \in Int, NEW to \in Int, from <= to
  PROVE  AnalyticsPeriod(z, CustomQuery(<<from, to>>), t)
           = Window(Midnight(z, IF from < to + 1 - MaxPeriodDays THEN to + 1 - MaxPeriodDays ELSE from),
                    Midnight(z, to + 1))
<1> DEFINE q == CustomQuery(<<from, to>>)
           a == to + 1 - MaxPeriodDays
           start == ZonedTime(z, HoursPerDay * from)
           end == ZonedTime(z, HoursPerDay * (to + 1))
           oldest == AddDays(z, end, -MaxPeriodDays)
<1>1. q.p = "custom" /\ q.from = from /\ q.to = to /\ from # None /\ to # None
  BY CalendarAssumption DEF CustomQuery
<1>2. AnalyticsPeriod(z, q, t) = CustomPeriod(z, from, to)
  <2> HIDE DEF q
  <2> QED BY <1>1 DEF AnalyticsPeriod
<1>3. CustomPeriod(z, from, to) = Window(IF start < oldest THEN oldest ELSE start, end)
  BY DEF CustomPeriod
<1>4. to + 1 \in Int /\ a \in Int /\ (to + 1) + (-MaxPeriodDays) = a
  BY CalendarAssumption
<1>5. start = Midnight(z, from) /\ end = Midnight(z, to + 1)
  BY DEF Midnight
<1> HIDE DEF start, end
<1>6. oldest = Midnight(z, a)
  <2>1. DayKey(z, end) = to + 1
    BY <1>4, <1>5, DayBegins
  <2> QED BY <1>4, <2>1 DEF AddDays, Midnight
<1> HIDE DEF oldest, a
<1>7. start \in Int /\ oldest \in Int
  BY <1>4, <1>5, <1>6, DayBegins
<1>8. start < oldest <=> from < a
  <2>1. Midnight(z, a) <= Midnight(z, from) <=> a <= from
    BY <1>4, MidnightsInOrder
  <2> QED BY <1>4, <1>5, <1>6, <1>7, <2>1
<1> QED BY <1>2, <1>3, <1>5, <1>6, <1>8 DEF a

LEMMA PeriodsAreWholeDays == CalendarInv => PeriodIsWholeDays
<1> SUFFICES ASSUME KeepsDays(zone), now \in Int PROVE PeriodIsWholeDays
  BY DEF CalendarInv
<1>0. Today \in Int /\ MaxPeriodDays \in Nat \ {0}
  BY DayBegins, CalendarAssumption DEF Today
<1>1. ASSUME NEW n \in DayCounts
      PROVE  LET w == AnalyticsPeriod(zone, DaysQuery(n), now) IN
               Days(w) = Today - n + 1 .. Today /\ InWindow(now, w)
  <2> DEFINE w == AnalyticsPeriod(zone, DaysQuery(n), now)
             a == Today - n + 1
             b == Today + 1
  <2>1. n \in Int /\ 1 <= n /\ n <= MaxPeriodDays
    BY <1>0, ReportsAssumption
  <2>2. w = Window(Midnight(zone, a), Midnight(zone, b))
    BY <2>1, LastDaysAre DEF Today
  <2>3. a \in Int /\ b \in Int /\ b - a <= MaxPeriodDays /\ b - 1 = Today /\ a <= Today /\ Today < b
    BY <1>0, <2>1
  <2> HIDE DEF w, a, b
  <2>4. Days(w) = a .. b - 1
    BY <2>2, <2>3, DaysOfPeriod DEF Days
  <2>5. InWindow(now, w)
    BY <2>2, <2>3, WindowOfDays DEF Today
  <2> QED BY <2>3, <2>4, <2>5 DEF w, a
<1>2. ASSUME NEW r \in CustomRanges, r[1] <= r[2]
      PROVE  LET w == AnalyticsPeriod(zone, CustomQuery(r), now) IN
               /\ Days(w) \subseteq r[1] .. r[2] /\ r[2] \in Days(w)
               /\ Cardinality(Days(w)) <= MaxPeriodDays
               /\ Days(w) # r[1] .. r[2] => Cardinality(Days(w)) = MaxPeriodDays
               /\ \A u \in w.start .. w.end - 1 : DayKey(zone, u) \in Days(w)
               /\ MonthsTouched(zone, w) = { MonthOf(d) : d \in Days(w) }
  <2> DEFINE w == AnalyticsPeriod(zone, CustomQuery(r), now)
             N == MaxPeriodDays
  <2>1. PICK from, to \in Int : r = <<from, to>>
    BY <1>0 DEF CustomRanges
  <2> DEFINE a == IF from < to + 1 - N THEN to + 1 - N ELSE from
             b == to + 1
  <2>2. r[1] = from /\ r[2] = to /\ from <= to
    BY <1>2, <2>1
  <2>3. w = Window(Midnight(zone, a), Midnight(zone, b))
    BY <2>1, <2>2, CustomIs
  <2>4. /\ a \in Int /\ b \in Int /\ b - a <= N /\ b - 1 = to /\ from <= a /\ a <= to
        /\ from < a => b - a = N
    BY <1>0, <2>2
  <2> HIDE DEF w, a, b
  <2>5. Days(w) = a .. to
    BY <2>3, <2>4, DaysOfPeriod DEF Days
  <2>6. Cardinality(a .. to) = b - a
    <3>1. Cardinality(a .. to) = to - a + 1
      BY <2>4, FS_Interval
    <3> QED BY <2>4, <3>1
  <2>7. a .. to \subseteq from .. to /\ to \in a .. to
    BY <2>4
  <2>8. a .. to # from .. to => from < a
    BY <2>4
  <2>9. ASSUME NEW u \in w.start .. w.end - 1 PROVE DayKey(zone, u) \in a .. to
    <3>1. w.start = Midnight(zone, a) /\ w.end = Midnight(zone, b)
      BY <2>3 DEF Window
    <3>2. w.start \in Int /\ w.end \in Int
      BY <2>4, <3>1, DayBegins
    <3>3. u \in Int /\ w.start <= u /\ u < w.end
      BY <3>2
    <3>4. InWindow(u, w)
      BY <3>3, CalendarAssumption DEF InWindow
    <3>5. a <= DayKey(zone, u) /\ DayKey(zone, u) < b /\ DayKey(zone, u) \in Int
      BY <2>3, <2>4, <3>3, <3>4, WindowOfDays, DayBegins
    <3> QED BY <2>4, <3>5
  <2>10. MonthsTouched(zone, w) = { MonthOf(d) : d \in a .. to }
    <3>1. DayKey(zone, w.start) = a /\ DayKey(zone, w.end - 1) = b - 1
      BY <2>3, <2>4, DayBegins, DayBefore DEF Window
    <3> QED BY <2>4, <3>1, MonthsOfDays DEF MonthsTouched
  <2>11. /\ Days(w) \subseteq r[1] .. r[2] /\ r[2] \in Days(w)
         /\ Cardinality(Days(w)) <= MaxPeriodDays
         /\ Days(w) # r[1] .. r[2] => Cardinality(Days(w)) = MaxPeriodDays
    BY <1>0, <2>2, <2>4, <2>5, <2>6, <2>7, <2>8
  <2> QED BY <2>5, <2>9, <2>10, <2>11 DEF w
<1> QED BY <1>1, <1>2 DEF PeriodIsWholeDays

(* The days at the edge of a month.                                        *)
LEMMA EdgesOfMonth ==
  ASSUME NEW m \in Int
  PROVE  /\ FirstDay(m) \in Int
         /\ MonthOf(FirstDay(m)) = m /\ MonthOf(FirstDay(m) - 1) = m - 1
<1> DEFINE f == FirstDay(m)
           g == FirstDay(m - 1)
           e == f - 1
<1>1. f \in Int /\ f < FirstDay(m + 1)
  BY FirstDayNext
<1>2. m - 1 \in Int /\ (m - 1) + 1 = m
  OBVIOUS
<1>3. g \in Int /\ g < f
  BY <1>2, FirstDayNext
<1>4. MonthOf(f) = m
  BY <1>1, MonthOfUnique
<1>5. MonthOf(e) = m - 1
  <2>1. e \in Int /\ FirstDay(m - 1) <= e /\ e < FirstDay((m - 1) + 1)
    <3> HIDE DEF f, g
    <3>1. e \in Int /\ g <= e /\ e < f
      BY <1>1, <1>3
    <3> QED BY <1>2, <3>1 DEF f, g
  <2> HIDE DEF e
  <2> QED BY <1>2, <2>1, MonthOfUnique
<1> QED BY <1>1, <1>4, <1>5

LEMMA FinancePeriodIs ==
  ASSUME NEW t \in Int, Today = t, NEW r \in FinancePeriods
  PROVE  \E from, to \in Int : from <= to /\ r = Span(from, to)
<1> DEFINE mo == MonthOf(t)
           Whole(first, n) == Span(FirstDay(first), FirstDay(first + n) - 1)
<1>1. mo \in Int
  BY MonthOfIs
<1>2. ASSUME NEW first \in Int, NEW n \in Int, 0 < n
      PROVE  \E from, to \in Int : from <= to /\ Whole(first, n) = Span(from, to)
  <2>1. first + n \in Int /\ first < first + n
    BY <1>2
  <2>2. FirstDay(first) \in Int /\ FirstDay(first + n) \in Int /\ FirstDay(first) < FirstDay(first + n)
    BY <2>1, FirstDayIncreases, FirstDayNext
  <2> DEFINE a == FirstDay(first)
             b == FirstDay(first + n)
  <2> HIDE DEF a, b
  <2>3. a \in Int /\ b - 1 \in Int /\ a <= b - 1
    BY <2>2 DEF a, b
  <2>4. Whole(first, n) = Span(a, b - 1)
    BY DEF a, b
  <2> QED BY <2>3, <2>4
<1>3. ASSUME NEW preset \in Presets
      PROVE  \E first, n \in Int : 0 < n /\ ResolvePeriod(preset, t) = Whole(first, n)
  <2> HIDE DEF mo
  <2>1. mo - 1 \in Int /\ 3 * (mo \div 3) \in Int
    BY <1>1
  <2>2. MonthsPerYear \in Int /\ 0 < MonthsPerYear
    BY MonthsAre
  <2> DEFINE y == MonthsPerYear * (mo \div MonthsPerYear)
  <2>3. y \in Int
    <3> DEFINE M == MonthsPerYear
    <3> HIDE DEF M
    <3>1. M \in Nat \ {0}
      BY <2>2 DEF M
    <3>2. mo \div M \in Int
      BY <1>1, <3>1
    <3> QED BY <3>1, <3>2 DEF M
  <2>4. CASE preset = "this_month"
    <3>1. ResolvePeriod(preset, t) = Whole(mo, 1)
      BY <2>4 DEF ResolvePeriod, mo
    <3> QED BY <1>1, <3>1
  <2>5. CASE preset = "last_month"
    <3>1. ResolvePeriod(preset, t) = Whole(mo - 1, 1)
      BY <2>5 DEF ResolvePeriod, mo
    <3> QED BY <2>1, <3>1
  <2>6. CASE preset = "this_quarter"
    <3>1. ResolvePeriod(preset, t) = Whole(3 * (mo \div 3), 3)
      BY <2>6 DEF ResolvePeriod, mo
    <3> QED BY <2>1, <3>1
  <2>7. CASE preset = "this_year"
    <3>1. ResolvePeriod(preset, t) = Whole(y, MonthsPerYear)
      BY <2>7 DEF ResolvePeriod, mo
    <3> HIDE DEF y
    <3> QED BY <2>2, <2>3, <3>1
  <2> QED BY <2>4, <2>5, <2>6, <2>7 DEF Presets
<1>4. CASE r \in { ResolvePeriod(preset, Today) : preset \in Presets }
  <2>1. PICK preset \in Presets : r = ResolvePeriod(preset, t)
    BY <1>4
  <2>2. PICK first, n \in Int : 0 < n /\ r = Whole(first, n)
    BY <1>3, <2>1
  <2> HIDE DEF Whole
  <2> QED BY <1>2, <2>2
<1>5. CASE r \in { Span(x[1], x[2]) : x \in { y \in CustomRanges : y[1] <= y[2] } }
  <2>1. PICK x \in CustomRanges : x[1] <= x[2] /\ r = Span(x[1], x[2])
    BY <1>5
  <2>2. x[1] \in Int /\ x[2] \in Int
    BY <2>1 DEF CustomRanges
  <2> QED BY <2>1, <2>2
<1> QED BY <1>4, <1>5 DEF FinancePeriods

LEMMA PeriodBeforeIsAdjacent == CalendarInv => PreviousPeriodAdjacent
<1> SUFFICES ASSUME CalendarInv, NEW r \in FinancePeriods
    PROVE  LET p == PreviousPeriod(r)
               Whole(x) == x.from = FirstDay(MonthOf(x.from)) /\ x.to + 1 = FirstDay(MonthOf(x.to + 1))
               MonthsIn(x) == MonthOf(x.to) - MonthOf(x.from)
           IN  /\ p.to = r.from - 1 /\ p.from <= p.to
               /\ Whole(r) => Whole(p) /\ MonthsIn(p) = MonthsIn(r)
               /\ ~Whole(r) => p.to - p.from = r.to - r.from
  BY DEF PreviousPeriodAdjacent
<1> DEFINE p == PreviousPeriod(r)
           Whole(x) == x.from = FirstDay(MonthOf(x.from)) /\ x.to + 1 = FirstDay(MonthOf(x.to + 1))
           MonthsIn(x) == MonthOf(x.to) - MonthOf(x.from)
<1>1. Today \in Int
  BY DayBegins DEF CalendarInv, Today
<1>2. PICK from, to \in Int : from <= to /\ r = Span(from, to)
  BY <1>1, FinancePeriodIs
<1>3. r.from = from /\ r.to = to
  BY <1>2 DEF Span
<1> DEFINE first == MonthOf(from)
           after == MonthOf(to + 1)
           n == after - first
           earlier == FirstDay(first - n)
<1>4. first \in Int /\ after \in Int
  BY MonthOfIs
<1>5. CASE Whole(r)
  <2>1. from = FirstDay(first) /\ to + 1 = FirstDay(after)
    BY <1>3, <1>5
  <2>2. first < after
    <3>1. MonthOf(to) = after - 1
      <4>1. MonthOf(FirstDay(after) - 1) = after - 1
        BY <1>4, EdgesOfMonth
      <4>2. (to + 1) - 1 = to
        BY <1>2
      <4> QED BY <2>1, <4>1, <4>2
    <3>2. first <= MonthOf(to)
      BY <1>2, MonthOfGrows
    <3> HIDE DEF first, after
    <3> QED BY <1>4, <3>1, <3>2
  <2>3. n \in Int /\ 0 < n /\ first - n \in Int /\ first - n < first
    <3> HIDE DEF first, after
    <3> QED BY <1>4, <2>2
  <2>4. p = Span(earlier, from - 1)
    BY <1>3, <2>1 DEF PreviousPeriod
  <2>5. p.from = earlier /\ p.to = from - 1
    BY <2>4 DEF Span
  <2> HIDE DEF p
  <2>6. earlier \in Int /\ earlier < from
    <3>1. FirstDay(first - n) < FirstDay(first)
      BY <1>4, <2>3, FirstDayIncreases
    <3>2. FirstDay(first - n) \in Int
      BY <2>3, EdgesOfMonth
    <3> QED BY <2>1, <3>1, <3>2
  <2>7. MonthOf(earlier) = first - n
    BY <2>3, EdgesOfMonth
  <2>8. MonthOf(from - 1) = first - 1
    BY <1>4, <2>1, EdgesOfMonth
  <2>9. MonthOf(to) = after - 1
    <3>1. MonthOf(FirstDay(after) - 1) = after - 1
      BY <1>4, EdgesOfMonth
    <3>2. (to + 1) - 1 = to
      BY <1>2
    <3> QED BY <2>1, <3>1, <3>2
  <2>10. (from - 1) + 1 = from
    BY <1>2
  <2>11. Whole(p)
    <3>1. p.from = FirstDay(MonthOf(p.from))
      BY <2>5, <2>7
    <3>2. p.to + 1 = FirstDay(MonthOf(p.to + 1))
      BY <2>1, <2>5, <2>10
    <3> QED BY <3>1, <3>2
  <2>12. MonthsIn(p) = MonthsIn(r)
    <3>1. MonthsIn(p) = (first - 1) - (first - n)
      BY <2>5, <2>7, <2>8
    <3>2. MonthsIn(r) = (after - 1) - first
      BY <1>3, <2>9
    <3>3. (first - 1) - (first - n) = (after - 1) - first
      <4> HIDE DEF first, after
      <4> QED BY <1>4
    <3> QED BY <3>1, <3>2, <3>3
  <2>13. p.to = r.from - 1 /\ p.from <= p.to
    <3>1. earlier <= from - 1
      <4> HIDE DEF earlier
      <4> QED BY <1>2, <2>6
    <3> QED BY <1>3, <2>5, <3>1
  <2> HIDE DEF Whole, MonthsIn
  <2>14. Whole(r)
    BY <1>5
  <2>15. /\ p.to = r.from - 1 /\ p.from <= p.to
         /\ Whole(r) => Whole(p) /\ MonthsIn(p) = MonthsIn(r)
         /\ ~Whole(r) => p.to - p.from = r.to - r.from
    BY <2>11, <2>12, <2>13, <2>14
  <2> QED BY <2>15 DEF Whole, MonthsIn, p
<1>6. CASE ~Whole(r)
  <2>1. ~(from = FirstDay(first) /\ to + 1 = FirstDay(after))
    BY <1>3, <1>6
  <2>2. p = Span(from - (to + 1 - from), from - 1)
    BY <1>3, <2>1 DEF PreviousPeriod
  <2>3. p.from = from - (to + 1 - from) /\ p.to = from - 1
    BY <2>2 DEF Span
  <2> HIDE DEF p
  <2>4. p.to = r.from - 1 /\ p.from <= p.to /\ p.to - p.from = r.to - r.from
    BY <1>2, <1>3, <2>3
  <2> HIDE DEF Whole, MonthsIn
  <2>5. /\ p.to = r.from - 1 /\ p.from <= p.to
        /\ Whole(r) => Whole(p) /\ MonthsIn(p) = MonthsIn(r)
        /\ ~Whole(r) => p.to - p.from = r.to - r.from
    BY <1>6, <2>4
  <2> QED BY <2>5 DEF Whole, MonthsIn, p
<1> QED BY <1>5, <1>6

LEMMA ChartIsWhole == CalendarInv => ChartCoversPeriod
<1> SUFFICES ASSUME CalendarInv, NEW r \in FinancePeriods, NEW g \in {"day", "week", "month"}
    PROVE  { BucketStart(d, g) : d \in r.from .. r.to } = Buckets(r, g)
  BY DEF ChartCoversPeriod
<1>1. Today \in Int
  BY DayBegins DEF CalendarInv, Today
<1>2. PICK from, to \in Int : from <= to /\ r = Span(from, to)
  BY <1>1, FinancePeriodIs
<1>3. r.from = from /\ r.to = to
  BY <1>2 DEF Span
<1>4. g \in Granularities
  BY DEF Granularities
<1> QED BY <1>2, <1>3, <1>4, ChartCovers

LEMMA CalendarStarts == ReportsInit => CalendarInv
<1> SUFFICES ASSUME ReportsInit PROVE CalendarInv
  OBVIOUS
<1>1. CASE zone \in Zones /\ now = FirstInstant
  BY <1>1, ReportsAssumption DEF CalendarInv
<1>2. CASE zone = [before |-> 0, after |-> 0, shift |-> 0] /\ now = LastInstant
  <2>1. zone.before = 0 /\ zone.after = 0 /\ zone.shift = 0
    BY <1>2
  <2>2. KeepsDays(zone)
    <3>1. HoursPerDay \in Nat \ {0} /\ HoursPerDay * 0 = 0 /\ 0 + 0 = 0
      BY CalendarAssumption
    <3>2. MidnightFrom(0) = 0
      BY <3>1, MidnightIs
    <3> QED BY <2>1, <3>1, <3>2 DEF KeepsDays
  <2> QED BY <1>2, <2>2, ReportsAssumption DEF CalendarInv
<1> QED BY <1>1, <1>2 DEF ReportsInit

LEMMA CalendarStays == CalendarInv /\ [ReportsNext]_reportVars => CalendarInv'
<1> SUFFICES ASSUME CalendarInv, [ReportsNext]_reportVars PROVE CalendarInv'
  OBVIOUS
<1>1. CASE Tick
  <2>1. zone' = zone /\ now' = now + 1
    BY <1>1 DEF Tick
  <2> QED BY <2>1 DEF CalendarInv, KeepsDays, MidnightFrom
<1>2. ASSUME UNCHANGED <<zone, now>> PROVE CalendarInv'
  BY <1>2 DEF CalendarInv, KeepsDays, MidnightFrom
<1>3. CASE CreateTask
  BY <1>2, <1>3 DEF CreateTask, Change
<1>4. CASE StartTask
  BY <1>2, <1>4 DEF StartTask, Replace, Change
<1>5. CASE CloseTask
  BY <1>2, <1>5 DEF CloseTask, Replace, Change
<1>6. CASE ReopenTask
  BY <1>2, <1>6 DEF ReopenTask, Replace, Change
<1>7. CASE LogTime
  BY <1>2, <1>7 DEF LogTime, Log, Change
<1>8. CASE PlanMeeting
  BY <1>2, <1>8 DEF PlanMeeting, Change
<1>9. CASE LogMore
  BY <1>2, <1>9 DEF LogMore
<1>10. CASE UNCHANGED reportVars
  BY <1>2, <1>10 DEF reportVars
<1> QED BY <1>1, <1>3, <1>4, <1>5, <1>6, <1>7, <1>8, <1>9, <1>10 DEF ReportsNext

(* Whatever a zone that keeps its days does with its clocks, every instant *)
(* is of one day and one month, a period is whole days and is compared     *)
(* with the one right before it, and its chart has a bucket for each day   *)
(* (CalendarFits).                                                         *)
THEOREM CalendarIsWhole == ReportsSpec => []CalendarFits
<1>1. CalendarInv => CalendarFits
  BY InstantsHaveDays, PeriodsAreWholeDays, PeriodBeforeIsAdjacent, ChartIsWhole DEF CalendarFits
<1> QED BY <1>1, CalendarStarts, CalendarStays, PTL DEF ReportsSpec

-----------------------------------------------------------------------------
(* Sums of hours.                                                          *)

Taken(B) == [e \in B |-> e.seconds]

IsTimed(B) == IsFiniteSet(B) /\ \A e \in B : e.seconds \in Nat

LEMMA SecondsAre ==
  ASSUME NEW B, IsTimed(B), NEW S \in SUBSET B
  PROVE  SecondsOf(S) = SumOver(Taken(B), S) /\ SecondsOf(S) \in Nat /\ IsTimed(S)
<1> DEFINE adds(f) == f = [s \in SUBSET S |-> IF s = {} THEN 0 ELSE First(s).seconds + f[s \ {First(s)}]]
           iter == CHOOSE f : adds(f)
<1>1. SecondsOf(S) = iter[S]
  BY DEF SecondsOf, MapThenSumSet, MapThenFoldSet, First
<1>2. IsFiniteSet(S) /\ (\A x \in S : Taken(B)[x] \in Nat) /\ IsTimed(S)
  BY FS_Subset DEF IsTimed, Taken
<1>3. \A s \in SUBSET S : s # {} => Taken(B)[First(s)] = First(s).seconds
  BY FirstIn DEF Taken
<1>4. \A f : AddsUp(f, Taken(B), S) <=> adds(f)
  BY <1>3 DEF AddsUp
<1> HIDE DEF adds
<1>5. \E f : adds(f)
  BY <1>2, <1>4, SumsExist
<1>6. AddsUp(iter, Taken(B), S)
  BY <1>4, <1>5
<1> HIDE DEF iter
<1>7. SecondsOf(S) = SumOver(Taken(B), S)
  BY <1>1, <1>2, <1>6, TotalIsTheSum
<1> QED BY <1>2, <1>7, TotalType

LEMMA RowSecondsAre == \A rows : RowSeconds(rows) = SecondsOf(rows)
BY DEF RowSeconds, SecondsOf

(* The hours of a journal, row by row.                                     *)
RowTaken(R) == [r \in R |-> r.entry.seconds]

LEMMA JournalSecondsAre ==
  ASSUME NEW R, IsFiniteSet(R), \A r \in R : r.entry.seconds \in Nat
  PROVE  JournalSeconds(R) = SumOver(RowTaken(R), R)
<1> DEFINE adds(f) == f = [s \in SUBSET R |-> IF s = {} THEN 0 ELSE First(s).entry.seconds + f[s \ {First(s)}]]
           iter == CHOOSE f : adds(f)
<1>1. JournalSeconds(R) = iter[R]
  BY DEF JournalSeconds, MapThenSumSet, MapThenFoldSet, First
<1>2. \A s \in SUBSET R : s # {} => RowTaken(R)[First(s)] = First(s).entry.seconds
  BY FirstIn DEF RowTaken
<1>3. \A f : AddsUp(f, RowTaken(R), R) <=> adds(f)
  BY <1>2 DEF AddsUp
<1> HIDE DEF adds
<1>4. \E f : adds(f)
  BY <1>3, SumsExist
<1>5. AddsUp(iter, RowTaken(R), R)
  BY <1>3, <1>4
<1> HIDE DEF iter
<1>6. R \in SUBSET R
  OBVIOUS
<1> QED BY <1>1, <1>5, <1>6, TotalIsTheSum

(* The hours people spend in meetings, meeting by meeting.                 *)
SpentIn(M) == [m \in M |-> m.seconds * Cardinality(m.attendees)]

LEMMA AttendedAre ==
  ASSUME NEW M, IsFiniteSet(M)
  PROVE  AttendedSeconds(M) = SumOver(SpentIn(M), M)
<1> DEFINE adds(f) == f = [s \in SUBSET M |->
                            IF s = {} THEN 0
                            ELSE First(s).seconds * Cardinality(First(s).attendees) + f[s \ {First(s)}]]
           iter == CHOOSE f : adds(f)
<1>1. AttendedSeconds(M) = iter[M]
  BY DEF AttendedSeconds, MapThenSumSet, MapThenFoldSet, First
<1>2. \A s \in SUBSET M : s # {} =>
        SpentIn(M)[First(s)] = First(s).seconds * Cardinality(First(s).attendees)
  BY FirstIn DEF SpentIn
<1>3. \A f : AddsUp(f, SpentIn(M), M) <=> adds(f)
  BY <1>2 DEF AddsUp
<1> HIDE DEF adds
<1>4. \E f : adds(f)
  BY <1>3, SumsExist
<1>5. AddsUp(iter, SpentIn(M), M)
  BY <1>3, <1>4
<1> HIDE DEF iter
<1>6. M \in SUBSET M
  OBVIOUS
<1> QED BY <1>1, <1>5, <1>6, TotalIsTheSum

LEMMA AddedIs ==
  ASSUME NEW rows, IsFiniteSet(DOMAIN rows), NEW k
  PROVE  Added(rows, k) = SumOver(Column(rows, k), DOMAIN rows)
<1> DEFINE D == DOMAIN rows
           adds(f) == f = [s \in SUBSET D |-> IF s = {} THEN 0 ELSE rows[First(s)][k] + f[s \ {First(s)}]]
           iter == CHOOSE f : adds(f)
<1>1. Added(rows, k) = iter[D]
  BY DEF Added, MapThenSumSet, MapThenFoldSet, First
<1>2. \A s \in SUBSET D : s # {} => Column(rows, k)[First(s)] = rows[First(s)][k]
  BY FirstIn DEF Column
<1>3. \A f : AddsUp(f, Column(rows, k), D) <=> adds(f)
  BY <1>2 DEF AddsUp
<1> HIDE DEF adds, D
<1>4. IsFiniteSet(D) /\ D \in SUBSET D
  BY DEF D
<1>5. \E f : adds(f)
  BY <1>3, <1>4, SumsExist
<1>6. AddsUp(iter, Column(rows, k), D)
  BY <1>3, <1>5
<1> HIDE DEF iter
<1>7. Added(rows, k) = SumOver(Column(rows, k), D)
  BY <1>1, <1>4, <1>6, TotalIsTheSum
<1> QED BY <1>7 DEF D

LEMMA TotalIsAdded == ASSUME NEW f PROVE Total(f) = SumOver(f, DOMAIN f)
BY FoldIsTheSum DEF Total

(* The hours of records put together by what f tells of them.              *)
LEMMA SecondsByParts ==
  ASSUME NEW S, IsTimed(S), NEW J, IsFiniteSet(J), NEW f, NEW cut, NEW part,
         \A e \in S : f[e] \in J, CutBy(cut, S, f, J),
         \A j \in J : part[j] = SecondsOf(cut[j])
  PROVE  SumOver(part, J) = SecondsOf(S)
<1> DEFINE h == Taken(S)
<1>1. \A j \in J : cut[j] \in SUBSET S
  BY DEF CutBy
<1>2. \A j \in J : part[j] = SumOver(h, cut[j])
  BY <1>1, SecondsAre
<1>3. IsFiniteSet(S) /\ \A e \in S : h[e] \in Int
  BY DEF IsTimed, Taken
<1> HIDE DEF h
<1>4. SumOver(part, J) = SumOver(h, S)
  BY <1>2, <1>3, TotalByParts
<1>5. S \in SUBSET S
  OBVIOUS
<1> QED BY <1>4, <1>5, SecondsAre DEF h

LEMMA SecondsOfNone == SecondsOf({}) = 0
<1>1. IsTimed({}) /\ {} \in SUBSET {}
  BY FS_EmptySet DEF IsTimed
<1> QED BY <1>1, SecondsAre, TotalOfNone

(* The same hours under other names.                                       *)
LEMMA SecondsRenamed ==
  ASSUME NEW S, IsTimed(S), NEW T, IsFiniteSet(T), NEW f \in [S -> T],
         \A x, y \in S : f[x] = f[y] => x = y,
         \A z \in T : \E x \in S : f[x] = z,
         NEW b, \A x \in S : b[f[x]] = x.seconds
  PROVE  SumOver(b, T) = SecondsOf(S)
<1> DEFINE h == Taken(S)
<1>1. IsFiniteSet(S) /\ (\A x \in S : h[x] \in Int /\ b[f[x]] = h[x]) /\ S \in SUBSET S
  BY DEF IsTimed, Taken
<1>2. SecondsOf(S) = SumOver(h, S)
  BY <1>1, SecondsAre
<1> HIDE DEF h
<1> QED BY <1>1, <1>2, TotalRenamed

-----------------------------------------------------------------------------
(* The activity of a portal.                                               *)

TaskShape ==
  [project : Boards, id : Nat \ {0}, status : {"pending", "progress", Completed, Declined},
   stage : {None, "board"}, created : Int, started : Int \cup {None}, closed : Int \cup {None},
   deadline : Int \cup {None}, responsible : People]

RecordShape ==
  [project : Boards, task : Int, section : {None, "deals"}, n : Nat \ {0}, user : People,
   seconds : Nat, at : Int]

MeetingShape ==
  [project : Boards, id : Nat, start : Int, seconds : Nat, attendees : SUBSET People]

(* Numbers tell tasks apart, and time records.                             *)
TasksFit(tasks) ==
  /\ tasks \in SUBSET TaskShape /\ IsFiniteSet(tasks)
  /\ \A t \in tasks : t.id <= Cardinality(tasks)
  /\ \A s, t \in tasks : s.id = t.id => s = t

RecordsFit(records, tasks) ==
  /\ records \in SUBSET RecordShape /\ IsFiniteSet(records)
  /\ \A e \in records : e.n <= Cardinality(records)
  /\ \A d, e \in records : d.n = e.n => d = e
  /\ \A e \in records :
       \/ e.task = -1 /\ e.section = "deals"
       \/ \E t \in tasks : t.id = e.task

MeetingsFit(meetings) == meetings \in SUBSET MeetingShape /\ IsFiniteSet(meetings)

WorldFits ==
  TasksFit(world.tasks) /\ RecordsFit(world.entries, world.tasks) /\ MeetingsFit(world.meetings)

ActivityInv == CalendarInv /\ WorldFits

LEMMA ActivityStarts == ReportsInit => ActivityInv
<1> SUFFICES ASSUME ReportsInit PROVE WorldFits
  BY CalendarStarts DEF ActivityInv
<1>1. world.tasks = {} /\ world.entries = {} /\ world.meetings = {}
  BY DEF ReportsInit, NoActivity
<1>2. IsFiniteSet({})
  BY FS_EmptySet
<1> QED BY <1>1, <1>2 DEF WorldFits, TasksFit, RecordsFit, MeetingsFit

LEMMA ChangeIs ==
  ASSUME NEW tasks, NEW records, NEW meetings, Change(tasks, records, meetings)
  PROVE  world'.tasks = tasks /\ world'.entries = records /\ world'.meetings = meetings
BY DEF Change

LEMMA OneMoreTask ==
  ASSUME NEW T, TasksFit(T), NEW t \in TaskShape, t.id = Cardinality(T) + 1
  PROVE  TasksFit(T \cup {t})
<1> DEFINE n == Cardinality(T)
           U == T \cup {t}
<1>1. n \in Nat /\ IsFiniteSet(T) /\ T \in SUBSET TaskShape
  BY FS_CardinalityType DEF TasksFit
<1>2. \A s \in T : s.id \in Nat /\ s.id <= n
  BY DEF TasksFit, TaskShape
<1>3. t \notin T
  <2> HIDE DEF n
  <2>1. t.id = n + 1
    BY DEF n
  <2> QED BY <1>1, <1>2, <2>1
<1>4. IsFiniteSet(U) /\ Cardinality(U) = n + 1
  BY <1>1, <1>3, FS_AddElement
<1>5. t.id = n + 1
  OBVIOUS
<1>6. \A s \in T : s.id < n + 1
  <2> HIDE DEF n
  <2> QED BY <1>1, <1>2
<1>7. \A s \in U : s.id <= n + 1
  <2> HIDE DEF n
  <2> QED BY <1>1, <1>2, <1>5, <1>6
<1>8. \A r, s \in U : r.id = s.id => r = s
  <2> SUFFICES ASSUME NEW r \in U, NEW s \in U, r.id = s.id PROVE r = s
    OBVIOUS
  <2>1. CASE r \in T /\ s \in T
    BY <2>1 DEF TasksFit
  <2>2. CASE r = t /\ s = t
    BY <2>2
  <2>3. \A x \in T : x.id # t.id
    <3> HIDE DEF n
    <3> QED BY <1>1, <1>2, <1>5
  <2> QED BY <2>1, <2>2, <2>3
<1> HIDE DEF U, n
<1>9. U \in SUBSET TaskShape
  BY <1>1 DEF U
<1> QED BY <1>4, <1>7, <1>8, <1>9 DEF TasksFit, U

LEMMA TaskReplaced ==
  ASSUME NEW T, TasksFit(T), NEW t \in T, NEW s \in TaskShape, s.id = t.id
  PROVE  TasksFit((T \ {t}) \cup {s})
<1> DEFINE R == T \ {t}
           U == R \cup {s}
<1>1. IsFiniteSet(T) /\ T \in SUBSET TaskShape
  BY DEF TasksFit
<1>2. \A x \in R : x \in T /\ x.id # s.id
  BY DEF TasksFit
<1>3. s \notin R
  BY <1>2
<1>4. /\ IsFiniteSet(R) /\ Cardinality(R) = Cardinality(T) - 1
      /\ IsFiniteSet(U) /\ Cardinality(U) = Cardinality(R) + 1
      /\ Cardinality(T) \in Nat
  BY <1>1, <1>3, FS_RemoveElement, FS_AddElement, FS_CardinalityType
<1> HIDE DEF U
<1>5. Cardinality(U) = Cardinality(T)
  <2> DEFINE a == Cardinality(U)
             b == Cardinality(T)
             c == Cardinality(R)
  <2> HIDE DEF a, b, c
  <2>1. b \in Nat /\ c = b - 1 /\ a = c + 1
    BY <1>4 DEF a, b, c
  <2>2. a = b
    BY <2>1
  <2> QED BY <2>2 DEF a, b
<1>6. \A x \in U : x.id <= Cardinality(U)
  BY <1>5 DEF U, TasksFit
<1>7. \A x, y \in U : x.id = y.id => x = y
  BY <1>2 DEF U, TasksFit
<1>8. U \in SUBSET TaskShape
  BY <1>1 DEF U
<1> QED BY <1>4, <1>6, <1>7, <1>8 DEF TasksFit, U

LEMMA OneMoreRecord ==
  ASSUME NEW tasks, NEW R, RecordsFit(R, tasks), NEW e \in RecordShape, e.n = Cardinality(R) + 1,
         (e.task = -1 /\ e.section = "deals") \/ \E t \in tasks : t.id = e.task
  PROVE  RecordsFit(R \cup {e}, tasks)
<1> DEFINE n == Cardinality(R)
           U == R \cup {e}
<1>1. n \in Nat /\ IsFiniteSet(R) /\ R \in SUBSET RecordShape
  BY FS_CardinalityType DEF RecordsFit
<1>2. \A s \in R : s.n \in Nat /\ s.n <= n
  BY DEF RecordsFit, RecordShape
<1> HIDE DEF n
<1>3. e.n = n + 1 /\ \A s \in R : s.n < n + 1 /\ s.n # e.n
  <2>1. e.n = n + 1
    BY DEF n
  <2> QED BY <1>1, <1>2, <2>1
<1>4. IsFiniteSet(U) /\ Cardinality(U) = n + 1
  <2>1. e \notin R
    BY <1>3
  <2> QED BY <1>1, <2>1, FS_AddElement DEF n
<1>5. \A s \in U : s.n <= n + 1
  BY <1>1, <1>2, <1>3
<1>6. \A r, s \in U : r.n = s.n => r = s
  BY <1>3 DEF RecordsFit
<1>7. \A s \in U : (s.task = -1 /\ s.section = "deals") \/ \E t \in tasks : t.id = s.task
  BY DEF RecordsFit
<1> HIDE DEF U
<1>8. U \in SUBSET RecordShape
  BY <1>1 DEF U
<1> QED BY <1>4, <1>5, <1>6, <1>7, <1>8 DEF RecordsFit, U

(* The records of a portal whose tasks keep their numbers.                 *)
LEMMA TasksKeepNumbers ==
  ASSUME NEW R, NEW T, NEW U, RecordsFit(R, T), \A t \in T : \E u \in U : u.id = t.id
  PROVE  RecordsFit(R, U)
<1>1. \A e \in R : (e.task = -1 /\ e.section = "deals") \/ \E u \in U : u.id = e.task
  BY DEF RecordsFit
<1> QED BY <1>1 DEF RecordsFit

LEMMA CreateTaskKeeps == ActivityInv /\ CreateTask => WorldFits'
<1> SUFFICES ASSUME ActivityInv, CreateTask PROVE WorldFits'
  OBVIOUS
<1>1. PICK p \in Boards, u \in People, deadline \in {None, now} :
        Change(world.tasks \cup
                 {[project |-> p, id |-> Cardinality(world.tasks) + 1, status |-> "pending",
                   stage |-> None, created |-> now, started |-> None, closed |-> None,
                   deadline |-> deadline, responsible |-> u]},
               world.entries, world.meetings)
  BY DEF CreateTask
<1> DEFINE k == Cardinality(world.tasks) + 1
<1>2. k \in Nat \ {0}
  BY FS_CardinalityType DEF ActivityInv, WorldFits, TasksFit
<1>3. now \in Int
  BY DEF ActivityInv, CalendarInv
<1>4. PICK t : t = [project |-> p, id |-> k, status |-> "pending",
                    stage |-> None, created |-> now, started |-> None, closed |-> None,
                    deadline |-> deadline, responsible |-> u]
  OBVIOUS
<1>5. Change(world.tasks \cup {t}, world.entries, world.meetings) /\ t.id = k
  BY <1>1, <1>4
<1>6. t \in TaskShape
  <2> HIDE DEF k
  <2> QED BY <1>2, <1>3, <1>4 DEF TaskShape
<1>7. TasksFit(world.tasks \cup {t})
  BY <1>5, <1>6, OneMoreTask DEF ActivityInv, WorldFits
<1>8. RecordsFit(world.entries, world.tasks \cup {t})
  BY TasksKeepNumbers DEF ActivityInv, WorldFits
<1> QED BY <1>5, <1>7, <1>8, ChangeIs DEF ActivityInv, WorldFits

LEMMA ReplaceKeeps ==
  ASSUME ActivityInv, NEW t \in world.tasks, NEW s \in TaskShape, s.id = t.id, Replace(t, s)
  PROVE  WorldFits'
<1> DEFINE U == (world.tasks \ {t}) \cup {s}
<1>1. Change(U, world.entries, world.meetings)
  BY DEF Replace
<1>2. TasksFit(U)
  BY TaskReplaced DEF ActivityInv, WorldFits
<1>3. \A x \in world.tasks : \E u \in U : u.id = x.id
  OBVIOUS
<1> HIDE DEF U
<1>4. RecordsFit(world.entries, U)
  BY <1>3, TasksKeepNumbers DEF ActivityInv, WorldFits
<1> QED BY <1>1, <1>2, <1>4, ChangeIs DEF ActivityInv, WorldFits

LEMMA TaskChangesKeep == ActivityInv /\ (StartTask \/ CloseTask \/ ReopenTask) => WorldFits'
<1> SUFFICES ASSUME ActivityInv, StartTask \/ CloseTask \/ ReopenTask PROVE WorldFits'
  OBVIOUS
<1>0. now \in Int /\ \A t \in world.tasks : t \in TaskShape
  BY DEF ActivityInv, CalendarInv, WorldFits, TasksFit
<1>1. CASE StartTask
  <2>1. PICK t \in world.tasks :
          Replace(t, [t EXCEPT !.started = now, !.status = "progress", !.stage = "board"])
    BY <1>1 DEF StartTask
  <2>2. PICK s : s = [t EXCEPT !.started = now, !.status = "progress", !.stage = "board"]
    OBVIOUS
  <2>3. s \in TaskShape /\ s.id = t.id
    BY <1>0, <2>2 DEF TaskShape
  <2> QED BY <2>1, <2>2, <2>3, ReplaceKeeps
<1>2. CASE CloseTask
  <2>1. PICK t \in world.tasks, status \in {Completed, Declined} :
          Replace(t, [t EXCEPT !.status = status, !.closed = now])
    BY <1>2 DEF CloseTask
  <2>2. PICK s : s = [t EXCEPT !.status = status, !.closed = now]
    OBVIOUS
  <2>3. s \in TaskShape /\ s.id = t.id
    BY <1>0, <2>2 DEF TaskShape
  <2> QED BY <2>1, <2>2, <2>3, ReplaceKeeps
<1>3. CASE ReopenTask
  <2>1. PICK t \in world.tasks : Replace(t, [t EXCEPT !.status = "pending", !.closed = None])
    BY <1>3 DEF ReopenTask
  <2>2. PICK s : s = [t EXCEPT !.status = "pending", !.closed = None]
    OBVIOUS
  <2>3. s \in TaskShape /\ s.id = t.id
    BY <1>0, <2>2 DEF TaskShape
  <2> QED BY <2>1, <2>2, <2>3, ReplaceKeeps
<1> QED BY <1>1, <1>2, <1>3

LEMMA LogKeeps ==
  ASSUME ActivityInv, NEW p \in Boards, NEW task \in Int, NEW section \in {None, "deals"},
         (task = -1 /\ section = "deals") \/ \E t \in world.tasks : t.id = task,
         Log(p, task, section)
  PROVE  WorldFits'
<1> DEFINE k == Cardinality(world.entries) + 1
<1>1. PICK u \in People, at \in {now, now - HoursPerDay} :
        Change(world.tasks,
               world.entries \cup {[project |-> p, task |-> task, section |-> section, n |-> k,
                                    user |-> u, seconds |-> k, at |-> at]},
               world.meetings)
  BY DEF Log
<1>2. k \in Nat \ {0}
  BY FS_CardinalityType DEF ActivityInv, WorldFits, RecordsFit
<1>3. at \in Int
  BY CalendarAssumption DEF ActivityInv, CalendarInv
<1>4. PICK e : e = [project |-> p, task |-> task, section |-> section, n |-> k,
                    user |-> u, seconds |-> k, at |-> at]
  OBVIOUS
<1>5. /\ Change(world.tasks, world.entries \cup {e}, world.meetings)
      /\ e.n = k /\ e.task = task /\ e.section = section
  BY <1>1, <1>4
<1>6. e \in RecordShape
  <2> HIDE DEF k
  <2> QED BY <1>2, <1>3, <1>4 DEF RecordShape
<1>7. RecordsFit(world.entries \cup {e}, world.tasks)
  BY <1>5, <1>6, OneMoreRecord DEF ActivityInv, WorldFits
<1> QED BY <1>5, <1>7, ChangeIs DEF ActivityInv, WorldFits

LEMMA LogTimeKeeps == ActivityInv /\ LogTime => WorldFits'
<1> SUFFICES ASSUME ActivityInv, LogTime PROVE WorldFits'
  OBVIOUS
<1>1. ASSUME NEW t \in world.tasks, Log(t.project, t.id, None) PROVE WorldFits'
  <2>1. t.project \in Boards /\ t.id \in Int
    BY DEF ActivityInv, WorldFits, TasksFit, TaskShape
  <2> QED BY <1>1, <2>1, LogKeeps
<1>2. ASSUME NEW p \in Boards, Log(p, -1, "deals") PROVE WorldFits'
  BY <1>2, LogKeeps
<1> QED BY <1>1, <1>2 DEF LogTime

LEMMA PlanMeetingKeeps == ActivityInv /\ PlanMeeting => WorldFits'
<1> SUFFICES ASSUME ActivityInv, PlanMeeting PROVE WorldFits'
  OBVIOUS
<1> DEFINE k == Cardinality(world.meetings) + 1
<1>1. PICK p \in Boards, who \in SUBSET People \ {{}}, start \in {now, now + 1} :
        Change(world.tasks, world.entries,
               world.meetings \cup {[project |-> p, id |-> k, start |-> start, seconds |-> 5,
                                     attendees |-> who]})
  BY DEF PlanMeeting
<1>2. k \in Nat
  BY FS_CardinalityType DEF ActivityInv, WorldFits, MeetingsFit
<1>3. start \in Int
  BY DEF ActivityInv, CalendarInv
<1>4. PICK m : m = [project |-> p, id |-> k, start |-> start, seconds |-> 5, attendees |-> who]
  OBVIOUS
<1>5. Change(world.tasks, world.entries, world.meetings \cup {m})
  BY <1>1, <1>4
<1>6. m \in MeetingShape
  <2> HIDE DEF k
  <2> QED BY <1>2, <1>3, <1>4 DEF MeetingShape
<1>7. MeetingsFit(world.meetings \cup {m})
  BY <1>6, FS_AddElement DEF ActivityInv, WorldFits, MeetingsFit
<1> QED BY <1>5, <1>7, ChangeIs DEF ActivityInv, WorldFits

LEMMA ActivityStays == ActivityInv /\ [ReportsNext]_reportVars => ActivityInv'
<1> SUFFICES ASSUME ActivityInv, [ReportsNext]_reportVars PROVE WorldFits'
  BY CalendarStays DEF ActivityInv
<1>1. ASSUME world' = world PROVE WorldFits'
  BY <1>1 DEF ActivityInv, WorldFits
<1>2. CASE Tick \/ LogMore \/ UNCHANGED reportVars
  BY <1>1, <1>2 DEF Tick, LogMore, reportVars
<1> QED
  BY <1>2, CreateTaskKeeps, TaskChangesKeep, LogTimeKeeps, PlanMeetingKeeps DEF ReportsNext

-----------------------------------------------------------------------------
(* The periods the analytics are asked for.                                *)

IsPeriod(w) ==
  \E from, after \in Int :
    after - from <= MaxPeriodDays /\ w = Window(Midnight(zone, from), Midnight(zone, after))

LEMMA WindowsArePeriods ==
  ASSUME CalendarInv, NEW w \in Windows
  PROVE  IsPeriod(w)
<1>1. KeepsDays(zone) /\ now \in Int /\ DayKey(zone, now) \in Int /\ MaxPeriodDays \in Nat
  BY DayBegins, CalendarAssumption DEF CalendarInv
<1>2. ASSUME NEW n \in DayCounts PROVE IsPeriod(AnalyticsPeriod(zone, DaysQuery(n), now))
  <2> DEFINE d == DayKey(zone, now)
             from == d - n + 1
             after == d + 1
  <2>1. n \in Int /\ 1 <= n /\ n <= MaxPeriodDays
    BY <1>1, ReportsAssumption
  <2>2. AnalyticsPeriod(zone, DaysQuery(n), now) = Window(Midnight(zone, from), Midnight(zone, after))
    BY <1>1, <2>1, LastDaysAre
  <2> HIDE DEF d
  <2>3. from \in Int /\ after \in Int /\ after - from <= MaxPeriodDays
    BY <1>1, <2>1 DEF d
  <2> HIDE DEF from, after
  <2> QED BY <2>2, <2>3 DEF IsPeriod
<1>3. IsPeriod(MonthPeriod(zone, MonthOf(DayKey(zone, now))))
  <2> DEFINE m == MonthOf(DayKey(zone, now))
  <2>1. m \in Int
    BY <1>1, MonthOfIs
  <2> HIDE DEF m
  <2>2. MonthPeriod(zone, m) = Window(Midnight(zone, FirstDay(m)), Midnight(zone, FirstDay(m + 1)))
    BY <1>1, <2>1, MonthPeriodIs
  <2>3. PICK i \in 1 .. MonthsPerYear :
          FirstDay(m + 1) = FirstDay(m) + MonthDays[i] /\ MonthDays[i] \in Nat \ {0}
    BY <2>1, NextMonthIs
  <2>4. FirstDay(m) \in Int /\ MonthDays[i] <= MaxPeriodDays
    BY <2>1, NextMonthIs, ReportsAssumption
  <2> DEFINE from == FirstDay(m)
             after == FirstDay(m + 1)
             long == MonthDays[i]
  <2> HIDE DEF from, after, long
  <2>5. from \in Int /\ long \in Nat /\ after = from + long /\ long <= MaxPeriodDays
    BY <2>3, <2>4 DEF from, after, long
  <2>6. after \in Int /\ after - from <= MaxPeriodDays
    BY <1>1, <2>5
  <2>7. MonthPeriod(zone, m) = Window(Midnight(zone, from), Midnight(zone, after))
    BY <2>2 DEF from, after
  <2> QED BY <2>5, <2>6, <2>7 DEF IsPeriod, m
<1> QED BY <1>2, <1>3 DEF Windows

(* An instant of a period is of one of its days.                           *)
LEMMA PeriodHasDays ==
  ASSUME CalendarInv, NEW w, IsPeriod(w)
  PROVE  /\ IsFiniteSet(DaysBetween(zone, w)) /\ ~InWindow(None, w)
         /\ \A u \in Int : InWindow(u, w) => DayKey(zone, u) \in DaysBetween(zone, w)
<1>1. PICK from, after \in Int :
        after - from <= MaxPeriodDays /\ w = Window(Midnight(zone, from), Midnight(zone, after))
  BY DEF IsPeriod
<1>2. KeepsDays(zone)
  BY DEF CalendarInv
<1>3. DaysBetween(zone, w) = from .. after - 1
  BY <1>1, <1>2, DaysOfPeriod
<1>4. IsFiniteSet(from .. after - 1)
  BY FS_Interval
<1>5. ASSUME NEW u \in Int, InWindow(u, w) PROVE DayKey(zone, u) \in from .. after - 1
  <2>1. from <= DayKey(zone, u) /\ DayKey(zone, u) < after /\ DayKey(zone, u) \in Int
    BY <1>1, <1>2, <1>5, WindowOfDays, DayBegins
  <2> QED BY <2>1
<1>6. ~InWindow(None, w)
  BY DEF InWindow
<1> QED BY <1>3, <1>4, <1>5, <1>6

-----------------------------------------------------------------------------
(* Figures and the lists behind them.                                      *)

LEMMA ActivityIs ==
  ASSUME ActivityInv
  PROVE  /\ IsFiniteSet(world.tasks) /\ \A t \in world.tasks : t \in TaskShape
         /\ IsTimed(world.entries) /\ \A e \in world.entries : e \in RecordShape
         /\ IsTimed(world.meetings) /\ \A m \in world.meetings : m \in MeetingShape
         /\ KeepsDays(zone) /\ now \in Int
<1>1. IsFiniteSet(world.tasks) /\ \A t \in world.tasks : t \in TaskShape
  BY DEF ActivityInv, WorldFits, TasksFit
<1>2. IsFiniteSet(world.entries) /\ \A e \in world.entries : e \in RecordShape
  BY DEF ActivityInv, WorldFits, RecordsFit
<1>3. IsFiniteSet(world.meetings) /\ \A m \in world.meetings : m \in MeetingShape
  BY DEF ActivityInv, WorldFits, MeetingsFit
<1>4. IsTimed(world.entries)
  BY <1>2 DEF IsTimed, RecordShape
<1>5. IsTimed(world.meetings)
  BY <1>3 DEF IsTimed, MeetingShape
<1> QED BY <1>1, <1>2, <1>3, <1>4, <1>5 DEF ActivityInv, CalendarInv

LEMMA PartIsTimed ==
  ASSUME NEW B, IsTimed(B), NEW S \in SUBSET B
  PROVE  IsTimed(S)
BY FS_Subset DEF IsTimed

LEMMA InPeriodAreTimed ==
  ASSUME ActivityInv, NEW w, NEW f
  PROVE  IsTimed(EntriesIn(world, w, f)) /\ IsTimed(HeldMeetings(world, w, now, f))
<1>1. EntriesIn(world, w, f) \in SUBSET world.entries
  BY DEF EntriesIn
<1>2. HeldMeetings(world, w, now, f) \in SUBSET world.meetings
  BY DEF HeldMeetings
<1>3. IsTimed(world.entries) /\ IsTimed(world.meetings)
  BY ActivityIs
<1> QED BY <1>1, <1>2, <1>3, PartIsTimed

CreatedIn(W, w, f) == { t \in W.tasks : TaskMatches(t, f) /\ InWindow(t.created, w) }

DoneDuring(W, w, f) == { t \in W.tasks : TaskMatches(t, f) /\ IsDoneIn(t, w) }

OpenNow(W, f) == { t \in W.tasks : TaskMatches(t, f) /\ IsOpen(t) }

LateNow(W, t, f) == { x \in W.tasks : TaskMatches(x, f) /\ Overdue(x, t) }

TouchedIn(W, w, f) == { t \in W.tasks : TaskMatches(t, f) /\ Touched(t, w) }

WorkedIn(W, w, f) ==
  { t \in W.tasks : (f.status = None \/ TaskStatusKey(t) = f.status) /\ WorkedOn(W, w, f, t) }

ShownIn(W, w, f) == { t \in W.tasks : TaskMatches(t, f) /\ (Touched(t, w) \/ WorkedOn(W, w, f, t)) }

LEMMA SummaryIs ==
  ASSUME NEW W, NEW w, NEW t, NEW f
  PROVE  /\ Summary(W, w, t, f).created = Cardinality(CreatedIn(W, w, f))
         /\ Summary(W, w, t, f).done = Cardinality(DoneDuring(W, w, f))
         /\ Summary(W, w, t, f).open = Cardinality(OpenNow(W, f))
         /\ Summary(W, w, t, f).overdue = Cardinality(LateNow(W, t, f))
         /\ Summary(W, w, t, f).taskSeconds = SecondsOf(EntriesIn(W, w, f))
         /\ Summary(W, w, t, f).meetingSeconds = SecondsOf(HeldMeetings(W, w, t, f))
         /\ Summary(W, w, t, f).totalSeconds
              = SecondsOf(EntriesIn(W, w, f)) + SecondsOf(HeldMeetings(W, w, t, f))
         /\ Summary(W, w, t, f).meetings = Cardinality(HeldMeetings(W, w, t, f))
<1> DEFINE mine == { x \in W.tasks : TaskMatches(x, f) }
           a == { x \in mine : InWindow(x.created, w) }
           b == { x \in mine : IsDoneIn(x, w) }
           c == { x \in mine : IsOpen(x) }
           d == { x \in mine : Overdue(x, t) }
<1>1. a = CreatedIn(W, w, f) /\ b = DoneDuring(W, w, f) /\ c = OpenNow(W, f) /\ d = LateNow(W, t, f)
  BY DEF CreatedIn, DoneDuring, OpenNow, LateNow
<1>2. /\ Summary(W, w, t, f).created = Cardinality(a)
      /\ Summary(W, w, t, f).done = Cardinality(b)
      /\ Summary(W, w, t, f).open = Cardinality(c)
      /\ Summary(W, w, t, f).overdue = Cardinality(d)
      /\ Summary(W, w, t, f).taskSeconds = SecondsOf(EntriesIn(W, w, f))
      /\ Summary(W, w, t, f).meetingSeconds = SecondsOf(HeldMeetings(W, w, t, f))
      /\ Summary(W, w, t, f).totalSeconds
           = SecondsOf(EntriesIn(W, w, f)) + SecondsOf(HeldMeetings(W, w, t, f))
      /\ Summary(W, w, t, f).meetings = Cardinality(HeldMeetings(W, w, t, f))
  BY DEF Summary
<1> HIDE DEF a, b, c, d
<1> QED BY <1>1, <1>2

Rows(w, f, keep) == { Row(world, w, f, t) : t \in keep }

LEMMA RowIs == \A W, w, f, t :
  Row(W, w, f, t).task = t /\ Row(W, w, f, t).seconds = TaskSeconds(W, w, f, t.id)
BY DEF Row

LEMMA RowsCount ==
  ASSUME NEW w, NEW f, NEW keep, IsFiniteSet(keep)
  PROVE  IsFiniteSet(Rows(w, f, keep)) /\ Cardinality(Rows(w, f, keep)) = Cardinality(keep)
<1> DEFINE row == [t \in keep |-> Row(world, w, f, t)]
<1>1. /\ row \in [keep -> Rows(w, f, keep)]
      /\ \A z \in Rows(w, f, keep) : \E t \in keep : row[t] = z
  BY DEF Rows
<1>2. \A s, t \in keep : row[s] = row[t] => s = t
  <2>1. \A t \in keep : row[t].task = t
    BY RowIs
  <2> HIDE DEF row
  <2> QED BY <2>1
<1> HIDE DEF row
<1> QED BY <1>1, <1>2, CountRenamed

(* The hours of listed tasks, where every task with hours is listed.       *)
LEMMA ListedHours ==
  ASSUME ActivityInv, NEW w, NEW f, NEW keep \in SUBSET world.tasks,
         \A t \in world.tasks : WorkedOn(world, w, f, t) => t \in keep
  PROVE  RowSeconds(Rows(w, f, keep)) = SecondsOf({ e \in EntriesIn(world, w, f) : e.task > 0 })
<1> DEFINE es == EntriesIn(world, w, f)
           S == { e \in es : e.task > 0 }
           part == [t \in keep |-> TaskSeconds(world, w, f, t.id)]
           of == [e \in S |-> CHOOSE t \in world.tasks : t.id = e.task]
           R == Rows(w, f, keep)
<1>1. IsTimed(es) /\ IsTimed(S)
  <2>1. IsTimed(es)
    BY InPeriodAreTimed
  <2> QED BY <2>1, PartIsTimed
<1>2. IsFiniteSet(keep)
  BY ActivityIs, FS_Subset
<1>3. \A t \in keep : part[t] \in Nat /\ t.id \in Nat \ {0}
  <2> TAKE t \in keep
  <2>1. { e \in es : e.task = t.id } \in SUBSET es
    OBVIOUS
  <2>2. SecondsOf({ e \in es : e.task = t.id }) \in Nat
    BY <1>1, <2>1, SecondsAre
  <2>3. t.id \in Nat \ {0}
    BY ActivityIs DEF TaskShape
  <2> QED BY <2>2, <2>3 DEF TaskSeconds
<1>4. \A e \in S : e \in world.entries /\ e.task > 0
  BY DEF EntriesIn
<1>5. ASSUME NEW e \in S
      PROVE  /\ of[e] \in keep /\ of[e].id = e.task
             /\ \A t \in world.tasks : of[e] = t <=> e.task = t.id
  <2>1. ~(e.task = -1)
    BY <1>4
  <2>2. \E t \in world.tasks : t.id = e.task
    BY <1>4, <2>1 DEF ActivityInv, WorldFits, RecordsFit
  <2>3. of[e] \in world.tasks /\ of[e].id = e.task
    BY <2>2
  <2>4. WorkedOn(world, w, f, of[e])
    <3>1. e \in es /\ of[e].id = e.task
      BY <2>3
    <3> HIDE DEF of
    <3> QED BY <3>1 DEF WorkedOn
  <2>5. of[e] \in keep
    BY <2>3, <2>4
  <2> HIDE DEF of
  <2>6. \A t \in world.tasks : of[e] = t <=> e.task = t.id
    BY <2>3 DEF ActivityInv, WorldFits, TasksFit
  <2> QED BY <2>3, <2>5, <2>6
<1> DEFINE cut == [t \in keep |-> { e \in S : of[e] = t }]
<1>6. \A t \in keep : part[t] = SecondsOf(cut[t])
  <2> TAKE t \in keep
  <2>1. { e \in es : e.task = t.id } = { e \in S : of[e] = t }
    <3>1. \A e \in es : e.task = t.id => e.task > 0
      BY <1>3
    <3>2. \A e \in S : of[e] = t <=> e.task = t.id
      BY <1>5
    <3> HIDE DEF es, of
    <3> QED BY <3>1, <3>2
  <2>2. part[t] = SecondsOf({ e \in es : e.task = t.id })
    BY DEF TaskSeconds
  <2> QED BY <2>1, <2>2
<1> HIDE DEF of
<1>7. SumOver(part, keep) = SecondsOf(S)
  <2>1. \A e \in S : of[e] \in keep
    BY <1>5
  <2>2. CutBy(cut, S, of, keep)
    BY DEF CutBy
  <2> HIDE DEF S, part, cut
  <2> QED BY <1>1, <1>2, <1>6, <2>1, <2>2, SecondsByParts
<1>8. SecondsOf(R) = SumOver(part, keep)
  <2>1. /\ IsFiniteSet(R)
        /\ \A r \in R : r.task \in keep /\ r.seconds = part[r.task] /\ r = Row(world, w, f, r.task)
    BY <1>2, RowsCount, RowIs DEF Rows
  <2>2. IsTimed(R)
    <3> HIDE DEF part, R
    <3> QED BY <1>3, <2>1 DEF IsTimed
  <2> DEFINE task == [r \in R |-> r.task]
  <2>3. task \in [R -> keep] /\ \A q, r \in R : task[q] = task[r] => q = r
    BY <2>1
  <2>4. \A t \in keep : \E r \in R : task[r] = t
    BY RowIs DEF Rows
  <2>5. \A r \in R : part[task[r]] = r.seconds
    BY <2>1
  <2> HIDE DEF task, part, R
  <2> QED BY <1>2, <2>2, <2>3, <2>4, <2>5, SecondsRenamed
<1>9. RowSeconds(R) = SecondsOf(R)
  BY RowSecondsAre
<1> HIDE DEF S, R
<1> QED BY <1>7, <1>8, <1>9 DEF S, R

LEMMA ListsAre ==
  ASSUME NEW w, NEW f
  PROVE  /\ DrillTasks(world, w, now, "touched", f) = Rows(w, f, TouchedIn(world, w, f))
         /\ DrillTasks(world, w, now, "created", f) = Rows(w, f, CreatedIn(world, w, f))
         /\ DrillTasks(world, w, now, "done", f) = Rows(w, f, DoneDuring(world, w, f))
         /\ DrillTasks(world, w, now, "open", f) = Rows(w, f, OpenNow(world, f))
         /\ DrillTasks(world, w, now, "overdue", f) = Rows(w, f, LateNow(world, now, f))
         /\ DrillTasks(world, w, now, "worked", f) = Rows(w, f, WorkedIn(world, w, f))
         /\ TaskRows(world, w, f) = Rows(w, f, ShownIn(world, w, f))
<1> DEFINE Kept(view) ==
        { t \in world.tasks :
            CASE view = "touched" -> TaskMatches(t, f) /\ Touched(t, w)
              [] view = "created" -> TaskMatches(t, f) /\ InWindow(t.created, w)
              [] view = "done" -> TaskMatches(t, f) /\ IsDoneIn(t, w)
              [] view = "open" -> TaskMatches(t, f) /\ IsOpen(t)
              [] view = "overdue" -> TaskMatches(t, f) /\ Overdue(t, now)
              [] view = "worked" -> /\ f.status = None \/ TaskStatusKey(t) = f.status
                                    /\ WorkedOn(world, w, f, t)
              [] OTHER -> FALSE }
<1>1. \A view : view # "all" => DrillTasks(world, w, now, view, f) = Rows(w, f, Kept(view))
  BY DEF DrillTasks, Rows
<1>2. /\ Kept("touched") = TouchedIn(world, w, f)
      /\ Kept("created") = CreatedIn(world, w, f)
      /\ Kept("done") = DoneDuring(world, w, f)
      /\ Kept("open") = OpenNow(world, f)
      /\ Kept("overdue") = LateNow(world, now, f)
      /\ Kept("worked") = WorkedIn(world, w, f)
  BY DEF TouchedIn, CreatedIn, DoneDuring, OpenNow, LateNow, WorkedIn
<1>3. TaskRows(world, w, f) = Rows(w, f, ShownIn(world, w, f))
  BY DEF TaskRows, Rows, ShownIn
<1> HIDE DEF Kept
<1> QED BY <1>1, <1>2, <1>3

LEMMA JournalHours ==
  ASSUME ActivityInv, NEW w, NEW f
  PROVE  JournalSeconds(JournalRows(world, w, f)) = SecondsOf(EntriesIn(world, w, f))
<1> DEFINE es == EntriesIn(world, w, f)
           R == JournalRows(world, w, f)
           row == [e \in es |-> [entry |-> e, tasks |-> { t \in world.tasks : t.id = e.task }]]
           b == RowTaken(R)
<1>1. IsTimed(es)
  BY InPeriodAreTimed
<1>2. /\ row \in [es -> R] /\ \A z \in R : \E e \in es : row[e] = z
      /\ \A e \in es : row[e].entry = e /\ row[e] \in R
  BY DEF JournalRows
<1>3. \A d, e \in es : row[d] = row[e] => d = e
  <2> HIDE DEF row, R, es
  <2> QED BY <1>2
<1>4. \A e \in es : b[row[e]] = e.seconds
  BY <1>2 DEF RowTaken
<1>5. \A r \in R : r.entry \in es
  BY DEF JournalRows
<1> HIDE DEF es, R, row
<1>6. IsFiniteSet(R)
  <2>1. IsFiniteSet(es)
    BY <1>1 DEF IsTimed
  <2> QED BY <1>2, <1>3, <2>1, CountRenamed
<1>7. JournalSeconds(R) = SumOver(b, R)
  <2>1. \A r \in R : r.entry.seconds \in Nat
    BY <1>1, <1>5 DEF IsTimed
  <2> QED BY <1>6, <2>1, JournalSecondsAre
<1>8. SumOver(b, R) = SecondsOf(es)
  <2> HIDE DEF b
  <2> QED BY <1>1, <1>2, <1>3, <1>4, <1>6, SecondsRenamed
<1> QED BY <1>7, <1>8 DEF es, R

LEMMA HeldAreListed ==
  ASSUME ActivityInv, NEW w, NEW f
  PROVE  Cardinality(HeldMeetings(world, w, now, f))
           = Cardinality({ r \in MeetingRows(world, w, now, f) : r.held })
<1> DEFINE ms == HeldMeetings(world, w, now, f)
           R == { r \in MeetingRows(world, w, now, f) : r.held }
           row == [m \in ms |-> [meeting |-> m, held |-> m.start <= now]]
<1>1. IsFiniteSet(ms)
  BY InPeriodAreTimed DEF IsTimed
<1>2. \A m \in ms : row[m] \in R /\ row[m].meeting = m
  BY DEF HeldMeetings, MeetingRows
<1>3. \A z \in R : \E m \in ms : row[m] = z
  <2> TAKE z \in R
  <2>1. PICK m \in world.meetings :
          InWindow(m.start, w) /\ Attends(m, f) /\ z = [meeting |-> m, held |-> m.start <= now]
    BY DEF MeetingRows
  <2>2. m.start <= now
    BY <2>1
  <2>3. m \in ms
    BY <2>1, <2>2 DEF HeldMeetings
  <2> QED BY <2>1, <2>3
<1>4. DOMAIN row = ms /\ row = [m \in ms |-> row[m]]
  OBVIOUS
<1> HIDE DEF row, R, ms
<1>5. row \in [ms -> R] /\ \A l, m \in ms : row[l] = row[m] => l = m
  BY <1>2, <1>4
<1>6. Cardinality(R) = Cardinality(ms)
  BY <1>1, <1>3, <1>5, CountRenamed
<1> QED BY <1>6 DEF R, ms

LEMMA ListsMatch == ActivityInv => ListMatchesFigure
<1> SUFFICES ASSUME ActivityInv, NEW w \in Windows, NEW f \in Filters
    PROVE  LET s == Summary(world, w, now, f)
               Listed(view) == Cardinality(DrillTasks(world, w, now, view, f))
           IN  /\ s.created = Listed("created") /\ s.done = Listed("done")
               /\ s.open = Listed("open") /\ s.overdue = Listed("overdue")
               /\ s.meetings = Cardinality({ r \in MeetingRows(world, w, now, f) : r.held })
               /\ s.taskSeconds = JournalSeconds(JournalRows(world, w, f))
               /\ f.status = None =>
                    RowSeconds(DrillTasks(world, w, now, "worked", f))
                      = SecondsOf({ e \in EntriesIn(world, w, f) : e.task > 0 })
               /\ f = NoFilter =>
                    RowSeconds(TaskRows(world, w, f))
                      = SecondsOf({ e \in EntriesIn(world, w, f) : e.task > 0 })
  BY DEF ListMatchesFigure
<1> DEFINE s == Summary(world, w, now, f)
           Listed(view) == Cardinality(DrillTasks(world, w, now, view, f))
<1>1. \A keep \in SUBSET world.tasks : Cardinality(Rows(w, f, keep)) = Cardinality(keep)
  BY ActivityIs, FS_Subset, RowsCount
<1>2. /\ CreatedIn(world, w, f) \in SUBSET world.tasks
      /\ DoneDuring(world, w, f) \in SUBSET world.tasks
      /\ OpenNow(world, f) \in SUBSET world.tasks
      /\ LateNow(world, now, f) \in SUBSET world.tasks
  BY DEF CreatedIn, DoneDuring, OpenNow, LateNow
<1>3. /\ s.created = Listed("created") /\ s.done = Listed("done")
      /\ s.open = Listed("open") /\ s.overdue = Listed("overdue")
  BY <1>1, <1>2, SummaryIs, ListsAre
<1>4. s.meetings = Cardinality({ r \in MeetingRows(world, w, now, f) : r.held })
  <2>1. s.meetings = Cardinality(HeldMeetings(world, w, now, f))
    BY SummaryIs
  <2>2. Cardinality(HeldMeetings(world, w, now, f))
          = Cardinality({ r \in MeetingRows(world, w, now, f) : r.held })
    BY HeldAreListed
  <2> QED BY <2>1, <2>2
<1>5. s.taskSeconds = JournalSeconds(JournalRows(world, w, f))
  <2>1. s.taskSeconds = SecondsOf(EntriesIn(world, w, f))
    BY SummaryIs
  <2>2. JournalSeconds(JournalRows(world, w, f)) = SecondsOf(EntriesIn(world, w, f))
    BY JournalHours
  <2> QED BY <2>1, <2>2
<1>6. ASSUME f.status = None
      PROVE  RowSeconds(DrillTasks(world, w, now, "worked", f))
               = SecondsOf({ e \in EntriesIn(world, w, f) : e.task > 0 })
  <2> DEFINE keep == WorkedIn(world, w, f)
  <2>1. keep \in SUBSET world.tasks /\ \A t \in world.tasks : WorkedOn(world, w, f, t) => t \in keep
    BY <1>6 DEF WorkedIn
  <2>2. DrillTasks(world, w, now, "worked", f) = Rows(w, f, keep)
    BY ListsAre
  <2> HIDE DEF keep
  <2>3. RowSeconds(Rows(w, f, keep)) = SecondsOf({ e \in EntriesIn(world, w, f) : e.task > 0 })
    BY <2>1, ListedHours
  <2> QED BY <2>2, <2>3
<1>7. ASSUME f = NoFilter
      PROVE  RowSeconds(TaskRows(world, w, f)) = SecondsOf({ e \in EntriesIn(world, w, f) : e.task > 0 })
  <2> DEFINE keep == ShownIn(world, w, f)
  <2>1. \A t \in world.tasks : TaskMatches(t, f)
    BY <1>7 DEF TaskMatches, NoFilter
  <2>2. keep \in SUBSET world.tasks /\ \A t \in world.tasks : WorkedOn(world, w, f, t) => t \in keep
    BY <2>1 DEF ShownIn
  <2>3. TaskRows(world, w, f) = Rows(w, f, keep)
    BY ListsAre
  <2> HIDE DEF keep
  <2>4. RowSeconds(Rows(w, f, keep)) = SecondsOf({ e \in EntriesIn(world, w, f) : e.task > 0 })
    BY <2>2, ListedHours
  <2> QED BY <2>3, <2>4
<1> QED BY <1>3, <1>4, <1>5, <1>6, <1>7

-----------------------------------------------------------------------------
(* Figures and what they break down into.                                  *)

RecordsOn(w, f, d) == { e \in EntriesIn(world, w, f) : DayKey(zone, e.at) = d }

MeetingsOn(w, f, d) == { m \in HeldMeetings(world, w, now, f) : DayKey(zone, m.start) = d }

CreatedOn(w, f, d) == { t \in CreatedIn(world, w, f) : DayKey(zone, t.created) = d }

ClosedOn(w, f, d) == { t \in DoneDuring(world, w, f) : DayKey(zone, t.closed) = d }

LEMMA SeriesIs ==
  ASSUME NEW w, NEW f
  PROVE  /\ DOMAIN DailySeries(world, zone, w, now, f) = DaysBetween(zone, w)
         /\ \A d \in DaysBetween(zone, w) :
              LET row == DailySeries(world, zone, w, now, f)[d] IN
                /\ row.taskSeconds = SecondsOf(RecordsOn(w, f, d))
                /\ row.meetingSeconds = SecondsOf(MeetingsOn(w, f, d))
                /\ row.created = Cardinality(CreatedOn(w, f, d))
                /\ row.closed = Cardinality(ClosedOn(w, f, d))
<1> DEFINE mine == { t \in world.tasks : TaskMatches(t, f) }
           a(d) == { e \in EntriesIn(world, w, f) : OnDay(zone, e.at, d) }
           b(d) == { m \in HeldMeetings(world, w, now, f) : OnDay(zone, m.start, d) }
           c(d) == { t \in mine : InWindow(t.created, w) /\ OnDay(zone, t.created, d) }
           k(d) == { t \in mine : IsDoneIn(t, w) /\ OnDay(zone, t.closed, d) }
<1>1. \A d : /\ a(d) = RecordsOn(w, f, d) /\ b(d) = MeetingsOn(w, f, d)
             /\ c(d) = CreatedOn(w, f, d) /\ k(d) = ClosedOn(w, f, d)
  BY DEF OnDay, RecordsOn, MeetingsOn, CreatedOn, ClosedOn, CreatedIn, DoneDuring
<1>2. DailySeries(world, zone, w, now, f)
        = [d \in DaysBetween(zone, w) |->
             [taskSeconds |-> SecondsOf(a(d)), meetingSeconds |-> SecondsOf(b(d)),
              created |-> Cardinality(c(d)), closed |-> Cardinality(k(d))]]
  BY DEF DailySeries
<1> HIDE DEF a, b, c, k
<1> QED BY <1>1, <1>2

LEMMA ChartOfDaysAddsUp ==
  ASSUME ActivityInv, NEW w, IsPeriod(w), NEW f
  PROVE  LET s == Summary(world, w, now, f)
             series == DailySeries(world, zone, w, now, f)
         IN  /\ s.taskSeconds = Added(series, "taskSeconds")
             /\ s.meetingSeconds = Added(series, "meetingSeconds")
             /\ s.created = Added(series, "created") /\ s.done = Added(series, "closed")
<1> DEFINE s == Summary(world, w, now, f)
           series == DailySeries(world, zone, w, now, f)
           days == DaysBetween(zone, w)
           of(k) == Column(series, k)
<1>0. /\ IsFiniteSet(days) /\ ~InWindow(None, w)
      /\ \A u \in Int : InWindow(u, w) => DayKey(zone, u) \in days
  BY PeriodHasDays DEF ActivityInv
<1>1. DOMAIN series = days
  BY SeriesIs
<1>2. \A k : Added(series, k) = SumOver(of(k), days)
  <2> HIDE DEF days, series
  <2> QED BY <1>0, <1>1, AddedIs
<1>3. \A d \in days :
        /\ of("taskSeconds")[d] = SecondsOf(RecordsOn(w, f, d))
        /\ of("meetingSeconds")[d] = SecondsOf(MeetingsOn(w, f, d))
        /\ of("created")[d] = Cardinality(CreatedOn(w, f, d))
        /\ of("closed")[d] = Cardinality(ClosedOn(w, f, d))
  <2> HIDE DEF series
  <2>1. \A d \in days :
          /\ series[d].taskSeconds = SecondsOf(RecordsOn(w, f, d))
          /\ series[d].meetingSeconds = SecondsOf(MeetingsOn(w, f, d))
          /\ series[d].created = Cardinality(CreatedOn(w, f, d))
          /\ series[d].closed = Cardinality(ClosedOn(w, f, d))
    BY SeriesIs DEF series
  <2> QED BY <1>1, <2>1 DEF Column
<1>4. s.taskSeconds = SumOver(of("taskSeconds"), days)
  <2> DEFINE S == EntriesIn(world, w, f)
             at == [e \in S |-> DayKey(zone, e.at)]
             cut == [d \in days |-> RecordsOn(w, f, d)]
             part == of("taskSeconds")
  <2>1. IsTimed(S) /\ \A e \in S : at[e] \in days
    <3>1. \A e \in S : e.at \in Int /\ InWindow(e.at, w)
      BY ActivityIs DEF EntriesIn, RecordShape
    <3>2. \A e \in S : at[e] \in days
      <4> HIDE DEF S, days
      <4> QED BY <1>0, <3>1
    <3> QED BY <3>2, InPeriodAreTimed
  <2>2. CutBy(cut, S, at, days) /\ \A d \in days : part[d] = SecondsOf(cut[d])
    BY <1>3 DEF CutBy, RecordsOn
  <2>3. s.taskSeconds = SecondsOf(S)
    BY SummaryIs
  <2> HIDE DEF S, at, cut, part, days
  <2>4. SumOver(part, days) = SecondsOf(S)
    BY <1>0, <2>1, <2>2, SecondsByParts
  <2> QED BY <2>3, <2>4 DEF part
<1>5. s.meetingSeconds = SumOver(of("meetingSeconds"), days)
  <2> DEFINE S == HeldMeetings(world, w, now, f)
             at == [m \in S |-> DayKey(zone, m.start)]
             cut == [d \in days |-> MeetingsOn(w, f, d)]
             part == of("meetingSeconds")
  <2>1. IsTimed(S) /\ \A m \in S : at[m] \in days
    <3>1. \A m \in S : m.start \in Int /\ InWindow(m.start, w)
      BY ActivityIs DEF HeldMeetings, MeetingShape
    <3>2. \A m \in S : at[m] \in days
      <4> HIDE DEF S, days
      <4> QED BY <1>0, <3>1
    <3> QED BY <3>2, InPeriodAreTimed
  <2>2. CutBy(cut, S, at, days) /\ \A d \in days : part[d] = SecondsOf(cut[d])
    BY <1>3 DEF CutBy, MeetingsOn
  <2>3. s.meetingSeconds = SecondsOf(S)
    BY SummaryIs
  <2> HIDE DEF S, at, cut, part, days
  <2>4. SumOver(part, days) = SecondsOf(S)
    BY <1>0, <2>1, <2>2, SecondsByParts
  <2> QED BY <2>3, <2>4 DEF part
<1>6. s.created = SumOver(of("created"), days)
  <2> DEFINE S == CreatedIn(world, w, f)
             at == [t \in S |-> DayKey(zone, t.created)]
             cut == [d \in days |-> CreatedOn(w, f, d)]
             part == of("created")
  <2>1. IsFiniteSet(S) /\ \A t \in S : at[t] \in days
    <3>1. S \in SUBSET world.tasks /\ \A t \in S : t.created \in Int /\ InWindow(t.created, w)
      BY ActivityIs DEF CreatedIn, TaskShape
    <3>2. \A t \in S : at[t] \in days
      <4> HIDE DEF S, days
      <4> QED BY <1>0, <3>1
    <3> QED BY <3>1, <3>2, ActivityIs, FS_Subset
  <2>2. CutBy(cut, S, at, days) /\ \A d \in days : part[d] = Cardinality(cut[d])
    BY <1>3 DEF CutBy, CreatedOn
  <2>3. s.created = Cardinality(S)
    BY SummaryIs
  <2> HIDE DEF S, at, cut, part, days
  <2>4. SumOver(part, days) = Cardinality(S)
    BY <1>0, <2>1, <2>2, CountByParts
  <2> QED BY <2>3, <2>4 DEF part
<1>7. s.done = SumOver(of("closed"), days)
  <2> DEFINE S == DoneDuring(world, w, f)
             at == [t \in S |-> DayKey(zone, t.closed)]
             cut == [d \in days |-> ClosedOn(w, f, d)]
             part == of("closed")
  <2>1. IsFiniteSet(S) /\ \A t \in S : at[t] \in days
    <3>1. S \in SUBSET world.tasks /\ \A t \in S : t.closed \in Int \cup {None} /\ InWindow(t.closed, w)
      BY ActivityIs DEF DoneDuring, IsDoneIn, TaskShape
    <3>2. \A t \in S : at[t] \in days
      <4> HIDE DEF S, days
      <4> QED BY <1>0, <3>1
    <3> QED BY <3>1, <3>2, ActivityIs, FS_Subset
  <2>2. CutBy(cut, S, at, days) /\ \A d \in days : part[d] = Cardinality(cut[d])
    BY <1>3 DEF CutBy, ClosedOn
  <2>3. s.done = Cardinality(S)
    BY SummaryIs
  <2> HIDE DEF S, at, cut, part, days
  <2>4. SumOver(part, days) = Cardinality(S)
    BY <1>0, <2>1, <2>2, CountByParts
  <2> QED BY <2>3, <2>4 DEF part
<1> HIDE DEF s, series, of, days
<1>8. /\ s.taskSeconds = Added(series, "taskSeconds")
      /\ s.meetingSeconds = Added(series, "meetingSeconds")
      /\ s.created = Added(series, "created") /\ s.done = Added(series, "closed")
  BY <1>2, <1>4, <1>5, <1>6, <1>7
<1> QED BY <1>8 DEF s, series

LEMMA SourcesAre ==
  ASSUME ActivityInv, NEW e \in world.entries
  PROVE  SourceOf(e) \in {"tasks", "deals"}
<1>1. CASE e.task = -1 /\ e.section = "deals"
  BY <1>1 DEF SourceOf
<1>2. CASE \E t \in world.tasks : t.id = e.task
  <2>1. e.task \in Nat \ {0}
    BY <1>2, ActivityIs DEF TaskShape
  <2>2. ~(e.task < 0)
    BY <2>1
  <2> QED BY <2>2 DEF SourceOf
<1> QED BY <1>1, <1>2 DEF ActivityInv, WorldFits, RecordsFit

RecordsFrom(w, f, s) == { e \in EntriesIn(world, w, f) : SourceOf(e) = s }

SecondsFrom(w, f, s) ==
  IF s = "meetings" THEN SecondsOf(HeldMeetings(world, w, now, f)) ELSE SecondsOf(RecordsFrom(w, f, s))

SourcesIn(w, f) ==
  { s \in {"meetings"} \cup { SourceOf(e) : e \in EntriesIn(world, w, f) } : SecondsFrom(w, f, s) > 0 }

LEMMA BySourceIs ==
  ASSUME NEW w, NEW f
  PROVE  HoursBySource(world, w, now, f) = [s \in SourcesIn(w, f) |-> SecondsFrom(w, f, s)]
BY DEF HoursBySource, SourcesIn, SecondsFrom, RecordsFrom

LEMMA SourcesAddUp ==
  ASSUME ActivityInv, NEW w, NEW f
  PROVE  Total(HoursBySource(world, w, now, f)) = Summary(world, w, now, f).totalSeconds
<1> DEFINE es == EntriesIn(world, w, f)
           ms == HeldMeetings(world, w, now, f)
           own == {"tasks", "deals"}
           every == own \cup {"meetings"}
           shown == SourcesIn(w, f)
           from == [s \in every |-> SecondsFrom(w, f, s)]
           table == HoursBySource(world, w, now, f)
           cut == [s \in own |-> RecordsFrom(w, f, s)]
           source == [e \in es |-> SourceOf(e)]
<1>1. IsTimed(es) /\ IsTimed(ms) /\ SecondsOf(ms) \in Nat
  <2>1. IsTimed(es) /\ IsTimed(ms)
    BY InPeriodAreTimed
  <2>2. ms \in SUBSET ms
    OBVIOUS
  <2> HIDE DEF es, ms
  <2> QED BY <2>1, <2>2, SecondsAre
<1>2. \A e \in es : e \in world.entries /\ source[e] \in own
  BY SourcesAre DEF EntriesIn
<1>3. CutBy(cut, es, source, own) /\ \A s \in own : from[s] = SecondsOf(cut[s])
  BY DEF CutBy, RecordsFrom, SecondsFrom
<1>4. \A s \in own : from[s] \in Nat
  <2> TAKE s \in own
  <2>1. cut[s] \in SUBSET es
    BY DEF RecordsFrom
  <2> HIDE DEF es, cut, from, own
  <2> QED BY <1>1, <1>3, <2>1, SecondsAre
<1>5. from["meetings"] = SecondsOf(ms)
  BY DEF SecondsFrom
<1>6. IsFiniteSet(own) /\ IsFiniteSet(every)
  <2>1. IsFiniteSet({}) /\ own = ({} \cup {"tasks"}) \cup {"deals"}
    BY FS_EmptySet
  <2>2. IsFiniteSet(own)
    BY <2>1, FS_AddElement
  <2> HIDE DEF own
  <2> QED BY <2>2, FS_AddElement
<1>7. SumOver(from, own) = SecondsOf(es)
  <2> HIDE DEF es, own, from, cut, source
  <2> QED BY <1>1, <1>2, <1>3, <1>6, SecondsByParts
<1>8. SumOver(from, every) = SecondsOf(ms) + SecondsOf(es)
  <2>1. every \ {"meetings"} = own /\ "meetings" \in every
    OBVIOUS
  <2>2. \A s \in every : from[s] \in Int
    <3> HIDE DEF from, ms
    <3> QED BY <1>1, <1>4, <1>5
  <2> HIDE DEF every, own, from, es, ms
  <2>3. SumOver(from, every) = from["meetings"] + SumOver(from, every \ {"meetings"})
    BY <1>6, <2>1, <2>2, TotalTakesAny
  <2> QED BY <1>5, <1>7, <2>1, <2>3
<1>9. shown \in SUBSET every /\ \A s \in every \ shown : from[s] = 0
  <2>1. shown \in SUBSET every
    BY <1>2 DEF SourcesIn
  <2>2. ASSUME NEW s \in every, s \notin shown PROVE from[s] = 0
    <3>1. CASE s = "meetings"
      <4>1. ~(from[s] > 0)
        BY <2>2, <3>1 DEF SourcesIn
      <4> HIDE DEF from
      <4> QED BY <1>1, <1>5, <3>1, <4>1
    <3>2. CASE s \in own /\ s \in { SourceOf(e) : e \in es }
      <4>1. ~(from[s] > 0)
        BY <2>2, <3>2 DEF SourcesIn
      <4> HIDE DEF from, own
      <4> QED BY <1>4, <3>2, <4>1
    <3>3. CASE s \in own /\ s \notin { SourceOf(e) : e \in es }
      <4>1. cut[s] = {}
        BY <3>3 DEF RecordsFrom
      <4> HIDE DEF from, own, cut
      <4> QED BY <1>3, <3>3, <4>1, SecondsOfNone
    <3> QED BY <3>1, <3>2, <3>3
  <2> QED BY <2>1, <2>2
<1>10. \A s \in every : from[s] \in Int
  <2> HIDE DEF from, ms
  <2> QED BY <1>1, <1>4, <1>5
<1>11. SumOver(from, every) = SumOver(from, shown)
  <2> HIDE DEF every, from, shown
  <2> QED BY <1>6, <1>9, <1>10, TotalWithoutZeros
<1>12. Total(table) = SumOver(table, shown)
  <2>1. DOMAIN table = shown
    BY BySourceIs
  <2> HIDE DEF table, shown
  <2> QED BY <2>1, TotalIsAdded
<1>13. SumOver(table, shown) = SumOver(from, shown)
  <2>1. \A s \in shown : table[s] = from[s]
    <3>1. \A s \in shown : table[s] = SecondsFrom(w, f, s)
      BY BySourceIs
    <3>2. \A s \in shown : from[s] = SecondsFrom(w, f, s)
      BY <1>9
    <3> HIDE DEF table, from
    <3> QED BY <3>1, <3>2
  <2>2. IsFiniteSet(shown)
    <3> HIDE DEF shown, every
    <3> QED BY <1>6, <1>9, FS_Subset
  <2> HIDE DEF table, shown, from
  <2> QED BY <2>1, <2>2, TotalAgrees
<1>14. Summary(world, w, now, f).totalSeconds = SecondsOf(es) + SecondsOf(ms)
  BY SummaryIs
<1>15. SecondsOf(es) \in Nat
  <2>1. es \in SUBSET es
    OBVIOUS
  <2> HIDE DEF es
  <2> QED BY <1>1, <2>1, SecondsAre
<1> HIDE DEF es, ms, table, from, shown, every
<1> QED BY <1>1, <1>8, <1>11, <1>12, <1>13, <1>14, <1>15 DEF table

LEMMA StatusesAddUp ==
  ASSUME ActivityInv, NEW w, NEW f
  PROVE  Total(StatusSplit(world, w, f)) = Cardinality(DrillTasks(world, w, now, "touched", f))
<1> DEFINE S == TouchedIn(world, w, f)
           J == { TaskStatusKey(t) : t \in S }
           key == [t \in S |-> TaskStatusKey(t)]
           cut == [k \in J |-> { t \in S : TaskStatusKey(t) = k }]
           table == StatusSplit(world, w, f)
<1>1. IsFiniteSet(S)
  <2>1. S \in SUBSET world.tasks
    BY DEF TouchedIn
  <2> QED BY <2>1, ActivityIs, FS_Subset
<1>2. \A t \in S : key[t] \in J
  OBVIOUS
<1>3. CutBy(cut, S, key, J)
  BY DEF CutBy
<1>4. table = [k \in J |-> Cardinality(cut[k])]
  BY DEF StatusSplit, TouchedIn
<1>5. IsFiniteSet(J)
  <2>1. J = { key[t] : t \in S }
    OBVIOUS
  <2> HIDE DEF J, key
  <2> QED BY <1>1, <2>1, FiniteImage
<1>6. DOMAIN table = J /\ \A k \in J : table[k] = Cardinality(cut[k])
  <2> HIDE DEF table, J, cut
  <2> QED BY <1>4
<1> HIDE DEF J, key, cut, table
<1>7. Total(table) = SumOver(table, J)
  BY <1>6, TotalIsAdded
<1>8. SumOver(table, J) = Cardinality(S)
  <2> HIDE DEF S
  <2> QED BY <1>1, <1>2, <1>3, <1>5, <1>6, CountByParts
<1>9. Cardinality(DrillTasks(world, w, now, "touched", f)) = Cardinality(S)
  <2>1. DrillTasks(world, w, now, "touched", f) = Rows(w, f, S)
    BY ListsAre
  <2> HIDE DEF S
  <2> QED BY <1>1, <2>1, RowsCount
<1> QED BY <1>7, <1>8, <1>9 DEF table

LEMMA BreakdownsMatch == ActivityInv => BreakdownsAddUp
<1> SUFFICES ASSUME ActivityInv, NEW w \in Windows, NEW f \in Filters
    PROVE  LET s == Summary(world, w, now, f)
               series == DailySeries(world, zone, w, now, f)
           IN  /\ s.taskSeconds = Added(series, "taskSeconds")
               /\ s.meetingSeconds = Added(series, "meetingSeconds")
               /\ s.created = Added(series, "created") /\ s.done = Added(series, "closed")
               /\ Total(HoursBySource(world, w, now, f)) = s.totalSeconds
               /\ Total(StatusSplit(world, w, f))
                    = Cardinality(DrillTasks(world, w, now, "touched", f))
  BY DEF BreakdownsAddUp
<1>1. IsPeriod(w)
  BY WindowsArePeriods DEF ActivityInv
<1> QED BY <1>1, ChartOfDaysAddsUp, SourcesAddUp, StatusesAddUp

-----------------------------------------------------------------------------
(* The load of a person.                                                   *)

Only(u) == [employee |-> u, status |-> None]

RecordsOfProject(w, f, p) == { e \in EntriesIn(world, w, f) : e.project = p }

MeetingsOfProject(w, f, p) == { m \in HeldMeetings(world, w, now, f) : m.project = p }

LEMMA EmployeeRowIs ==
  ASSUME NEW w, NEW u
  PROVE  /\ EmployeeRow(world, w, now, u).taskSeconds = SecondsOf(EntriesIn(world, w, Only(u)))
         /\ EmployeeRow(world, w, now, u).meetingSeconds
              = SecondsOf(HeldMeetings(world, w, now, Only(u)))
         /\ EmployeeRow(world, w, now, u).totalSeconds
              = SecondsOf(EntriesIn(world, w, Only(u))) + SecondsOf(HeldMeetings(world, w, now, Only(u)))
BY DEF EmployeeRow, Only

LEMMA TeamIs ==
  ASSUME ActivityInv, NEW w
  PROVE  /\ DOMAIN TeamOverview(world, w, now, People) = People
         /\ \A u \in People : TeamOverview(world, w, now, People)[u] = EmployeeRow(world, w, now, u)
<1> DEFINE owners == { t.responsible : t \in world.tasks } \ {None}
           people == People \cup owners \cup { e.user : e \in world.entries }
                       \cup UNION { m.attendees : m \in world.meetings }
<1>1. owners \subseteq People
  BY ActivityIs DEF TaskShape
<1>2. { e.user : e \in world.entries } \subseteq People
  BY ActivityIs DEF RecordShape
<1>3. \A m \in world.meetings : m.attendees \subseteq People
  BY ActivityIs DEF MeetingShape
<1>4. UNION { m.attendees : m \in world.meetings } \subseteq People
  BY <1>3
<1>5. people = People
  BY <1>1, <1>2, <1>4
<1>6. TeamOverview(world, w, now, People) = [u \in people |-> EmployeeRow(world, w, now, u)]
  BY DEF TeamOverview
<1> HIDE DEF people
<1> QED BY <1>5, <1>6

LEMMA HoursOfPerson ==
  ASSUME NEW u \in People, NEW w
  PROVE  /\ EntriesIn(world, w, Only(u)) = { e \in EntriesIn(world, w, NoFilter) : e.user = u }
         /\ HeldMeetings(world, w, now, Only(u))
              = { m \in HeldMeetings(world, w, now, NoFilter) : u \in m.attendees }
<1>1. u # None /\ Only(u).employee = u /\ NoFilter.employee = None
  BY ReportsAssumption DEF Only, NoFilter
<1>2. \A e : (Only(u).employee = None \/ e.user = Only(u).employee) <=> e.user = u
  BY <1>1
<1>3. \A m : (Attends(m, Only(u)) <=> u \in m.attendees) /\ Attends(m, NoFilter)
  BY <1>1 DEF Attends
<1>4. EntriesIn(world, w, Only(u)) = { e \in EntriesIn(world, w, NoFilter) : e.user = u }
  BY <1>1, <1>2 DEF EntriesIn
<1>5. HeldMeetings(world, w, now, Only(u))
        = { m \in HeldMeetings(world, w, now, NoFilter) : u \in m.attendees }
  BY <1>3 DEF HeldMeetings
<1> QED BY <1>4, <1>5

LEMMA TeamHours ==
  ASSUME ActivityInv, NEW w
  PROVE  LET team == TeamOverview(world, w, now, People) IN
           /\ Added(team, "taskSeconds") = SecondsOf(EntriesIn(world, w, NoFilter))
           /\ Added(team, "meetingSeconds") = AttendedSeconds(HeldMeetings(world, w, now, NoFilter))
<1> DEFINE team == TeamOverview(world, w, now, People)
           es == EntriesIn(world, w, NoFilter)
           ms == HeldMeetings(world, w, now, NoFilter)
           task == Column(team, "taskSeconds")
           meet == Column(team, "meetingSeconds")
           cut == [u \in People |-> EntriesIn(world, w, Only(u))]
           by == [e \in es |-> e.user]
           who == [m \in ms |-> m.attendees]
           h == Taken(ms)
           part == [u \in People |-> { m \in ms : u \in m.attendees }]
<1>1. IsFiniteSet(People) /\ DOMAIN team = People
  BY TeamIs, ReportsAssumption
<1>2. \A u \in People :
        /\ task[u] = SecondsOf(EntriesIn(world, w, Only(u)))
        /\ meet[u] = SecondsOf(HeldMeetings(world, w, now, Only(u)))
  <2>1. \A u \in People : /\ team[u].taskSeconds = SecondsOf(EntriesIn(world, w, Only(u)))
                          /\ team[u].meetingSeconds = SecondsOf(HeldMeetings(world, w, now, Only(u)))
    BY TeamIs, EmployeeRowIs
  <2> HIDE DEF team
  <2> QED BY <1>1, <2>1 DEF Column
<1>3. IsTimed(es) /\ IsTimed(ms)
  BY InPeriodAreTimed
<1>4. \A k : Added(team, k) = SumOver(Column(team, k), People)
  <2> HIDE DEF team
  <2> QED BY <1>1, AddedIs
<1>5. SumOver(task, People) = SecondsOf(es)
  <2>1. \A e \in es : by[e] \in People
    BY ActivityIs DEF EntriesIn, RecordShape
  <2>2. CutBy(cut, es, by, People)
    BY HoursOfPerson DEF CutBy
  <2>3. \A u \in People : task[u] = SecondsOf(cut[u])
    BY <1>2
  <2> HIDE DEF task, es, cut, by
  <2> QED BY <1>1, <1>3, <2>1, <2>2, <2>3, SecondsByParts
<1>6. SumOver(meet, People) = AttendedSeconds(ms)
  <2>1. \A m \in ms : h[m] = m.seconds /\ who[m] = m.attendees /\ m \in world.meetings
    BY DEF Taken, HeldMeetings
  <2>2. \A m \in ms : h[m] \in Int /\ who[m] \in SUBSET People
    <3>1. \A m \in world.meetings : m.seconds \in Nat /\ m.attendees \in SUBSET People
      BY ActivityIs DEF MeetingShape
    <3> HIDE DEF ms, h, who
    <3> QED BY <2>1, <3>1
  <2>3. \A m \in ms : SpentIn(ms)[m] = h[m] * Cardinality(who[m])
    <3> HIDE DEF ms, h, who
    <3> QED BY <2>1 DEF SpentIn
  <2>4. SharedBy(part, ms, who, People) /\ \A u \in People : meet[u] = SumOver(h, part[u])
    <3>1. SharedBy(part, ms, who, People) /\ \A u \in People : part[u] \in SUBSET ms
      BY <2>1 DEF SharedBy
    <3>2. \A u \in People : meet[u] = SecondsOf(part[u])
      BY <1>2, HoursOfPerson
    <3> HIDE DEF part, meet, ms
    <3> QED BY <1>3, <3>1, <3>2, SecondsAre
  <2>5. IsFiniteSet(ms)
    BY <1>3 DEF IsTimed
  <2> HIDE DEF ms, h, who, meet, part
  <2>6. SumOver(meet, People) = SumOver(SpentIn(ms), ms)
    BY <1>1, <2>2, <2>3, <2>4, <2>5, TotalPerMember
  <2> QED BY <2>5, <2>6, AttendedAre
<1> HIDE DEF team, es, ms
<1> QED BY <1>4, <1>5, <1>6 DEF team, es, ms

LEMMA ProjectHours ==
  ASSUME NEW w, NEW f, NEW p
  PROVE  /\ EntriesIn(OfProject(world, p), w, f) = RecordsOfProject(w, f, p)
         /\ HeldMeetings(OfProject(world, p), w, now, f) = MeetingsOfProject(w, f, p)
<1>1. /\ OfProject(world, p).entries = { e \in world.entries : e.project = p }
      /\ OfProject(world, p).meetings = { m \in world.meetings : m.project = p }
  BY DEF OfProject
<1>2. EntriesIn(OfProject(world, p), w, f) = RecordsOfProject(w, f, p)
  BY <1>1 DEF EntriesIn, RecordsOfProject
<1>3. HeldMeetings(OfProject(world, p), w, now, f) = MeetingsOfProject(w, f, p)
  BY <1>1 DEF HeldMeetings, MeetingsOfProject
<1> QED BY <1>2, <1>3

ProjectsAtWork == { x.project : x \in world.tasks \cup world.entries \cup world.meetings }

Share(w, u, p) == Summary(OfProject(world, p), w, now, Only(u))

LEMMA SharesAre ==
  ASSUME NEW w, NEW u
  PROVE  ProjectShares(world, w, now, u)
           = [p \in { q \in ProjectsAtWork : Share(w, u, q).totalSeconds > 0 \/ Share(w, u, q).done > 0 }
                |-> Share(w, u, p)]
BY DEF ProjectShares, ProjectsAtWork, Share, Only

LEMMA SharesAddUp ==
  ASSUME ActivityInv, NEW w, NEW u
  PROVE  Added(ProjectShares(world, w, now, u), "totalSeconds")
           = SecondsOf(EntriesIn(world, w, Only(u))) + SecondsOf(HeldMeetings(world, w, now, Only(u)))
<1> DEFINE f == Only(u)
           es == EntriesIn(world, w, f)
           ms == HeldMeetings(world, w, now, f)
           P == ProjectsAtWork
           task == [p \in P |-> SecondsOf(RecordsOfProject(w, f, p))]
           meet == [p \in P |-> SecondsOf(MeetingsOfProject(w, f, p))]
           total == [p \in P |-> task[p] + meet[p]]
           taskCut == [p \in P |-> RecordsOfProject(w, f, p)]
           meetCut == [p \in P |-> MeetingsOfProject(w, f, p)]
           taskOf == [e \in es |-> e.project]
           meetOf == [m \in ms |-> m.project]
           shares == ProjectShares(world, w, now, u)
           shown == DOMAIN shares
           col == Column(shares, "totalSeconds")
<1>1. IsTimed(es) /\ IsTimed(ms)
  BY InPeriodAreTimed
<1>2. IsFiniteSet(P)
  <2> DEFINE all == world.tasks \cup world.entries \cup world.meetings
             of == [x \in all |-> x.project]
  <2>1. IsFiniteSet(all)
    <3>1. IsFiniteSet(world.tasks) /\ IsFiniteSet(world.entries) /\ IsFiniteSet(world.meetings)
      BY ActivityIs DEF IsTimed
    <3>2. IsFiniteSet(world.tasks \cup world.entries)
      BY <3>1, FS_Union
    <3> QED BY <3>1, <3>2, FS_Union
  <2>2. P = { of[x] : x \in all }
    BY DEF ProjectsAtWork
  <2> HIDE DEF all, of, P
  <2> QED BY <2>1, <2>2, FiniteImage
<1>3. (\A e \in es : taskOf[e] \in P) /\ (\A m \in ms : meetOf[m] \in P)
  BY DEF EntriesIn, HeldMeetings, ProjectsAtWork
<1>4. /\ CutBy(taskCut, es, taskOf, P) /\ \A p \in P : task[p] = SecondsOf(taskCut[p])
      /\ CutBy(meetCut, ms, meetOf, P) /\ \A p \in P : meet[p] = SecondsOf(meetCut[p])
  BY DEF CutBy, RecordsOfProject, MeetingsOfProject
<1>5. \A p \in P : task[p] \in Nat /\ meet[p] \in Nat
  <2> TAKE p \in P
  <2>1. taskCut[p] \in SUBSET es /\ meetCut[p] \in SUBSET ms
    BY DEF RecordsOfProject, MeetingsOfProject
  <2> HIDE DEF es, ms, task, meet, taskCut, meetCut, P
  <2> QED BY <1>1, <1>4, <2>1, SecondsAre
<1>6. SumOver(task, P) = SecondsOf(es)
  <2> HIDE DEF es, task, taskCut, taskOf, P
  <2> QED BY <1>1, <1>2, <1>3, <1>4, SecondsByParts
<1>7. SumOver(meet, P) = SecondsOf(ms)
  <2> HIDE DEF ms, meet, meetCut, meetOf, P
  <2> QED BY <1>1, <1>2, <1>3, <1>4, SecondsByParts
<1>8. \A p \in P : total[p] = task[p] + meet[p]
  OBVIOUS
<1>9. \A p \in P : Share(w, u, p).totalSeconds = total[p]
  <2> TAKE p \in P
  <2>1. Share(w, u, p).totalSeconds
          = SecondsOf(EntriesIn(OfProject(world, p), w, f))
              + SecondsOf(HeldMeetings(OfProject(world, p), w, now, f))
    BY SummaryIs DEF Share
  <2> QED BY <2>1, ProjectHours
<1>10. /\ shown \in SUBSET P
       /\ \A p \in shown : shares[p].totalSeconds = total[p]
       /\ \A p \in P \ shown : ~(total[p] > 0)
  <2> DEFINE listed == { q \in P : Share(w, u, q).totalSeconds > 0 \/ Share(w, u, q).done > 0 }
  <2>1. shares = [p \in listed |-> Share(w, u, p)]
    BY SharesAre
  <2>2. shown = listed /\ \A p \in listed : shares[p] = Share(w, u, p)
    <3> HIDE DEF listed, shares
    <3> QED BY <2>1
  <2> HIDE DEF total, shares, P
  <2> QED BY <1>9, <2>2
<1>11. IsFiniteSet(shown)
  <2> HIDE DEF shares, P
  <2> QED BY <1>2, <1>10, FS_Subset
<1> HIDE DEF task, meet, total, P, es, ms
<1>12. SumOver(total, P) = SumOver(task, P) + SumOver(meet, P)
  BY <1>2, <1>5, <1>8, TotalOfBoth
<1>13. \A p \in P : total[p] \in Int /\ total[p] >= 0
  BY <1>5, <1>8
<1> HIDE DEF shares
<1>14. \A p \in shown : col[p] = total[p]
  BY <1>10 DEF Column
<1> HIDE DEF col
<1>15. Added(shares, "totalSeconds") = SumOver(col, shown)
  BY <1>11, AddedIs DEF col
<1> HIDE DEF shown
<1>16. SumOver(col, shown) = SumOver(total, shown)
  BY <1>11, <1>14, TotalAgrees
<1>17. SumOver(total, P) = SumOver(total, shown)
  <2>1. \A p \in P \ shown : total[p] = 0
    BY <1>10, <1>13
  <2> QED BY <1>2, <1>10, <1>13, <2>1, TotalWithoutZeros
<1> QED BY <1>6, <1>7, <1>12, <1>15, <1>16, <1>17 DEF shares, es, ms

LEMMA MonthOfPerson ==
  ASSUME ActivityInv, NEW m, NEW u \in People
  PROVE  LET byPerson == MonthSecondsByPerson(world, zone, m, now) IN
           SecondsOf(EntriesIn(world, MonthPeriod(zone, m), Only(u)))
               + SecondsOf(HeldMeetings(world, MonthPeriod(zone, m), now, Only(u)))
             = IF u \in DOMAIN byPerson THEN byPerson[u] ELSE 0
<1> DEFINE mp == MonthPeriod(zone, m)
           RecordsBy(v) == { e \in world.entries : e.user = v /\ InWindow(e.at, mp) }
           Meetings(v) == HeldMeetings(world, mp, now, Only(v))
           people == { e.user : e \in world.entries } \cup UNION { x.attendees : x \in world.meetings }
           byPerson == MonthSecondsByPerson(world, zone, m, now)
<1>1. byPerson = [v \in { x \in people : RecordsBy(x) \cup Meetings(x) # {} } |->
                    SecondsOf(RecordsBy(v)) + SecondsOf(Meetings(v))]
  BY DEF MonthSecondsByPerson, Only
<1>2. u # None /\ Only(u).employee = u
  BY ReportsAssumption DEF Only
<1>3. EntriesIn(world, mp, Only(u)) = RecordsBy(u)
  BY <1>2 DEF EntriesIn
<1>4. u \notin people => RecordsBy(u) = {} /\ Meetings(u) = {}
  BY <1>2 DEF HeldMeetings, Attends
<1> HIDE DEF RecordsBy, Meetings, people, byPerson, mp
<1>5. CASE u \in people /\ RecordsBy(u) \cup Meetings(u) # {}
  BY <1>1, <1>3, <1>5 DEF Meetings, mp, byPerson
<1>6. CASE RecordsBy(u) = {} /\ Meetings(u) = {}
  <2>1. u \notin DOMAIN byPerson
    BY <1>1, <1>6
  <2>2. SecondsOf(RecordsBy(u)) + SecondsOf(Meetings(u)) = 0
    BY <1>6, SecondsOfNone
  <2> QED BY <1>3, <2>1, <2>2 DEF Meetings, mp, byPerson
<1> QED BY <1>4, <1>5, <1>6

LEMMA LoadsMatch == ActivityInv => LoadPerPerson
<1> SUFFICES ASSUME ActivityInv, NEW w \in Windows
    PROVE  LET team == TeamOverview(world, w, now, People)
               held == HeldMeetings(world, w, now, NoFilter)
               m == MonthOf(DayKey(zone, w.start))
               byPerson == MonthSecondsByPerson(world, zone, m, now)
           IN  /\ \A u \in DOMAIN team :
                    team[u].totalSeconds = Added(ProjectShares(world, w, now, u), "totalSeconds")
               /\ Added(team, "taskSeconds") = SecondsOf(EntriesIn(world, w, NoFilter))
               /\ Added(team, "meetingSeconds") = AttendedSeconds(held)
               /\ w = MonthPeriod(zone, m) =>
                    \A u \in DOMAIN team :
                      team[u].totalSeconds = IF u \in DOMAIN byPerson THEN byPerson[u] ELSE 0
  BY DEF LoadPerPerson
<1> DEFINE team == TeamOverview(world, w, now, People)
           m == MonthOf(DayKey(zone, w.start))
           byPerson == MonthSecondsByPerson(world, zone, m, now)
           load(u) == SecondsOf(EntriesIn(world, w, Only(u)))
                        + SecondsOf(HeldMeetings(world, w, now, Only(u)))
<1>1. DOMAIN team = People /\ \A u \in People : team[u].totalSeconds = load(u)
  BY TeamIs, EmployeeRowIs
<1>2. \A u \in People : load(u) = Added(ProjectShares(world, w, now, u), "totalSeconds")
  BY SharesAddUp
<1>3. ASSUME w = MonthPeriod(zone, m), NEW u \in People
      PROVE  load(u) = IF u \in DOMAIN byPerson THEN byPerson[u] ELSE 0
  <2> HIDE DEF m
  <2> QED BY <1>3, MonthOfPerson
<1> HIDE DEF load, team, byPerson, m
<1>4. \A u \in DOMAIN team :
        team[u].totalSeconds = Added(ProjectShares(world, w, now, u), "totalSeconds")
  BY <1>1, <1>2
<1>5. w = MonthPeriod(zone, m) =>
        \A u \in DOMAIN team :
          team[u].totalSeconds = IF u \in DOMAIN byPerson THEN byPerson[u] ELSE 0
  BY <1>1, <1>3
<1> QED BY <1>4, <1>5, TeamHours DEF team, m, byPerson

-----------------------------------------------------------------------------
(* Hours counted on closing.                                               *)

TaskWith(id) == { t \in world.tasks : t.id = id }

(* The record as it is counted, and the month it is counted in.            *)
Counted(e) ==
  IF TaskWith(e.task) = {} THEN e
  ELSE [e EXCEPT !.at = (CHOOSE t \in TaskWith(e.task) : TRUE).closed]

CountedMonth(e) ==
  MonthOf(DayKey(zone, IF TaskWith(e.task) = {} THEN e.at
                       ELSE (CHOOSE t \in TaskWith(e.task) : TRUE).closed))

Unsettled == { e \in world.entries : \E t \in world.tasks : t.id = e.task /\ t.closed = None }

SettledIn(m) == { e \in world.entries \ Unsettled : CountedMonth(e) = m }

Settled == HoursOnClose(world.tasks, world.entries)

LEMMA TaskWithIs ==
  ASSUME ActivityInv, NEW t \in world.tasks
  PROVE  TaskWith(t.id) = {t} /\ (CHOOSE x \in TaskWith(t.id) : TRUE) = t
<1>1. TaskWith(t.id) = {t}
  BY DEF TaskWith, ActivityInv, WorldFits, TasksFit
<1> QED BY <1>1

LEMMA SettledIs ==
  ASSUME ActivityInv
  PROVE  /\ \A x \in Settled : \E e \in world.entries \ Unsettled : x = Counted(e)
         /\ \A e \in world.entries \ Unsettled : Counted(e) \in Settled
<1> DEFINE TaskOf(e) == { t \in world.tasks : t.id = e.task }
           own == { e \in world.entries : TaskOf(e) = {} }
           moved(e) == { [e EXCEPT !.at = t.closed] : t \in { x \in TaskOf(e) : x.closed # None } }
<1>1. Settled = own \cup UNION { moved(e) : e \in world.entries }
  BY DEF Settled, HoursOnClose
<1>2. \A e : TaskOf(e) = TaskWith(e.task)
  BY DEF TaskWith
<1>3. ASSUME NEW e \in world.entries, NEW t \in TaskOf(e)
      PROVE  /\ TaskWith(e.task) # {} /\ Counted(e) = [e EXCEPT !.at = t.closed]
             /\ e \in Unsettled <=> t.closed = None
             /\ \A x \in TaskOf(e) : x = t
  <2>1. t \in world.tasks /\ e.task = t.id
    OBVIOUS
  <2>2. TaskWith(e.task) = {t} /\ (CHOOSE x \in TaskWith(e.task) : TRUE) = t
    BY <2>1, TaskWithIs
  <2>3. e \in Unsettled <=> t.closed = None
    BY <2>1, <2>2 DEF Unsettled, TaskWith
  <2>4. \A x \in TaskOf(e) : x = t
    BY <1>2, <2>2
  <2> QED BY <2>2, <2>3, <2>4 DEF Counted
<1>4. ASSUME NEW e \in own PROVE e \in world.entries \ Unsettled /\ Counted(e) = e
  BY <1>2 DEF Unsettled, Counted
<1>5. ASSUME NEW x \in Settled PROVE \E e \in world.entries \ Unsettled : x = Counted(e)
  <2>1. CASE x \in own
    BY <1>4, <2>1
  <2>2. CASE \E e \in world.entries : x \in moved(e)
    <3>1. PICK e \in world.entries : x \in moved(e)
      BY <2>2
    <3>2. PICK t \in TaskOf(e) : t.closed # None /\ x = [e EXCEPT !.at = t.closed]
      BY <3>1
    <3> QED BY <1>3, <3>2
  <2> HIDE DEF own, moved
  <2> QED BY <1>1, <2>1, <2>2
<1>6. ASSUME NEW e \in world.entries \ Unsettled PROVE Counted(e) \in Settled
  <2>1. CASE TaskOf(e) = {}
    <3>1. e \in own
      BY <2>1
    <3> QED BY <1>1, <1>4, <3>1
  <2>2. CASE TaskOf(e) # {}
    <3>1. PICK t : t \in TaskOf(e)
      BY <2>2
    <3>2. t.closed # None /\ Counted(e) = [e EXCEPT !.at = t.closed]
      BY <1>3, <3>1
    <3>3. Counted(e) \in moved(e)
      BY <3>1, <3>2
    <3> HIDE DEF own, moved
    <3> QED BY <1>1, <3>3
  <2> QED BY <2>1, <2>2
<1> QED BY <1>5, <1>6

LEMMA CountedIs ==
  ASSUME ActivityInv, NEW e \in world.entries \ Unsettled
  PROVE  /\ Counted(e).at \in Int /\ CountedMonth(e) = MonthOf(DayKey(zone, Counted(e).at))
         /\ Counted(e).n = e.n /\ Counted(e).seconds = e.seconds
<1>1. e \in RecordShape
  BY ActivityIs
<1>2. CASE TaskWith(e.task) = {}
  BY <1>1, <1>2 DEF Counted, CountedMonth, RecordShape
<1>3. CASE TaskWith(e.task) # {}
  <2>1. PICK t \in world.tasks : t.id = e.task
    BY <1>3 DEF TaskWith
  <2>2. (CHOOSE x \in TaskWith(e.task) : TRUE) = t
    BY <2>1, TaskWithIs
  <2>3. t.closed \in Int
    BY <2>1, ActivityIs DEF Unsettled, TaskShape
  <2>4. Counted(e) = [e EXCEPT !.at = t.closed] /\ CountedMonth(e) = MonthOf(DayKey(zone, t.closed))
    BY <1>3, <2>2 DEF Counted, CountedMonth
  <2>5. /\ [e EXCEPT !.at = t.closed].at = t.closed
        /\ [e EXCEPT !.at = t.closed].n = e.n
        /\ [e EXCEPT !.at = t.closed].seconds = e.seconds
    BY <1>1 DEF RecordShape
  <2> QED BY <2>3, <2>4, <2>5
<1> QED BY <1>2, <1>3

LEMMA SettledHours ==
  ASSUME ActivityInv, NEW m \in Int
  PROVE  SecondsOf({ x \in Settled : InWindow(x.at, MonthPeriod(zone, m)) }) = SecondsOf(SettledIn(m))
<1> DEFINE S == SettledIn(m)
           T == { x \in Settled : InWindow(x.at, MonthPeriod(zone, m)) }
           f == [e \in S |-> Counted(e)]
           b == Taken(T)
<1>1. KeepsDays(zone) /\ \A u \in Int : InWindow(u, MonthPeriod(zone, m)) <=> MonthOf(DayKey(zone, u)) = m
  BY ActivityIs, MonthPeriodIs
<1>2. S \in SUBSET world.entries /\ \A e \in S : e \in world.entries \ Unsettled /\ CountedMonth(e) = m
  BY DEF SettledIn
<1>3. IsTimed(S)
  BY <1>2, ActivityIs, PartIsTimed
<1>4. \A e \in S : Counted(e) \in T
  BY <1>1, <1>2, CountedIs, SettledIs
<1>5. \A x \in T : \E e \in S : Counted(e) = x
  <2> TAKE x \in T
  <2>1. PICK e \in world.entries \ Unsettled : x = Counted(e)
    BY SettledIs
  <2>2. CountedMonth(e) = m
    BY <1>1, <2>1, CountedIs
  <2> QED BY <2>1, <2>2 DEF SettledIn
<1>6. \A e \in S : Counted(e).n = e.n /\ Counted(e).seconds = e.seconds
  BY <1>2, CountedIs
<1>7. \A d, e \in S : d.n = e.n => d = e
  BY <1>2 DEF ActivityInv, WorldFits, RecordsFit
<1> HIDE DEF S, T
<1>8. f \in [S -> T] /\ (\A x \in T : \E e \in S : f[e] = x) /\ \A d, e \in S : f[d] = f[e] => d = e
  BY <1>4, <1>5, <1>6, <1>7
<1>9. \A e \in S : f[e] = Counted(e)
  OBVIOUS
<1> HIDE DEF f
<1>10. IsTimed(T)
  <2>1. IsFiniteSet(T)
    BY <1>3, <1>8, CountRenamed DEF IsTimed
  <2>2. \A x \in T : x.seconds \in Nat
    BY <1>3, <1>5, <1>6 DEF IsTimed
  <2> QED BY <2>1, <2>2 DEF IsTimed
<1>11. \A e \in S : b[f[e]] = e.seconds
  BY <1>4, <1>6, <1>9 DEF Taken
<1>12. SecondsOf(T) = SumOver(b, T)
  <2>1. T \in SUBSET T
    OBVIOUS
  <2> QED BY <1>10, <2>1, SecondsAre
<1> HIDE DEF b
<1>13. SumOver(b, T) = SecondsOf(S)
  <2>1. IsFiniteSet(T)
    BY <1>10 DEF IsTimed
  <2> QED BY <1>3, <1>8, <1>11, <2>1, SecondsRenamed
<1> QED BY <1>12, <1>13 DEF S, T

LEMMA UsageIs ==
  ASSUME NEW W, NEW w
  PROVE  /\ DOMAIN MonthUsage(W, zone, w, now, None) = MonthsTouched(zone, w)
         /\ \A m \in MonthsTouched(zone, w) :
              MonthUsage(W, zone, w, now, None)[m].totalSeconds
                = Summary(W, MonthPeriod(zone, m), now, NoFilter).totalSeconds
<1> DEFINE s(m) == Summary(W, MonthPeriod(zone, m), now, NoFilter)
<1>1. MonthUsage(W, zone, w, now, None) =
        [m \in MonthsTouched(zone, w) |->
           [taskSeconds |-> s(m).taskSeconds, meetingSeconds |-> s(m).meetingSeconds,
            totalSeconds |-> s(m).totalSeconds,
            overageSeconds |-> IF None = None \/ s(m).totalSeconds <= None THEN 0
                               ELSE s(m).totalSeconds - None]]
  BY DEF MonthUsage
<1> HIDE DEF s
<1> QED BY <1>1 DEF s

LEMMA HoursAreClosedOnce == ActivityInv => ClosedHoursOnce
<1> SUFFICES ASSUME ActivityInv PROVE ClosedHoursOnce
  OBVIOUS
<1> DEFINE posted == [world EXCEPT !.entries = Settled]
           W == [posted EXCEPT !.meetings = {}]
           all == Window(ZonedTime(zone, HoursPerDay * FirstDay(-1)),
                         ZonedTime(zone, HoursPerDay * FirstDay(MonthOf(DayKey(zone, now)) + 2)))
           usage == MonthUsage(W, zone, all, now, None)
           MonthOfRecord(e) ==
             LET of == { t \in world.tasks : t.id = e.task } IN
               MonthOf(DayKey(zone, IF of = {} THEN e.at ELSE (CHOOSE t \in of : TRUE).closed))
           Of(m) == { e \in world.entries \ Unsettled : MonthOfRecord(e) = m }
<1>1. W.entries = Settled /\ W.meetings = {}
  OBVIOUS
<1>2. \A m : Of(m) = SettledIn(m)
  <2>1. \A e : MonthOfRecord(e) = CountedMonth(e)
    BY DEF CountedMonth, TaskWith
  <2> HIDE DEF MonthOfRecord
  <2> QED BY <2>1 DEF SettledIn
<1>3. MonthsTouched(zone, all) \subseteq Int
  BY DEF MonthsTouched
<1> HIDE DEF W, all
<1>4. ASSUME NEW m \in MonthsTouched(zone, all)
      PROVE  usage[m].totalSeconds = SecondsOf(Of(m))
  <2> DEFINE mp == MonthPeriod(zone, m)
             X == { x \in Settled : InWindow(x.at, mp) }
  <2>1. usage[m].totalSeconds = Summary(W, mp, now, NoFilter).totalSeconds
    BY UsageIs
  <2>2. Summary(W, mp, now, NoFilter).totalSeconds
          = SecondsOf(EntriesIn(W, mp, NoFilter)) + SecondsOf(HeldMeetings(W, mp, now, NoFilter))
    BY SummaryIs
  <2>3. EntriesIn(W, mp, NoFilter) = X
    <3> HIDE DEF mp
    <3> QED BY <1>1 DEF EntriesIn, NoFilter
  <2>4. HeldMeetings(W, mp, now, NoFilter) = {}
    BY <1>1 DEF HeldMeetings
  <2>5. SecondsOf(X) = SecondsOf(SettledIn(m))
    BY <1>3, SettledHours
  <2>6. SecondsOf(SettledIn(m)) \in Nat
    <3>1. IsTimed(world.entries) /\ SettledIn(m) \in SUBSET world.entries
      BY ActivityIs DEF SettledIn
    <3> QED BY <3>1, SecondsAre
  <2>7. Of(m) = SettledIn(m)
    BY <1>2
  <2> HIDE DEF usage, X, mp, Of
  <2> QED BY <2>1, <2>2, <2>3, <2>4, <2>5, <2>6, <2>7, SecondsOfNone
<1>5. DOMAIN usage = MonthsTouched(zone, all)
  BY UsageIs
<1>6. \A m \in DOMAIN usage : usage[m].totalSeconds = SecondsOf(Of(m))
  BY <1>4, <1>5
<1> QED BY <1>6 DEF ClosedHoursOnce, W, all, Settled, Unsettled

(* However the analytics are asked, they say one thing: a figure is the    *)
(* list it opens, its breakdowns add up to it, a person's load is the same *)
(* on every page, and hours counted on closing are in one month.           *)
THEOREM AnalyticsSayOneThing == ReportsSpec => []AnalyticsAgree
<1>1. ActivityInv => AnalyticsAgree
  BY ListsMatch, BreakdownsMatch, LoadsMatch, HoursAreClosedOnce DEF AnalyticsAgree
<1> QED BY <1>1, ActivityStarts, ActivityStays, PTL DEF ReportsSpec
=============================================================================
