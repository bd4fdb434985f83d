---------------------------- MODULE BitrixProofs ----------------------------
(***************************************************************************)
(* Proofs about the parts that bring Bitrix24 into the application: the    *)
(* nightly snapshot of deals (SalesFunnels), for every number of runs and  *)
(* of keys; the settings the CRM is read under (CrmSettings), for every    *)
(* number of pages open and of stages; the loads behind the analytics      *)
(* cache (AnalyticsCache), for every number of pages, of loads and of      *)
(* saves of the settings; one such load of a project's work (Activity),    *)
(* for every number of tasks, elements and changes meanwhile; the lists    *)
(* read page by page (Paging), for every length of a list, of a page and   *)
(* of the cap; what is entered by hand (Marketing), for every number of    *)
(* managers, channels, months and rows; and the pages of marketing and     *)
(* sales (MarketingReport), for every CRM.                                 *)
(***************************************************************************)
EXTENDS AnalyticsCache, Activity, SalesFunnels, CrmSettings, Paging, Marketing, Sums, SequenceTheorems,
        NaturalsInduction, WellFoundedInduction, TLAPS

-----------------------------------------------------------------------------
(* The snapshot of deals.                                                  *)

FunnelsSpec == FunnelsInit /\ [][FunnelsNext]_funnelVars

Run ==
  [pc : {"idle", "read", "writing", "deleting"}, read : [Keys -> Nat], todo : SUBSET Keys,
   written : SUBSET Keys, stale : SUBSET Keys, met : BOOLEAN]

FunnelsTypeOK ==
  /\ deals \in [Keys -> 0 .. MaxDeals]
  /\ snapshot \in [Keys -> Nat]
  /\ sync \in [Syncs -> Run]
  /\ whole \in [known : BOOLEAN, rows : [Keys -> Nat]]

(* A run that has met no other writes alone.                               *)
UnmetWritesAlone == \A r \in Writing : ~sync[r].met => Writing = {r}

Found(r) == {k \in Keys : sync[r].read[k] > 0}

(* What a run has still to write and has written is what it found; and an  *)
(* unmet run that is about to commit deletes every row it did not find.    *)
WritesWhatItRead(r) ==
  /\ sync[r].pc = "read" => sync[r].written = {}
  /\ sync[r].pc = "writing" => sync[r].written \cup sync[r].todo = Found(r)
  /\ sync[r].pc = "deleting" =>
       /\ sync[r].written = Found(r)
       /\ ~sync[r].met => sync[r].stale = Stale(r)

RunWritesWhatItRead == \A r \in Syncs : WritesWhatItRead(r)

FunnelsInv == FunnelsTypeOK /\ UnmetWritesAlone /\ RunWritesWhatItRead /\ SnapshotOfOneReading

LEMMA InitFunnelsInv == FunnelsInit => FunnelsInv
<1> SUFFICES ASSUME FunnelsInit PROVE FunnelsInv
  OBVIOUS
<1> USE SalesFunnelsAssumption DEF FunnelsInit, NoRows, NoSync
<1>1. FunnelsTypeOK
  BY DEF FunnelsTypeOK, Run
<1>2. UnmetWritesAlone /\ RunWritesWhatItRead
  BY DEF UnmetWritesAlone, Writing, RunWritesWhatItRead, WritesWhatItRead
<1>3. SnapshotOfOneReading
  BY DEF SnapshotOfOneReading, FunnelReport
<1> QED
  BY <1>1, <1>2, <1>3 DEF FunnelsInv

(* What each step does to the runs, field by field.                        *)
LEMMA FetchDealsDoes ==
  ASSUME FunnelsTypeOK, NEW r \in Syncs, FetchDeals(r)
  PROVE  /\ sync' \in [Syncs -> Run] /\ sync'[r].pc = "read" /\ sync'[r].written = {}
         /\ \A q \in Syncs : q # r => sync'[q] = sync[q]
<1>1. DOMAIN sync = Syncs /\ deals \in [Keys -> Nat]
  BY SalesFunnelsAssumption DEF FunnelsTypeOK
<1>2. NoSync \in Run /\ NoSync.written = {}
  BY DEF NoSync, NoRows, Run
<1>3. sync'[r] = [NoSync EXCEPT !.pc = "read", !.read = deals]
  BY <1>1 DEF FetchDeals
<1>4. sync'[r].pc = "read" /\ sync'[r].written = {} /\ sync'[r] \in Run
  BY <1>1, <1>2, <1>3 DEF Run
<1>5. \A q \in Syncs : q # r => sync'[q] = sync[q]
  BY DEF FetchDeals, FunnelsTypeOK
<1> QED
  BY <1>4, <1>5 DEF FetchDeals, FunnelsTypeOK

LEMMA BeginDoes ==
  ASSUME FunnelsTypeOK, NEW r \in Syncs, Begin(r)
  PROVE  /\ sync' \in [Syncs -> Run]
         /\ sync'[r].pc = "writing" /\ sync'[r].read = sync[r].read /\ sync'[r].written = sync[r].written
         /\ sync'[r].todo = Found(r) /\ sync'[r].met = (Writing # {})
         /\ \A q \in Syncs : q # r =>
              /\ sync'[q].pc = sync[q].pc /\ sync'[q].read = sync[q].read /\ sync'[q].todo = sync[q].todo
              /\ sync'[q].written = sync[q].written /\ sync'[q].stale = sync[q].stale
              /\ sync'[q].met = (sync[q].met \/ q \in Writing)
<1> DEFINE T == Found(r)
           M == Writing # {}
<1>1. \A q \in Syncs : sync[q] \in Run
  BY DEF FunnelsTypeOK
<1>2. T \in SUBSET Keys /\ M \in BOOLEAN
  BY DEF Found
<1>3. sync' = [q \in Syncs |->
        IF q = r THEN [sync[r] EXCEPT !.pc = "writing", !.todo = T, !.met = M]
        ELSE IF q \in Writing THEN [sync[q] EXCEPT !.met = TRUE] ELSE sync[q]]
  BY DEF Begin, Found
<1> HIDE DEF T, M
<1>4. sync'[r] = [sync[r] EXCEPT !.pc = "writing", !.todo = T, !.met = M]
  BY <1>3
<1>5. /\ sync'[r] \in Run
      /\ sync'[r].pc = "writing" /\ sync'[r].read = sync[r].read /\ sync'[r].written = sync[r].written
      /\ sync'[r].todo = T /\ sync'[r].met = M
  BY <1>1, <1>2, <1>4 DEF Run
<1>6. ASSUME NEW q \in Syncs, q # r
      PROVE  /\ sync'[q] \in Run
             /\ sync'[q].pc = sync[q].pc /\ sync'[q].read = sync[q].read /\ sync'[q].todo = sync[q].todo
             /\ sync'[q].written = sync[q].written /\ sync'[q].stale = sync[q].stale
             /\ sync'[q].met = (sync[q].met \/ q \in Writing)
  <2>1. sync'[q] = IF q \in Writing THEN [sync[q] EXCEPT !.met = TRUE] ELSE sync[q]
    BY <1>3, <1>6
  <2>2. sync[q] \in Run
    BY <1>1
  <2>3. CASE q \in Writing
    <3>1. sync'[q] = [sync[q] EXCEPT !.met = TRUE]
      BY <2>1, <2>3
    <3> QED
      BY <2>2, <2>3, <3>1 DEF Run
  <2>4. CASE q \notin Writing
    BY <2>1, <2>2, <2>4 DEF Run
  <2> QED
    BY <2>3, <2>4
<1>7. sync' \in [Syncs -> Run]
  BY <1>3, <1>5, <1>6
<1> QED
  BY <1>5, <1>6, <1>7 DEF T, M

LEMMA UpsertDoes ==
  ASSUME FunnelsTypeOK, NEW r \in Syncs, Upsert(r)
  PROVE  /\ sync' \in [Syncs -> Run]
         /\ sync'[r].pc = "writing" /\ sync'[r].read = sync[r].read /\ sync'[r].met = sync[r].met
         /\ sync'[r].written \cup sync'[r].todo = sync[r].written \cup sync[r].todo
         /\ \A q \in Syncs : q # r => sync'[q] = sync[q]
<1>1. sync[r] \in Run /\ DOMAIN sync = Syncs
  BY DEF FunnelsTypeOK
<1>2. PICK k \in sync[r].todo : sync' = [sync EXCEPT ![r].todo = @ \ {k}, ![r].written = @ \cup {k}]
  BY DEF Upsert
<1>3. sync' \in [Syncs -> Run]
  BY <1>1, <1>2 DEF Run, FunnelsTypeOK
<1>4. /\ sync'[r].pc = sync[r].pc /\ sync'[r].read = sync[r].read /\ sync'[r].met = sync[r].met
      /\ sync'[r].todo = sync[r].todo \ {k} /\ sync'[r].written = sync[r].written \cup {k}
  BY <1>1, <1>2 DEF Run
<1>5. \A q \in Syncs : q # r => sync'[q] = sync[q]
  BY <1>1, <1>2 DEF FunnelsTypeOK
<1> QED
  BY <1>2, <1>3, <1>4, <1>5 DEF Upsert

LEMMA FindStaleDoes ==
  ASSUME FunnelsTypeOK, NEW r \in Syncs, FindStale(r)
  PROVE  /\ sync' \in [Syncs -> Run]
         /\ sync'[r].pc = "deleting" /\ sync'[r].read = sync[r].read /\ sync'[r].met = sync[r].met
         /\ sync'[r].written = sync[r].written /\ sync'[r].stale = Stale(r)
         /\ \A q \in Syncs : q # r => sync'[q] = sync[q]
<1> DEFINE S == Stale(r)
<1>1. sync[r] \in Run /\ DOMAIN sync = Syncs /\ S \in SUBSET Keys
  BY DEF FunnelsTypeOK, Stale
<1>2. sync' = [sync EXCEPT ![r].pc = "deleting", ![r].stale = S]
  BY DEF FindStale
<1> HIDE DEF S
<1>3. sync' \in [Syncs -> Run]
  BY <1>1, <1>2 DEF Run, FunnelsTypeOK
<1>4. /\ sync'[r].pc = "deleting" /\ sync'[r].read = sync[r].read /\ sync'[r].met = sync[r].met
      /\ sync'[r].written = sync[r].written /\ sync'[r].stale = S
  BY <1>1, <1>2 DEF Run
<1>5. \A q \in Syncs : q # r => sync'[q] = sync[q]
  BY <1>1, <1>2 DEF FunnelsTypeOK
<1> QED
  BY <1>3, <1>4, <1>5 DEF S

(* A run that commits or fails starts anew.                                *)
LEMMA RunEnds ==
  ASSUME FunnelsTypeOK, NEW r \in Syncs, Commit(r) \/ Abort(r)
  PROVE  /\ sync' \in [Syncs -> Run] /\ sync'[r].pc = "idle"
         /\ \A q \in Syncs : q # r => sync'[q] = sync[q]
<1>1. sync' = [sync EXCEPT ![r] = NoSync]
  BY DEF Commit, Abort
<1>2. NoSync \in Run /\ NoSync.pc = "idle"
  BY DEF NoSync, NoRows, Run
<1> QED
  BY <1>1, <1>2 DEF FunnelsTypeOK

LEMMA StepFunnelsTypeOK ==
  ASSUME FunnelsTypeOK, FunnelsNext
  PROVE  FunnelsTypeOK'
<1>1. CASE DealMoves
  BY <1>1, SalesFunnelsAssumption DEF DealMoves, FunnelsTypeOK
<1>2. ASSUME NEW r \in Syncs, FetchDeals(r) \/ Begin(r) \/ Upsert(r) \/ FindStale(r) \/ Abort(r)
      PROVE  FunnelsTypeOK'
  <2>1. UNCHANGED <<deals, snapshot, whole>>
    BY <1>2 DEF FetchDeals, Begin, Upsert, FindStale, Abort
  <2>2. sync' \in [Syncs -> Run]
    BY <1>2, FetchDealsDoes, BeginDoes, UpsertDoes, FindStaleDoes, RunEnds
  <2> QED
    BY <2>1, <2>2 DEF FunnelsTypeOK
<1>3. ASSUME NEW r \in Syncs, Commit(r)
      PROVE  FunnelsTypeOK'
  <2>1. sync[r].read \in [Keys -> Nat] /\ snapshot \in [Keys -> Nat]
    BY DEF FunnelsTypeOK, Run
  <2>2. snapshot' \in [Keys -> Nat]
    BY <1>3, <2>1 DEF Commit, RowsAfter
  <2>3. whole' \in [known : BOOLEAN, rows : [Keys -> Nat]]
    BY <1>3, <2>1 DEF Commit, NoRows
  <2>4. deals' = deals /\ sync' \in [Syncs -> Run]
    BY <1>3, RunEnds DEF Commit
  <2> QED
    BY <2>2, <2>3, <2>4 DEF FunnelsTypeOK
<1> QED
  BY <1>1, <1>2, <1>3 DEF FunnelsNext

(* A transaction that begins meets those that go on, and they meet it.     *)
LEMMA StepUnmetWritesAlone ==
  ASSUME FunnelsTypeOK, UnmetWritesAlone, FunnelsNext
  PROVE  UnmetWritesAlone'
<1>1. CASE DealMoves
  BY <1>1 DEF DealMoves, UnmetWritesAlone, Writing
<1>2. ASSUME NEW r \in Syncs, Begin(r)
      PROVE  UnmetWritesAlone'
  <2>2. \A q \in Syncs : q # r => /\ sync'[q].pc = sync[q].pc
                                  /\ sync'[q].met = (sync[q].met \/ q \in Writing)
    BY <1>2, BeginDoes
  <2>3. sync'[r].pc = "writing" /\ sync'[r].met = (Writing # {})
    BY <1>2, BeginDoes
  <2>4. Writing' = Writing \cup {r} /\ r \notin Writing
    BY <1>2, <2>2, <2>3 DEF Begin, Writing
  <2>5. \A q \in Writing : sync'[q].met
    BY <2>2, <2>4 DEF Writing
  <2> QED
    BY <2>3, <2>4, <2>5 DEF UnmetWritesAlone
<1>3. ASSUME NEW r \in Syncs, FetchDeals(r) \/ Commit(r) \/ Abort(r)
      PROVE  UnmetWritesAlone'
  <2>1. sync'[r].pc \in {"idle", "read"} /\ \A q \in Syncs : q # r => sync'[q] = sync[q]
    BY <1>3, FetchDealsDoes, RunEnds
  <2>2. Writing' = Writing \ {r}
    BY <2>1 DEF Writing
  <2> QED
    BY <2>1, <2>2 DEF UnmetWritesAlone, Writing
<1>4. ASSUME NEW r \in Syncs, Upsert(r) \/ FindStale(r)
      PROVE  UnmetWritesAlone'
  <2>1. /\ sync[r].pc = "writing" /\ sync'[r].pc \in {"writing", "deleting"}
        /\ sync'[r].met = sync[r].met
        /\ \A q \in Syncs : q # r => sync'[q] = sync[q]
    BY <1>4, UpsertDoes, FindStaleDoes DEF Upsert, FindStale
  <2>2. Writing' = Writing
    BY <2>1 DEF Writing
  <2> QED
    BY <2>1, <2>2 DEF UnmetWritesAlone, Writing
<1> QED
  BY <1>1, <1>2, <1>3, <1>4 DEF FunnelsNext

LEMMA StepRunWrites ==
  ASSUME FunnelsTypeOK, UnmetWritesAlone, RunWritesWhatItRead, FunnelsNext
  PROVE  RunWritesWhatItRead'
<1> SUFFICES ASSUME NEW r \in Syncs PROVE WritesWhatItRead(r)'
  BY DEF RunWritesWhatItRead
<1>0. WritesWhatItRead(r) /\ sync[r] \in Run
  BY DEF RunWritesWhatItRead, FunnelsTypeOK
<1>1. CASE sync'[r] = sync[r] /\ snapshot' = snapshot
  BY <1>0, <1>1 DEF WritesWhatItRead, Found, Stale
<1>2. CASE Begin(r)
  <2>1. sync'[r].pc = "writing" /\ sync'[r].read = sync[r].read /\ sync'[r].todo = Found(r)
    BY <1>2, BeginDoes
  <2>2. sync'[r].written = {}
    BY <1>0, <1>2, BeginDoes DEF WritesWhatItRead, Begin
  <2> QED
    BY <2>1, <2>2 DEF WritesWhatItRead, Found
<1>3. CASE FetchDeals(r) \/ Abort(r) \/ Commit(r)
  <2>1. sync'[r].pc \in {"idle", "read"} /\ (sync'[r].pc = "read" => sync'[r].written = {})
    BY <1>3, FetchDealsDoes, RunEnds
  <2> QED
    BY <2>1 DEF WritesWhatItRead
<1>4. CASE Upsert(r)
  <2>1. /\ sync[r].pc = "writing" /\ sync'[r].pc = "writing" /\ sync'[r].read = sync[r].read
        /\ sync'[r].written \cup sync'[r].todo = sync[r].written \cup sync[r].todo
    BY <1>4, UpsertDoes DEF Upsert
  <2> QED
    BY <1>0, <2>1 DEF WritesWhatItRead, Found
<1>5. CASE FindStale(r)
  <2>1. /\ sync[r].pc = "writing" /\ sync[r].todo = {} /\ snapshot' = snapshot
        /\ sync'[r].pc = "deleting" /\ sync'[r].read = sync[r].read
        /\ sync'[r].written = sync[r].written /\ sync'[r].stale = Stale(r)
    BY <1>5, FindStaleDoes DEF FindStale
  <2>2. sync[r].written = Found(r)
    BY <1>0, <2>1 DEF WritesWhatItRead
  <2> QED
    BY <2>1, <2>2 DEF WritesWhatItRead, Found, Stale
<1>6. ASSUME NEW q \in Syncs, q # r, Commit(q)
      PROVE  WritesWhatItRead(r)'
  <2>1. sync'[r] = sync[r]
    BY <1>6, RunEnds
  <2>2. sync[r].pc = "deleting" => sync[r].met
    BY <1>6 DEF Commit, UnmetWritesAlone, Writing
  <2> QED
    BY <1>0, <2>1, <2>2 DEF WritesWhatItRead, Found
<1>7. ASSUME NEW q \in Syncs, q # r, Begin(q)
      PROVE  WritesWhatItRead(r)'
  <2>1. /\ sync'[r].pc = sync[r].pc /\ sync'[r].read = sync[r].read /\ sync'[r].todo = sync[r].todo
        /\ sync'[r].written = sync[r].written /\ sync'[r].stale = sync[r].stale
        /\ ~sync'[r].met => ~sync[r].met
    BY <1>7, BeginDoes
  <2>2. snapshot' = snapshot
    BY <1>7 DEF Begin
  <2> QED
    BY <1>0, <2>1, <2>2 DEF WritesWhatItRead, Found, Stale
<1>8. ASSUME NEW q \in Syncs, q # r, FetchDeals(q) \/ Upsert(q) \/ FindStale(q) \/ Abort(q)
      PROVE  sync'[r] = sync[r] /\ snapshot' = snapshot
  <2>1. snapshot' = snapshot
    BY <1>8 DEF FetchDeals, Upsert, FindStale, Abort
  <2> QED
    BY <1>8, <2>1, FetchDealsDoes, UpsertDoes, FindStaleDoes, RunEnds
<1>9. CASE DealMoves
  BY <1>1, <1>9 DEF DealMoves
<1> QED
  BY <1>1, <1>2, <1>3, <1>4, <1>5, <1>6, <1>7, <1>8, <1>9 DEF FunnelsNext

LEMMA StepOneReading ==
  ASSUME FunnelsInv, FunnelsNext
  PROVE  SnapshotOfOneReading'
<1> USE DEF FunnelsInv, FunnelsTypeOK
<1>1. CASE UNCHANGED <<snapshot, whole>>
  BY <1>1 DEF SnapshotOfOneReading, FunnelReport
<1>2. ASSUME NEW r \in Syncs, Commit(r), ~sync[r].met
      PROVE  SnapshotOfOneReading'
  <2>1. /\ sync[r].written = {k \in Keys : sync[r].read[k] > 0}
        /\ sync[r].stale = {k \in Keys : snapshot[k] > 0 /\ sync[r].read[k] = 0}
    BY <1>2 DEF Commit, RunWritesWhatItRead, WritesWhatItRead, Found, Stale
  <2>2. sync[r].read \in [Keys -> Nat]
    BY DEF Run
  <2>3. RowsAfter(r) = sync[r].read
    <3>1. ASSUME NEW k \in Keys
          PROVE  RowsAfter(r)[k] = sync[r].read[k]
      <4>1. snapshot[k] \in Nat /\ sync[r].read[k] \in Nat
        BY <2>2
      <4>2. CASE k \in sync[r].written
        BY <4>2 DEF RowsAfter
      <4>3. CASE k \notin sync[r].written
        BY <2>1, <4>1, <4>3 DEF RowsAfter
      <4> QED
        BY <4>2, <4>3
    <3> QED
      BY <2>2, <3>1 DEF RowsAfter
  <2> QED
    BY <1>2, <2>2, <2>3 DEF Commit, SnapshotOfOneReading, FunnelReport
<1>3. ASSUME NEW r \in Syncs, Commit(r), sync[r].met
      PROVE  SnapshotOfOneReading'
  BY <1>3 DEF Commit, SnapshotOfOneReading
<1> QED
  BY <1>1, <1>2, <1>3
     DEF FunnelsNext, DealMoves, FetchDeals, Begin, Upsert, FindStale, Abort

(* However many runs write at once and fail, the snapshot after a run that *)
(* met no other is what that run read, whole, until one commits that did.  *)
THEOREM SnapshotIsWhole == FunnelsSpec => []SnapshotOfOneReading
<1>1. FunnelsInv /\ [FunnelsNext]_funnelVars => FunnelsInv'
  <2> SUFFICES ASSUME FunnelsInv, [FunnelsNext]_funnelVars PROVE FunnelsInv'
    OBVIOUS
  <2>1. CASE FunnelsNext
    BY <2>1, StepFunnelsTypeOK, StepUnmetWritesAlone, StepRunWrites, StepOneReading DEF FunnelsInv
  <2>2. CASE UNCHANGED funnelVars
    BY <2>2 DEF funnelVars, FunnelsInv, FunnelsTypeOK, UnmetWritesAlone, Writing,
                RunWritesWhatItRead, WritesWhatItRead, Found, Stale, SnapshotOfOneReading, FunnelReport
  <2> QED
    BY <2>1, <2>2
<1>2. FunnelsInv => SnapshotOfOneReading
  BY DEF FunnelsInv
<1> QED
  BY <1>1, <1>2, InitFunnelsInv, PTL DEF FunnelsSpec

-----------------------------------------------------------------------------
(* How a portal reads its CRM.                                             *)

SettingsSpec == SettingsInit /\ [][SettingsNext]_settingsVars

StoredRules == [SectionStages -> {"none", "closed"}]

EditorPage ==
  [kind : {"none", "stages", "mapping"}, pc : {"closed", "open", "deleted", "checked", "stored"},
   stages : SUBSET SectionStages, initial : [SectionStages -> {"none", "process", "closed"}],
   values : [SectionStages -> {"none", "process", "closed"}], fields : Mappings, overlapped : BOOLEAN]

RelatedElements == [there : BOOLEAN, raced : BOOLEAN, mapping : Mappings, rules : StoredRules]

SettingsTypeOK ==
  /\ rules \in StoredRules /\ mapping \in Mappings
  /\ editor \in [Editors -> EditorPage]
  /\ related \in [cached : RelatedElements, reading : RelatedElements]

(* A page that saves is of the kind its step is of, and shows an outcome   *)
(* for every stage it was given.                                           *)
PageSound(p) ==
  /\ editor[p].pc = "deleted" => editor[p].kind = "stages"
  /\ editor[p].pc = "checked" => editor[p].kind = "mapping"
  /\ editor[p].kind = "stages" => \A s \in editor[p].stages : editor[p].values[s] \in Outcomes

(* A save no other overlapped is the only one there is, and finds what it  *)
(* wrote as it wrote it.                                                   *)
SaveSound(p) ==
  p \in Saving /\ ~editor[p].overlapped =>
    /\ Saving = {p}
    /\ editor[p].pc = "deleted" => rules = NoRules
    /\ editor[p].pc = "stored" /\ editor[p].kind = "stages" =>
         \A s \in editor[p].stages : ReadAs(s) = editor[p].values[s]
    /\ editor[p].pc = "stored" /\ editor[p].kind = "mapping" => mapping = editor[p].fields

PagesSound == \A p \in Editors : PageSound(p) /\ SaveSound(p)

(* What was saved last is known only while nobody saves.                   *)
LastOutlivesNoSave == last.kind # "none" => Saving = {}

(* Elements being read, undisturbed, are read under the settings of now.   *)
ReadUnderNow == related.reading.there /\ ~related.reading.raced => related.reading = UnderNow

SettingsInv ==
  SettingsTypeOK /\ PagesSound /\ LastOutlivesNoSave /\ ReadUnderNow /\ SettingsInForce

LEMMA InitSettingsInv == SettingsInit => SettingsInv
<1> SUFFICES ASSUME SettingsInit PROVE SettingsInv
  OBVIOUS
<1> USE DEF SettingsInit
<1>1. NoRules \in StoredRules /\ NoRules \in [SectionStages -> {"none", "process", "closed"}] /\ Unmapped \in Mappings
  BY DEF NoRules, StoredRules, Unmapped, Mappings
<1>2. /\ NoneRead \in RelatedElements /\ ~NoneRead.there
      /\ NoEditor \in EditorPage /\ NoEditor.pc = "closed" /\ NoEditor.kind = "none"
  BY <1>1 DEF NoneRead, Mixed, RelatedElements, NoEditor, EditorPage
<1>3. SettingsTypeOK
  BY <1>2 DEF SettingsTypeOK, StoredRules
<1>4. PagesSound
  BY <1>2 DEF PagesSound, PageSound, SaveSound, Saving
<1>5. related.cached = NoneRead /\ related.reading = NoneRead /\ last.kind = "none"
  BY DEF Nothing
<1> QED
  BY <1>2, <1>3, <1>4, <1>5
     DEF SettingsInv, LastOutlivesNoSave, ReadUnderNow, SettingsInForce, RulesAsShown, MappingAsShown, RelatedUnderSaved

(* What the steps of a page do to the pages.                               *)
LEMMA PageOpens ==
  ASSUME SettingsTypeOK, NEW p \in Editors, OpenStages(p) \/ OpenMapping(p)
  PROVE  /\ editor' \in [Editors -> EditorPage] /\ editor[p].pc = "closed" /\ editor'[p].pc = "open"
         /\ PageSound(p)'
         /\ \A q \in Editors : q # p => editor'[q] = editor[q]
<1>1. /\ NoRules \in [SectionStages -> {"none", "process", "closed"}] /\ Unmapped \in Mappings
      /\ DOMAIN editor = Editors
  BY DEF NoRules, Unmapped, Mappings, SettingsTypeOK
<1>2. NoEditor \in EditorPage
  BY <1>1 DEF NoEditor, EditorPage
<1>3. CASE OpenStages(p)
  <2>1. PICK shown \in SUBSET SectionStages :
          editor' = [editor EXCEPT ![p] = [NoEditor EXCEPT !.kind = "stages", !.pc = "open", !.stages = shown,
            !.initial = [s \in SectionStages |-> IF s \in shown THEN ReadAs(s) ELSE "none"],
            !.values = [s \in SectionStages |-> IF s \in shown THEN ReadAs(s) ELSE "none"]]]
    BY <1>3 DEF OpenStages
  <2> DEFINE v == [s \in SectionStages |-> IF s \in shown THEN ReadAs(s) ELSE "none"]
  <2>2. v \in [SectionStages -> {"none", "process", "closed"}] /\ \A s \in shown : v[s] \in Outcomes
    BY DEF ReadAs, Outcomes, SettingsTypeOK, StoredRules
  <2> HIDE DEF v
  <2>3. editor'[p] = [NoEditor EXCEPT !.kind = "stages", !.pc = "open", !.stages = shown, !.initial = v, !.values = v]
    BY <1>1, <2>1 DEF v
  <2>4. editor'[p] \in EditorPage /\ editor'[p].pc = "open" /\ editor'[p].stages = shown /\ editor'[p].values = v
    BY <1>2, <2>2, <2>3 DEF EditorPage
  <2>5. PageSound(p)'
    BY <2>2, <2>4 DEF PageSound
  <2>6. \A q \in Editors : q # p => editor'[q] = editor[q]
    BY <1>1, <2>1
  <2> QED
    BY <1>3, <2>1, <2>4, <2>5, <2>6 DEF OpenStages, SettingsTypeOK
<1>4. CASE OpenMapping(p)
  <2>1. editor' = [editor EXCEPT ![p] = [NoEditor EXCEPT !.kind = "mapping", !.pc = "open", !.fields = mapping]]
    BY <1>4 DEF OpenMapping
  <2>2. editor'[p] = [NoEditor EXCEPT !.kind = "mapping", !.pc = "open", !.fields = mapping]
    BY <1>1, <2>1
  <2>3. mapping \in Mappings
    BY DEF SettingsTypeOK
  <2>4. editor'[p] \in EditorPage /\ editor'[p].pc = "open" /\ editor'[p].kind = "mapping"
    BY <1>2, <2>2, <2>3 DEF EditorPage
  <2>5. PageSound(p)'
    BY <2>4 DEF PageSound
  <2>6. \A q \in Editors : q # p => editor'[q] = editor[q]
    BY <1>1, <2>1
  <2> QED
    BY <1>4, <2>1, <2>4, <2>5, <2>6 DEF OpenMapping, SettingsTypeOK
<1> QED
  BY <1>3, <1>4

LEMMA PageChanges ==
  ASSUME SettingsTypeOK, NEW p \in Editors, PageSound(p), ChooseOutcome(p) \/ ChooseFields(p)
  PROVE  /\ editor' \in [Editors -> EditorPage] /\ editor[p].pc = "open" /\ editor'[p].pc = "open"
         /\ PageSound(p)'
         /\ \A q \in Editors : q # p => editor'[q] = editor[q]
<1>1. editor[p] \in EditorPage /\ DOMAIN editor = Editors
  BY DEF SettingsTypeOK
<1>2. CASE ChooseOutcome(p)
  <2>1. PICK s \in editor[p].stages, o \in Outcomes : editor' = [editor EXCEPT ![p].values[s] = o]
    BY <1>2 DEF ChooseOutcome
  <2> DEFINE v == [editor[p].values EXCEPT ![s] = o]
  <2>2. editor[p].values \in [SectionStages -> {"none", "process", "closed"}] /\ s \in SectionStages
    BY <1>1 DEF EditorPage
  <2>3. v \in [SectionStages -> {"none", "process", "closed"}]
    BY <2>2 DEF Outcomes
  <2>4. \A t \in editor[p].stages : v[t] \in Outcomes
    BY <1>1, <1>2, <2>2 DEF PageSound, ChooseOutcome, EditorPage
  <2>5. editor' = [editor EXCEPT ![p].values = v]
    BY <1>1, <2>1
  <2> HIDE DEF v
  <2>6. /\ editor'[p] \in EditorPage /\ editor'[p].pc = editor[p].pc /\ editor'[p].values = v
        /\ editor'[p].stages = editor[p].stages
    BY <1>1, <2>3, <2>5 DEF EditorPage
  <2>7. PageSound(p)'
    BY <1>2, <2>4, <2>6 DEF PageSound, ChooseOutcome
  <2>8. \A q \in Editors : q # p => editor'[q] = editor[q]
    BY <1>1, <2>5
  <2> QED
    BY <1>2, <2>5, <2>6, <2>7, <2>8 DEF ChooseOutcome, SettingsTypeOK
<1>3. CASE ChooseFields(p)
  <2>1. PICK f \in Mappings : editor' = [editor EXCEPT ![p].fields = f]
    BY <1>3 DEF ChooseFields
  <2>2. editor'[p] \in EditorPage /\ editor'[p].pc = editor[p].pc /\ editor'[p].kind = editor[p].kind
    BY <1>1, <2>1 DEF EditorPage
  <2>3. PageSound(p)'
    BY <1>3, <2>2 DEF PageSound, ChooseFields
  <2>4. \A q \in Editors : q # p => editor'[q] = editor[q]
    BY <1>1, <2>1
  <2> QED
    BY <1>3, <2>1, <2>2, <2>3, <2>4 DEF ChooseFields, SettingsTypeOK
<1> QED
  BY <1>2, <1>3

LEMMA BegunDoes ==
  ASSUME SettingsTypeOK, NEW p \in Editors, NEW pc \in {"deleted", "checked"}, editor' = Begun(p, pc)
  PROVE  /\ editor' \in [Editors -> EditorPage]
         /\ editor'[p].pc = pc /\ editor'[p].overlapped = (Saving # {})
         /\ \A q \in Editors : q # p =>
              editor'[q].pc = editor[q].pc /\ editor'[q].overlapped = (editor[q].overlapped \/ q \in Saving)
         /\ \A q \in Editors :
              /\ editor'[q].kind = editor[q].kind /\ editor'[q].stages = editor[q].stages
              /\ editor'[q].values = editor[q].values /\ editor'[q].fields = editor[q].fields
<1> DEFINE overlaps == Saving # {}
<1>1. \A q \in Editors : editor[q] \in EditorPage
  BY DEF SettingsTypeOK
<1>2. overlaps \in BOOLEAN
  OBVIOUS
<1>3. \A q \in Editors : editor'[q] =
        IF q = p THEN [editor[p] EXCEPT !.pc = pc, !.overlapped = overlaps]
        ELSE IF q \in Saving THEN [editor[q] EXCEPT !.overlapped = TRUE] ELSE editor[q]
  BY DEF Begun
<1> HIDE DEF overlaps
<1>4. editor'[p] = [editor[p] EXCEPT !.pc = pc, !.overlapped = overlaps]
  BY <1>3
<1>5. /\ editor'[p] \in EditorPage /\ editor'[p].pc = pc /\ editor'[p].overlapped = overlaps
      /\ editor'[p].kind = editor[p].kind /\ editor'[p].stages = editor[p].stages
      /\ editor'[p].values = editor[p].values /\ editor'[p].fields = editor[p].fields
  BY <1>1, <1>2, <1>4 DEF EditorPage
<1>6. ASSUME NEW q \in Editors, q # p
      PROVE  /\ editor'[q] \in EditorPage
             /\ editor'[q].pc = editor[q].pc /\ editor'[q].overlapped = (editor[q].overlapped \/ q \in Saving)
             /\ editor'[q].kind = editor[q].kind /\ editor'[q].stages = editor[q].stages
             /\ editor'[q].values = editor[q].values /\ editor'[q].fields = editor[q].fields
  <2>1. editor[q] \in EditorPage
    BY <1>1
  <2>2. CASE q \in Saving
    <3>1. editor'[q] = [editor[q] EXCEPT !.overlapped = TRUE]
      BY <1>3, <1>6, <2>2
    <3> QED
      BY <2>1, <2>2, <3>1 DEF EditorPage
  <2>3. CASE q \notin Saving
    <3>1. editor'[q] = editor[q]
      BY <1>3, <1>6, <2>3
    <3> QED
      BY <2>1, <2>3, <3>1 DEF EditorPage
  <2> QED
    BY <2>2, <2>3
<1>7. editor' \in [Editors -> EditorPage]
  BY <1>5, <1>6 DEF Begun
<1> QED
  BY <1>5, <1>6, <1>7 DEF overlaps

LEMMA PageGoesOn ==
  ASSUME SettingsTypeOK, NEW p \in Editors, NEW pc \in {"open", "stored"}, editor' = [editor EXCEPT ![p].pc = pc]
  PROVE  /\ editor' \in [Editors -> EditorPage] /\ editor'[p].pc = pc
         /\ \A q \in Editors : q # p => editor'[q] = editor[q]
         /\ editor'[p].kind = editor[p].kind /\ editor'[p].stages = editor[p].stages
         /\ editor'[p].values = editor[p].values /\ editor'[p].fields = editor[p].fields
         /\ editor'[p].overlapped = editor[p].overlapped
<1>1. editor[p] \in EditorPage /\ DOMAIN editor = Editors
  BY DEF SettingsTypeOK
<1> QED
  BY <1>1 DEF EditorPage, SettingsTypeOK

(* Working on a page touches nothing that is saved.                        *)
LEMMA PagesStep ==
  ASSUME SettingsInv, NEW p \in Editors, OpenStages(p) \/ OpenMapping(p) \/ ChooseOutcome(p) \/ ChooseFields(p)
  PROVE  SettingsInv'
<1> USE DEF SettingsInv
<1>1. UNCHANGED <<rules, mapping, last, related>>
  BY DEF OpenStages, OpenMapping, ChooseOutcome, ChooseFields
<1>2. PageSound(p)
  BY DEF PagesSound
<1>3. /\ editor' \in [Editors -> EditorPage] /\ editor[p].pc \in {"closed", "open"} /\ editor'[p].pc = "open"
      /\ PageSound(p)'
      /\ \A q \in Editors : q # p => editor'[q] = editor[q]
  BY <1>2, PageOpens, PageChanges
<1>4. Saving' = Saving /\ p \notin Saving
  BY <1>3 DEF Saving
<1>5. SettingsTypeOK'
  BY <1>1, <1>3 DEF SettingsTypeOK
<1>6. PagesSound'
  <2>1. ASSUME NEW q \in Editors, q # p
        PROVE  PageSound(q)' /\ SaveSound(q)'
    BY <1>1, <1>3, <1>4, <2>1 DEF PagesSound, PageSound, SaveSound, ReadAs
  <2>2. SaveSound(p)'
    BY <1>4 DEF SaveSound
  <2> QED
    BY <1>3, <2>1, <2>2 DEF PagesSound
<1> QED
  BY <1>1, <1>4, <1>5, <1>6
     DEF LastOutlivesNoSave, ReadUnderNow, SettingsInForce, RulesAsShown, MappingAsShown, RelatedUnderSaved,
         ReadAs, UnderNow

(* While elements are being read, anything written makes them mixed.       *)
LEMMA WrittenMixes ==
  ASSUME SettingsTypeOK, related' = Written
  PROVE  /\ related' \in [cached : RelatedElements, reading : RelatedElements]
         /\ related'.reading.there => related'.reading.raced
         /\ related'.cached = related.cached
<1>1. NoRules \in StoredRules /\ Unmapped \in Mappings
  BY DEF NoRules, StoredRules, Unmapped, Mappings
<1>2. Mixed \in RelatedElements /\ NoneRead \in RelatedElements /\ Mixed.raced /\ ~NoneRead.there
  BY <1>1 DEF Mixed, NoneRead, RelatedElements
<1>3. related \in [cached : RelatedElements, reading : RelatedElements]
  BY DEF SettingsTypeOK
<1>4. related' = [related EXCEPT !.reading = IF related.reading.there THEN Mixed ELSE NoneRead]
  BY <1>3 DEF Written
<1> DEFINE next == IF related.reading.there THEN Mixed ELSE NoneRead
<1>5. next \in RelatedElements /\ (next.there => next.raced)
  BY <1>2
<1> HIDE DEF next
<1>6. related' = [related EXCEPT !.reading = next]
  BY <1>4 DEF next
<1> QED
  BY <1>3, <1>5, <1>6

LEMMA SaveBegins ==
  ASSUME SettingsInv, NEW p \in Editors, SaveStages(p) \/ CheckFields(p)
  PROVE  SettingsInv'
<1> USE DEF SettingsInv
<1>1. editor[p] \in EditorPage /\ \A q \in Editors : PageSound(q) /\ SaveSound(q)
  BY DEF SettingsTypeOK, PagesSound
<1>2. PICK pc \in {"deleted", "checked"} :
        /\ editor' = Begun(p, pc)
        /\ pc = "deleted" => editor[p].kind = "stages" /\ rules' = NoRules
        /\ pc = "checked" => editor[p].kind = "mapping"
  BY DEF SaveStages, CheckFields, RulesLeft
<1>3. editor[p].pc = "open" /\ mapping' = mapping /\ last' = Nothing
  BY DEF SaveStages, CheckFields
<1>4. /\ editor' \in [Editors -> EditorPage]
      /\ editor'[p].pc = pc /\ editor'[p].overlapped = (Saving # {})
      /\ \A q \in Editors : q # p =>
           editor'[q].pc = editor[q].pc /\ editor'[q].overlapped = (editor[q].overlapped \/ q \in Saving)
      /\ \A q \in Editors :
           /\ editor'[q].kind = editor[q].kind /\ editor'[q].stages = editor[q].stages
           /\ editor'[q].values = editor[q].values /\ editor'[q].fields = editor[q].fields
  BY <1>2, BegunDoes
<1>5. Saving' = Saving \cup {p} /\ p \notin Saving
  BY <1>3, <1>4 DEF Saving
<1>8. SettingsTypeOK' /\ ReadUnderNow'
  <2>1. CASE SaveStages(p)
    <3>1. rules' = NoRules /\ related' = Written
      BY <2>1 DEF SaveStages, RulesLeft
    <3>2. rules' \in StoredRules
      BY <3>1 DEF NoRules, StoredRules
    <3>3. /\ related' \in [cached : RelatedElements, reading : RelatedElements]
          /\ related'.reading.there => related'.reading.raced
      BY <3>1, WrittenMixes
    <3> QED
      BY <1>3, <1>4, <3>2, <3>3 DEF SettingsTypeOK, ReadUnderNow
  <2>2. CASE CheckFields(p)
    BY <1>3, <1>4, <2>2 DEF CheckFields, SettingsTypeOK, ReadUnderNow, UnderNow
  <2> QED
    BY <2>1, <2>2
<1>9. PagesSound'
  <2>1. ASSUME NEW q \in Editors
        PROVE  PageSound(q)'
    BY <1>1, <1>2, <1>4 DEF PageSound
  <2>2. ASSUME NEW q \in Editors, q # p
        PROVE  SaveSound(q)'
    BY <1>4, <1>5, <2>2 DEF SaveSound
  <2>3. SaveSound(p)'
    <3>1. CASE Saving = {}
      BY <1>2, <1>4, <1>5, <3>1 DEF SaveSound
    <3>2. CASE Saving # {}
      BY <1>4, <3>2 DEF SaveSound
    <3> QED
      BY <3>1, <3>2
  <2> QED
    BY <2>1, <2>2, <2>3 DEF PagesSound
<1>10. last'.kind = "none" /\ Saving' # {}
  BY <1>3, <1>5 DEF Nothing
<1> QED
  BY <1>8, <1>9, <1>10
     DEF LastOutlivesNoSave, SettingsInForce, RulesAsShown, MappingAsShown, RelatedUnderSaved

(* The second step of a save: the rules are put, or the fields are.        *)
LEMMA SaveStores ==
  ASSUME SettingsInv, NEW p \in Editors, InsertRules(p) \/ StoreMapping(p)
  PROVE  SettingsInv'
<1> USE DEF SettingsInv
<1>1. editor[p] \in EditorPage /\ \A q \in Editors : PageSound(q) /\ SaveSound(q)
  BY DEF SettingsTypeOK, PagesSound
<1>2. /\ editor' = [editor EXCEPT ![p].pc = "stored"] /\ related' = Written /\ last' = last
      /\ editor[p].pc \in {"deleted", "checked"}
  BY DEF InsertRules, StoreMapping
<1>3. /\ editor' \in [Editors -> EditorPage] /\ editor'[p].pc = "stored"
      /\ \A q \in Editors : q # p => editor'[q] = editor[q]
      /\ editor'[p].kind = editor[p].kind /\ editor'[p].stages = editor[p].stages
      /\ editor'[p].values = editor[p].values /\ editor'[p].fields = editor[p].fields
      /\ editor'[p].overlapped = editor[p].overlapped
  BY <1>2, PageGoesOn
<1>4. Saving' = Saving /\ p \in Saving
  BY <1>2, <1>3 DEF Saving
<1>5. /\ related' \in [cached : RelatedElements, reading : RelatedElements]
      /\ related'.reading.there => related'.reading.raced
  BY <1>2, WrittenMixes
<1>6. /\ rules' \in StoredRules /\ mapping' \in Mappings
      /\ ~editor[p].overlapped /\ editor[p].kind = "stages" =>
           \A s \in editor[p].stages : ReadAs(s)' = editor[p].values[s]
      /\ editor[p].kind = "mapping" => mapping' = editor[p].fields
  <2>1. CASE InsertRules(p)
    <3>1. /\ editor[p].pc = "deleted" /\ editor[p].kind = "stages" /\ mapping' = mapping
          /\ rules' = [s \in SectionStages |-> IF s \in Sent(p) THEN editor[p].values[s] ELSE rules[s]]
      BY <1>1, <2>1 DEF InsertRules, PageSound
    <3>2. \A s \in SectionStages : editor[p].values[s] \in {"none", "process", "closed"}
      BY <1>1 DEF EditorPage
    <3>3. rules \in StoredRules /\ mapping \in Mappings
      BY DEF SettingsTypeOK
    <3>4. rules' \in StoredRules
      BY <3>1, <3>2, <3>3 DEF Sent, StoredRules
    <3>5. ASSUME ~editor[p].overlapped, NEW s \in editor[p].stages
          PROVE  ReadAs(s)' = editor[p].values[s]
      <4>1. rules = NoRules
        BY <1>1, <1>4, <3>1, <3>5 DEF SaveSound
      <4>2. s \in SectionStages /\ editor[p].values[s] \in Outcomes
        BY <1>1, <3>1 DEF EditorPage, PageSound
      <4>3. rules'[s] = IF editor[p].values[s] \notin {"none", "process"} THEN editor[p].values[s] ELSE "none"
        BY <3>1, <4>1, <4>2 DEF Sent, NoRules
      <4> QED
        BY <4>2, <4>3 DEF ReadAs, Outcomes
    <3> QED
      BY <3>1, <3>3, <3>4, <3>5
  <2>2. CASE StoreMapping(p)
    <3>1. editor[p].kind = "mapping" /\ rules' = rules
      BY <1>1, <2>2 DEF StoreMapping, PageSound
    <3>2. mapping' = editor[p].fields /\ editor[p].fields \in Mappings
      BY <1>1, <2>2 DEF StoreMapping, Removes, EditorPage
    <3> QED
      BY <3>1, <3>2 DEF SettingsTypeOK
  <2> QED
    BY <2>1, <2>2
<1>7. SettingsTypeOK'
  BY <1>3, <1>5, <1>6 DEF SettingsTypeOK
<1>8. PagesSound'
  <2>1. ASSUME NEW q \in Editors, q # p
        PROVE  PageSound(q)' /\ SaveSound(q)'
    BY <1>1, <1>3, <1>4, <2>1 DEF PageSound, SaveSound
  <2>2. PageSound(p)'
    BY <1>1, <1>3 DEF PageSound
  <2>3. SaveSound(p)'
    <3> SUFFICES ASSUME ~editor[p].overlapped PROVE SaveSound(p)'
      BY <1>3 DEF SaveSound
    <3>1. Saving' = {p}
      BY <1>1, <1>4 DEF SaveSound
    <3> QED
      BY <1>3, <1>6, <3>1 DEF SaveSound, ReadAs
  <2> QED
    BY <2>1, <2>2, <2>3 DEF PagesSound
<1>9. last'.kind = "none" /\ Saving' # {}
  BY <1>2, <1>4 DEF LastOutlivesNoSave
<1> QED
  BY <1>5, <1>7, <1>8, <1>9
     DEF LastOutlivesNoSave, ReadUnderNow, SettingsInForce, RulesAsShown, MappingAsShown, RelatedUnderSaved

(* A save fails half way, or ends, and what was kept is mixed or forgotten.*)
LEMMA SaveFinishes ==
  ASSUME SettingsInv, NEW p \in Editors, InsertFails(p) \/ SaveEnds(p)
  PROVE  SettingsInv'
<1> USE DEF SettingsInv
<1>1. editor[p] \in EditorPage /\ \A q \in Editors : PageSound(q) /\ SaveSound(q)
  BY DEF SettingsTypeOK, PagesSound
<1>2. /\ editor' = [editor EXCEPT ![p].pc = "open"] /\ editor[p].pc \in {"deleted", "stored"}
      /\ UNCHANGED <<rules, mapping>>
  BY DEF InsertFails, SaveEnds
<1>3. /\ editor' \in [Editors -> EditorPage] /\ editor'[p].pc = "open"
      /\ \A q \in Editors : q # p => editor'[q] = editor[q]
      /\ editor'[p].kind = editor[p].kind /\ editor'[p].stages = editor[p].stages
      /\ editor'[p].values = editor[p].values /\ editor'[p].fields = editor[p].fields
      /\ editor'[p].overlapped = editor[p].overlapped
  BY <1>2, PageGoesOn
<1>4. Saving' = Saving \ {p} /\ p \in Saving
  BY <1>2, <1>3 DEF Saving
<1>5. Mixed \in RelatedElements /\ NoneRead \in RelatedElements /\ Mixed.raced /\ ~NoneRead.there
  BY DEF Mixed, NoneRead, RelatedElements, NoRules, StoredRules, Unmapped, Mappings
<1>6. related \in [cached : RelatedElements, reading : RelatedElements]
  BY DEF SettingsTypeOK
<1>7. /\ related' \in [cached : RelatedElements, reading : RelatedElements]
      /\ related'.reading = related.reading
      /\ related'.cached.there => related'.cached.raced
  <2>1. PICK kept \in {Mixed, NoneRead} : related' = [related EXCEPT !.cached = kept]
    <3>1. CASE InsertFails(p)
      <4>1. related' = [related EXCEPT !.cached = IF related.cached.there THEN Mixed ELSE NoneRead]
        BY <1>6, <3>1 DEF InsertFails
      <4> QED
        BY <4>1
    <3>2. CASE SaveEnds(p)
      BY <3>2 DEF SaveEnds, Forgotten
    <3> QED
      BY <3>1, <3>2
  <2>2. kept \in RelatedElements /\ (kept.there => kept.raced)
    BY <1>5
  <2> QED
    BY <1>6, <2>1, <2>2
<1>8. SettingsTypeOK'
  BY <1>2, <1>3, <1>7 DEF SettingsTypeOK
<1>9. PagesSound'
  <2>1. ASSUME NEW q \in Editors, q # p
        PROVE  PageSound(q)' /\ SaveSound(q)'
    BY <1>1, <1>2, <1>3, <1>4, <2>1 DEF PageSound, SaveSound, ReadAs
  <2>2. PageSound(p)' /\ SaveSound(p)'
    BY <1>1, <1>3, <1>4 DEF PageSound, SaveSound
  <2> QED
    BY <2>1, <2>2 DEF PagesSound
<1>10. /\ last'.kind # "none" => Saving' = {}
       /\ RulesAsShown' /\ MappingAsShown'
  <2>1. CASE last' = Nothing
    BY <2>1 DEF Nothing, RulesAsShown, MappingAsShown
  <2>2. CASE SaveEnds(p) /\ ~editor[p].overlapped
    <3>1. last' = [kind |-> editor[p].kind, stages |-> editor[p].stages, values |-> editor[p].values,
                   fields |-> editor[p].fields]
      BY <2>2 DEF SaveEnds
    <3>2. editor[p].pc = "stored" /\ Saving = {p}
      BY <1>1, <1>4, <2>2 DEF SaveEnds, SaveSound
    <3> QED
      BY <1>1, <1>2, <1>4, <2>2, <3>1, <3>2 DEF SaveSound, RulesAsShown, MappingAsShown, ReadAs
  <2> QED
    BY <2>1, <2>2 DEF InsertFails, SaveEnds
<1> QED
  BY <1>2, <1>7, <1>8, <1>9, <1>10
     DEF LastOutlivesNoSave, ReadUnderNow, SettingsInForce, RelatedUnderSaved, UnderNow

(* Elements are read, kept and dropped, and fields vanish, beside all that.*)
LEMMA ElementsStep ==
  ASSUME SettingsInv, FieldDeleted \/ BeginRelated \/ RelatedRead \/ RelatedGone
  PROVE  SettingsInv'
<1> USE DEF SettingsInv
<1>1. UNCHANGED <<rules, mapping, editor, last>>
  BY DEF FieldDeleted, BeginRelated, RelatedRead, RelatedGone
<1>2. /\ UnderNow \in RelatedElements /\ UnderNow' = UnderNow
      /\ Mixed \in RelatedElements /\ NoneRead \in RelatedElements /\ Mixed.raced /\ ~NoneRead.there
  BY <1>1 DEF UnderNow, Mixed, NoneRead, RelatedElements, NoRules, StoredRules, Unmapped, Mappings, SettingsTypeOK
<1>3. related \in [cached : RelatedElements, reading : RelatedElements]
  BY DEF SettingsTypeOK
<1>4. /\ related' \in [cached : RelatedElements, reading : RelatedElements]
      /\ \/ related'.reading = related.reading
         \/ related'.reading = UnderNow
         \/ related'.reading = Mixed
         \/ related'.reading = NoneRead
      /\ \/ related'.cached = related.cached
         \/ related'.cached = NoneRead
         \/ related'.cached = related.reading /\ related.reading.there
  <2>1. CASE FieldDeleted
    <3>1. related' = related
      BY <2>1 DEF FieldDeleted
    <3> QED
      BY <1>2, <1>3, <3>1
  <2>2. CASE BeginRelated
    <3>1. PICK begun \in {UnderNow, Mixed} : related' = [related EXCEPT !.reading = begun]
      BY <2>2 DEF BeginRelated
    <3> QED
      BY <1>2, <1>3, <3>1
  <2>3. CASE RelatedRead
    BY <1>2, <1>3, <2>3 DEF RelatedRead
  <2>4. CASE RelatedGone
    <3>1. CASE related' = [related EXCEPT !.cached = NoneRead]
      BY <1>2, <1>3, <3>1
    <3>2. CASE related' = [related EXCEPT !.reading = NoneRead]
      BY <1>2, <1>3, <3>2
    <3> QED
      BY <2>4, <3>1, <3>2 DEF RelatedGone
  <2> QED
    BY <2>1, <2>2, <2>3, <2>4
<1>5. SettingsTypeOK' /\ Saving' = Saving
  BY <1>1, <1>4 DEF SettingsTypeOK, Saving
<1>6. PagesSound' /\ LastOutlivesNoSave'
  BY <1>1, <1>5 DEF PagesSound, PageSound, SaveSound, ReadAs, LastOutlivesNoSave
<1>7. ReadUnderNow' /\ RelatedUnderSaved'
  BY <1>2, <1>4, <1>5 DEF ReadUnderNow, SettingsInForce, RelatedUnderSaved
<1> QED
  BY <1>1, <1>5, <1>6, <1>7 DEF SettingsInForce, RulesAsShown, MappingAsShown, ReadAs

(* However many pages are open and however old, the CRM is read as the     *)
(* page saved last showed it, unless another save overlapped that one, and *)
(* what is kept in memory is read under the settings of now.               *)
THEOREM SettingsAreInForce == SettingsSpec => []SettingsInForce
<1>1. SettingsInv /\ [SettingsNext]_settingsVars => SettingsInv'
  <2> SUFFICES ASSUME SettingsInv, [SettingsNext]_settingsVars PROVE SettingsInv'
    OBVIOUS
  <2>1. CASE SettingsNext
    BY <2>1, PagesStep, SaveBegins, SaveStores, SaveFinishes, ElementsStep DEF SettingsNext
  <2>2. CASE UNCHANGED settingsVars
    BY <2>2 DEF settingsVars, SettingsInv, SettingsTypeOK, PagesSound, PageSound, SaveSound, Saving, ReadAs,
                LastOutlivesNoSave, ReadUnderNow, UnderNow, SettingsInForce, RulesAsShown, MappingAsShown,
                RelatedUnderSaved
  <2> QED
    BY <2>1, <2>2
<1>2. SettingsInv => SettingsInForce
  BY DEF SettingsInv
<1> QED
  BY <1>1, <1>2, InitSettingsInv, PTL DEF SettingsSpec

-----------------------------------------------------------------------------
(* Loads behind the analytics cache.                                       *)

USE DEF Cached, NoCache, Round, NoRound, Req, IdleReq

(* Every save is followed by one invalidation, so the epoch never runs     *)
(* ahead of the settings.                                                  *)
EpochFollowsSettings == epoch + owed = settings

(* The registered load is running and was started in the current epoch,    *)
(* and it is the only such load: a page joins it instead of starting       *)
(* another one, and an invalidation leaves none behind.                    *)
RegisteredIsCurrent ==
  /\ inflight # NoLoad => loads[inflight].running /\ loads[inflight].epoch = epoch
  /\ \A l \in Loads : loads[l].running =>
       /\ loads[l].epoch <= epoch
       /\ loads[l].epoch = epoch => l = inflight

(* CacheSound is not inductive: that only one load belongs to an epoch, and *)
(* that its data may be cached, rests on what is registered.               *)
CacheInv == CacheSound /\ EpochFollowsSettings /\ RegisteredIsCurrent

-----------------------------------------------------------------------------
LEMMA InitCacheInv == Init => CacheInv
<1> SUFFICES ASSUME Init PROVE CacheInv
  OBVIOUS
<1> USE LoadAssumption, VersionAssumption DEF Init
<1>1. TypeOK
  BY DEF TypeOK, Versions, CacheEntry, Ages, Load, Request, ReqSteps
<1>2. CachedSinceInvalidation /\ OneRoundOfCalls /\ WaitersHaveALoad
  BY DEF CachedSinceInvalidation, OneRoundOfCalls, WaitersHaveALoad
<1>3. EpochFollowsSettings /\ RegisteredIsCurrent
  BY DEF EpochFollowsSettings, RegisteredIsCurrent
<1> QED
  BY <1>1, <1>2, <1>3 DEF CacheInv, CacheSound

(* A load starts only when none is registered, and is then the registered  *)
(* one; joining a load changes nothing.                                    *)
LEMMA LoadOnceKeeps ==
  ASSUME CacheInv, NEW l \in Loads, NEW v \in Versions, LoadOnce(l, v),
         UNCHANGED <<settings, owed, epoch, cache>>
  PROVE  /\ inflight' = l
         /\ loads' \in [Loads -> Load] /\ loads'[l].running
         /\ \A k \in Loads : loads[k].running => loads'[k] = loads[k]
         /\ RegisteredIsCurrent' /\ OneRoundOfCalls'
<1> USE LoadAssumption, VersionAssumption DEF CacheInv, CacheSound
<1>1. CASE inflight = l /\ UNCHANGED <<inflight, loads>>
  BY <1>1 DEF TypeOK, RegisteredIsCurrent, OneRoundOfCalls
<1>2. CASE inflight = NoLoad /\ StartLoad(l, v)
  <2>1. inflight' = l /\ loads' = [loads EXCEPT ![l] = Round(v, epoch)] /\ ~loads[l].running
    BY <1>2 DEF StartLoad
  <2>2. Round(v, epoch) \in Load
    BY DEF TypeOK, Load
  <2>3. \A k \in Loads : loads[k].running => loads[k].epoch < epoch
    BY <1>2 DEF TypeOK, RegisteredIsCurrent, Load, Versions
  <2>4. RegisteredIsCurrent' /\ OneRoundOfCalls'
    BY <2>1, <2>3 DEF TypeOK, RegisteredIsCurrent, OneRoundOfCalls, Load, Versions
  <2> QED
    BY <2>1, <2>2, <2>4 DEF TypeOK
<1> QED
  BY <1>1, <1>2 DEF LoadOnce

(* The end of a load, whether its data is kept or not.                     *)
LEMMA EndedKeeps ==
  ASSUME CacheInv, NEW l \in Loads, loads[l].running, Ended(l),
         inflight' = IF inflight = l THEN NoLoad ELSE inflight,
         UNCHANGED <<settings, owed, epoch>>
  PROVE  /\ loads' \in [Loads -> Load] /\ inflight' \in Loads \cup {NoLoad}
         /\ req' \in [Requests -> Request]
         /\ \A r \in Requests : req'[r].at = "wait" <=> req'[r].load # NoLoad
         /\ OneRoundOfCalls' /\ WaitersHaveALoad'
         /\ EpochFollowsSettings' /\ RegisteredIsCurrent'
<1> USE LoadAssumption, VersionAssumption DEF CacheInv, CacheSound
<1>1. loads' \in [Loads -> Load] /\ inflight' \in Loads \cup {NoLoad}
  BY DEF TypeOK, Ended, Load, Versions
<1>2. req' \in [Requests -> Request]
      /\ \A r \in Requests : req'[r].at = "wait" <=> req'[r].load # NoLoad
  BY DEF TypeOK, Ended, Request, ReqSteps, Versions
<1>3. OneRoundOfCalls'
  BY DEF TypeOK, Ended, OneRoundOfCalls
<1>4. WaitersHaveALoad'
  BY DEF TypeOK, Ended, WaitersHaveALoad, Request
<1>5. EpochFollowsSettings' /\ RegisteredIsCurrent'
  BY DEF TypeOK, Ended, EpochFollowsSettings, RegisteredIsCurrent
<1> QED
  BY <1>1, <1>2, <1>3, <1>4, <1>5

LEMMA StepCacheInv == CacheInv /\ [Next]_vars => CacheInv'
<1> SUFFICES ASSUME CacheInv, [Next]_vars PROVE CacheInv'
  OBVIOUS
<1> USE LoadAssumption, VersionAssumption DEF CacheInv, CacheSound
<1>1. CASE SaveSettings
  <2>1. settings + 1 \in Versions /\ owed + 1 \in Versions
    BY <1>1 DEF SaveSettings, TypeOK, Versions, EpochFollowsSettings
  <2>2. TypeOK' /\ EpochFollowsSettings'
    BY <1>1, <2>1 DEF SaveSettings, TypeOK, Versions, EpochFollowsSettings
  <2> QED
    BY <1>1, <2>2 DEF SaveSettings, CachedSinceInvalidation, OneRoundOfCalls,
                      WaitersHaveALoad, RegisteredIsCurrent
<1>2. CASE Invalidate
  <2>1. epoch + 1 \in Versions /\ owed - 1 \in Versions
    BY <1>2 DEF Invalidate, TypeOK, Versions, EpochFollowsSettings
  <2>2. TypeOK' /\ EpochFollowsSettings'
    BY <1>2, <2>1 DEF Invalidate, TypeOK, Versions, EpochFollowsSettings, CacheEntry, Ages
  <2>3. RegisteredIsCurrent'
    BY <1>2 DEF Invalidate, TypeOK, Versions, Load, RegisteredIsCurrent
  <2> QED
    BY <1>2, <2>2, <2>3 DEF Invalidate, CachedSinceInvalidation, OneRoundOfCalls,
                            WaitersHaveALoad
<1>3. CASE Age
  <2>1. TypeOK'
    BY <1>3 DEF Age, TypeOK, CacheEntry, Ages
  <2>2. CachedSinceInvalidation'
    BY <1>3 DEF Age, CachedSinceInvalidation
  <2> QED
    BY <1>3, <2>1, <2>2 DEF Age, OneRoundOfCalls, WaitersHaveALoad,
                            EpochFollowsSettings, RegisteredIsCurrent
<1>4. ASSUME NEW r \in Requests, ReadSettings(r) \/ ServeFresh(r)
      PROVE  CacheInv'
  <2>1. TypeOK' /\ WaitersHaveALoad'
    BY <1>4 DEF ReadSettings, ServeFresh, TypeOK, Request, ReqSteps, Versions, WaitersHaveALoad
  <2> QED
    BY <1>4, <2>1 DEF ReadSettings, ServeFresh, CachedSinceInvalidation, OneRoundOfCalls,
                      EpochFollowsSettings, RegisteredIsCurrent
<1>5. ASSUME NEW r \in Requests, ServeStale(r) \/ WaitForLoad(r)
      PROVE  CacheInv'
  <2>1. PICK l \in Loads : /\ LoadOnce(l, req[r].version)
                           /\ \/ req' = [req EXCEPT ![r] = IdleReq]
                              \/ req' = [req EXCEPT ![r] = Req("wait", req[r].version, l)]
    BY <1>5 DEF ServeStale, WaitForLoad
  <2>2. UNCHANGED <<settings, owed, epoch, cache>> /\ req[r].at = "read"
    BY <1>5 DEF ServeStale, WaitForLoad
  <2>3. req[r].version \in Versions
    BY DEF TypeOK, Request
  <2>4. /\ inflight' = l
        /\ loads' \in [Loads -> Load] /\ loads'[l].running
        /\ \A k \in Loads : loads[k].running => loads'[k] = loads[k]
        /\ RegisteredIsCurrent' /\ OneRoundOfCalls'
    BY <2>1, <2>2, <2>3, LoadOnceKeeps
  <2>5. TypeOK'
    <3>1. /\ req' \in [Requests -> Request]
          /\ \A q \in Requests : req'[q].at = "wait" <=> req'[q].load # NoLoad
      <4>1. CASE req' = [req EXCEPT ![r] = IdleReq]
        BY <4>1, <2>3 DEF TypeOK, Request, ReqSteps, Versions
      <4>2. CASE req' = [req EXCEPT ![r] = Req("wait", req[r].version, l)]
        BY <4>2, <2>3 DEF TypeOK, Request, ReqSteps
      <4> QED
        BY <2>1, <4>1, <4>2
    <3> QED
      BY <2>2, <2>4, <3>1 DEF TypeOK
  <2>6. WaitersHaveALoad'
    BY <2>1, <2>4 DEF TypeOK, WaitersHaveALoad, Request
  <2> QED
    BY <2>2, <2>4, <2>5, <2>6 DEF CachedSinceInvalidation, EpochFollowsSettings
<1>6. ASSUME NEW l \in Loads, LoadSucceeds(l) \/ LoadFails(l)
      PROVE  CacheInv'
  <2>1. /\ loads[l].running /\ Ended(l)
        /\ inflight' = IF inflight = l THEN NoLoad ELSE inflight
        /\ UNCHANGED <<settings, owed, epoch>>
    BY <1>6 DEF LoadSucceeds, LoadFails
  <2>2. /\ loads' \in [Loads -> Load] /\ inflight' \in Loads \cup {NoLoad}
        /\ req' \in [Requests -> Request]
        /\ \A r \in Requests : req'[r].at = "wait" <=> req'[r].load # NoLoad
        /\ OneRoundOfCalls' /\ WaitersHaveALoad'
        /\ EpochFollowsSettings' /\ RegisteredIsCurrent'
    BY <2>1, EndedKeeps
  <2>3. cache' \in CacheEntry /\ CachedSinceInvalidation'
    <3>1. CASE inflight = l /\ cache' = Cached("fresh", loads[l].version, loads[l].epoch)
      BY <3>1, <2>1 DEF TypeOK, CacheEntry, Ages, Load, RegisteredIsCurrent,
                        CachedSinceInvalidation
    <3>2. CASE UNCHANGED cache
      BY <3>2, <2>1 DEF TypeOK, CachedSinceInvalidation
    <3> QED
      BY <1>6, <3>1, <3>2 DEF LoadSucceeds, LoadFails
  <2> QED
    BY <2>1, <2>2, <2>3 DEF TypeOK
<1>7. CASE UNCHANGED vars
  BY <1>7 DEF vars, TypeOK, CachedSinceInvalidation, OneRoundOfCalls, WaitersHaveALoad,
              EpochFollowsSettings, RegisteredIsCurrent
<1> QED
  BY <1>1, <1>2, <1>3, <1>4, <1>5, <1>6, <1>7 DEF Next

(* Whatever is saved, invalidated, asked for and lost on the way, the      *)
(* cache holds only data loaded since the last invalidation, pages of one  *)
(* epoch share one load, and a waiting page waits for a running load.      *)
THEOREM CacheIsSound == Spec => []CacheSound
<1>1. CacheInv => CacheSound
  BY DEF CacheInv
<1> QED
  BY <1>1, InitCacheInv, StepCacheInv, PTL DEF Spec

(* The promise does not depend on fairness: it holds of the fair           *)
(* specification the run checks as well.                                   *)
THEOREM FairCacheIsSound == FairSpec => []CacheSound
BY CacheIsSound, PTL DEF FairSpec

-----------------------------------------------------------------------------
(* Lists read page by page.                                                *)

(* Rows taken one by one, those already there left out.                    *)
Steps(out, rows, page, n) ==
  out = [i \in 0 .. n |->
           IF i = 0 THEN rows
           ELSE IF page[i] \in ToSet(out[i - 1]) THEN out[i - 1] ELSE Append(out[i - 1], page[i])]

LEMMA StepsExist ==
  ASSUME NEW rows, NEW page, NEW n \in Nat
  PROVE  \E out : Steps(out, rows, page, n)
<1> DEFINE bad == {m \in Nat : ~ \E out : Steps(out, rows, page, m)}
<1> SUFFICES ASSUME bad # {} PROVE FALSE
  OBVIOUS
<1>1. PICK m \in bad : \A k \in bad : m <= k
  <2>1. bad \in SUBSET Nat
    OBVIOUS
  <2> HIDE DEF bad
  <2> QED BY <2>1, SmallestNumber
<1>2. CASE m = 0
  <2>1. Steps([i \in 0 .. 0 |-> rows], rows, page, 0)
    BY DEF Steps
  <2> QED BY <1>2, <2>1
<1>3. CASE m # 0
  <2>1. m - 1 \in Nat /\ m \in Nat
    BY <1>3
  <2>2. PICK out : Steps(out, rows, page, m - 1)
    BY <1>1, <2>1
  <2> DEFINE ends == IF page[m] \in ToSet(out[m - 1]) THEN out[m - 1] ELSE Append(out[m - 1], page[m])
             longer == [i \in 0 .. m |-> IF i = m THEN ends ELSE out[i]]
  <2>3. Steps(longer, rows, page, m)
    <3>1. \A i \in 0 .. m : i # m => i \in 0 .. (m - 1) /\ longer[i] = out[i]
      BY <2>1
    <3>2. \A i \in 0 .. m : i # 0 => longer[i - 1] = out[i - 1]
      BY <2>1
    <3>3. \A i \in 0 .. m :
            longer[i] = IF i = 0 THEN rows
                        ELSE IF page[i] \in ToSet(longer[i - 1]) THEN longer[i - 1]
                             ELSE Append(longer[i - 1], page[i])
      <4> TAKE i \in 0 .. m
      <4>1. CASE i = m
        <5>1. longer[i] = ends
          BY <4>1
        <5> QED BY <1>3, <3>2, <4>1, <5>1
      <4>2. CASE i # m
        <5>1. longer[i] = out[i] /\ i \in 0 .. (m - 1)
          BY <3>1, <4>2
        <5>2. out[i] = IF i = 0 THEN rows
                       ELSE IF page[i] \in ToSet(out[i - 1]) THEN out[i - 1]
                            ELSE Append(out[i - 1], page[i])
          BY <2>2, <5>1 DEF Steps
        <5> QED BY <3>2, <5>1, <5>2
      <4> QED BY <4>1, <4>2
    <3>4. longer = [i \in 0 .. m |-> longer[i]]
      OBVIOUS
    <3> HIDE DEF longer
    <3> QED BY <3>3, <3>4 DEF Steps
  <2> QED BY <2>3
<1> QED BY <1>2, <1>3

Once(s) == \A i, j \in 1 .. Len(s) : s[i] = s[j] => i = j

(* Rows found one by one: what was there, and what the page brings.        *)
FoundSoFar(o, rows, page, i) ==
  /\ o \in Seq(Nat)
  /\ Len(rows) <= Len(o) /\ Len(o) <= Len(rows) + i
  /\ ToSet(o) = ToSet(rows) \cup {page[j] : j \in 1 .. i}
  /\ Once(rows) => Once(o)
  /\ Once(page) /\ (\A j \in 1 .. Len(page) : page[j] \notin ToSet(rows)) => o = rows \o SubSeq(page, 1, i)

LEMMA FoundFirst == ASSUME NEW rows \in Seq(Nat), NEW page PROVE FoundSoFar(rows, rows, page, 0)
<1>1. SubSeq(page, 1, 0) = <<>> /\ rows \o <<>> = rows
  BY SubSeqEmpty, ConcatEmptySeq
<1>2. {page[j] : j \in 1 .. 0} = {}
  OBVIOUS
<1>3. Len(rows) \in Nat
  OBVIOUS
<1> QED BY <1>1, <1>2, <1>3 DEF FoundSoFar

LEMMA FoundNext ==
  ASSUME NEW rows \in Seq(Nat), NEW page \in Seq(Nat), NEW i \in 1 .. Len(page), NEW o, FoundSoFar(o, rows, page, i - 1)
  PROVE  FoundSoFar(IF page[i] \in ToSet(o) THEN o ELSE Append(o, page[i]), rows, page, i)
<1>0. o \in Seq(Nat) /\ page[i] \in Nat /\ i - 1 \in Nat /\ Len(o) \in Nat /\ Len(rows) \in Nat /\ Len(page) \in Nat /\ i \in Nat
  <2>1. o \in Seq(Nat)
    BY DEF FoundSoFar
  <2> QED BY <2>1
<1>1. {page[j] : j \in 1 .. i} = {page[j] : j \in 1 .. (i - 1)} \cup {page[i]}
  <2>1. 1 .. i = (1 .. (i - 1)) \cup {i}
    OBVIOUS
  <2> QED BY <2>1
<1>2. CASE page[i] \in ToSet(o)
  <2>1. ToSet(o) = ToSet(rows) \cup {page[j] : j \in 1 .. i}
    BY <1>1, <1>2 DEF FoundSoFar
  <2>2. ~(Once(page) /\ \A j \in 1 .. Len(page) : page[j] \notin ToSet(rows))
    <3> SUFFICES ASSUME Once(page), \A j \in 1 .. Len(page) : page[j] \notin ToSet(rows) PROVE FALSE
      OBVIOUS
    <3>1. PICK j \in 1 .. (i - 1) : page[i] = page[j]
      BY <1>2 DEF FoundSoFar
    <3> QED BY <3>1, <1>0 DEF Once
  <2> QED BY <1>0, <1>2, <2>1, <2>2 DEF FoundSoFar
<1>3. CASE page[i] \notin ToSet(o)
  <2> DEFINE n == Append(o, page[i])
  <2>1. n \in Seq(Nat) /\ Len(n) = Len(o) + 1 /\ n[Len(o) + 1] = page[i] /\ \A k \in 1 .. Len(o) : n[k] = o[k]
    BY <1>0, AppendProperties
  <2>2. ToSet(n) = ToSet(o) \cup {page[i]}
    <3>1. DOMAIN n = (1 .. Len(o)) \cup {Len(o) + 1} /\ DOMAIN o = 1 .. Len(o)
      BY <2>1, <1>0, LenProperties
    <3> HIDE DEF n
    <3> QED BY <2>1, <3>1, <1>0 DEF ToSet
  <2>3. Once(rows) => Once(n)
    <3>1. \A k \in 1 .. Len(o) : o[k] # page[i]
      BY <1>0, <1>3, LenProperties DEF ToSet
    <3> HIDE DEF n
    <3> SUFFICES ASSUME Once(o), NEW x \in 1 .. Len(n), NEW y \in 1 .. Len(n), n[x] = n[y] PROVE x = y
      BY DEF FoundSoFar, Once
    <3>2. x \in 1 .. Len(o) \/ x = Len(o) + 1
      BY <2>1, <1>0
    <3>3. y \in 1 .. Len(o) \/ y = Len(o) + 1
      BY <2>1, <1>0
    <3> QED BY <2>1, <3>1, <3>2, <3>3 DEF Once
  <2>4. o = rows \o SubSeq(page, 1, i - 1) => n = rows \o SubSeq(page, 1, i)
    <3>1. \A k \in 1 .. i : page[k] \in Nat
      BY <1>0
    <3>2. SubSeq(page, 1, i) \in Seq(Nat) /\ Len(SubSeq(page, 1, i)) = i /\ \A k \in 1 .. i : SubSeq(page, 1, i)[k] = page[k]
      BY <1>0, <3>1, SubSeqProperties
    <3>3. SubSeq(page, 1, i - 1) \in Seq(Nat) /\ Len(SubSeq(page, 1, i - 1)) = i - 1
          /\ \A k \in 1 .. (i - 1) : SubSeq(page, 1, i - 1)[k] = page[k]
      BY <1>0, <3>1, SubSeqProperties
    <3> DEFINE a == SubSeq(page, 1, i - 1)
               b == SubSeq(page, 1, i)
    <3> HIDE DEF a, b
    <3>4. Len(rows \o a) = Len(rows) + i - 1 /\ \A k \in 1 .. (Len(rows) + i - 1) :
             (rows \o a)[k] = IF k <= Len(rows) THEN rows[k] ELSE page[k - Len(rows)]
      <4>1. a \in Seq(Nat) /\ Len(a) = i - 1 /\ \A k \in 1 .. (i - 1) : a[k] = page[k]
        BY <3>3 DEF a
      <4>2. rows \o a \in Seq(Nat) /\ Len(rows \o a) = Len(rows) + Len(a) /\ \A k \in 1 .. Len(rows) + Len(a) :
               (rows \o a)[k] = IF k <= Len(rows) THEN rows[k] ELSE a[k - Len(rows)]
        BY <4>1, ConcatProperties
      <4>3. \A k \in 1 .. (Len(rows) + Len(a)) : k <= Len(rows) \/ k - Len(rows) \in 1 .. Len(a)
        BY <1>0, <4>1
      <4> DEFINE c == rows \o a
      <4> HIDE DEF c
      <4> QED BY <1>0, <4>1, <4>2, <4>3 DEF c
    <3>5. (rows \o b) \in Seq(Nat) /\ Len(rows \o b) = Len(rows) + i /\ \A k \in 1 .. (Len(rows) + i) :
             (rows \o b)[k] = IF k <= Len(rows) THEN rows[k] ELSE page[k - Len(rows)]
      <4>1. b \in Seq(Nat) /\ Len(b) = i /\ \A k \in 1 .. i : b[k] = page[k]
        BY <3>2 DEF b
      <4>2. rows \o b \in Seq(Nat) /\ Len(rows \o b) = Len(rows) + Len(b) /\ \A k \in 1 .. Len(rows) + Len(b) :
               (rows \o b)[k] = IF k <= Len(rows) THEN rows[k] ELSE b[k - Len(rows)]
        BY <4>1, ConcatProperties
      <4>3. \A k \in 1 .. (Len(rows) + Len(b)) : k <= Len(rows) \/ k - Len(rows) \in 1 .. Len(b)
        BY <1>0, <4>1
      <4> DEFINE c == rows \o b
      <4> HIDE DEF c
      <4> QED BY <1>0, <4>1, <4>2, <4>3 DEF c
    <3> SUFFICES ASSUME o = rows \o a PROVE n = rows \o b
      BY DEF a, b
    <3>6. Len(n) = Len(rows) + i /\ Len(o) = Len(rows) + i - 1
      BY <3>4, <2>1, <1>0
    <3>7. \A k \in 1 .. Len(n) : n[k] = (rows \o b)[k]
      <4> TAKE k \in 1 .. Len(n)
      <4> HIDE DEF n
      <4> DEFINE c == rows \o b
      <4> HIDE DEF c
      <4>0. k \in 1 .. (Len(rows) + i) /\ k \in Nat /\ Len(o) = Len(rows) + i - 1 /\ Len(n) = Len(rows) + i
        BY <3>6, <1>0
      <4>1. CASE k = Len(n)
        <5>1. k = Len(rows) + i /\ k = Len(o) + 1 /\ k - Len(rows) = i /\ ~(k <= Len(rows))
          BY <4>0, <4>1, <1>0
        <5>2. c[k] = page[i]
          BY <4>0, <5>1, <3>5 DEF c
        <5> QED BY <5>1, <5>2, <2>1 DEF c
      <4>2. CASE k # Len(n)
        <5>1. k \in 1 .. Len(o) /\ k \in 1 .. (Len(rows) + i - 1) /\ k \in 1 .. (Len(rows) + i)
          BY <4>0, <4>2, <1>0
        <5>2. c[k] = IF k <= Len(rows) THEN rows[k] ELSE page[k - Len(rows)]
          BY <5>1, <3>5 DEF c
        <5>3. o[k] = IF k <= Len(rows) THEN rows[k] ELSE page[k - Len(rows)]
          BY <5>1, <3>4
        <5> QED BY <5>1, <5>2, <5>3, <2>1 DEF c
      <4> QED BY <4>1, <4>2
    <3> HIDE DEF n
    <3> QED BY <2>1, <3>5, <3>6, <3>7, SeqEqual
  <2> HIDE DEF n
  <2>5. FoundSoFar(n, rows, page, i)
    <3>1. Len(rows) <= Len(n) /\ Len(n) <= Len(rows) + i
      <4>1. Len(rows) <= Len(o) /\ Len(o) <= Len(rows) + (i - 1)
        BY DEF FoundSoFar
      <4>2. Len(n) = Len(o) + 1
        BY <2>1
      <4> QED BY <1>0, <4>1, <4>2
    <3>2. ToSet(n) = ToSet(rows) \cup {page[j] : j \in 1 .. i}
      BY <1>1, <2>2 DEF FoundSoFar
    <3> QED BY <2>1, <2>3, <2>4, <3>1, <3>2 DEF FoundSoFar
  <2> QED BY <1>3, <2>5 DEF n
<1> QED BY <1>2, <1>3

(* What a page adds when the rows already there are skipped.               *)
LEMMA SkippingFinds ==
  ASSUME NEW rows \in Seq(Nat), NEW page \in Seq(Nat)
  PROVE  FoundSoFar(Skipping(rows, page), rows, page, Len(page))
<1> DEFINE out == CHOOSE out : Steps(out, rows, page, Len(page))
<1>0. Len(page) \in Nat
  OBVIOUS
<1>1. Steps(out, rows, page, Len(page))
  BY <1>0, StepsExist
<1>2. Skipping(rows, page) = out[Len(page)]
  BY DEF Skipping, Steps
<1> DEFINE bad == {i \in 0 .. Len(page) : ~FoundSoFar(out[i], rows, page, i)}
<1> HIDE DEF out
<1>3. bad = {}
  <2> SUFFICES ASSUME bad # {} PROVE FALSE
    OBVIOUS
  <2>1. PICK i \in bad : \A k \in bad : i <= k
    <3>1. bad \in SUBSET Nat
      BY <1>0
    <3> HIDE DEF bad
    <3> QED BY <3>1, SmallestNumber
  <2>2. CASE i = 0
    <3>1. out[0] = rows
      BY <1>0, <1>1 DEF Steps
    <3> QED BY <2>1, <2>2, <3>1, FoundFirst
  <2>3. CASE i # 0
    <3>1. i \in 1 .. Len(page) /\ i - 1 \in 0 .. Len(page) /\ i - 1 \notin bad
      BY <1>0, <2>1, <2>3
    <3>2. FoundSoFar(out[i - 1], rows, page, i - 1)
      BY <3>1
    <3>3. out[i] = IF page[i] \in ToSet(out[i - 1]) THEN out[i - 1] ELSE Append(out[i - 1], page[i])
      BY <1>1, <3>1, <2>3 DEF Steps
    <3>4. FoundSoFar(out[i], rows, page, i)
      BY <3>1, <3>2, <3>3, FoundNext
    <3> QED BY <2>1, <3>4
  <2> QED BY <2>2, <2>3
<1> QED BY <1>0, <1>2, <1>3

-----------------------------------------------------------------------------
PagingSpec == PagingInit /\ [][PagingNext]_pagingVars

WalkKinds == [desc : BOOLEAN, batched : BOOLEAN, skips : BOOLEAN, tells : BOOLEAN]

Walk ==
  [kind : WalkKinds,
   pc : {"page", "done", "failed"}, start : Nat, rows : Seq(Nat), truncated : BOOLEAN,
   stayed : SUBSET Nat, came : BOOLEAN, left : BOOLEAN, missing : BOOLEAN]

PagingTypeOK == newest \in Nat /\ list \in Seq(Nat) /\ walk \in Walk

ListInOrder ==
  /\ \A i \in 1 .. Len(list) : list[i] \in 1 .. newest
  /\ \A i, j \in 1 .. Len(list) : i < j => list[i] < list[j]

WholePages(s) == \E k \in Nat : s = PageLen * k

(* A walk asks for whole pages within the cap, and never has more rows     *)
(* than it has asked for.                                                  *)
WalkBounded ==
  /\ WholePages(walk.start)
  /\ Len(walk.rows) <= walk.start /\ Len(walk.rows) <= MaxRows
  /\ walk.pc = "page" => walk.start < MaxRows

Undisturbed == ~walk.came /\ ~walk.left /\ ~walk.missing

(* As long as nobody changes the list, what was read is how it begins.     *)
ReadSoFar ==
  walk.pc = "page" /\ Undisturbed =>
    /\ walk.start <= Len(list)
    /\ walk.rows = SubSeq(InOrder(walk.kind), 1, walk.start)

(* A walk from the oldest on has behind it only what is older than         *)
(* everything it has yet to read.                                          *)
OldestFirst ==
  ~walk.kind.desc /\ ~walk.kind.skips =>
    /\ \A i, j \in 1 .. Len(walk.rows) : i < j => walk.rows[i] < walk.rows[j]
    /\ \A i \in 1 .. Len(walk.rows) : walk.rows[i] <= newest
    /\ walk.pc = "page" =>
         \A i \in 1 .. Len(walk.rows), j \in 1 .. Len(list) : j > walk.start => walk.rows[i] < list[j]

(* What stayed has been read or is still ahead, unless it has been moved   *)
(* behind the walk or was on a page that is missing.                       *)
StayedAhead ==
  walk.pc = "page" /\ ~walk.left /\ ~walk.missing =>
    \A e \in walk.stayed :
      e \in Got \/ \E i \in 1 .. Len(list) : i > walk.start /\ InOrder(walk.kind)[i] = e

PagingInv ==
  PagingTypeOK /\ ListInOrder /\ WalkBounded /\ ReadSoFar /\ OldestFirst /\ StayedAhead /\ WalkSound

-----------------------------------------------------------------------------
LEMMA OrderOfAll ==
  ASSUME NEW s \in Seq(Nat), NEW kind
  PROVE  LET all == IF kind.desc THEN Reverse(s) ELSE s IN
           /\ all \in Seq(Nat) /\ Len(all) = Len(s)
           /\ \A i \in 1 .. Len(s) : all[i] = IF kind.desc THEN s[Len(s) - i + 1] ELSE s[i]
<1>1. Len(s) \in Nat /\ \A i \in 1 .. Len(s) : Len(s) - i + 1 \in 1 .. Len(s)
  OBVIOUS
<1>2. Reverse(s) = [i \in 1 .. Len(s) |-> s[Len(s) - i + 1]]
  BY DEF Reverse
<1> QED BY <1>1, <1>2

LEMMA AllInOrder ==
  ASSUME PagingTypeOK, ListInOrder, NEW kind
  PROVE  /\ InOrder(kind) \in Seq(Nat) /\ Len(InOrder(kind)) = Len(list)
         /\ \A i \in 1 .. Len(list) : InOrder(kind)[i] = IF kind.desc THEN list[Len(list) - i + 1] ELSE list[i]
         /\ Once(InOrder(kind))
<1>1. list \in Seq(Nat) /\ Len(list) \in Nat
  BY DEF PagingTypeOK
<1>2. /\ InOrder(kind) \in Seq(Nat) /\ Len(InOrder(kind)) = Len(list)
      /\ \A i \in 1 .. Len(list) : InOrder(kind)[i] = IF kind.desc THEN list[Len(list) - i + 1] ELSE list[i]
  BY <1>1, OrderOfAll DEF InOrder
<1>3. Once(InOrder(kind))
  <2> SUFFICES ASSUME NEW i \in 1 .. Len(list), NEW j \in 1 .. Len(list), InOrder(kind)[i] = InOrder(kind)[j]
               PROVE  i = j
    BY <1>2 DEF Once
  <2>1. \A a, b \in 1 .. Len(list) : list[a] = list[b] => a = b
    <3> TAKE a, b \in 1 .. Len(list)
    <3>1. list[a] \in Nat /\ list[b] \in Nat /\ (a < b \/ b < a \/ a = b)
      BY <1>1
    <3> QED BY <3>1 DEF ListInOrder
  <2>2. CASE kind.desc
    <3>1. Len(list) - i + 1 \in 1 .. Len(list) /\ Len(list) - j + 1 \in 1 .. Len(list)
      BY <1>1
    <3>2. list[Len(list) - i + 1] = list[Len(list) - j + 1]
      BY <1>2, <2>2
    <3>3. Len(list) - i + 1 = Len(list) - j + 1
      BY <2>1, <3>1, <3>2
    <3> QED BY <1>1, <3>3
  <2>3. CASE ~kind.desc
    BY <1>2, <2>1, <2>3
  <2> QED BY <2>2, <2>3
<1> QED BY <1>2, <1>3

(* Whole pages within the cap.                                             *)
LEMMA PagesFit ==
  ASSUME NEW s \in Nat, WholePages(s)
  PROVE  /\ WholePages(NextStart(s)) /\ NextStart(s) \in Nat /\ s < NextStart(s)
         /\ s < MaxRows => NextStart(s) <= MaxRows
<1> DEFINE m == MaxRows \div PageLen
<1>0. PICK a \in Nat : s = PageLen * a
  BY DEF WholePages
<1>1. PageLen \in Nat \ {0} /\ MaxRows \in Nat /\ MaxRows % PageLen = 0
  BY PagingAssumption
<1>2. m \in Nat /\ MaxRows = PageLen * m
  BY <1>1
<1>3. s + PageLen = PageLen * (a + 1) /\ a + 1 \in Nat
  BY <1>0, <1>1
<1>4. s < MaxRows => a < m
  BY <1>0, <1>1, <1>2
<1>5. s < MaxRows => PageLen * (a + 1) <= PageLen * m
  BY <1>1, <1>2, <1>4
<1> QED BY <1>1, <1>2, <1>3, <1>5 DEF NextStart, WholePages

LEMMA InitPagingInv == PagingInit => PagingInv
<1> SUFFICES ASSUME PagingInit PROVE PagingInv
  OBVIOUS
<1> USE PagingAssumption
<1>1. newest \in Nat /\ list = [e \in 1 .. newest |-> e]
  BY DEF PagingInit
<1>2. list \in Seq(Nat) /\ Len(list) = newest /\ \A i \in 1 .. Len(list) : list[i] = i
  BY <1>1
<1> DEFINE kinds == {ProjectTasks, CrmElements, SectionItems, Linked, Deals}
<1>a. kinds \subseteq WalkKinds
  <2>1. ProjectTasks \in WalkKinds /\ CrmElements \in WalkKinds
    BY DEF WalkKinds, ProjectTasks, CrmElements
  <2>2. SectionItems \in WalkKinds /\ Linked \in WalkKinds /\ Deals \in WalkKinds
    BY DEF WalkKinds, SectionItems, CrmElements, Linked, Deals
  <2> QED BY <2>1, <2>2
<1>b. walk \in [kind : kinds, pc : {"page"}, start : {0}, rows : {<<>>}, truncated : {FALSE},
                stayed : {1 .. newest}, came : {FALSE}, left : {FALSE}, missing : {FALSE}]
  BY DEF PagingInit
<1> HIDE DEF kinds
<1>3. /\ walk.kind \in WalkKinds
      /\ walk.pc = "page" /\ walk.start = 0 /\ walk.rows = <<>> /\ walk.stayed = 1 .. newest
      /\ walk.came = FALSE /\ walk.left = FALSE /\ walk.missing = FALSE /\ walk.truncated = FALSE
  BY <1>a, <1>b
<1>4. PagingTypeOK
  <2>1. <<>> \in Seq(Nat) /\ 1 .. newest \in SUBSET Nat
    BY <1>1
  <2>2. walk \in Walk
    <3>1. walk.kind \in WalkKinds /\ walk.pc \in {"page", "done", "failed"} /\ walk.start \in Nat
      BY <1>3
    <3>3. walk.rows \in Seq(Nat) /\ walk.stayed \in SUBSET Nat
      BY <1>3, <2>1, Zenon
    <3>4. walk.truncated \in BOOLEAN /\ walk.came \in BOOLEAN /\ walk.left \in BOOLEAN /\ walk.missing \in BOOLEAN
      BY <1>3, Zenon
    <3>2. walk = [kind |-> walk.kind, pc |-> walk.pc, start |-> walk.start, rows |-> walk.rows,
                  truncated |-> walk.truncated, stayed |-> walk.stayed, came |-> walk.came,
                  left |-> walk.left, missing |-> walk.missing]
      BY <1>b
    <3> QED BY <3>1, <3>2, <3>3, <3>4 DEF Walk
  <2> QED BY <1>1, <1>2, <2>2 DEF PagingTypeOK
<1>5. ListInOrder
  BY <1>1, <1>2 DEF ListInOrder
<1>6. WalkBounded
  <2>1. WholePages(0)
    BY DEF WholePages
  <2> QED BY <1>3, <2>1 DEF WalkBounded
<1>7. ReadSoFar
  <2>1. SubSeq(InOrder(walk.kind), 1, 0) = <<>>
    BY SubSeqEmpty
  <2> QED BY <1>2, <1>1, <1>3, <2>1 DEF ReadSoFar
<1>8. OldestFirst
  BY <1>3 DEF OldestFirst
<1>9. StayedAhead
  <2> SUFFICES ASSUME NEW e \in 1 .. newest
               PROVE  \E i \in 1 .. Len(list) : i > 0 /\ InOrder(walk.kind)[i] = e
    BY <1>3 DEF StayedAhead
  <2>1. \A i \in 1 .. Len(list) : InOrder(walk.kind)[i] = IF walk.kind.desc THEN list[Len(list) - i + 1] ELSE list[i]
    BY <1>4, <1>5, AllInOrder
  <2> DEFINE j == IF walk.kind.desc THEN newest - e + 1 ELSE e
  <2>2. j \in 1 .. newest /\ newest - j + 1 \in 1 .. newest /\ (walk.kind.desc => newest - j + 1 = e)
    BY <1>1
  <2>3. InOrder(walk.kind)[j] = e
    BY <1>1, <1>2, <2>1, <2>2
  <2> QED BY <1>2, <2>2, <2>3
<1>10. WalkSound
  BY <1>3 DEF WalkSound, CalmWalkExact, NoElementTwice, MissedOnlyByMoves, IsInjective
<1> QED BY <1>4, <1>5, <1>6, <1>7, <1>8, <1>9, <1>10 DEF PagingInv

(* The parts of the invariant a list that changes can disturb.             *)
LEMMA AddedKeeps == ASSUME PagingInv, ElementAdded PROVE PagingInv'
<1>1. /\ newest \in Nat /\ list \in Seq(Nat) /\ walk \in Walk /\ Len(list) \in Nat
      /\ walk.rows \in Seq(Nat) /\ Len(walk.rows) \in Nat /\ walk.start \in Nat
  BY DEF PagingInv, PagingTypeOK, Walk
<1>2. /\ newest' = newest + 1 /\ list' = Append(list, newest + 1) /\ walk.pc = "page" /\ walk'.pc = "page"
      /\ walk'.kind = walk.kind /\ walk'.start = walk.start /\ walk'.rows = walk.rows /\ walk'.came = TRUE
      /\ walk'.stayed = walk.stayed /\ walk'.left = walk.left /\ walk'.missing = walk.missing
      /\ walk' \in Walk
  BY <1>1 DEF ElementAdded, Walk
<1>3. list' \in Seq(Nat) /\ Len(list') = Len(list) + 1 /\ list'[Len(list) + 1] = newest + 1
      /\ \A i \in 1 .. Len(list) : list'[i] = list[i]
  BY <1>1, <1>2
<1>4. PagingTypeOK'
  BY <1>1, <1>2, <1>3 DEF PagingTypeOK
<1>5. \A i \in 1 .. Len(list') : i \in 1 .. Len(list) \/ i = Len(list) + 1
  BY <1>1, <1>3
<1>6. \A i \in 1 .. Len(list) : list[i] \in 1 .. newest
  BY DEF PagingInv, ListInOrder
<1>7. ListInOrder'
  <2>1. \A i \in 1 .. Len(list') : list'[i] \in 1 .. newest'
    BY <1>1, <1>2, <1>3, <1>5, <1>6
  <2>2. ASSUME NEW i \in 1 .. Len(list'), NEW j \in 1 .. Len(list'), i < j PROVE list'[i] < list'[j]
    <3>1. i \in 1 .. Len(list)
      BY <1>1, <1>3, <2>2
    <3>2. CASE j \in 1 .. Len(list)
      BY <1>3, <2>2, <3>1, <3>2 DEF PagingInv, ListInOrder
    <3>3. CASE j = Len(list) + 1
      <4>1. list'[j] = newest + 1 /\ list'[i] = list[i] /\ list[i] \in 1 .. newest
        BY <1>3, <1>6, <3>1, <3>3
      <4> QED BY <1>1, <4>1
    <3> QED BY <1>5, <3>2, <3>3
  <2> QED BY <2>1, <2>2 DEF ListInOrder
<1>8. WalkBounded' /\ ReadSoFar'
  BY <1>2 DEF PagingInv, WalkBounded, ReadSoFar, Undisturbed, WholePages
<1>9. OldestFirst'
  <2> SUFFICES ASSUME ~walk.kind.desc, ~walk.kind.skips
               PROVE  /\ \A i \in 1 .. Len(walk.rows) : walk.rows[i] <= newest + 1
                      /\ \A i \in 1 .. Len(walk.rows), j \in 1 .. Len(list') :
                           j > walk.start => walk.rows[i] < list'[j]
    BY <1>2 DEF OldestFirst, PagingInv
  <2>1. /\ \A i \in 1 .. Len(walk.rows) : walk.rows[i] <= newest
        /\ \A i \in 1 .. Len(walk.rows), j \in 1 .. Len(list) : j > walk.start => walk.rows[i] < list[j]
    BY <1>2 DEF PagingInv, OldestFirst
  <2>2. \A i \in 1 .. Len(walk.rows) : walk.rows[i] \in Nat
    BY <1>1
  <2>3. ASSUME NEW i \in 1 .. Len(walk.rows), NEW j \in 1 .. Len(list'), j > walk.start
        PROVE  walk.rows[i] < list'[j]
    <3>1. CASE j \in 1 .. Len(list)
      BY <1>3, <2>1, <2>3, <3>1
    <3>2. CASE j = Len(list) + 1
      BY <1>1, <1>3, <2>1, <2>2, <3>2
    <3> QED BY <1>5, <3>1, <3>2
  <2> QED BY <1>1, <2>1, <2>2, <2>3
<1>10. StayedAhead'
  <2> SUFFICES ASSUME ~walk.left, ~walk.missing, NEW e \in walk.stayed, e \notin Got
               PROVE  \E i \in 1 .. Len(list') : i > walk.start /\ InOrder(walk.kind)'[i] = e
    BY <1>2 DEF StayedAhead, Got
  <2>1. PICK i \in 1 .. Len(list) : i > walk.start /\ InOrder(walk.kind)[i] = e
    BY <1>2 DEF PagingInv, StayedAhead
  <2>2. InOrder(walk.kind)[i] = IF walk.kind.desc THEN list[Len(list) - i + 1] ELSE list[i]
    BY AllInOrder DEF PagingInv
  <2>3. \A j \in 1 .. Len(list') :
          InOrder(walk.kind)'[j] = IF walk.kind.desc THEN list'[Len(list') - j + 1] ELSE list'[j]
    BY <1>2, <1>3, OrderOfAll DEF InOrder
  <2>4. CASE walk.kind.desc
    <3> DEFINE n == Len(list)
    <3>0. n \in Nat /\ walk.start \in Nat /\ Len(list') = n + 1 /\ i \in 1 .. n /\ i > walk.start
      BY <1>1, <1>3, <2>1
    <3> HIDE DEF n
    <3>1. i + 1 \in 1 .. Len(list') /\ Len(list') - (i + 1) + 1 = n - i + 1 /\ i + 1 > walk.start
          /\ n - i + 1 \in 1 .. n
      BY <3>0
    <3>2. list'[n - i + 1] = list[n - i + 1]
      BY <1>3, <3>1 DEF n
    <3>3. InOrder(walk.kind)'[i + 1] = list'[Len(list') - (i + 1) + 1]
      BY <2>3, <2>4, <3>1
    <3>4. InOrder(walk.kind)'[i + 1] = e
      BY <2>1, <2>2, <2>4, <3>1, <3>2, <3>3 DEF n
    <3> QED BY <3>1, <3>4
  <2>5. CASE ~walk.kind.desc
    <3>1. i \in 1 .. Len(list')
      BY <1>1, <1>3
    <3> QED BY <1>3, <2>1, <2>2, <2>3, <2>5, <3>1
  <2> QED BY <2>4, <2>5
<1>11. WalkSound'
  BY <1>2 DEF PagingInv, WalkSound, CalmWalkExact, NoElementTwice, MissedOnlyByMoves
<1> QED BY <1>4, <1>7, <1>8, <1>9, <1>10, <1>11 DEF PagingInv

LEMMA LeavesKeeps == ASSUME PagingInv, ElementLeaves PROVE PagingInv'
<1>1. /\ newest \in Nat /\ list \in Seq(Nat) /\ walk \in Walk /\ Len(list) \in Nat
      /\ walk.rows \in Seq(Nat) /\ Len(walk.rows) \in Nat /\ walk.start \in Nat /\ DOMAIN list = 1 .. Len(list)
  BY DEF PagingInv, PagingTypeOK, Walk
<1>2. PICK x \in 1 .. Len(list) :
        /\ list' = SubSeq(list, 1, x - 1) \o SubSeq(list, x + 1, Len(list))
        /\ walk' = [walk EXCEPT !.stayed = @ \ {list[x]}, !.left = TRUE]
  BY <1>1 DEF ElementLeaves
<1>3. /\ newest' = newest /\ walk.pc = "page" /\ walk'.pc = "page"
      /\ walk'.kind = walk.kind /\ walk'.start = walk.start /\ walk'.rows = walk.rows /\ walk'.left = TRUE
      /\ walk' \in Walk
  BY <1>1, <1>2 DEF ElementLeaves, Walk
<1>4. list' \in Seq(Nat) /\ Len(list') = Len(list) - 1
      /\ \A i \in 1 .. Len(list') : list'[i] = IF i < x THEN list[i] ELSE list[i + 1]
  <2> DEFINE a == SubSeq(list, 1, x - 1)
             b == SubSeq(list, x + 1, Len(list))
  <2>1. a \in Seq(Nat) /\ Len(a) = x - 1 /\ \A i \in 1 .. (x - 1) : a[i] = list[i]
    <3>1. \A i \in 1 .. (x - 1) : list[i] \in Nat
      BY <1>1
    <3> QED BY <3>1, <1>1, SubSeqProperties
  <2>2. b \in Seq(Nat) /\ Len(b) = Len(list) - x /\ \A i \in 1 .. (Len(list) - x) : b[i] = list[x + i]
    <3> DEFINE n == Len(list)
    <3>0. n \in Nat /\ x \in 1 .. n /\ b = SubSeq(list, x + 1, n)
      BY <1>1
    <3>1. \A i \in (x + 1) .. n : list[i] \in Nat
      BY <1>1
    <3> HIDE DEF n, b
    <3>2. b \in Seq(Nat) /\ Len(b) = (IF x + 1 <= n THEN n - (x + 1) + 1 ELSE 0)
          /\ \A i \in 1 .. n - (x + 1) + 1 : b[i] = list[(x + 1) + i - 1]
      BY <3>0, <3>1, SubSeqProperties
    <3>3. Len(b) = n - x /\ n - (x + 1) + 1 = n - x /\ \A i \in 1 .. (n - x) : (x + 1) + i - 1 = x + i
      BY <3>0, <3>2
    <3> QED BY <3>2, <3>3 DEF n
  <2> HIDE DEF a, b
  <2>3. list' = a \o b
    BY <1>2 DEF a, b
  <2>4. a \o b \in Seq(Nat) /\ Len(a \o b) = Len(a) + Len(b)
        /\ \A i \in 1 .. Len(a) + Len(b) : (a \o b)[i] = IF i <= Len(a) THEN a[i] ELSE b[i - Len(a)]
    BY <2>1, <2>2, ConcatProperties
  <2>5. Len(list') = Len(list) - 1
    BY <1>1, <2>1, <2>2, <2>3, <2>4
  <2>6. ASSUME NEW i \in 1 .. Len(list') PROVE list'[i] = IF i < x THEN list[i] ELSE list[i + 1]
    <3>1. list'[i] = IF i <= Len(a) THEN a[i] ELSE b[i - Len(a)]
      BY <2>1, <2>2, <2>3, <2>4
    <3>2. CASE i < x
      <4>1. i \in 1 .. (x - 1) /\ i <= Len(a)
        BY <2>1, <2>5, <3>2, <1>1
      <4> QED BY <2>1, <3>1, <3>2, <4>1
    <3>3. CASE ~(i < x)
      <4> DEFINE n == Len(list)
      <4>0. n \in Nat /\ i \in 1 .. (n - 1) /\ Len(a) = x - 1 /\ x \in 1 .. n
        BY <2>1, <2>5, <1>1
      <4> HIDE DEF n
      <4>1. i - Len(a) \in 1 .. (n - x) /\ x + (i - Len(a)) = i + 1 /\ ~(i <= Len(a))
        BY <4>0, <3>3
      <4> QED BY <2>2, <3>1, <3>3, <4>1 DEF n
    <3> QED BY <3>2, <3>3
  <2> QED BY <2>3, <2>4, <2>5, <2>6
<1>5. \A i \in 1 .. Len(list') : \E j \in 1 .. Len(list) : j >= i /\ j = (IF i < x THEN i ELSE i + 1) /\ list'[i] = list[j]
  <2> TAKE i \in 1 .. Len(list')
  <2>1. i \in 1 .. Len(list) /\ i + 1 \in 1 .. Len(list)
    BY <1>1, <1>4
  <2> QED BY <1>4, <2>1
<1>6. PagingTypeOK'
  BY <1>1, <1>3, <1>4 DEF PagingTypeOK
<1>7. ListInOrder'
  <2>1. \A i \in 1 .. Len(list') : list'[i] \in 1 .. newest'
    BY <1>3, <1>5 DEF PagingInv, ListInOrder
  <2>2. ASSUME NEW i \in 1 .. Len(list'), NEW j \in 1 .. Len(list'), i < j PROVE list'[i] < list'[j]
    <3>1. PICK k \in 1 .. Len(list) : k = (IF i < x THEN i ELSE i + 1) /\ list'[i] = list[k]
      BY <1>5
    <3>2. PICK l \in 1 .. Len(list) : l = (IF j < x THEN j ELSE j + 1) /\ list'[j] = list[l]
      BY <1>5
    <3>3. k < l
      BY <1>1, <2>2, <3>1, <3>2
    <3> QED BY <3>1, <3>2, <3>3 DEF PagingInv, ListInOrder
  <2> QED BY <2>1, <2>2 DEF ListInOrder
<1>8. WalkBounded' /\ ReadSoFar' /\ StayedAhead'
  BY <1>3 DEF PagingInv, WalkBounded, ReadSoFar, Undisturbed, WholePages, StayedAhead
<1>9. OldestFirst'
  <2> SUFFICES ASSUME ~walk.kind.desc, ~walk.kind.skips, NEW i \in 1 .. Len(walk.rows), NEW j \in 1 .. Len(list'),
                      j > walk.start
               PROVE  walk.rows[i] < list'[j]
    BY <1>3 DEF OldestFirst, PagingInv
  <2>1. PICK k \in 1 .. Len(list) : k >= j /\ list'[j] = list[k]
    BY <1>5
  <2>2. k > walk.start
    BY <1>1, <2>1
  <2> QED BY <1>3, <2>1, <2>2 DEF PagingInv, OldestFirst
<1>11. WalkSound'
  BY <1>3 DEF PagingInv, WalkSound, CalmWalkExact, NoElementTwice, MissedOnlyByMoves
<1> QED BY <1>6, <1>7, <1>8, <1>9, <1>11 DEF PagingInv

LEMMA FailsKeeps == ASSUME PagingInv, CallFails PROVE PagingInv'
<1>1. /\ newest' = newest /\ list' = list /\ walk \in Walk /\ walk.pc = "page" /\ walk'.pc = "failed"
      /\ walk'.kind = walk.kind /\ walk'.start = walk.start /\ walk'.rows = walk.rows /\ walk' \in Walk
  BY DEF PagingInv, PagingTypeOK, CallFails, Walk
<1>2. PagingTypeOK' /\ ListInOrder' /\ WalkBounded' /\ ReadSoFar' /\ StayedAhead'
  BY <1>1 DEF PagingInv, PagingTypeOK, ListInOrder, WalkBounded, ReadSoFar, WholePages, StayedAhead
<1>3. OldestFirst'
  BY <1>1 DEF PagingInv, OldestFirst
<1>4. WalkSound'
  BY <1>1 DEF PagingInv, WalkSound, CalmWalkExact, NoElementTwice, MissedOnlyByMoves
<1> QED BY <1>2, <1>3, <1>4 DEF PagingInv

LEMMA PageDoes ==
  ASSUME PagingTypeOK, ListInOrder, NEW kind, NEW s \in Nat
  PROVE  LET page == PageAt(kind, s)
             m == IF s + PageLen > Len(list) THEN Len(list) ELSE s + PageLen
         IN  /\ page \in Seq(Nat) /\ Len(page) = (IF s >= Len(list) THEN 0 ELSE m - s)
             /\ \A i \in 1 .. Len(page) : s + i \in 1 .. Len(list) /\ page[i] = InOrder(kind)[s + i]
             /\ Len(page) < PageLen <=> Len(list) < s + PageLen
             /\ page = SubSeq(InOrder(kind), s + 1, m)
<1> DEFINE n == Len(list)
           all == InOrder(kind)
           m == IF s + PageLen > n THEN n ELSE s + PageLen
           page == PageAt(kind, s)
<1>1. all \in Seq(Nat) /\ Len(all) = n /\ n \in Nat
  BY AllInOrder DEF PagingTypeOK
<1>2. PageLen \in Nat \ {0}
  BY PagingAssumption
<1>3. page = SubSeq(all, s + 1, m)
  BY <1>1 DEF PageAt
<1> HIDE DEF n, all, page
<1>4. \A i \in (s + 1) .. m : i \in 1 .. n /\ all[i] \in Nat
  <2> TAKE i \in (s + 1) .. m
  <2>1. i \in 1 .. n
    BY <1>1, <1>2
  <2> QED BY <1>1, <2>1
<1>5. m \in Int /\ s + 1 \in Int
  BY <1>1, <1>2
<1>6. page \in Seq(Nat) /\ Len(page) = (IF s + 1 <= m THEN m - (s + 1) + 1 ELSE 0)
      /\ \A i \in 1 .. m - (s + 1) + 1 : page[i] = all[(s + 1) + i - 1]
  <2> HIDE DEF m
  <2> QED BY <1>3, <1>4, <1>5, SubSeqProperties
<1>7. Len(page) = (IF s >= n THEN 0 ELSE m - s)
  BY <1>1, <1>2, <1>6
<1>8. \A i \in 1 .. Len(page) : s + i \in 1 .. n /\ page[i] = all[s + i]
  <2> TAKE i \in 1 .. Len(page)
  <2>1. i \in 1 .. (m - (s + 1) + 1) /\ (s + 1) + i - 1 = s + i /\ s + i \in 1 .. n
    BY <1>1, <1>2, <1>7
  <2> HIDE DEF m
  <2> QED BY <1>6, <2>1
<1>9. Len(page) < PageLen <=> n < s + PageLen
  BY <1>1, <1>2, <1>7
<1> QED BY <1>3, <1>6, <1>7, <1>8, <1>9 DEF n, all, page

LEMMA TakenDoes ==
  ASSUME NEW kind, NEW rows \in Seq(Nat), NEW page \in Seq(Nat)
  PROVE  LET t == Taken(kind, rows, page) IN
           /\ t \in Seq(Nat) /\ Len(rows) <= Len(t) /\ Len(t) <= Len(rows) + Len(page)
           /\ \A x : x \in ToSet(t) <=> x \in ToSet(rows) \/ x \in ToSet(page)
           /\ kind.skips /\ Once(rows) => Once(t)
           /\ ~kind.skips => t = rows \o page
           /\ Once(page) /\ (\A j \in 1 .. Len(page) : page[j] \notin ToSet(rows)) => t = rows \o page
<1> DEFINE t == Taken(kind, rows, page)
<1>0. Len(page) \in Nat /\ Len(rows) \in Nat
  OBVIOUS
<1>1. CASE kind.skips
  <2>1. t = Skipping(rows, page)
    BY <1>1 DEF Taken
  <2>2. FoundSoFar(t, rows, page, Len(page))
    BY <2>1, SkippingFinds
  <2>3. SubSeq(page, 1, Len(page)) = page
    BY SubSeqFull
  <2>4. {page[j] : j \in 1 .. Len(page)} = ToSet(page)
    BY DEF ToSet
  <2> HIDE DEF t
  <2>5. t \in Seq(Nat) /\ Len(rows) <= Len(t) /\ Len(t) <= Len(rows) + Len(page)
    BY <2>2 DEF FoundSoFar
  <2>6. \A x : x \in ToSet(t) <=> x \in ToSet(rows) \/ x \in ToSet(page)
    BY <2>2, <2>4 DEF FoundSoFar
  <2>7. Once(rows) => Once(t)
    BY <2>2 DEF FoundSoFar
  <2>8. Once(page) /\ (\A j \in 1 .. Len(page) : page[j] \notin ToSet(rows)) => t = rows \o page
    BY <2>2, <2>3 DEF FoundSoFar
  <2> QED BY <1>1, <2>5, <2>6, <2>7, <2>8 DEF t
<1>2. CASE ~kind.skips
  <2>1. t = rows \o page
    BY <1>2 DEF Taken
  <2>2. t \in Seq(Nat) /\ Len(t) = Len(rows) + Len(page)
        /\ \A i \in 1 .. Len(rows) + Len(page) : t[i] = IF i <= Len(rows) THEN rows[i] ELSE page[i - Len(rows)]
    BY <2>1, ConcatProperties
  <2>3. \A x : x \in ToSet(t) <=> x \in ToSet(rows) \/ x \in ToSet(page)
    <3> HIDE DEF t
    <3>1. DOMAIN t = 1 .. (Len(rows) + Len(page)) /\ DOMAIN rows = 1 .. Len(rows) /\ DOMAIN page = 1 .. Len(page)
      BY <2>2
    <3>2. \A i \in 1 .. Len(rows) : i \in DOMAIN t /\ t[i] = rows[i]
      BY <1>0, <2>2, <3>1
    <3>3. \A i \in 1 .. Len(page) : Len(rows) + i \in DOMAIN t /\ t[Len(rows) + i] = page[i]
      <4> TAKE i \in 1 .. Len(page)
      <4>1. Len(rows) + i \in 1 .. (Len(rows) + Len(page)) /\ ~(Len(rows) + i <= Len(rows)) /\ (Len(rows) + i) - Len(rows) = i
        BY <1>0
      <4> QED BY <2>2, <3>1, <4>1
    <3>4. \A i \in DOMAIN t : i \in 1 .. Len(rows) \/ i - Len(rows) \in 1 .. Len(page)
      BY <1>0, <3>1
    <3>5. \A i \in DOMAIN t : t[i] \in ToSet(rows) \/ t[i] \in ToSet(page)
      BY <1>0, <2>2, <3>1, <3>4 DEF ToSet
    <3> QED BY <3>1, <3>2, <3>3, <3>5 DEF ToSet
  <2> HIDE DEF t
  <2>4. Len(rows) <= Len(t) /\ Len(t) <= Len(rows) + Len(page)
    BY <1>0, <2>2
  <2> QED BY <1>2, <2>1, <2>2, <2>3, <2>4 DEF t
<1> QED BY <1>1, <1>2

(* What a page read does to the walk: the cut at the cap never bites.      *)
LEMMA ReadDoes ==
  ASSUME PagingInv, walk.pc = "page", NEW page \in Seq(Nat), Len(page) <= PageLen, NEW missing \in BOOLEAN,
         Read(page, missing)
  PROVE  /\ walk'.rows = Taken(walk.kind, walk.rows, page)
         /\ walk'.start = walk.start + PageLen /\ walk'.kind = walk.kind /\ walk'.stayed = walk.stayed
         /\ walk'.came = walk.came /\ walk'.left = walk.left /\ walk'.missing = (walk.missing \/ missing)
         /\ walk'.pc = "page" <=> ~(Len(page) < PageLen) /\ walk.start + PageLen < MaxRows
         /\ walk'.pc = "done" <=> Len(page) < PageLen \/ walk.start + PageLen >= MaxRows
         /\ walk'.truncated <=> ~(Len(page) < PageLen) /\ walk.start + PageLen >= MaxRows /\ walk.kind.tells
         /\ walk' \in Walk
<1> DEFINE t == Taken(walk.kind, walk.rows, page)
           cut == SubSeq(t, 1, IF Len(t) > MaxRows THEN MaxRows ELSE Len(t))
           ends == Len(page) < PageLen
           capped == walk.start + PageLen >= MaxRows
<1>1. /\ walk \in Walk /\ walk.rows \in Seq(Nat) /\ walk.start \in Nat /\ walk.kind \in WalkKinds
      /\ walk.missing \in BOOLEAN /\ walk.kind.tells \in BOOLEAN
      /\ PageLen \in Nat \ {0} /\ MaxRows \in Nat
  BY PagingAssumption DEF PagingInv, PagingTypeOK, Walk, WalkKinds
<1>2. t \in Seq(Nat) /\ Len(t) <= Len(walk.rows) + Len(page)
  BY <1>1, TakenDoes
<1>3. Len(walk.rows) <= walk.start /\ walk.start + PageLen <= MaxRows
  BY <1>1, PagesFit DEF PagingInv, WalkBounded, NextStart
<1>4. cut = t
  <2>1. Len(t) \in Nat /\ Len(walk.rows) \in Nat /\ Len(page) \in Nat
    BY <1>1, <1>2
  <2>2. ~(Len(t) > MaxRows)
    BY <1>1, <1>2, <1>3, <2>1
  <2> HIDE DEF t
  <2> QED BY <1>2, <2>2, SubSeqFull
<1>5. walk' = [walk EXCEPT !.rows = cut, !.start = @ + PageLen,
                           !.pc = IF ends \/ (~ends /\ capped) THEN "done" ELSE "page",
                           !.truncated = (~ends /\ capped) /\ walk.kind.tells,
                           !.missing = @ \/ missing]
  BY DEF Read, LastPage, Capped, NextStart
<1> HIDE DEF t, cut
<1>6. walk' = [walk EXCEPT !.rows = t, !.start = @ + PageLen,
                           !.pc = IF ends \/ (~ends /\ capped) THEN "done" ELSE "page",
                           !.truncated = (~ends /\ capped) /\ walk.kind.tells,
                           !.missing = @ \/ missing]
  BY <1>4, <1>5
<1> HIDE DEF ends, capped
<1>7. /\ walk'.rows = t /\ walk'.start = walk.start + PageLen /\ walk'.kind = walk.kind
      /\ walk'.stayed = walk.stayed /\ walk'.came = walk.came /\ walk'.left = walk.left
      /\ walk'.missing = (walk.missing \/ missing)
      /\ walk'.pc = (IF ends \/ (~ends /\ capped) THEN "done" ELSE "page")
      /\ walk'.truncated = ((~ends /\ capped) /\ walk.kind.tells)
  BY <1>1, <1>6 DEF Walk
<1>9. walk' \in Walk
  <2>1. ((~ends /\ capped) /\ walk.kind.tells) \in BOOLEAN /\ (walk.missing \/ missing) \in BOOLEAN
    BY Zenon
  <2>2. (IF ends \/ (~ends /\ capped) THEN "done" ELSE "page") \in {"page", "done", "failed"}
    OBVIOUS
  <2>3. walk.start + PageLen \in Nat
    BY <1>1
  <2> DEFINE tr == (~ends /\ capped) /\ walk.kind.tells
             mi == walk.missing \/ missing
             pc == IF ends \/ (~ends /\ capped) THEN "done" ELSE "page"
  <2> HIDE DEF tr, mi, pc
  <2>4. tr \in BOOLEAN /\ mi \in BOOLEAN /\ pc \in {"page", "done", "failed"}
    BY <2>1, <2>2 DEF tr, mi, pc
  <2>5. walk' = [walk EXCEPT !.rows = t, !.start = walk.start + PageLen, !.pc = pc, !.truncated = tr, !.missing = mi]
    BY <1>6 DEF tr, mi, pc
  <2> QED BY <1>1, <1>2, <2>3, <2>4, <2>5 DEF Walk
<1>10. /\ walk'.pc = "page" <=> ~ends /\ ~capped
       /\ walk'.pc = "done" <=> ends \/ capped
  BY <1>7
<1>11. ~capped <=> walk.start + PageLen < MaxRows
  BY <1>1 DEF capped
<1> QED BY <1>7, <1>9, <1>10, <1>11 DEF t, ends, capped

LEMMA ReadKeeps ==
  ASSUME PagingInv, walk.pc = "page", UNCHANGED <<list, newest>>, NEW page, NEW missing \in BOOLEAN, Read(page, missing),
         \/ missing /\ page = <<>>
         \/ ~missing /\ page = PageAt(walk.kind, walk.start)
  PROVE  PagingInv'
<1> DEFINE n == Len(list)
           all == InOrder(walk.kind)
           s == walk.start
           m == IF s + PageLen > n THEN n ELSE s + PageLen
           t == Taken(walk.kind, walk.rows, page)
<1>1. /\ walk \in Walk /\ walk.rows \in Seq(Nat) /\ s \in Nat /\ walk.kind \in WalkKinds /\ Len(walk.rows) \in Nat
      /\ newest \in Nat /\ list \in Seq(Nat) /\ n \in Nat /\ PageLen \in Nat \ {0} /\ MaxRows \in Nat \ {0}
  BY PagingAssumption DEF PagingInv, PagingTypeOK, Walk
<1>2. all \in Seq(Nat) /\ Len(all) = n /\ Once(all)
      /\ \A i \in 1 .. n : all[i] = IF walk.kind.desc THEN list[n - i + 1] ELSE list[i]
  BY AllInOrder DEF PagingInv
<1>3. ~missing => /\ page \in Seq(Nat) /\ Len(page) = (IF s >= n THEN 0 ELSE m - s)
                  /\ \A i \in 1 .. Len(page) : s + i \in 1 .. n /\ page[i] = all[s + i]
                  /\ Len(page) < PageLen <=> n < s + PageLen
                  /\ page = SubSeq(all, s + 1, m)
  <2> DEFINE q == PageAt(walk.kind, s)
  <2>1. q \in Seq(Nat) /\ Len(q) = (IF s >= n THEN 0 ELSE m - s)
    BY <1>1, PageDoes DEF PagingInv
  <2>2. \A i \in 1 .. Len(q) : s + i \in 1 .. n /\ q[i] = all[s + i]
    BY <1>1, PageDoes DEF PagingInv
  <2>3. (Len(q) < PageLen <=> n < s + PageLen) /\ q = SubSeq(all, s + 1, m)
    BY <1>1, PageDoes DEF PagingInv
  <2>4. ~missing => page = q
    OBVIOUS
  <2> HIDE DEF q, m, all, n
  <2> QED BY <2>1, <2>2, <2>3, <2>4
<1>4. missing => page \in Seq(Nat) /\ Len(page) = 0 /\ page = <<>>
  OBVIOUS
<1>5. page \in Seq(Nat) /\ Len(page) \in Nat /\ Len(page) <= PageLen
  BY <1>1, <1>3, <1>4
<1>6. /\ t \in Seq(Nat) /\ Len(t) <= Len(walk.rows) + Len(page)
      /\ \A x : x \in ToSet(t) <=> x \in ToSet(walk.rows) \/ x \in ToSet(page)
      /\ walk.kind.skips /\ Once(walk.rows) => Once(t)
      /\ ~walk.kind.skips => t = walk.rows \o page
      /\ Once(page) /\ (\A j \in 1 .. Len(page) : page[j] \notin ToSet(walk.rows)) => t = walk.rows \o page
  <2>1. t \in Seq(Nat) /\ Len(t) <= Len(walk.rows) + Len(page)
    BY <1>1, <1>5, TakenDoes
  <2>2. \A x : x \in ToSet(t) <=> x \in ToSet(walk.rows) \/ x \in ToSet(page)
    BY <1>1, <1>5, TakenDoes
  <2>3. walk.kind.skips /\ Once(walk.rows) => Once(t)
    BY <1>1, <1>5, TakenDoes
  <2>4. ~walk.kind.skips => t = walk.rows \o page
    BY <1>1, <1>5, TakenDoes
  <2>5. Once(page) /\ (\A j \in 1 .. Len(page) : page[j] \notin ToSet(walk.rows)) => t = walk.rows \o page
    <3> HIDE DEF n, all, s, m
    <3>1. walk.rows \in Seq(Nat) /\ page \in Seq(Nat)
      BY <1>1, <1>5
    <3> QED BY ONLY <3>1, TakenDoes, ZenonT(30) DEF t
  <2> HIDE DEF t
  <2> QED BY <2>1, <2>2, <2>3, <2>4, <2>5
<1> HIDE DEF n, all, t
<1>7. /\ walk'.rows = t
      /\ walk'.start = s + PageLen /\ walk'.kind = walk.kind /\ walk'.stayed = walk.stayed
      /\ walk'.came = walk.came /\ walk'.left = walk.left /\ walk'.missing = (walk.missing \/ missing)
      /\ walk'.pc = "page" <=> ~(Len(page) < PageLen) /\ s + PageLen < MaxRows
      /\ walk'.pc = "done" <=> Len(page) < PageLen \/ s + PageLen >= MaxRows
      /\ walk'.truncated <=> ~(Len(page) < PageLen) /\ s + PageLen >= MaxRows /\ walk.kind.tells
      /\ walk' \in Walk
  BY <1>5, ReadDoes DEF t
<1>8. list' = list /\ newest' = newest /\ InOrder(walk.kind)' = all /\ Len(list') = n
  <2>1. list' = list /\ newest' = newest /\ walk'.kind = walk.kind
    BY <1>7
  <2>2. InOrder(walk.kind)' = InOrder(walk.kind)
    BY <2>1 DEF InOrder
  <2> QED BY <2>1, <2>2 DEF all, n
<1>9. WholePages(s) /\ s < MaxRows /\ Len(walk.rows) <= s /\ WholePages(s + PageLen) /\ s + PageLen <= MaxRows
  BY <1>1, PagesFit DEF PagingInv, WalkBounded, NextStart
<1>10. PagingTypeOK' /\ ListInOrder'
  BY <1>7, <1>8 DEF PagingInv, PagingTypeOK, ListInOrder
<1>11. WalkBounded'
  <2>1. Len(t) \in Nat
    BY <1>6
  <2>2. Len(t) <= s + PageLen
    BY <1>1, <1>5, <1>6, <1>9, <2>1
  <2>3. WholePages(walk'.start)
    BY <1>7, <1>9
  <2>4. Len(walk'.rows) <= walk'.start /\ Len(walk'.rows) <= MaxRows
    BY <1>1, <1>7, <1>9, <2>1, <2>2
  <2>5. walk'.pc = "page" => walk'.start < MaxRows
    BY <1>7
  <2> QED BY <2>3, <2>4, <2>5 DEF WalkBounded, WholePages
<1>12. Undisturbed' => /\ s <= n /\ t = SubSeq(all, 1, m) /\ m \in 0 .. n /\ ~missing
                       /\ Len(page) < PageLen <=> n < s + PageLen
  <2> SUFFICES ASSUME Undisturbed' PROVE s <= n /\ t = SubSeq(all, 1, m) /\ m \in 0 .. n
    BY <1>3, <1>7 DEF Undisturbed
  <2>1. ~missing /\ Undisturbed
    BY <1>7 DEF Undisturbed
  <2>2. s <= n /\ walk.rows = SubSeq(all, 1, s)
    BY <2>1 DEF PagingInv, ReadSoFar, n, all
  <2>3. m \in s .. n
    BY <1>1, <2>2
  <2>4. Len(walk.rows) = s /\ \A i \in 1 .. s : walk.rows[i] = all[i] /\ i \in 1 .. n
    <3>1. \A i \in 1 .. s : all[i] \in Nat
      BY <1>1, <1>2, <2>2
    <3> QED BY <1>1, <2>2, <3>1, SubSeqProperties
  <2>5. Once(page)
    <3>1. \A i \in 1 .. Len(page) : s + i \in 1 .. n /\ page[i] = all[s + i]
      BY <1>3, <2>1
    <3> SUFFICES ASSUME NEW i \in 1 .. Len(page), NEW j \in 1 .. Len(page), page[i] = page[j] PROVE i = j
      BY DEF Once
    <3>2. s + i = s + j
      BY <1>2, <3>1 DEF Once
    <3> QED BY <1>1, <3>2
  <2>6. \A j \in 1 .. Len(page) : page[j] \notin ToSet(walk.rows)
    <3> SUFFICES ASSUME NEW j \in 1 .. Len(page), page[j] \in ToSet(walk.rows) PROVE FALSE
      OBVIOUS
    <3>1. s + j \in 1 .. n /\ page[j] = all[s + j]
      BY <1>3, <2>1
    <3>2. PICK i \in 1 .. s : page[j] = all[i]
      <4>1. DOMAIN walk.rows = 1 .. s
        BY <1>1, <2>4
      <4> HIDE DEF s
      <4> QED BY <2>4, <4>1 DEF ToSet
    <3>3. i = s + j
      BY <1>2, <2>4, <3>1, <3>2 DEF Once
    <3> QED BY <1>1, <3>3
  <2>7. t = SubSeq(all, 1, s) \o SubSeq(all, s + 1, m)
    BY <1>3, <1>6, <2>1, <2>2, <2>5, <2>6
  <2>8. SubSeq(all, 1, s) \o SubSeq(all, s + 1, m) = SubSeq(all, 1, m)
    <3>1. 1 \in 1 .. (Len(all) + 1) /\ s \in (1 - 1) .. Len(all) /\ m \in s .. Len(all)
      BY <1>1, <1>2, <2>2, <2>3
    <3> HIDE DEF m, s
    <3> QED BY <1>2, <3>1, ConcatAdjacentSubSeq
  <2>9. m \in 0 .. n
    BY <1>1, <2>3
  <2> QED BY <2>2, <2>7, <2>8, <2>9
<1>13. ReadSoFar'
  <2> SUFFICES ASSUME walk'.pc = "page", Undisturbed'
               PROVE  s + PageLen <= n /\ t = SubSeq(all, 1, s + PageLen)
    BY <1>7, <1>8 DEF ReadSoFar
  <2>1. s + PageLen <= n /\ m = s + PageLen
    BY <1>1, <1>7, <1>12
  <2> QED BY <1>12, <2>1
<1>14. CalmWalkExact'
  <2> SUFFICES ASSUME walk'.pc = "done", Undisturbed'
               PROVE  /\ IsPrefix(t, all)
                      /\ t # all => Len(t) = MaxRows /\ (walk'.truncated \/ ~walk.kind.tells)
    BY <1>7, <1>8 DEF CalmWalkExact, Undisturbed
  <2>1. t = SubSeq(all, 1, m) /\ m \in 0 .. n
    BY <1>12
  <2>2. Len(t) = m
    <3>1. \A i \in 1 .. m : all[i] \in Nat
      BY <1>1, <1>2, <2>1
    <3> HIDE DEF m
    <3> QED BY <1>1, <2>1, <3>1, SubSeqProperties
  <2>3. IsPrefix(t, all)
    <3>1. SubSeq(t, 1, Len(t)) = t
      BY <1>6, SubSeqFull
    <3> HIDE DEF m
    <3> QED BY <1>1, <1>2, <2>1, <2>2, <3>1 DEF IsPrefix
  <2>4. CASE Len(page) < PageLen
    <3>1. m = n
      BY <1>1, <1>12, <2>4
    <3>2. t = all
      <4> HIDE DEF m
      <4> QED BY <1>2, <2>1, <3>1, SubSeqFull
    <3> QED BY <2>3, <3>2
  <2>5. CASE ~(Len(page) < PageLen)
    <3>1. m = s + PageLen /\ s + PageLen >= MaxRows
      BY <1>1, <1>7, <1>12, <2>5
    <3>2. m = MaxRows
      <4> HIDE DEF m, s
      <4> QED BY <1>1, <1>9, <3>1
    <3> QED BY <1>7, <2>2, <2>3, <2>5, <3>1, <3>2
  <2> QED BY <2>4, <2>5
<1>15. ASSUME ~walk.kind.desc, ~walk.kind.skips
       PROVE  /\ \A i, j \in 1 .. Len(t) : i < j => t[i] < t[j]
              /\ \A i \in 1 .. Len(t) : t[i] <= newest
              /\ walk'.pc = "page" => \A i \in 1 .. Len(t), j \in 1 .. n : j > s + PageLen => t[i] < list[j]
  <2> DEFINE rows == walk.rows
             r == Len(rows)
             p == Len(page)
  <2>0. r \in Nat /\ p \in Nat
    BY <1>1, <1>5
  <2>1. /\ \A i, j \in 1 .. r : i < j => rows[i] < rows[j]
        /\ \A i \in 1 .. r : rows[i] <= newest
        /\ \A i \in 1 .. r, j \in 1 .. n : j > s => rows[i] < list[j]
    BY <1>15 DEF PagingInv, OldestFirst, n
  <2>2. /\ \A i \in 1 .. n : list[i] \in 1 .. newest
        /\ \A i, j \in 1 .. n : i < j => list[i] < list[j]
    BY DEF PagingInv, ListInOrder, n
  <2>3. \A k \in 1 .. p : ~missing /\ s + k \in 1 .. n /\ page[k] = list[s + k]
    BY <1>2, <1>3, <1>4, <1>15
  <2>4. t = rows \o page
    BY <1>6, <1>15
  <2>5. Len(t) = r + p /\ \A i \in 1 .. r + p : t[i] = IF i <= r THEN rows[i] ELSE page[i - r]
    BY <1>1, <1>5, <2>4, ConcatProperties
  <2> HIDE DEF rows, r, p, s
  <2>6. \A i \in 1 .. Len(t) : \/ i \in 1 .. r /\ t[i] = rows[i]
                               \/ i - r \in 1 .. p /\ i > r /\ t[i] = page[i - r]
    BY <2>0, <2>5
  <2>7. \A i \in 1 .. Len(t) : \/ i \in 1 .. r /\ t[i] = rows[i]
                               \/ i > r /\ ~missing /\ s + (i - r) \in 1 .. n /\ i - r <= p /\ t[i] = list[s + (i - r)]
    BY <2>0, <2>3, <2>6
  <2>8. ASSUME NEW i \in 1 .. Len(t), NEW j \in 1 .. Len(t), i < j PROVE t[i] < t[j]
    <3>1. CASE j \in 1 .. r /\ t[j] = rows[j]
      <4>1. i \in 1 .. r /\ t[i] = rows[i]
        BY <2>0, <2>5, <2>7, <2>8, <3>1
      <4> QED BY <2>1, <2>8, <3>1, <4>1
    <3>2. CASE j > r /\ s + (j - r) \in 1 .. n /\ t[j] = list[s + (j - r)]
      <4>1. CASE i \in 1 .. r /\ t[i] = rows[i]
        <5>1. s + (j - r) > s
          BY <1>1, <2>0, <3>2
        <5> QED BY <2>1, <3>2, <4>1, <5>1
      <4>2. CASE i > r /\ s + (i - r) \in 1 .. n /\ t[i] = list[s + (i - r)]
        <5>1. s + (i - r) < s + (j - r)
          BY <1>1, <2>0, <2>8
        <5> QED BY <2>2, <3>2, <4>2, <5>1
      <4> QED BY <2>7, <4>1, <4>2
    <3> QED BY <2>7, <3>1, <3>2
  <2>9. \A i \in 1 .. Len(t) : t[i] <= newest
    BY <1>1, <2>1, <2>2, <2>7
  <2>10. ASSUME walk'.pc = "page", NEW i \in 1 .. Len(t), NEW j \in 1 .. n, j > s + PageLen PROVE t[i] < list[j]
    <3>1. CASE i \in 1 .. r /\ t[i] = rows[i]
      <4>1. j > s
        BY <1>1, <2>10
      <4> QED BY <2>1, <3>1, <4>1
    <3>2. CASE i > r /\ s + (i - r) \in 1 .. n /\ i - r <= p /\ t[i] = list[s + (i - r)]
      <4>1. s + (i - r) < j
        BY <1>1, <1>5, <2>0, <2>10, <3>2 DEF p
      <4> QED BY <2>2, <3>2, <4>1
    <3> QED BY <2>7, <3>1, <3>2
  <2> QED BY <2>8, <2>9, <2>10 DEF s
<1>16. OldestFirst'
  BY <1>7, <1>8, <1>15 DEF OldestFirst
<1>17. NoElementTwice'
  <2> SUFFICES ASSUME ~walk.kind.desc \/ walk.kind.skips PROVE Once(t)
    <3>1. t \in Seq(Nat) /\ DOMAIN t = 1 .. Len(t)
      BY <1>6
    <3> QED BY <1>7, <3>1 DEF NoElementTwice, IsInjective, Once
  <2>1. CASE walk.kind.skips
    <3>1. Once(walk.rows)
      BY <1>1, <2>1 DEF PagingInv, WalkSound, NoElementTwice, IsInjective, Once
    <3> QED BY <1>6, <2>1, <3>1
  <2>2. CASE ~walk.kind.skips
    <3>1. \A i, j \in 1 .. Len(t) : i < j => t[i] < t[j]
      BY <1>15, <2>2
    <3>2. \A i \in 1 .. Len(t) : t[i] \in Nat
      BY <1>6
    <3> SUFFICES ASSUME NEW i \in 1 .. Len(t), NEW j \in 1 .. Len(t), t[i] = t[j] PROVE i = j
      BY DEF Once
    <3>3. i \in Int /\ j \in Int /\ Len(t) \in Nat
      BY <1>6
    <3> QED BY <3>1, <3>2, <3>3
  <2> QED BY <2>1, <2>2
<1>18. ASSUME ~walk.left, ~walk.missing, ~missing, NEW e \in walk.stayed
       PROVE  \/ e \in ToSet(t)
              \/ \E i \in 1 .. n : i > s + PageLen /\ all[i] = e
  <2>1. CASE e \in Got
    BY <1>6, <2>1 DEF Got
  <2>2. CASE e \notin Got
    <3>1. PICK i \in 1 .. n : i > s /\ all[i] = e
      BY <1>18, <2>2 DEF PagingInv, StayedAhead, n, all
    <3>2. CASE i > s + PageLen
      BY <3>1, <3>2
    <3>3. CASE i <= s + PageLen
      <4>1. i - s \in 1 .. Len(page) /\ s + (i - s) = i
        <5>1. Len(page) = (IF s >= n THEN 0 ELSE m - s)
          BY <1>3, <1>18
        <5>2. i <= m /\ m \in Int /\ ~(s >= n)
          BY <1>1, <3>1, <3>3
        <5> HIDE DEF m, s
        <5> QED BY <1>1, <3>1, <5>1, <5>2
      <4>2. page[i - s] = e
        BY <1>3, <1>18, <3>1, <4>1
      <4>3. DOMAIN page = 1 .. Len(page)
        BY <1>5
      <4>4. e \in ToSet(page)
        BY <4>1, <4>2, <4>3 DEF ToSet
      <4> QED BY <1>6, <4>4
    <3> QED BY <1>1, <3>1, <3>2, <3>3
  <2> QED BY <2>1, <2>2
<1>19. StayedAhead'
  <2> SUFFICES ASSUME ~walk.left, ~walk.missing, ~missing, NEW e \in walk.stayed
               PROVE  e \in ToSet(t) \/ \E i \in 1 .. n : i > s + PageLen /\ all[i] = e
    BY <1>7, <1>8 DEF StayedAhead, Got
  <2> QED BY <1>18
<1>20. MissedOnlyByMoves'
  <2> SUFFICES ASSUME walk'.pc = "done", ~walk.left, ~walk.missing, ~missing, s + PageLen < MaxRows,
                      NEW e \in walk.stayed
               PROVE  e \in ToSet(t)
    BY <1>7 DEF MissedOnlyByMoves, Got
  <2>1. n < s + PageLen
    BY <1>1, <1>3, <1>7
  <2>2. ~ \E i \in 1 .. n : i > s + PageLen
    BY <1>1, <2>1
  <2> QED BY <1>18, <2>2
<1> QED BY <1>10, <1>11, <1>13, <1>14, <1>16, <1>17, <1>19, <1>20 DEF PagingInv, WalkSound

(* Whatever happens to a list while it is read, a walk over it is sound:   *)
(* nothing twice, nothing missed but what moved.                           *)
THEOREM WalksAreSound == PagingSpec => []WalkSound
<1>1. PagingInv /\ [PagingNext]_pagingVars => PagingInv'
  <2> SUFFICES ASSUME PagingInv, [PagingNext]_pagingVars PROVE PagingInv'
    OBVIOUS
  <2>1. CASE ElementAdded
    BY <2>1, AddedKeeps
  <2>2. CASE ElementLeaves
    BY <2>2, LeavesKeeps
  <2>3. CASE ReadPage
    BY <2>3, ReadKeeps DEF ReadPage
  <2>4. CASE PageMissing
    BY <2>4, ReadKeeps DEF PageMissing
  <2>5. CASE CallFails
    BY <2>5, FailsKeeps
  <2>6. CASE UNCHANGED pagingVars
    BY <2>6 DEF pagingVars, PagingInv, PagingTypeOK, ListInOrder, WalkBounded, WholePages, ReadSoFar, Undisturbed,
            OldestFirst, StayedAhead, Got, InOrder, WalkSound, CalmWalkExact, NoElementTwice, MissedOnlyByMoves
  <2> QED BY <2>1, <2>2, <2>3, <2>4, <2>5, <2>6 DEF PagingNext
<1>2. PagingInv => WalkSound
  BY DEF PagingInv
<1> QED BY InitPagingInv, <1>1, <1>2, PTL DEF PagingSpec

-----------------------------------------------------------------------------
(* Spend and plan entered by hand.                                         *)

Kinds == {"SPENT", "PAID"}

Spend == [exists : {TRUE}, source : Channels, kind : Kinds, day : Days, deleted : BOOLEAN, amount : Int]

Plan == [Fields -> Numbers \cup {None}]

(* What a page shows, and what it sends: a correction within what it       *)
(* shows, a row there is, the plan shown with one number set.              *)
ScreenSound(scr, rows) ==
  /\ scr.day \in Days /\ scr.day \in scr.days
  /\ scr.month \in Months /\ scr.plan \in Plan /\ scr.spent \in [Channels -> Int]
  /\ \A s \in scr.rows : s \in SpendIds /\ rows[s].exists

SpendRequest(q) ==
  /\ q.source \in Channels /\ q.kind \in Kinds /\ q.day \in Days
  /\ q.amount \in Nat /\ q.subtract \in BOOLEAN /\ q.shown \in Int /\ q.checked \in Int
  /\ q.days # {} => q.day \in q.days /\ AdjustSpend(q.shown, q.amount, q.subtract) # None
  /\ q.pc = "insert" /\ q.subtract => q.amount <= q.checked

PlanRequest(q) ==
  /\ q.month \in Months /\ q.field \in Fields /\ q.shown \in Plan
  /\ \E n \in Numbers \cup {None} : q.body = [q.shown EXCEPT ![q.field] = n]

RequestSound(q, rows) ==
  /\ q.op \in {"none", "spend", "delete", "plan"}
  /\ q.op = "spend" => SpendRequest(q)
  /\ q.op = "delete" => q.id \in SpendIds /\ rows[q.id].exists
  /\ q.op = "plan" => PlanRequest(q)

BooksTypeOK ==
  /\ spends \in [SpendIds -> {Absent} \cup Spend] /\ plans \in [Months -> Plan]
  /\ screen = [u \in Managers |-> screen[u]] /\ reqs = [u \in Managers |-> reqs[u]]
  /\ adrift \subseteq Channels /\ today \in Days
  /\ \A u \in Managers : ScreenSound(screen[u], spends) /\ RequestSound(reqs[u], spends)

(* All that was entered for a channel is not below zero.                   *)
SpendCovered(c) == \A kind \in Kinds : Total(spends, c, kind, Days) >= 0

BooksInv == BooksTypeOK /\ \A c \in Channels \ adrift : SpendCovered(c)

-----------------------------------------------------------------------------
AmountIn(rows) == [s \in SpendIds |-> IF rows[s].exists THEN rows[s].amount ELSE 0]

CountedIn(rows, c, kind, days) ==
  { s \in SpendIds : /\ rows[s].exists /\ ~rows[s].deleted
                     /\ rows[s].source = c /\ rows[s].kind = kind /\ rows[s].day \in days }

LEMMA TotalIsOfTheCounted ==
  ASSUME NEW rows \in [SpendIds -> {Absent} \cup Spend], NEW c, NEW kind, NEW days
  PROVE  /\ Total(rows, c, kind, days) = SumOver(AmountIn(rows), CountedIn(rows, c, kind, days))
         /\ IsFiniteSet(CountedIn(rows, c, kind, days))
         /\ \A s \in SpendIds : AmountIn(rows)[s] \in Int
<1> DEFINE S == CountedIn(rows, c, kind, days)
           adds(f) == f = [s \in SUBSET S |-> IF s = {} THEN 0 ELSE rows[First(s)].amount + f[s \ {First(s)}]]
           iter == CHOOSE f : adds(f)
<1>1. Total(rows, c, kind, days) = iter[S]
  BY DEF Total, CountedIn, MapThenSumSet, MapThenFoldSet, First
<1>2. S \in SUBSET SpendIds /\ IsFiniteSet(S)
  BY MarketingAssumption, FS_Subset DEF CountedIn
<1>3. \A s \in SUBSET S : s # {} => AmountIn(rows)[First(s)] = rows[First(s)].amount
  BY <1>2, FirstIn DEF AmountIn, CountedIn
<1>4. \A s \in SpendIds : AmountIn(rows)[s] \in Int
  <2> TAKE s \in SpendIds
  <2>1. rows[s] = Absent \/ rows[s] \in Spend
    OBVIOUS
  <2>2. CASE rows[s] = Absent
    <3>1. ~rows[s].exists
      BY <2>2 DEF Absent
    <3> QED BY <3>1 DEF AmountIn
  <2>3. CASE rows[s] \in Spend
    <3>1. rows[s].amount \in Int
      BY <2>3 DEF Spend
    <3> QED BY <3>1 DEF AmountIn
  <2> QED BY <2>1, <2>2, <2>3
<1> HIDE DEF S
<1>5. \A f : AddsUp(f, AmountIn(rows), S) <=> adds(f)
  BY <1>3 DEF AddsUp
<1> HIDE DEF adds
<1>6. \E f : adds(f)
  BY <1>2, <1>5, SumsExist
<1>7. AddsUp(iter, AmountIn(rows), S)
  BY <1>5, <1>6
<1> HIDE DEF iter
<1>8. Total(rows, c, kind, days) = SumOver(AmountIn(rows), S)
  BY <1>1, <1>2, <1>7, TotalIsTheSum
<1> QED BY <1>2, <1>4, <1>8 DEF S

LEMMA TotalInt ==
  ASSUME NEW rows \in [SpendIds -> {Absent} \cup Spend], NEW c, NEW kind, NEW days
  PROVE  Total(rows, c, kind, days) \in Int
<1>1. CountedIn(rows, c, kind, days) \subseteq SpendIds
  BY DEF CountedIn
<1>2. \A s \in CountedIn(rows, c, kind, days) : AmountIn(rows)[s] \in Int
  BY <1>1, TotalIsOfTheCounted
<1> QED BY <1>2, TotalIsOfTheCounted, TotalType

(* A row that was not there adds its amount where it counts.               *)
LEMMA TotalAfterInsert ==
  ASSUME NEW rows \in [SpendIds -> {Absent} \cup Spend], NEW s \in SpendIds, ~rows[s].exists,
         NEW row \in Spend, ~row.deleted, NEW new \in [SpendIds -> {Absent} \cup Spend], new[s] = row,
         \A t \in SpendIds \ {s} : new[t] = rows[t], NEW c, NEW kind, NEW M
  PROVE  Total(new, c, kind, M) =
           Total(rows, c, kind, M) + IF row.source = c /\ row.kind = kind /\ row.day \in M THEN row.amount ELSE 0
<1> DEFINE S == CountedIn(rows, c, kind, M)
           T == CountedIn(new, c, kind, M)
           counts == row.source = c /\ row.kind = kind /\ row.day \in M
<1>1. new \in [SpendIds -> {Absent} \cup Spend] /\ new[s] = row /\ \A t \in SpendIds \ {s} : new[t] = rows[t]
  OBVIOUS
<1>2. row.exists /\ ~row.deleted /\ row.amount \in Int
  BY DEF Spend
<1>3. S \subseteq SpendIds /\ s \notin S /\ T \subseteq SpendIds
  BY DEF CountedIn
<1>4. T = IF counts THEN S \cup {s} ELSE S
  <2>1. \A t \in SpendIds \ {s} : t \in T <=> t \in S
    BY <1>1 DEF CountedIn
  <2>2. s \in T <=> counts
    BY <1>1, <1>2 DEF CountedIn
  <2> HIDE DEF counts, S, T
  <2> QED BY <1>3, <2>1, <2>2
<1>5. IsFiniteSet(S) /\ IsFiniteSet(T)
  BY <1>1, TotalIsOfTheCounted
<1>6. \A t \in SpendIds : AmountIn(rows)[t] \in Int /\ AmountIn(new)[t] \in Int
  BY <1>1, TotalIsOfTheCounted
<1>7. \A t \in S : AmountIn(new)[t] = AmountIn(rows)[t]
  BY <1>1, <1>3 DEF AmountIn
<1>8. AmountIn(new)[s] = row.amount
  BY <1>1, <1>2 DEF AmountIn
<1>9. SumOver(AmountIn(new), S) = SumOver(AmountIn(rows), S)
  <2> HIDE DEF S
  <2> QED BY <1>5, <1>7, TotalAgrees
<1>10. Total(rows, c, kind, M) = SumOver(AmountIn(rows), S) /\ Total(new, c, kind, M) = SumOver(AmountIn(new), T)
  BY <1>1, TotalIsOfTheCounted
<1>11. Total(rows, c, kind, M) \in Int
  BY TotalInt
<1> HIDE DEF S, T, counts
<1>12. CASE counts
  <2>1. T \ {s} = S /\ s \in T /\ \A t \in T : AmountIn(new)[t] \in Int
    BY <1>3, <1>4, <1>6, <1>12
  <2>2. SumOver(AmountIn(new), T) = AmountIn(new)[s] + SumOver(AmountIn(new), S)
    BY <1>5, <2>1, TotalTakesAny
  <2> QED BY <1>2, <1>8, <1>9, <1>10, <1>11, <1>12, <2>2 DEF counts
<1>13. CASE ~counts
  <2>1. Total(new, c, kind, M) = Total(rows, c, kind, M)
    BY <1>4, <1>9, <1>10, <1>13
  <2> QED BY <1>11, <1>13, <2>1 DEF counts
<1> QED BY <1>12, <1>13

(* Deleting a row leaves the spend of the other channels.                  *)
LEMMA TotalAfterDelete ==
  ASSUME NEW rows \in [SpendIds -> {Absent} \cup Spend], NEW s \in SpendIds,
         NEW new \in [SpendIds -> {Absent} \cup Spend], new[s].source = rows[s].source,
         \A t \in SpendIds \ {s} : new[t] = rows[t], NEW c, c # rows[s].source, NEW kind, NEW M
  PROVE  Total(new, c, kind, M) = Total(rows, c, kind, M)
<1> DEFINE S == CountedIn(rows, c, kind, M)
<1>5. CountedIn(new, c, kind, M) = S
  <2>1. \A t \in SpendIds \ {s} : t \in CountedIn(new, c, kind, M) <=> t \in S
    BY DEF CountedIn
  <2>2. s \notin CountedIn(new, c, kind, M) /\ s \notin S
    BY DEF CountedIn
  <2>3. CountedIn(new, c, kind, M) \subseteq SpendIds /\ S \subseteq SpendIds
    BY DEF CountedIn
  <2> HIDE DEF S
  <2> QED BY <2>1, <2>2, <2>3
<1>6. \A t \in S : AmountIn(new)[t] = AmountIn(rows)[t]
  <2>1. S \subseteq SpendIds \ {s}
    BY DEF CountedIn
  <2> HIDE DEF S
  <2> QED BY <2>1 DEF AmountIn
<1>7. IsFiniteSet(S) /\ Total(rows, c, kind, M) = SumOver(AmountIn(rows), S)
      /\ Total(new, c, kind, M) = SumOver(AmountIn(new), CountedIn(new, c, kind, M))
  BY TotalIsOfTheCounted
<1> HIDE DEF S
<1>8. SumOver(AmountIn(new), S) = SumOver(AmountIn(rows), S)
  BY <1>6, <1>7, TotalAgrees
<1> QED BY <1>5, <1>7, <1>8

-----------------------------------------------------------------------------
LEMMA PageIsSound ==
  ASSUME spends \in [SpendIds -> {Absent} \cup Spend], plans \in [Months -> Plan], today \in Days, NEW p \in Periods
  PROVE  ScreenSound(Page(p), spends)
<1> DEFINE month == IF p.month # None THEN p.month ELSE monthOf[today]
           day == IF today \in DaysOf(p) THEN today ELSE p.last
<1>1. month \in Months /\ plans[month] \in Plan
  BY MarketingAssumption
<1>2. day \in Days /\ day \in DaysOf(p)
  <2>1. p.start \in Nat /\ p.last \in Nat /\ p.start <= p.last /\ p.last \in Days
    BY MarketingAssumption
  <2>2. p.last \in DaysOf(p)
    BY <2>1 DEF DaysOf
  <2> QED BY <2>1, <2>2
<1>3. \A c \in Channels : Total(spends, c, "SPENT", DaysOf(p)) \in Int
  BY TotalInt
<1>4. Page(p) = [days |-> DaysOf(p), month |-> month, plan |-> plans[month], day |-> day,
                 spent |-> [c \in Channels |-> Total(spends, c, "SPENT", DaysOf(p))],
                 rows |-> { s \in SpendIds : spends[s].exists /\ ~spends[s].deleted /\ spends[s].day \in DaysOf(p) }]
  BY DEF Page
<1> HIDE DEF month, day
<1> QED BY <1>1, <1>2, <1>3, <1>4 DEF ScreenSound

(* Rows are never taken back: what a page knows of them stays true.        *)
LEMMA SoundKept ==
  ASSUME NEW rows, NEW new, \A s \in SpendIds : rows[s].exists => new[s].exists, NEW scr, NEW q,
         ScreenSound(scr, rows), RequestSound(q, rows)
  PROVE  ScreenSound(scr, new) /\ RequestSound(q, new)
<1>1. ScreenSound(scr, new)
  BY DEF ScreenSound
<1>2. RequestSound(q, new)
  BY DEF RequestSound
<1> QED BY <1>1, <1>2

LEMMA InitBooksInv == MarketingInit => BooksInv
<1> SUFFICES ASSUME MarketingInit PROVE BooksInv
  OBVIOUS
<1> DEFINE p == CHOOSE p \in Periods : TRUE
<1>1. p \in Periods
  BY MarketingAssumption
<1>2. /\ spends = [s \in SpendIds |-> Absent] /\ plans = [k \in Months |-> NoPlan] /\ today \in Days
      /\ screen = [u \in Managers |-> Page(p)] /\ reqs = [u \in Managers |-> Idle] /\ adrift = {}
  BY DEF MarketingInit
<1> HIDE DEF p
<1>3. spends \in [SpendIds -> {Absent} \cup Spend] /\ plans \in [Months -> Plan]
  BY <1>2 DEF NoPlan, Plan
<1>4. ScreenSound(Page(p), spends)
  BY <1>1, <1>2, <1>3, PageIsSound
<1>5. RequestSound(Idle, spends)
  BY DEF Idle, RequestSound
<1>6. BooksTypeOK
  BY <1>2, <1>3, <1>4, <1>5 DEF BooksTypeOK
<1>7. ASSUME NEW c, NEW kind, NEW M PROVE Total(spends, c, kind, M) >= 0
  <2>1. CountedIn(spends, c, kind, M) = {}
    BY <1>2 DEF CountedIn, Absent
  <2> QED BY <1>3, <2>1, TotalIsOfTheCounted, TotalOfNone
<1> QED BY <1>6, <1>7 DEF BooksInv, SpendCovered

(* A page is refreshed, a request is sent or goes on, and nothing is       *)
(* written.                                                                *)
LEMMA NothingWritten ==
  ASSUME BooksInv, NEW u \in Managers, UNCHANGED <<spends, plans, today, adrift>>,
         NEW scr, NEW q, screen' = [screen EXCEPT ![u] = scr], reqs' = [reqs EXCEPT ![u] = q],
         ScreenSound(scr, spends), RequestSound(q, spends)
  PROVE  BooksInv'
<1>1. BooksTypeOK'
  <2>1. screen' = [v \in Managers |-> screen'[v]] /\ reqs' = [v \in Managers |-> reqs'[v]]
    BY DEF BooksInv, BooksTypeOK
  <2>2. \A v \in Managers : ScreenSound(screen'[v], spends) /\ RequestSound(reqs'[v], spends)
    BY DEF BooksInv, BooksTypeOK
  <2> QED BY <2>1, <2>2 DEF BooksInv, BooksTypeOK
<1>2. \A c \in Channels \ adrift : SpendCovered(c)'
  BY DEF BooksInv, SpendCovered
<1> QED BY <1>1, <1>2 DEF BooksInv

LEMMA SubmitKeeps ==
  ASSUME BooksInv, NEW u \in Managers, NEW q, RequestSound(q, spends), Submit(u, q) \/ Proceed(u, q)
  PROVE  BooksInv'
<1>1. screen' = [screen EXCEPT ![u] = screen[u]] /\ ScreenSound(screen[u], spends)
  BY DEF BooksInv, BooksTypeOK, Submit, Proceed
<1>2. reqs' = [reqs EXCEPT ![u] = q] /\ UNCHANGED <<spends, plans, today, adrift>>
  BY DEF Submit, Proceed
<1> HIDE DEF Submit, Proceed
<1> QED BY <1>1, <1>2, NothingWritten

LEMMA RefreshKeeps ==
  ASSUME BooksInv, NEW u \in Managers, Refresh(u)
  PROVE  BooksInv'
<1>1. PICK p \in Periods : screen' = [screen EXCEPT ![u] = Page(p)]
  BY DEF Refresh
<1>2. ScreenSound(Page(p), spends)
  BY PageIsSound DEF BooksInv, BooksTypeOK
<1>3. reqs' = [reqs EXCEPT ![u] = reqs[u]] /\ RequestSound(reqs[u], spends)
      /\ UNCHANGED <<spends, plans, today, adrift>>
  BY DEF Refresh, BooksInv, BooksTypeOK
<1> QED BY <1>1, <1>2, <1>3, NothingWritten

LEMMA DayPassesKeeps ==
  ASSUME BooksInv, DayPasses
  PROVE  BooksInv'
BY DEF BooksInv, BooksTypeOK, SpendCovered, DayPasses

LEMMA RequestsSound ==
  ASSUME BooksInv, NEW u \in Managers
  PROVE  /\ SpendCell(u) => BooksInv'
         /\ SpendForm(u) => BooksInv'
         /\ DeleteSubmit(u) => BooksInv'
         /\ PlanPut(u) => BooksInv'
<1>1. ScreenSound(screen[u], spends)
  BY DEF BooksInv, BooksTypeOK
<1>2. Sums \subseteq Nat
  BY MarketingAssumption
<1>3. ASSUME SpendCell(u) PROVE BooksInv'
  <2>1. PICK c \in Channels, a \in Sums, subtract \in BOOLEAN :
          AdjustSpend(screen[u].spent[c], a, subtract) # None /\ Submit(u, CellRequest(u, c, a, subtract))
    BY <1>3 DEF SpendCell
  <2> DEFINE q == CellRequest(u, c, a, subtract)
  <2>2. /\ screen[u].spent[c] \in Int /\ screen[u].day \in Days /\ screen[u].day \in screen[u].days
        /\ a \in Nat
    BY <1>1, <1>2 DEF ScreenSound
  <2>3. q.op = "spend" /\ SpendRequest(q)
    BY <2>1, <2>2 DEF SpendRequest, CellRequest, Kinds
  <2>4. RequestSound(q, spends)
    <3> HIDE DEF q
    <3> QED BY <2>3 DEF RequestSound
  <2> HIDE DEF q
  <2> QED BY <2>1, <2>4, SubmitKeeps DEF q
<1>4. ASSUME SpendForm(u) PROVE BooksInv'
  <2>1. PICK c \in Channels, a \in Sums, kind \in {"SPENT", "PAID"}, d \in Days :
          Submit(u, [op |-> "spend", source |-> c, kind |-> kind, amount |-> a, subtract |-> FALSE,
                     day |-> d, days |-> {}, shown |-> 0, pc |-> "check", checked |-> 0])
    BY <1>4 DEF SpendForm
  <2> DEFINE q == [op |-> "spend", source |-> c, kind |-> kind, amount |-> a, subtract |-> FALSE,
                   day |-> d, days |-> {}, shown |-> 0, pc |-> "check", checked |-> 0]
  <2>2. q.op = "spend" /\ SpendRequest(q)
    BY <1>2 DEF SpendRequest, Kinds
  <2>3. RequestSound(q, spends)
    <3> HIDE DEF q
    <3> QED BY <2>2 DEF RequestSound
  <2> HIDE DEF q
  <2> QED BY <2>1, <2>3, SubmitKeeps DEF q
<1>5. ASSUME DeleteSubmit(u) PROVE BooksInv'
  <2>1. PICK s \in screen[u].rows : Submit(u, [op |-> "delete", id |-> s, pc |-> "find"])
    BY <1>5 DEF DeleteSubmit
  <2>2. RequestSound([op |-> "delete", id |-> s, pc |-> "find"], spends)
    BY <1>1 DEF ScreenSound, RequestSound
  <2> QED BY <2>1, <2>2, SubmitKeeps
<1>6. ASSUME PlanPut(u) PROVE BooksInv'
  <2>1. PICK f \in Fields, n \in Numbers \cup {None} :
          Submit(u, [op |-> "plan", month |-> screen[u].month, field |-> f, shown |-> screen[u].plan,
                     body |-> [screen[u].plan EXCEPT ![f] = n]])
    BY <1>6 DEF PlanPut
  <2> DEFINE q == [op |-> "plan", month |-> screen[u].month, field |-> f, shown |-> screen[u].plan,
                   body |-> [screen[u].plan EXCEPT ![f] = n]]
  <2>2. q.op = "plan" /\ PlanRequest(q)
    BY <1>1 DEF ScreenSound, PlanRequest
  <2>3. RequestSound(q, spends)
    <3> HIDE DEF q
    <3> QED BY <2>2 DEF RequestSound
  <2> HIDE DEF q
  <2> QED BY <2>1, <2>3, SubmitKeeps DEF q
<1> QED BY <1>3, <1>4, <1>5, <1>6

LEMMA ChecksKeep ==
  ASSUME BooksInv, NEW u \in Managers
  PROVE  /\ CreateSpendCheck(u) => BooksInv'
         /\ DeleteFind(u) => BooksInv'
<1>1. RequestSound(reqs[u], spends)
  BY DEF BooksInv, BooksTypeOK
<1>2. RequestSound(Idle, spends)
  BY DEF Idle, RequestSound
<1>3. ASSUME CreateSpendCheck(u) PROVE BooksInv'
  <2> DEFINE current == Total(spends, reqs[u].source, reqs[u].kind, Days)
             q == [reqs[u] EXCEPT !.pc = "insert", !.checked = current]
  <2>1. \/ Proceed(u, Idle)
        \/ Proceed(u, q) /\ ~(reqs[u].subtract /\ AdjustSpend(current, reqs[u].amount, TRUE) = None)
    BY <1>3 DEF CreateSpendCheck
  <2>2. reqs[u].op = "spend" /\ reqs[u].pc = "check" /\ SpendRequest(reqs[u])
    BY <1>1, <1>3 DEF CreateSpendCheck, RequestSound
  <2>3. current \in Int
    BY TotalInt DEF BooksInv, BooksTypeOK
  <2> HIDE DEF current
  <2>4. ASSUME ~(reqs[u].subtract /\ AdjustSpend(current, reqs[u].amount, TRUE) = None)
        PROVE  RequestSound(q, spends)
    <3>1. reqs[u].subtract => reqs[u].amount <= current
      BY <2>2, <2>3, <2>4 DEF AdjustSpend, SpendRequest
    <3>2. \/ q = reqs[u]
          \/ /\ q.op = "spend" /\ q.source = reqs[u].source /\ q.kind = reqs[u].kind /\ q.day = reqs[u].day
             /\ q.amount = reqs[u].amount /\ q.subtract = reqs[u].subtract /\ q.shown = reqs[u].shown
             /\ q.days = reqs[u].days /\ q.checked = current
      BY <2>2
    <3> HIDE DEF q
    <3> QED BY <2>2, <2>3, <3>1, <3>2 DEF RequestSound, SpendRequest
  <2> HIDE DEF q
  <2> QED BY <1>2, <2>1, <2>4, SubmitKeeps
<1>4. ASSUME DeleteFind(u) PROVE BooksInv'
  <2>1. Proceed(u, Idle) \/ Proceed(u, [reqs[u] EXCEPT !.pc = "commit"])
    BY <1>4 DEF DeleteFind
  <2>2. RequestSound([reqs[u] EXCEPT !.pc = "commit"], spends)
    BY <1>1, <1>4 DEF DeleteFind, RequestSound
  <2> QED BY <1>2, <2>1, <2>2, SubmitKeeps
<1> QED BY <1>3, <1>4

(* What each write does to requests, pages and rows.                       *)
LEMMA WriteKeepsTypes ==
  ASSUME BooksTypeOK, NEW u \in Managers, screen' = screen, reqs' = [reqs EXCEPT ![u] = Idle],
         spends' \in [SpendIds -> {Absent} \cup Spend], plans' \in [Months -> Plan], adrift' \subseteq Channels, today' = today,
         \A s \in SpendIds : spends[s].exists => spends'[s].exists
  PROVE  BooksTypeOK'
<1>1. screen' = [v \in Managers |-> screen'[v]] /\ reqs' = [v \in Managers |-> reqs'[v]]
  BY DEF BooksTypeOK
<1>2. RequestSound(Idle, spends')
  BY DEF Idle, RequestSound
<1>3. \A v \in Managers : reqs'[v] = (IF v = u THEN Idle ELSE reqs[v]) /\ screen'[v] = screen[v]
  BY DEF BooksTypeOK
<1>4. \A v \in Managers : ScreenSound(screen[v], spends') /\ RequestSound(reqs[v], spends')
  BY SoundKept DEF BooksTypeOK
<1>5. \A v \in Managers : ScreenSound(screen'[v], spends') /\ RequestSound(reqs'[v], spends')
  BY <1>2, <1>3, <1>4
<1> QED BY <1>1, <1>5 DEF BooksTypeOK

LEMMA InsertKeeps ==
  ASSUME BooksInv, NEW u \in Managers, CreateSpendInsert(u)
  PROVE  BooksInv' /\ SpendBecomes
<1> DEFINE q == reqs[u]
           amount == IF q.subtract THEN -q.amount ELSE q.amount
           row == [exists |-> TRUE, source |-> q.source, kind |-> q.kind, day |-> q.day, deleted |-> FALSE,
                   amount |-> amount]
<1>1. BooksTypeOK /\ spends \in [SpendIds -> {Absent} \cup Spend]
  BY DEF BooksInv, BooksTypeOK
<1>2. q.op = "spend" /\ q.pc = "insert" /\ SpendRequest(q)
  BY <1>1 DEF BooksTypeOK, RequestSound, CreateSpendInsert
<1>3. PICK s \in SpendIds :
        /\ ~spends[s].exists
        /\ spends' = [spends EXCEPT ![s] = row]
        /\ adrift' = IF q.subtract /\ q.checked # Total(spends, q.source, q.kind, Days)
                     THEN adrift \cup {q.source} ELSE adrift
  BY DEF CreateSpendInsert
<1>4. screen' = screen /\ plans' = plans /\ today' = today /\ reqs' = [reqs EXCEPT ![u] = Idle]
  BY DEF CreateSpendInsert
<1>5. amount \in Int
  BY <1>2 DEF SpendRequest
<1> HIDE DEF amount
<1>6. /\ row \in Spend /\ ~row.deleted /\ row.source = q.source /\ row.kind = q.kind /\ row.day = q.day
      /\ row.amount = amount /\ row.exists
  BY <1>2, <1>5 DEF Spend, SpendRequest
<1> HIDE DEF row, q
<1>7. spends' \in [SpendIds -> {Absent} \cup Spend] /\ \A t \in SpendIds : spends[t].exists => spends'[t].exists
  BY <1>1, <1>3, <1>6
<1>7a. ~spends[s].exists /\ spends'[s] = row /\ \A t \in SpendIds \ {s} : spends'[t] = spends[t]
  BY <1>1, <1>3
<1>8. adrift' \subseteq Channels /\ adrift \subseteq adrift'
  BY <1>1, <1>2, <1>3 DEF BooksTypeOK, SpendRequest
<1>9. BooksTypeOK'
  BY <1>1, <1>4, <1>7, <1>8, WriteKeepsTypes DEF BooksTypeOK
<1>10. ASSUME NEW c \in Channels \ adrift', NEW kind \in Kinds
       PROVE  Total(spends', c, kind, Days) >= 0
  <2> DEFINE counts == row.source = c /\ row.kind = kind /\ row.day \in Days
  <2>1. Total(spends', c, kind, Days) = Total(spends, c, kind, Days) + IF counts THEN row.amount ELSE 0
    BY <1>1, <1>6, <1>7, <1>7a, TotalAfterInsert
  <2>2. Total(spends, c, kind, Days) >= 0 /\ Total(spends, c, kind, Days) \in Int
    BY <1>1, <1>8, <1>10, TotalInt DEF BooksInv, SpendCovered
  <2> HIDE DEF counts
  <2>3. CASE ~counts
    BY <2>1, <2>2, <2>3
  <2>4. CASE counts /\ ~q.subtract
    <3>1. row.amount \in Nat
      BY <1>2, <1>6, <2>4 DEF amount, SpendRequest
    <3> QED BY <2>1, <2>2, <2>4, <3>1
  <2>5. CASE counts /\ q.subtract
    <3>1. c = q.source /\ kind = q.kind
      BY <1>6, <2>5 DEF counts
    <3>2. Total(spends, c, kind, Days) = q.checked
      BY <1>3, <1>10, <2>5, <3>1
    <3>3. q.amount \in Nat /\ q.amount <= q.checked /\ row.amount = -q.amount
      BY <1>2, <1>6, <2>5 DEF amount, SpendRequest
    <3> QED BY <2>1, <2>2, <2>5, <3>2, <3>3
  <2> QED BY <2>3, <2>4, <2>5
<1>11. ASSUME q.days # {}, q.shown = Total(spends, q.source, q.kind, q.days)
       PROVE  Total(spends', q.source, q.kind, q.days) = AdjustSpend(q.shown, q.amount, q.subtract)
  <2>1. row.day \in q.days /\ AdjustSpend(q.shown, q.amount, q.subtract) # None
    BY <1>2, <1>6, <1>11 DEF SpendRequest
  <2>2. Total(spends', q.source, q.kind, q.days) = q.shown + row.amount
    <3>1. Total(spends', q.source, q.kind, q.days) = Total(spends, q.source, q.kind, q.days) +
            IF row.source = q.source /\ row.kind = q.kind /\ row.day \in q.days THEN row.amount ELSE 0
      BY <1>1, <1>6, <1>7, <1>7a, TotalAfterInsert
    <3> QED BY <1>6, <1>11, <2>1, <3>1
  <2>3. row.amount = (IF q.subtract THEN -q.amount ELSE q.amount) /\ q.shown \in Int /\ q.amount \in Nat
    BY <1>2, <1>6 DEF amount, SpendRequest
  <2> QED BY <2>1, <2>2, <2>3 DEF AdjustSpend
<1>12. SpendBecomes
  <2>1. reqs'[u] = Idle
    BY <1>1, <1>4 DEF BooksTypeOK
  <2> QED BY <1>2, <1>11, <2>1 DEF SpendBecomes, q
<1> QED BY <1>9, <1>10, <1>12 DEF BooksInv, SpendCovered

LEMMA DeleteKeeps ==
  ASSUME BooksInv, NEW u \in Managers, DeleteCommit(u)
  PROVE  BooksInv' /\ SpendBecomes
<1> DEFINE s == reqs[u].id
<1>1. BooksTypeOK /\ spends \in [SpendIds -> {Absent} \cup Spend]
  BY DEF BooksInv, BooksTypeOK
<1>2. s \in SpendIds /\ spends[s].exists
  BY <1>1 DEF BooksTypeOK, RequestSound, DeleteCommit
<1>3. /\ spends' = [spends EXCEPT ![s].deleted = TRUE] /\ adrift' = adrift \cup {spends[s].source}
      /\ screen' = screen /\ plans' = plans /\ today' = today /\ reqs' = [reqs EXCEPT ![u] = Idle]
  BY DEF DeleteCommit
<1> HIDE DEF s
<1>4. spends[s] \in Spend
  BY <1>1, <1>2 DEF Absent
<1>5. spends'[s] \in Spend /\ spends'[s].exists /\ spends'[s].source = spends[s].source /\ \A t \in SpendIds \ {s} : spends'[t] = spends[t]
  <2>1. spends'[s] = [spends[s] EXCEPT !.deleted = TRUE] /\ \A t \in SpendIds \ {s} : spends'[t] = spends[t]
    BY <1>1, <1>2, <1>3
  <2> QED BY <1>4, <2>1 DEF Spend
<1>6. spends' \in [SpendIds -> {Absent} \cup Spend] /\ \A t \in SpendIds : spends[t].exists => spends'[t].exists
  BY <1>1, <1>2, <1>3, <1>5
<1>7. adrift' \subseteq Channels
  BY <1>1, <1>3, <1>4 DEF BooksTypeOK, Spend
<1>8. BooksTypeOK'
  BY <1>1, <1>3, <1>6, <1>7, WriteKeepsTypes DEF BooksTypeOK
<1>9. ASSUME NEW c \in Channels \ adrift', NEW kind \in Kinds
      PROVE  Total(spends', c, kind, Days) >= 0
  <2>1. c # spends[s].source /\ c \in Channels \ adrift
    BY <1>3, <1>9
  <2>2. Total(spends', c, kind, Days) = Total(spends, c, kind, Days)
    BY <1>1, <1>2, <1>5, <1>6, <2>1, TotalAfterDelete
  <2> QED BY <2>1, <2>2 DEF BooksInv, SpendCovered
<1>10. SpendBecomes
  <2>1. reqs[u].op = "delete" /\ reqs'[u] = Idle
    BY <1>1, <1>3 DEF BooksTypeOK, DeleteCommit
  <2> QED BY <2>1 DEF SpendBecomes
<1> QED BY <1>8, <1>9, <1>10 DEF BooksInv, SpendCovered

LEMMA UpsertKeeps ==
  ASSUME BooksInv, NEW u \in Managers, PlanUpsert(u)
  PROVE  BooksInv' /\ OtherNumbersStay
<1> DEFINE q == reqs[u]
<1>1. BooksTypeOK /\ spends \in [SpendIds -> {Absent} \cup Spend] /\ plans \in [Months -> Plan]
  BY DEF BooksInv, BooksTypeOK
<1>2. q.op = "plan" /\ PlanRequest(q)
  BY <1>1 DEF BooksTypeOK, RequestSound, PlanUpsert
<1>3. /\ spends' = spends /\ today' = today /\ adrift' = adrift /\ screen' = screen /\ reqs' = [reqs EXCEPT ![u] = Idle]
      /\ plans' = [plans EXCEPT ![q.month] = q.body]
  BY DEF PlanUpsert
<1>4. reqs'[u] = Idle
  BY <1>1, <1>3 DEF BooksTypeOK
<1> HIDE DEF q
<1>5. q.month \in Months /\ q.body \in Plan /\ \A f \in Fields \ {q.field} : q.body[f] = q.shown[f]
  BY <1>2 DEF PlanRequest, Plan
<1>6. plans' \in [Months -> Plan] /\ plans'[q.month] = q.body /\ \A m \in Months \ {q.month} : plans'[m] = plans[m]
  BY <1>1, <1>3, <1>5
<1>7. BooksTypeOK'
  BY <1>1, <1>3, <1>6, WriteKeepsTypes DEF BooksTypeOK
<1>8. \A c \in Channels \ adrift' : SpendCovered(c)'
  BY <1>3 DEF BooksInv, SpendCovered
<1>9. OtherNumbersStay
  <2> SUFFICES ASSUME NEW m \in Months, plans'[m] # plans[m]
               PROVE  /\ q.op = "plan" /\ q.month = m /\ reqs'[u] = Idle
                      /\ q.shown = plans[m] => \A f \in Fields \ {q.field} : plans'[m][f] = plans[m][f]
    BY DEF OtherNumbersStay, q
  <2>1. m = q.month
    BY <1>6
  <2> QED BY <1>2, <1>4, <1>5, <1>6, <2>1
<1> QED BY <1>7, <1>8, <1>9 DEF BooksInv

LEMMA StepBooksInv ==
  ASSUME BooksInv, [MarketingNext]_marketingVars
  PROVE  BooksInv' /\ ((SpendBecomes /\ OtherNumbersStay) \/ UNCHANGED marketingVars)
<1>1. CASE UNCHANGED marketingVars
  BY <1>1 DEF marketingVars, BooksInv, BooksTypeOK, SpendCovered
<1>2. ASSUME NEW u \in Managers, PlanUpsert(u) PROVE BooksInv' /\ SpendBecomes /\ OtherNumbersStay
  <2>1. spends' = spends
    BY <1>2 DEF PlanUpsert
  <2> QED BY <1>2, <2>1, UpsertKeeps DEF SpendBecomes
<1>3. ASSUME NEW u \in Managers, CreateSpendInsert(u) \/ DeleteCommit(u)
      PROVE  BooksInv' /\ SpendBecomes /\ OtherNumbersStay
  <2>1. plans' = plans
    BY <1>3 DEF CreateSpendInsert, DeleteCommit
  <2> QED BY <1>3, <2>1, InsertKeeps, DeleteKeeps DEF OtherNumbersStay
<1>4. ASSUME NEW u \in Managers,
             \/ Refresh(u)
             \/ SpendCell(u) \/ SpendForm(u) \/ CreateSpendCheck(u)
             \/ DeleteSubmit(u) \/ DeleteFind(u) \/ PlanPut(u)
      PROVE  BooksInv' /\ SpendBecomes /\ OtherNumbersStay
  <2>1. BooksInv'
    BY <1>4, RefreshKeeps, RequestsSound, ChecksKeep
  <2>2. plans' = plans /\ spends' = spends
    BY <1>4 DEF Refresh, SpendCell, SpendForm, CreateSpendCheck, DeleteSubmit, DeleteFind,
                PlanPut, Submit, Proceed
  <2> QED BY <2>1, <2>2 DEF SpendBecomes, OtherNumbersStay
<1>5. ASSUME DayPasses PROVE BooksInv' /\ SpendBecomes /\ OtherNumbersStay
  <2>1. plans' = plans /\ spends' = spends
    BY <1>5 DEF DayPasses
  <2> QED BY <1>5, <2>1, DayPassesKeeps DEF SpendBecomes, OtherNumbersStay
<1> QED BY <1>1, <1>2, <1>3, <1>4, <1>5 DEF MarketingNext

(* What is written by hand is what its writer saw and meant: corrections   *)
(* never take all the spend entered for a channel below zero until two of  *)
(* them overlap or a row is deleted, the spend of the period a page shows  *)
(* becomes what the page said it would, and setting one number of a plan   *)
(* leaves the others (HandWrittenSound).                                   *)
THEOREM WrittenByHandIsSound == MarketingSpec => HandWrittenSound
<1>1. BooksInv => \A c \in Channels \ adrift : CorrectionsCovered(c)
  BY DEF BooksInv, SpendCovered, CorrectionsCovered, Kinds
<1>2. BooksInv /\ [MarketingNext]_marketingVars => BooksInv' /\ [SpendBecomes /\ OtherNumbersStay]_marketingVars
  BY StepBooksInv
<1> QED BY <1>1, <1>2, InitBooksInv, PTL DEF MarketingSpec, HandWrittenSound

-----------------------------------------------------------------------------
(* The work of a project: one load of it.                                  *)

(* A finite set, listed: each element once.                                *)
LEMMA ListedOnce ==
  ASSUME NEW T, NEW S \in SUBSET T, IsFiniteSet(S)
  PROVE  SetToSeq(S) \in Seq(T) /\ Once(SetToSeq(S)) /\ ToSet(SetToSeq(S)) = S
<1>1. Cardinality(S) \in Nat /\ ExistsBijection(1..Cardinality(S), S)
  BY FS_CardinalityType
<1> DEFINE n == Cardinality(S)
           f == SetToSeq(S)
<1>2. PICK g \in [1..n -> S] : IsInjective(g)
  BY <1>1 DEF ExistsBijection, Bijection, Injection, IsInjective
<1>3. f \in [1..n -> S] /\ IsInjective(f)
  BY <1>2 DEF SetToSeq
<1> HIDE DEF f
<1>4. f \in Surjection(1..n, S)
  <2>1. f \in Injection(1..n, S)
    BY <1>3 DEF Injection
  <2>2. Cardinality(1..n) = n
    BY <1>1, FS_Interval
  <2> QED BY <2>1, <2>2, FS_Injection
<1>5. f \in Seq(T) /\ DOMAIN f = 1..n /\ Len(f) = n
  BY <1>1, <1>3
<1>6. Once(f)
  BY <1>3, <1>5 DEF Once, IsInjective
<1>7. ToSet(f) = S
  BY <1>3, <1>4, <1>5 DEF ToSet, Surjection
<1> QED BY <1>5, <1>6, <1>7 DEF f

(* One list after another, nothing of which is in both.                    *)
LEMMA OnceTogether ==
  ASSUME NEW T, NEW a \in Seq(T), NEW b \in Seq(T)
  PROVE  /\ a \o b \in Seq(T) /\ ToSet(a \o b) = ToSet(a) \cup ToSet(b)
         /\ Once(a) /\ Once(b) /\ ToSet(a) \cap ToSet(b) = {} => Once(a \o b)
<1> DEFINE m == Len(a)
           n == Len(b)
           c == a \o b
<1>1. m \in Nat /\ n \in Nat /\ DOMAIN a = 1..m /\ DOMAIN b = 1..n
  OBVIOUS
<1>2. /\ c \in Seq(T) /\ Len(c) = m + n /\ DOMAIN c = 1..(m + n)
      /\ \A i \in 1..(m + n) : c[i] = IF i <= m THEN a[i] ELSE b[i - m]
  BY ConcatProperties, <1>1
<1> HIDE DEF c, m, n
<1>3. \A i \in 1..(m + n) : (i <= m /\ i \in 1..m) \/ (~(i <= m) /\ i - m \in 1..n)
  BY <1>1
<1>4. \A i \in 1..m : i \in 1..(m + n) /\ i <= m
  BY <1>1
<1>5. \A i \in 1..n : m + i \in 1..(m + n) /\ ~(m + i <= m) /\ (m + i) - m = i
  BY <1>1
<1>6. ToSet(c) = ToSet(a) \cup ToSet(b)
  <2>1. \A x \in ToSet(c) : x \in ToSet(a) \cup ToSet(b)
    BY <1>1, <1>2, <1>3 DEF ToSet
  <2>2. \A x \in ToSet(a) : x \in ToSet(c)
    BY <1>1, <1>2, <1>4 DEF ToSet
  <2>3. \A x \in ToSet(b) : x \in ToSet(c)
    <3> TAKE x \in ToSet(b)
    <3>1. PICK i \in 1..n : x = b[i]
      BY <1>1 DEF ToSet
    <3>2. c[m + i] = b[i] /\ m + i \in 1..(m + n)
      BY <1>2, <1>5
    <3> QED BY <3>1, <3>2, <1>2 DEF ToSet
  <2> QED BY <2>1, <2>2, <2>3
<1>7. ASSUME Once(a), Once(b), ToSet(a) \cap ToSet(b) = {} PROVE Once(c)
  <2> SUFFICES ASSUME NEW i \in 1..(m + n), NEW j \in 1..(m + n), c[i] = c[j] PROVE i = j
    BY <1>2 DEF Once
  <2>1. \A k \in 1..m : a[k] \in ToSet(a)
    BY <1>1 DEF ToSet
  <2>2. \A k \in 1..n : b[k] \in ToSet(b)
    BY <1>1 DEF ToSet
  <2>3. \A k \in 1..m, l \in 1..m : a[k] = a[l] => k = l
    BY <1>7 DEF Once, m
  <2>4. \A k \in 1..n, l \in 1..n : b[k] = b[l] => k = l
    BY <1>7 DEF Once, n
  <2>5. CASE i <= m /\ j <= m
    BY <1>2, <1>3, <2>3, <2>5
  <2>6. CASE i <= m /\ ~(j <= m)
    <3>1. c[i] = a[i] /\ i \in 1..m /\ c[j] = b[j - m] /\ j - m \in 1..n
      BY <1>2, <1>3, <2>6
    <3> QED BY <1>7, <2>1, <2>2, <3>1
  <2>7. CASE ~(i <= m) /\ j <= m
    <3>1. c[j] = a[j] /\ j \in 1..m /\ c[i] = b[i - m] /\ i - m \in 1..n
      BY <1>2, <1>3, <2>7
    <3> QED BY <1>7, <2>1, <2>2, <3>1
  <2>8. CASE ~(i <= m) /\ ~(j <= m)
    <3>1. c[i] = b[i - m] /\ i - m \in 1..n /\ c[j] = b[j - m] /\ j - m \in 1..n
      BY <1>2, <1>3, <2>8
    <3>2. i - m = j - m
      BY <2>4, <3>1
    <3> QED BY <3>2, <1>1
  <2> QED BY <2>5, <2>6, <2>7, <2>8
<1> QED BY <1>2, <1>6, <1>7 DEF c

(* The meetings taken one by one.                                          *)
Gathers(out, events, n) ==
  out = [i \in 0 .. n |->
           IF i = 0 THEN <<>>
           ELSE IF events[i] = NoMeeting \/ \E m \in ToSet(out[i - 1]) : SameMeeting(m, events[i]) THEN out[i - 1]
           ELSE Append(out[i - 1], events[i])]

LEMMA GathersExist ==
  ASSUME NEW events, NEW n \in Nat
  PROVE  \E out : Gathers(out, events, n)
<1> DEFINE bad == {m \in Nat : ~ \E out : Gathers(out, events, m)}
           Met(o, i) == events[i] = NoMeeting \/ \E m \in ToSet(o) : SameMeeting(m, events[i])
<1> SUFFICES ASSUME bad # {} PROVE FALSE
  OBVIOUS
<1>1. PICK m \in bad : \A k \in bad : m <= k
  <2>1. bad \in SUBSET Nat
    OBVIOUS
  <2> HIDE DEF bad
  <2> QED BY <2>1, SmallestNumber
<1>2. CASE m = 0
  <2>1. Gathers([i \in 0 .. 0 |-> <<>>], events, 0)
    BY DEF Gathers
  <2> QED BY <1>2, <2>1
<1>3. CASE m # 0
  <2>1. m - 1 \in Nat /\ m \in Nat
    BY <1>3
  <2>2. PICK out : Gathers(out, events, m - 1)
    BY <1>1, <2>1
  <2> DEFINE ends == IF Met(out[m - 1], m) THEN out[m - 1] ELSE Append(out[m - 1], events[m])
             longer == [i \in 0 .. m |-> IF i = m THEN ends ELSE out[i]]
  <2>3. Gathers(longer, events, m)
    <3>1. \A i \in 0 .. m : i # m => i \in 0 .. (m - 1) /\ longer[i] = out[i]
      BY <2>1
    <3>2. \A i \in 0 .. m : i # 0 => longer[i - 1] = out[i - 1]
      BY <2>1
    <3>3. \A i \in 0 .. m :
            longer[i] = IF i = 0 THEN <<>>
                        ELSE IF Met(longer[i - 1], i) THEN longer[i - 1] ELSE Append(longer[i - 1], events[i])
      <4> TAKE i \in 0 .. m
      <4>1. CASE i = m
        <5>1. longer[i] = ends
          BY <4>1
        <5> HIDE DEF Met
        <5> QED BY <1>3, <3>2, <4>1, <5>1
      <4>2. CASE i # m
        <5>1. longer[i] = out[i] /\ i \in 0 .. (m - 1)
          BY <3>1, <4>2
        <5>2. out[i] = IF i = 0 THEN <<>>
                       ELSE IF Met(out[i - 1], i) THEN out[i - 1] ELSE Append(out[i - 1], events[i])
          BY <2>2, <5>1 DEF Gathers
        <5> HIDE DEF Met
        <5> QED BY <3>2, <5>1, <5>2
      <4> QED BY <4>1, <4>2
    <3>4. longer = [i \in 0 .. m |-> longer[i]]
      OBVIOUS
    <3> HIDE DEF longer
    <3> QED BY <3>3, <3>4 DEF Gathers
  <2> QED BY <2>3
<1> QED BY <1>2, <1>3

(* What was gathered of the first events: each instance of them, once.     *)
GatheredSoFar(o, events, i) ==
  o \in Seq(Instances) /\ Once(o) /\ ToSet(o) = {events[j] : j \in 1 .. i} \ {NoMeeting}

Events == Seq(Instances \cup {NoMeeting})

LEMMA GatheredNext ==
  ASSUME NEW events \in Events, NEW i \in 1 .. Len(events), NEW o, GatheredSoFar(o, events, i - 1)
  PROVE  GatheredSoFar(IF events[i] = NoMeeting \/ \E m \in ToSet(o) : SameMeeting(m, events[i]) THEN o
                       ELSE Append(o, events[i]), events, i)
<1>0. /\ o \in Seq(Instances) /\ Len(o) \in Nat /\ Len(events) \in Nat /\ i \in Nat
      /\ events[i] \in Instances \cup {NoMeeting}
  BY DEF GatheredSoFar, Events
<1>1. {events[j] : j \in 1 .. i} = {events[j] : j \in 1 .. (i - 1)} \cup {events[i]}
  <2>1. 1 .. i = (1 .. (i - 1)) \cup {i}
    BY <1>0
  <2> QED BY <2>1
<1>2. CASE events[i] = NoMeeting
  BY <1>1, <1>2 DEF GatheredSoFar
<1>3. CASE events[i] # NoMeeting /\ events[i] \in ToSet(o)
  <2>1. ToSet(o) = {events[j] : j \in 1 .. i} \ {NoMeeting}
    BY <1>1, <1>3 DEF GatheredSoFar
  <2> QED BY <1>3, <2>1 DEF GatheredSoFar, SameMeeting
<1>4. CASE events[i] # NoMeeting /\ events[i] \notin ToSet(o)
  <2> DEFINE e == events[i]
             n == Append(o, e)
             one == <<e>>
  <2>1. e \in Instances
    BY <1>0, <1>4
  <2> HIDE DEF e
  <2>2. n = o \o one /\ one \in Seq(Instances) /\ Once(one) /\ ToSet(one) = {e}
    BY <1>0, <2>1 DEF Once, ToSet
  <2> HIDE DEF n, one
  <2>3. n \in Seq(Instances) /\ Once(n) /\ ToSet(n) = ToSet(o) \cup {e}
    <3>1. ToSet(o) \cap ToSet(one) = {} /\ Once(o)
      BY <1>4, <2>2 DEF e, GatheredSoFar
    <3> QED BY <1>0, <2>2, <3>1, OnceTogether
  <2>4. ToSet(n) = {events[j] : j \in 1 .. i} \ {NoMeeting}
    BY <1>1, <1>4, <2>3 DEF GatheredSoFar, e
  <2>5. GatheredSoFar(n, events, i)
    BY <2>3, <2>4 DEF GatheredSoFar
  <2>6. ~(events[i] = NoMeeting \/ \E m \in ToSet(o) : SameMeeting(m, events[i]))
    BY <1>4 DEF SameMeeting
  <2> QED BY <2>5, <2>6 DEF n, e
<1> QED BY <1>2, <1>3, <1>4

(* A calendar gives every instance of a meeting once, whatever the order   *)
(* and however often it is listed.                                         *)
LEMMA MeetingsOnce ==
  ASSUME NEW events \in Events
  PROVE  /\ Meetings(events) \in Seq(Instances) /\ Once(Meetings(events))
         /\ ToSet(Meetings(events)) = ToSet(events) \ {NoMeeting}
<1> DEFINE out == CHOOSE out : Gathers(out, events, Len(events))
<1>0. Len(events) \in Nat /\ DOMAIN events = 1 .. Len(events)
  BY DEF Events
<1>1. Gathers(out, events, Len(events))
  BY <1>0, GathersExist
<1>2. Meetings(events) = out[Len(events)]
  BY DEF Meetings, Gathers
<1> DEFINE bad == {i \in 0 .. Len(events) : ~GatheredSoFar(out[i], events, i)}
<1> HIDE DEF out
<1>3. bad = {}
  <2> SUFFICES ASSUME bad # {} PROVE FALSE
    OBVIOUS
  <2>1. PICK i \in bad : \A k \in bad : i <= k
    <3>1. bad \in SUBSET Nat
      BY <1>0
    <3> HIDE DEF bad
    <3> QED BY <3>1, SmallestNumber
  <2>2. CASE i = 0
    <3>1. out[0] = <<>>
      BY <1>0, <1>1 DEF Gathers
    <3>2. <<>> \in Seq(Instances) /\ Once(<<>>) /\ ToSet(<<>>) = {} /\ {events[j] : j \in 1 .. 0} = {}
      BY DEF Once, ToSet
    <3> QED BY <2>1, <2>2, <3>1, <3>2 DEF GatheredSoFar
  <2>3. CASE i # 0
    <3>1. i \in 1 .. Len(events) /\ i - 1 \in 0 .. Len(events) /\ i - 1 \notin bad
      BY <1>0, <2>1, <2>3
    <3>2. GatheredSoFar(out[i - 1], events, i - 1)
      BY <3>1
    <3>3. out[i] = IF events[i] = NoMeeting \/ \E m \in ToSet(out[i - 1]) : SameMeeting(m, events[i]) THEN out[i - 1]
                   ELSE Append(out[i - 1], events[i])
      BY <1>1, <3>1, <2>3 DEF Gathers
    <3> QED BY <2>1, <3>1, <3>2, <3>3, GatheredNext
  <2> QED BY <2>2, <2>3
<1>4. GatheredSoFar(out[Len(events)], events, Len(events))
  BY <1>0, <1>3
<1>5. {events[j] : j \in 1 .. Len(events)} = ToSet(events)
  BY <1>0 DEF ToSet
<1> QED BY <1>2, <1>4, <1>5 DEF GatheredSoFar

ActivitySpec == ActivityInit /\ [][ActivityNext]_activityVars

LoadSteps == {"tasks", "times", "linked", "bound", "boundTimes", "meetings", "done", "failed"}

LinkedItem == [id : Elements, field : TimeFields]

Portal ==
  [elements : [Elements -> TimeFields], tasks : [Tasks -> [bound : Bindings, logged : BOOLEAN]], events : Events]

WorkRead ==
  [kind : {"crm", "group"}, pc : LoadSteps, start : Nat, own : Seq(Tasks), ownTimes : Seq(Tasks), items : SUBSET LinkedItem,
   asked : SUBSET Elements, asking : SUBSET Elements, bound : Seq(Tasks), boundTo : SUBSET (Elements \cup {Client}),
   withTime : Seq(Tasks), boundTimes : Seq(Tasks), meetings : Seq(Instances), meetingsError : BOOLEAN,
   relatedLost : BOOLEAN, partLost : BOOLEAN, shifted : BOOLEAN, changes : Nat]

ActivityTypeOK == crm \in Portal /\ work \in WorkRead

(* What a load has not come to yet, it has not read; and the way of a CRM  *)
(* client is not that of a work group.                                     *)
ReadInOrder ==
  /\ work.pc = "tasks" => work.ownTimes = <<>> /\ (work.start = 0 => work.own = <<>> /\ work.withTime = <<>>)
  /\ work.pc \in {"times", "linked"} \/ (work.pc = "bound" /\ work.asking = {}) => work.start = 0
  /\ work.pc \in {"linked", "meetings"} => work.withTime = <<>>
  /\ work.pc \in {"tasks", "times", "linked", "meetings"} =>
       work.items = {} /\ work.bound = <<>> /\ work.boundTo = {} /\ work.asking = {}
  /\ work.pc \in {"tasks", "times", "linked", "bound", "meetings"} => work.boundTimes = <<>>
  /\ work.pc \in {"tasks", "times", "linked", "bound", "boundTimes"} => ~work.relatedLost
  /\ work.pc \in {"linked", "bound", "boundTimes"} => work.kind = "crm"
  /\ work.pc = "meetings" => work.kind = "group"
  /\ \A e, f \in work.asking : e = f

(* Items are of elements of their own; tasks found by bindings are new,    *)
(* and time is of tasks that were found.                                   *)
FoundOnce ==
  /\ \A i, j \in work.items : i.id = j.id => i = j
  /\ Once(work.bound) /\ ToSet(work.bound) \cap ToSet(work.own) = {}
  /\ ToSet(work.ownTimes) \subseteq ToSet(work.own)
  /\ work.pc \in {"tasks", "times"} => ToSet(work.withTime) \subseteq ToSet(work.own)
  /\ ToSet(work.boundTimes) \subseteq ToSet(work.bound) /\ Once(work.boundTimes)
  /\ work.pc \in {"bound", "boundTimes"} =>
       /\ ToSet(work.withTime) \subseteq ToSet(work.bound) /\ Once(work.withTime)
       /\ ToSet(work.withTime) \cap ToSet(work.boundTimes) = {}

(* The tasks of a list before those that have so many newer ones.          *)
Newest(ts, start) == {t \in ts : Ahead(ts, t) < start}

(* While no task comes or goes between pages, the client's own tasks come  *)
(* once, and those read are the front of the list.                         *)
OwnOnce ==
  ~work.shifted =>
    /\ Once(work.own) /\ Once(work.ownTimes)
    /\ work.pc \in {"tasks", "times"} => Once(work.withTime) /\ ToSet(work.withTime) \cap ToSet(work.ownTimes) = {}
    /\ work.pc = "tasks" /\ work.start > 0 => ToSet(work.own) \subseteq Newest(BoundTo(Client), work.start)

LinkedItems == {[id |-> e, field |-> crm.elements[e]] : e \in {x \in Elements : crm.elements[x] # "ignored"}}

PlainElements == {e \in Elements : crm.elements[e] = "plain"}

(* The tasks other than the client's own that these elements bring.        *)
BoundToAny(es) == (UNION {BoundTo(e) : e \in es}) \ BoundTo(Client)

ShortLists == \A b \in Elements \cup {Client} : Cardinality(BoundTo(b)) <= MaxTasks

(* A load that nothing disturbs has read what is there.                    *)
CalmOwn ==
  /\ work.pc = "tasks" =>
       ToSet(work.own) = Newest(BoundTo(Client), work.start) /\ ToSet(work.withTime) = Logged(ToSet(work.own))
  /\ work.pc \notin {"tasks", "failed"} => ToSet(work.own) = BoundTo(Client)
  /\ work.pc = "times" => ToSet(work.ownTimes) \cup ToSet(work.withTime) = Logged(BoundTo(Client))
  /\ work.pc \notin {"tasks", "times", "failed"} => ToSet(work.ownTimes) = Logged(BoundTo(Client))

BoundSoFar ==
  BoundToAny(PlainElements \ (work.asked \cup work.asking))
    \cup ((UNION {Newest(BoundTo(e), work.start) : e \in work.asking}) \ BoundTo(Client))

CalmBound ==
  /\ work.pc \in {"bound", "boundTimes", "done"} /\ ~work.relatedLost => work.items = LinkedItems
  /\ work.pc \in {"bound", "boundTimes"} => work.asked \subseteq PlainElements /\ work.asking \subseteq PlainElements
  /\ work.pc = "bound" => ToSet(work.bound) = BoundSoFar /\ ToSet(work.withTime) = Logged(ToSet(work.bound))
  /\ work.pc = "boundTimes" =>
       /\ ToSet(work.bound) = BoundToAny(PlainElements \ work.asked)
       /\ ToSet(work.boundTimes) \cup ToSet(work.withTime) = Logged(ToSet(work.bound))
  /\ work.pc = "done" /\ ~work.relatedLost /\ work.asked = {} =>
       ToSet(work.boundTimes) = Logged(BoundToAny(PlainElements))

CalmReading == work.kind = "crm" /\ work.changes = 0 /\ ~work.partLost /\ ShortLists

CalmLoad == CalmReading => CalmOwn /\ CalmBound

ActivityInv == ActivityTypeOK /\ ReadInOrder /\ FoundOnce /\ OwnOnce /\ CalmLoad /\ EveryInstanceOnce

(* Every task of a list has a number of newer ones of its own, and these   *)
(* numbers leave none out.                                                 *)
LEMMA FiniteTasks == ASSUME NEW S \in SUBSET Tasks PROVE IsFiniteSet(S) /\ Cardinality(S) \in Nat /\ S \subseteq Nat
<1>1. S \in SUBSET (Elements \cup Tasks)
  OBVIOUS
<1>2. IsFiniteSet(S)
  BY <1>1, ActivityAssumption, FS_Subset
<1> QED BY <1>2, ActivityAssumption, FS_CardinalityType

LEMMA RankedAll ==
  ASSUME NEW S \in SUBSET Tasks
  PROVE  /\ \A t \in S : Ahead(S, t) \in 0 .. Cardinality(S) - 1
         /\ \A k \in 0 .. Cardinality(S) - 1 : \E t \in S : Ahead(S, t) = k
<1> DEFINE n == Cardinality(S)
           newer(t) == {u \in S : u > t}
           rank == [t \in S |-> Ahead(S, t)]
<1>1. IsFiniteSet(S) /\ n \in Nat /\ S \subseteq Nat
  BY FiniteTasks
<1>2. ASSUME NEW t \in S
      PROVE  IsFiniteSet(newer(t)) /\ Ahead(S, t) = Cardinality(newer(t)) /\ Ahead(S, t) \in 0 .. n - 1
  <2>1. newer(t) \in SUBSET (S \ {t})
    BY <1>1
  <2>2. IsFiniteSet(S \ {t}) /\ Cardinality(S \ {t}) = n - 1
    BY <1>1, FS_RemoveElement
  <2>3. IsFiniteSet(newer(t)) /\ Cardinality(newer(t)) <= n - 1 /\ Cardinality(newer(t)) \in Nat
    <3> HIDE DEF newer
    <3> QED BY <2>1, <2>2, FS_Subset, FS_CardinalityType
  <2>4. Ahead(S, t) = Cardinality(newer(t))
    BY DEF Ahead
  <2> QED BY <1>1, <2>3, <2>4
<1>3. ASSUME NEW t \in S, NEW u \in S, t < u PROVE Ahead(S, u) < Ahead(S, t)
  <2>0. t \in Nat /\ u \in Nat /\ \A v \in newer(u) : v \in Nat
    BY <1>1
  <2>1. newer(u) \cup {u} \in SUBSET newer(t) /\ u \notin newer(u)
    <3>1. u > t /\ u \notin newer(u) /\ \A v \in newer(u) : v > u
      BY <2>0, <1>3
    <3>2. \A v \in newer(u) : v > t
      BY <2>0, <3>1
    <3> QED BY <3>1, <3>2
  <2>2. Cardinality(newer(u) \cup {u}) = Cardinality(newer(u)) + 1
    <3> HIDE DEF newer
    <3> QED BY <1>2, <2>1, FS_AddElement
  <2>3. Cardinality(newer(u) \cup {u}) <= Cardinality(newer(t))
    <3> HIDE DEF newer
    <3> QED BY <1>2, <2>1, FS_Subset
  <2> HIDE DEF newer
  <2> QED BY <1>1, <1>2, <2>2, <2>3
<1>4. rank \in Injection(S, 0 .. n - 1)
  <2>1. rank \in [S -> 0 .. n - 1]
    BY <1>2
  <2>2. ASSUME NEW t \in S, NEW u \in S, rank[t] = rank[u] PROVE t = u
    <3>1. Ahead(S, t) = Ahead(S, u) /\ t \in Nat /\ u \in Nat /\ Ahead(S, t) \in 0 .. n - 1
      BY <1>1, <1>2, <2>2
    <3>2. ~(Ahead(S, t) < Ahead(S, u)) /\ ~(Ahead(S, u) < Ahead(S, t))
      BY <1>1, <3>1
    <3>3. ~(t < u) /\ ~(u < t)
      BY <1>3, <3>2
    <3> QED BY <3>1, <3>3
  <2> QED BY <2>1, <2>2 DEF Injection, IsInjective
<1>5. rank \in Surjection(S, 0 .. n - 1)
  <2>1. IsFiniteSet(0 .. n - 1) /\ Cardinality(0 .. n - 1) = n
    <3>1. n - 1 \in Int /\ (IF 0 > n - 1 THEN 0 ELSE n - 1 - 0 + 1) = n
      BY <1>1
    <3> HIDE DEF n
    <3> QED BY <3>1, FS_Interval
  <2>2. Cardinality(S) = Cardinality(0 .. n - 1)
    BY <2>1
  <2> HIDE DEF rank, n
  <2> QED BY <1>4, <2>1, <2>2, FS_Injection
<1> QED BY <1>2, <1>5 DEF Surjection

(* A page that is not full, or that reaches the length of the list, is its *)
(* last.                                                                   *)
LEMMA NothingBehind ==
  ASSUME NEW S \in SUBSET Tasks, work \in WorkRead, Cardinality(S) <= MaxTasks, Ends(PageFrom(S, work.start))
  PROVE  Newest(S, work.start + TaskPage) = S
<1> DEFINE n == Cardinality(S)
           start == work.start
           page == PageFrom(S, start)
           places == start .. start + TaskPage - 1
<1>1. n \in Nat /\ start \in Nat /\ TaskPage \in Nat \ {0} /\ MaxTasks \in Nat
  BY FiniteTasks, ActivityAssumption DEF WorkRead
<1>2. n <= start + TaskPage
  <2>1. SUFFICES ASSUME Cardinality(page) < TaskPage, n > start + TaskPage PROVE FALSE
    BY <1>1 DEF Ends
  <2> DEFINE rank == [t \in page |-> Ahead(S, t)]
  <2>2. page \in SUBSET S /\ \A t \in page : Ahead(S, t) \in places
    BY <1>1, RankedAll DEF PageFrom
  <2>3. \A k \in places : \E t \in page : rank[t] = k
    <3> TAKE k \in places
    <3>1. k \in 0 .. n - 1
      BY <1>1, <2>1
    <3>2. PICK t \in S : Ahead(S, t) = k
      BY <3>1, RankedAll
    <3>3. t \in page
      BY <1>1, <3>2 DEF PageFrom
    <3> QED BY <3>2, <3>3
  <2>4. rank \in Surjection(page, places)
    BY <2>2, <2>3 DEF Surjection
  <2>5. IsFiniteSet(page) /\ Cardinality(page) \in Nat
    <3> HIDE DEF page
    <3> QED BY <2>2, FiniteTasks
  <2>6. Cardinality(places) = TaskPage
    <3>1. start \in Int /\ start + TaskPage - 1 \in Int /\ ~(start > start + TaskPage - 1)
          /\ (start + TaskPage - 1) - start + 1 = TaskPage
      BY <1>1
    <3> HIDE DEF start
    <3> QED BY <3>1, FS_Interval
  <2>7. Cardinality(places) <= Cardinality(page)
    <3> HIDE DEF page, places, rank
    <3> QED BY <2>4, <2>5, FS_Surjection
  <2> HIDE DEF page, places
  <2> QED BY <1>1, <2>1, <2>5, <2>6, <2>7
<1>3. \A t \in S : Ahead(S, t) \in 0 .. n - 1
  BY RankedAll
<1> HIDE DEF n, start
<1>4. \A t \in S : Ahead(S, t) < start + TaskPage
  BY <1>1, <1>2, <1>3
<1> QED BY <1>4 DEF Newest, start

(* A page is what its front has more than that of the page before.         *)
LEMMA FrontGrows ==
  ASSUME NEW S \in SUBSET Tasks, NEW start \in Nat
  PROVE  /\ PageFrom(S, start) \in SUBSET Tasks /\ PageFrom(S, start) \in SUBSET S
         /\ PageFrom(S, start) \cap Newest(S, start) = {} /\ Newest(S, 0) = {}
         /\ Newest(S, start) \cup PageFrom(S, start) = Newest(S, start + TaskPage)
<1>1. \A t \in S : Ahead(S, t) \in Nat
  BY RankedAll
<1>2. TaskPage \in Nat
  BY ActivityAssumption
<1> QED BY <1>1, <1>2 DEF PageFrom, Newest

LEMMA InitActivityInv == ActivityInit => ActivityInv
<1> SUFFICES ASSUME ActivityInit PROVE ActivityInv
  OBVIOUS
<1>1. work = Quiet("crm") \/ work = Quiet("group")
  BY DEF ActivityInit
<1>2. work \in WorkRead
  <2>1. <<>> \in Seq(Tasks) /\ <<>> \in Seq(Instances)
    OBVIOUS
  <2>2. "tasks" \in LoadSteps
    BY DEF LoadSteps
  <2>3. ASSUME NEW k \in {"crm", "group"} PROVE Quiet(k) \in WorkRead
    BY <2>1, <2>2, SMTT(30) DEF WorkRead, Quiet
  <2> QED BY <1>1, <2>3
<1>3. crm \in Portal
  <2>1. CASE crm \in [elements : [Elements -> TimeFields],
                      tasks : [Tasks -> [bound : Bindings \ {{}}, logged : BOOLEAN]], events : {<<>>}]
    <3>1. <<>> \in Events
      BY DEF Events
    <3> QED BY <2>1, <3>1 DEF Portal
  <2>2. CASE crm \in [elements : {[e \in Elements |-> "ignored"]},
                      tasks : {[t \in Tasks |-> [bound |-> {Client}, logged |-> TRUE]]},
                      events : Seqs(Instances \cup {NoMeeting}, 3)]
    <3>1. [e \in Elements |-> "ignored"] \in [Elements -> TimeFields]
      BY DEF TimeFields
    <3>2. [t \in Tasks |-> [bound |-> {Client}, logged |-> TRUE]] \in [Tasks -> [bound : Bindings, logged : BOOLEAN]]
      BY DEF Bindings
    <3>3. crm.events \in Events
      <4> DEFINE S == Instances \cup {NoMeeting}
      <4> HIDE DEF S
      <4>1. PICK k \in 0 .. 3 : crm.events \in [1 .. k -> S]
        BY <2>2 DEF Seqs, S
      <4>2. crm.events \in Seq(S)
        BY <4>1
      <4> QED BY <4>2 DEF Events, S
    <3> QED BY <2>2, <3>1, <3>2, <3>3 DEF Portal
  <2> QED BY <2>1, <2>2 DEF ActivityInit
<1>4. /\ work.pc = "tasks" /\ work.start = 0 /\ work.own = <<>> /\ work.ownTimes = <<>> /\ work.items = {}
      /\ work.asking = {} /\ work.bound = <<>> /\ work.boundTo = {} /\ work.withTime = <<>> /\ work.boundTimes = <<>>
      /\ ~work.relatedLost
  BY <1>1 DEF Quiet
<1>5. Once(<<>>) /\ ToSet(<<>>) = {}
  BY DEF Once, ToSet
<1>6. ReadInOrder /\ FoundOnce /\ OwnOnce
  BY <1>4, <1>5 DEF ReadInOrder, FoundOnce, OwnOnce
<1>7. CalmLoad /\ EveryInstanceOnce
  <2>1. Newest(BoundTo(Client), 0) = {} /\ Logged({}) = {}
    <3>1. BoundTo(Client) \in SUBSET Tasks
      BY DEF BoundTo
    <3> QED BY <3>1, FrontGrows DEF Logged
  <2> QED BY <1>4, <1>5, <2>1 DEF CalmLoad, CalmOwn, CalmBound, EveryInstanceOnce
<1> QED BY <1>2, <1>3, <1>6, <1>7 DEF ActivityInv, ActivityTypeOK

(* What each step leaves the load with.                                    *)
LEMMA ChangedInv ==
  ASSUME ActivityInv, TaskChanged \/ ElementChanged
  PROVE  ActivityInv'
<1>1. work \in WorkRead /\ crm \in Portal
  BY DEF ActivityInv, ActivityTypeOK
<1>2. work.pc # "done" /\ \E m \in BOOLEAN :
        /\ work' = [work EXCEPT !.changes = @ + 1, !.shifted = m] /\ crm' \in Portal /\ crm'.events = crm.events
        /\ ~m => /\ ~work.shifted
                 /\ work.pc = "tasks" /\ work.start > 0 => BoundTo(Client)' = BoundTo(Client)
  <2>1. CASE TaskChanged
    <3>1. PICK t \in Tasks, b \in Bindings, l \in BOOLEAN :
            /\ crm' = [crm EXCEPT !.tasks[t] = [bound |-> b, logged |-> l]]
            /\ LET between == work.pc = "tasks" /\ work.start > 0 /\ (Client \in b <=> Client \notin crm.tasks[t].bound)
               IN  work' = [work EXCEPT !.changes = @ + 1, !.shifted = @ \/ between]
      BY <2>1 DEF TaskChanged
    <3> DEFINE between == work.pc = "tasks" /\ work.start > 0 /\ (Client \in b <=> Client \notin crm.tasks[t].bound)
               marked == work.shifted \/ between
    <3>2. work' = [work EXCEPT !.changes = @ + 1, !.shifted = marked] /\ marked \in BOOLEAN
      BY <1>1, <3>1 DEF WorkRead
    <3>3. crm' \in Portal /\ crm'.events = crm.events
      BY <1>1, <3>1 DEF Portal
    <3>4. ASSUME ~marked, work.pc = "tasks", work.start > 0 PROVE BoundTo(Client)' = BoundTo(Client)
      <4>1. Client \in b <=> Client \in crm.tasks[t].bound
        BY <3>4
      <4>2. \A u \in Tasks : crm'.tasks[u] = IF u = t THEN [bound |-> b, logged |-> l] ELSE crm.tasks[u]
        BY <1>1, <3>1 DEF Portal
      <4>3. \A u \in Tasks : Client \in crm'.tasks[u].bound <=> Client \in crm.tasks[u].bound
        BY <4>1, <4>2
      <4> QED BY <4>3 DEF BoundTo
    <3>5. ~marked => ~work.shifted
      OBVIOUS
    <3> HIDE DEF marked
    <3> QED BY <2>1, <3>2, <3>3, <3>4, <3>5 DEF TaskChanged, CanChange, Going
  <2>2. CASE ElementChanged
    <3>1. PICK e \in Elements, f \in TimeFields : crm' = [crm EXCEPT !.elements[e] = f]
      BY <2>2 DEF ElementChanged
    <3>2. crm' \in Portal /\ crm'.events = crm.events /\ crm'.tasks = crm.tasks
      BY <1>1, <3>1 DEF Portal
    <3>3. work' = [work EXCEPT !.changes = @ + 1, !.shifted = work.shifted] /\ work.shifted \in BOOLEAN
      BY <1>1, <2>2 DEF ElementChanged, WorkRead
    <3> QED BY <2>2, <3>2, <3>3 DEF ElementChanged, CanChange, Going, BoundTo
  <2> QED BY <2>1, <2>2
<1>3. PICK m \in BOOLEAN :
        /\ work' = [work EXCEPT !.changes = @ + 1, !.shifted = m] /\ crm' \in Portal
        /\ ~m => /\ ~work.shifted
                 /\ work.pc = "tasks" /\ work.start > 0 => BoundTo(Client)' = BoundTo(Client)
  BY <1>2
<1>4. /\ work' \in WorkRead /\ work'.changes = work.changes + 1 /\ work.changes \in Nat /\ (work'.shifted <=> m)
      /\ work'.start = work.start /\ work'.asking = work.asking
      /\ work'.pc = work.pc /\ work'.kind = work.kind /\ work'.own = work.own /\ work'.ownTimes = work.ownTimes
      /\ work'.items = work.items /\ work'.bound = work.bound /\ work'.boundTo = work.boundTo
      /\ work'.withTime = work.withTime /\ work'.boundTimes = work.boundTimes /\ work'.relatedLost = work.relatedLost
  <2> DEFINE once == work.changes + 1
  <2>1. work.changes \in Nat /\ once \in Nat /\ work' = [work EXCEPT !.changes = once, !.shifted = m]
    BY <1>1, <1>3 DEF WorkRead
  <2>2. once = work.changes + 1
    OBVIOUS
  <2> HIDE DEF once
  <2>3. work' \in WorkRead
    BY <1>1, <2>1 DEF WorkRead
  <2>4. /\ work'.changes = once /\ (work'.shifted <=> m)
        /\ work'.start = work.start /\ work'.asking = work.asking
        /\ work'.pc = work.pc /\ work'.kind = work.kind /\ work'.own = work.own /\ work'.ownTimes = work.ownTimes
    BY <1>1, <2>1 DEF WorkRead
  <2>5. /\ work'.items = work.items /\ work'.bound = work.bound /\ work'.boundTo = work.boundTo
        /\ work'.withTime = work.withTime /\ work'.boundTimes = work.boundTimes /\ work'.relatedLost = work.relatedLost
    BY <1>1, <2>1 DEF WorkRead
  <2> QED BY <2>1, <2>2, <2>3, <2>4, <2>5
<1>5. ReadInOrder'
  BY <1>4 DEF ActivityInv, ReadInOrder
<1>6. FoundOnce'
  BY <1>4 DEF ActivityInv, FoundOnce
<1>7. OwnOnce'
  <2>1. ASSUME BoundTo(Client)' = BoundTo(Client)
        PROVE  Newest(BoundTo(Client), work.start)' = Newest(BoundTo(Client), work.start)
    BY <1>4, <2>1 DEF Newest
  <2> QED BY <1>3, <1>4, <2>1 DEF ActivityInv, OwnOnce
<1>8. CalmLoad' /\ EveryInstanceOnce'
  BY <1>2, <1>4 DEF CalmLoad, CalmReading, EveryInstanceOnce
<1> QED BY <1>3, <1>4, <1>5, <1>6, <1>7, <1>8 DEF ActivityInv, ActivityTypeOK

(* A set listed once, joined to what was listed before.                    *)
LEMMA FoundNewTasks ==
  ASSUME NEW S \in SUBSET Tasks, NEW old \in Seq(Tasks)
  PROVE  /\ old \o SetToSeq(S) \in Seq(Tasks) /\ ToSet(old \o SetToSeq(S)) = ToSet(old) \cup S
         /\ Once(old) /\ S \cap ToSet(old) = {} => Once(old \o SetToSeq(S))
         /\ SetToSeq(S) \in Seq(Tasks) /\ ToSet(SetToSeq(S)) = S /\ Once(SetToSeq(S))
<1> DEFINE new == SetToSeq(S)
<1>1. new \in Seq(Tasks) /\ Once(new) /\ ToSet(new) = S
  BY FiniteTasks, ListedOnce
<1> HIDE DEF new
<1>2. old \o new \in Seq(Tasks) /\ ToSet(old \o new) = ToSet(old) \cup ToSet(new)
  BY <1>1, OnceTogether
<1>3. Once(old) /\ ToSet(old) \cap ToSet(new) = {} => Once(old \o new)
  BY <1>1, OnceTogether
<1> QED BY <1>1, <1>2, <1>3 DEF new

(* In a step of the load people change nothing.                            *)
LEMMA SameCrm ==
  ASSUME UNCHANGED crm
  PROVE  /\ BoundTo(Client)' = BoundTo(Client) /\ LinkedItems' = LinkedItems /\ PlainElements' = PlainElements
         /\ Logged(BoundTo(Client))' = Logged(BoundTo(Client)) /\ ShortLists' = ShortLists
         /\ Logged(BoundToAny(PlainElements))' = Logged(BoundToAny(PlainElements))
BY DEF BoundTo, Logged, LinkedItems, PlainElements, ShortLists, BoundToAny

LEMMA ReadTasksInv ==
  ASSUME ActivityInv, ReadTasks, UNCHANGED crm
  PROVE  ActivityInv'
<1>1. work \in WorkRead /\ crm \in Portal /\ crm' = crm /\ work.pc = "tasks"
  BY DEF ActivityInv, ActivityTypeOK, ReadTasks
<1> DEFINE mine == BoundTo(Client)
           entire == PageFrom(mine, work.start)
<1>2. PICK page \in Pages(mine) :
       work' = [work EXCEPT !.own = @ \o SetToSeq(page), !.withTime = @ \o SetToSeq(Logged(page)),
                            !.partLost = @ \/ page # entire,
                            !.start = IF Ends(page) THEN 0 ELSE @ + TaskPage,
                            !.pc = IF Ends(page) THEN "times" ELSE "tasks"]
  BY DEF ReadTasks
<1> DEFINE own == work.own \o SetToSeq(page)
           hours == work.withTime \o SetToSeq(Logged(page))
           gone == work.partLost \/ page # entire
           start == IF Ends(page) THEN 0 ELSE work.start + TaskPage
           next == IF Ends(page) THEN "times" ELSE "tasks"
<1>3. mine \in SUBSET Tasks /\ work.start \in Nat /\ TaskPage \in Nat \ {0} /\ MaxTasks \in Nat
  BY <1>1, ActivityAssumption DEF BoundTo, WorkRead
<1>4. /\ entire \in SUBSET Tasks /\ entire \in SUBSET mine /\ entire \cap Newest(mine, work.start) = {}
      /\ Newest(mine, work.start) \cup entire = Newest(mine, work.start + TaskPage) /\ Newest(mine, 0) = {}
  <2> HIDE DEF mine
  <2> QED BY <1>3, FrontGrows
<1>5. page = entire \/ (page = {} /\ work.start > 0)
  BY <1>2, <1>3 DEF Pages
<1> HIDE DEF entire
<1>6. page \in SUBSET Tasks /\ Logged(page) \in SUBSET Tasks /\ Logged(page) \subseteq page
  BY <1>4, <1>5 DEF Logged
<1>7. /\ work.own \in Seq(Tasks) /\ work.withTime \in Seq(Tasks)
      /\ own \in Seq(Tasks) /\ ToSet(own) = ToSet(work.own) \cup page
      /\ Once(work.own) /\ page \cap ToSet(work.own) = {} => Once(own)
      /\ hours \in Seq(Tasks) /\ ToSet(hours) = ToSet(work.withTime) \cup Logged(page)
      /\ Once(work.withTime) /\ Logged(page) \cap ToSet(work.withTime) = {} => Once(hours)
  <2>1. work.own \in Seq(Tasks) /\ work.withTime \in Seq(Tasks)
    BY <1>1 DEF WorkRead
  <2> QED BY <2>1, <1>6, FoundNewTasks
<1>8. start \in Nat /\ gone \in BOOLEAN /\ next \in LoadSteps /\ (next = "tasks" => start > 0) /\ (next = "times" => start = 0)
      /\ next \in {"tasks", "times"}
  BY <1>1, <1>3 DEF WorkRead, LoadSteps
<1>9. work' = [work EXCEPT !.own = own, !.withTime = hours, !.partLost = gone, !.start = start, !.pc = next]
  BY <1>2
<1> HIDE DEF own, hours, gone, start, next
<1>10. /\ work' \in WorkRead /\ work'.pc = next /\ work'.own = own /\ work'.withTime = hours /\ work'.start = start
       /\ work'.kind = work.kind /\ work'.changes = work.changes /\ work'.ownTimes = work.ownTimes
       /\ work'.items = work.items /\ work'.bound = work.bound /\ work'.boundTo = work.boundTo
       /\ work'.boundTimes = work.boundTimes /\ work'.relatedLost = work.relatedLost
       /\ work'.partLost = gone /\ work'.shifted = work.shifted /\ work'.asking = work.asking
  BY <1>1, <1>7, <1>8, <1>9 DEF WorkRead
<1>11. ReadInOrder'
  BY <1>1, <1>8, <1>10 DEF ActivityInv, ReadInOrder
<1>12. Once(<<>>) /\ ToSet(<<>>) = {} /\ work.items = {} /\ work.bound = <<>> /\ work.ownTimes = <<>> /\ work.boundTimes = <<>>
  BY <1>1 DEF ActivityInv, ReadInOrder, Once, ToSet
<1>13. FoundOnce'
  <2>1. ToSet(work.withTime) \subseteq ToSet(work.own)
    BY <1>1 DEF ActivityInv, FoundOnce
  <2> QED BY <1>6, <1>7, <1>8, <1>10, <1>12, <2>1 DEF FoundOnce
<1>14. BoundTo(Client)' = mine /\ Newest(BoundTo(Client), work.start)' = Newest(mine, start)
  <2>1. BoundTo(Client)' = mine
    BY <1>1, SameCrm
  <2> HIDE DEF mine
  <2> QED BY <1>10, <2>1 DEF Newest, Ahead
<1>15. OwnOnce'
  <2> SUFFICES ASSUME ~work.shifted
               PROVE  /\ Once(own) /\ Once(hours) /\ ToSet(hours) \cap ToSet(work.ownTimes) = {}
                      /\ next = "tasks" => ToSet(own) \subseteq Newest(mine, start)
    BY <1>8, <1>10, <1>12, <1>14 DEF OwnOnce
  <2>1. Once(work.own) /\ Once(work.withTime) /\ ToSet(work.withTime) \subseteq ToSet(work.own)
    BY <1>1 DEF ActivityInv, OwnOnce, FoundOnce
  <2>2. ToSet(work.own) \subseteq Newest(mine, work.start)
    <3>1. CASE work.start = 0
      BY <1>1, <1>12, <3>1 DEF ActivityInv, ReadInOrder
    <3>2. CASE work.start > 0
      BY <1>1, <3>2 DEF ActivityInv, OwnOnce
    <3> QED BY <1>3, <3>1, <3>2
  <2>3. page \cap Newest(mine, work.start) = {} /\ page \cap ToSet(work.own) = {}
    BY <1>4, <1>5, <2>2
  <2>4. Once(own) /\ Once(hours)
    BY <1>6, <1>7, <2>1, <2>3
  <2>5. ASSUME next = "tasks" PROVE ToSet(own) \subseteq Newest(mine, start)
    <3>1. start = work.start + TaskPage
      BY <2>5 DEF next, start
    <3> QED BY <1>4, <1>5, <1>7, <2>2, <3>1
  <2> QED BY <1>12, <2>4, <2>5
<1>16. CalmLoad' /\ EveryInstanceOnce'
  <2> SUFFICES ASSUME work.kind = "crm", work.changes = 0, ~gone, ShortLists
               PROVE  CalmOwn' /\ CalmBound'
    BY <1>1, <1>8, <1>10, SameCrm DEF CalmLoad, CalmReading, EveryInstanceOnce
  <2>1. page = entire /\ ToSet(work.own) = Newest(mine, work.start) /\ ToSet(work.withTime) = Logged(ToSet(work.own))
    BY <1>1 DEF gone, ActivityInv, CalmLoad, CalmReading, CalmOwn
  <2>2. ToSet(own) = Newest(mine, work.start + TaskPage)
    BY <1>4, <1>7, <2>1
  <2>3. ToSet(hours) = Logged(ToSet(own))
    <3>1. \A A, B : Logged(A \cup B) = Logged(A) \cup Logged(B)
      BY DEF Logged
    <3> QED BY <1>7, <2>1, <3>1
  <2>4. ASSUME next = "times" PROVE ToSet(own) = mine
    <3>1. Ends(page)
      BY <2>4 DEF next
    <3>2. Cardinality(mine) <= MaxTasks
      BY DEF ShortLists
    <3> HIDE DEF mine
    <3> QED BY <1>1, <1>3, <2>1, <2>2, <3>1, <3>2, NothingBehind DEF entire
  <2>5. next = "tasks" => start = work.start + TaskPage
    BY DEF next, start
  <2>6. work'.pc = "tasks" =>
          ToSet(own) = Newest(mine, start) /\ ToSet(hours) = Logged(ToSet(own))
    BY <1>10, <2>2, <2>3, <2>5
  <2>7. work'.pc = "times" => ToSet(own) = mine /\ ToSet(work.ownTimes) \cup ToSet(hours) = Logged(mine)
    BY <1>10, <1>12, <2>3, <2>4
  <2>8. /\ ToSet(work.own)' = ToSet(own) /\ ToSet(work.withTime)' = ToSet(hours)
        /\ ToSet(work.ownTimes)' = ToSet(work.ownTimes)
        /\ Logged(BoundTo(Client))' = Logged(mine) /\ Logged(ToSet(work.own))' = Logged(ToSet(own))
    <3>1. /\ ToSet(work.own)' = ToSet(own) /\ ToSet(work.withTime)' = ToSet(hours)
          /\ ToSet(work.ownTimes)' = ToSet(work.ownTimes)
      BY <1>10
    <3> QED BY <1>1, <3>1, SameCrm DEF Logged
  <2> HIDE DEF mine
  <2>9. CalmOwn'
    BY <1>8, <1>10, <1>14, <2>6, <2>7, <2>8 DEF CalmOwn
  <2>10. CalmBound'
    BY <1>8, <1>10 DEF CalmBound
  <2> QED BY <2>9, <2>10
<1> QED BY <1>1, <1>10, <1>11, <1>13, <1>15, <1>16 DEF ActivityInv, ActivityTypeOK

(* A list taken in two parts.                                              *)
LEMMA InTwoParts ==
  ASSUME NEW T, NEW s \in Seq(T), NEW k \in 0 .. Len(s)
  PROVE  /\ SubSeq(s, 1, k) \in Seq(T) /\ Len(SubSeq(s, 1, k)) = k /\ DOMAIN SubSeq(s, 1, k) = 1 .. k
         /\ \A i \in 1 .. k : SubSeq(s, 1, k)[i] = s[i]
         /\ SubSeq(s, k + 1, Len(s)) \in Seq(T) /\ Len(SubSeq(s, k + 1, Len(s))) = Len(s) - k
         /\ DOMAIN SubSeq(s, k + 1, Len(s)) = 1 .. Len(s) - k
         /\ \A i \in 1 .. Len(s) - k : SubSeq(s, k + 1, Len(s))[i] = s[k + i]
<1> DEFINE n == Len(s)
           head == SubSeq(s, 1, k)
           tail == SubSeq(s, k + 1, n)
<1>1. n \in Nat /\ k \in 0 .. n /\ \A i \in 1 .. n : s[i] \in T
  OBVIOUS
<1> HIDE DEF n
<1>2. k \in Nat /\ k <= n /\ \A i \in 1 .. k : s[i] \in T
  BY <1>1
<1>3. head \in Seq(T) /\ Len(head) = (IF 1 <= k THEN k - 1 + 1 ELSE 0) /\ \A i \in 1 .. k - 1 + 1 : head[i] = s[1 + i - 1]
  BY <1>2, SubSeqProperties
<1>4. \A i \in k + 1 .. n : s[i] \in T
  BY <1>1, <1>2
<1>5. /\ tail \in Seq(T) /\ Len(tail) = (IF k + 1 <= n THEN n - (k + 1) + 1 ELSE 0)
      /\ \A i \in 1 .. n - (k + 1) + 1 : tail[i] = s[k + 1 + i - 1]
  BY <1>1, <1>2, <1>4, SubSeqProperties
<1> HIDE DEF head, tail
<1>6. Len(head) = k /\ DOMAIN head = 1 .. k /\ \A i \in 1 .. k : head[i] = s[i]
  <2>1. k - 1 + 1 = k /\ Len(head) = k /\ \A i \in 1 .. k : 1 + i - 1 = i
    BY <1>2, <1>3
  <2>2. DOMAIN head = 1 .. Len(head)
    BY <1>3
  <2> QED BY <1>3, <2>1, <2>2
<1>7. Len(tail) = n - k /\ DOMAIN tail = 1 .. n - k /\ \A i \in 1 .. n - k : tail[i] = s[k + i]
  <2>1. n - (k + 1) + 1 = n - k /\ Len(tail) = n - k /\ \A i \in 1 .. n - k : k + 1 + i - 1 = k + i
    BY <1>1, <1>2, <1>5
  <2>2. DOMAIN tail = 1 .. Len(tail)
    BY <1>5
  <2> QED BY <1>5, <2>1, <2>2
<1> QED BY <1>3, <1>5, <1>6, <1>7 DEF head, tail, n

(* What is asked for at once, what is left, and what the answer holds.     *)
LEMMA TimesAsked ==
  ASSUME work \in WorkRead, NEW answer \in Answers
  PROVE  /\ Rest \in Seq(Tasks) /\ answer \in Seq(Tasks) /\ Once(answer)
         /\ ToSet(answer) \subseteq ToSet(Chunk) /\ ToSet(work.withTime) = ToSet(Chunk) \cup ToSet(Rest)
         /\ Whole(answer) => ToSet(answer) = Logged(ToSet(Chunk))
         /\ Once(work.withTime) => Once(Rest) /\ ToSet(Chunk) \cap ToSet(Rest) = {}
<1> DEFINE s == work.withTime
           n == Len(s)
           m == Len(Chunk)
<1>1. s \in Seq(Tasks) /\ n \in Nat /\ DOMAIN s = 1 .. n /\ TaskPage \in Nat
  BY ActivityAssumption DEF WorkRead
<1>2. Min({TaskPage, n}) \in 0 .. n
  <2>1. \A a, b \in Nat : \E x \in {a, b} : \A y \in {a, b} : x <= y
    OBVIOUS
  <2>2. \E x \in {TaskPage, n} : \A y \in {TaskPage, n} : x <= y
    BY <1>1, <2>1
  <2>3. Min({TaskPage, n}) \in {TaskPage, n} /\ Min({TaskPage, n}) <= n
    <3> HIDE DEF n
    <3> QED BY <2>2 DEF Min
  <2> QED BY <1>1, <2>3
<1> DEFINE rest == Rest
           k == Min({TaskPage, n})
<1>3. Chunk = SubSeq(s, 1, k)
  BY DEF Chunk
<1>4. /\ Chunk \in Seq(Tasks) /\ m = k /\ m \in 0 .. n /\ DOMAIN Chunk = 1 .. m
      /\ \A i \in 1 .. m : Chunk[i] = s[i]
      /\ rest \in Seq(Tasks) /\ Len(rest) = n - m /\ DOMAIN rest = 1 .. n - m
      /\ \A i \in 1 .. n - m : rest[i] = s[m + i]
  <2>1. m = k
    <3> HIDE DEF k, s
    <3> QED BY <1>1, <1>2, <1>3, InTwoParts DEF k
  <2>2. rest = SubSeq(s, k + 1, n)
    BY <2>1 DEF Rest
  <2>3. s \in Seq(Tasks) /\ k \in 0 .. Len(s)
    BY <1>1, <1>2
  <2> HIDE DEF k, s, rest, m
  <2>4. /\ SubSeq(s, 1, k) \in Seq(Tasks) /\ DOMAIN SubSeq(s, 1, k) = 1 .. k
        /\ \A i \in 1 .. k : SubSeq(s, 1, k)[i] = s[i]
        /\ SubSeq(s, k + 1, n) \in Seq(Tasks) /\ Len(SubSeq(s, k + 1, n)) = n - k
        /\ DOMAIN SubSeq(s, k + 1, n) = 1 .. n - k
        /\ \A i \in 1 .. n - k : SubSeq(s, k + 1, n)[i] = s[k + i]
    BY <2>3, InTwoParts
  <2> QED BY <1>3, <2>1, <2>2, <2>3, <2>4
<1> HIDE DEF m, n, rest, k
<1>5. ToSet(s) = ToSet(Chunk) \cup ToSet(rest)
  <2>1. \A i \in 1 .. m : i \in 1 .. n
    BY <1>1, <1>4
  <2>2. \A i \in 1 .. n - m : m + i \in 1 .. n
    BY <1>1, <1>4
  <2>3. \A i \in 1 .. n : i \in 1 .. m \/ (i - m \in 1 .. n - m /\ m + (i - m) = i)
    BY <1>1, <1>4
  <2> HIDE DEF s
  <2>4. \A x \in ToSet(s) : x \in ToSet(Chunk) \cup ToSet(rest)
    <3> TAKE x \in ToSet(s)
    <3>1. PICK i \in 1 .. n : x = s[i]
      BY <1>1 DEF ToSet
    <3>2. CASE i \in 1 .. m
      BY <1>4, <3>1, <3>2 DEF ToSet
    <3>3. CASE i - m \in 1 .. n - m /\ m + (i - m) = i
      <4>1. rest[i - m] = x
        BY <1>4, <3>1, <3>3
      <4> QED BY <1>4, <3>3, <4>1 DEF ToSet
    <3> QED BY <2>3, <3>2, <3>3
  <2>5. \A x \in ToSet(Chunk) : x \in ToSet(s)
    BY <1>1, <1>4, <2>1 DEF ToSet
  <2>6. \A x \in ToSet(rest) : x \in ToSet(s)
    <3> TAKE x \in ToSet(rest)
    <3>1. PICK i \in 1 .. n - m : x = rest[i]
      BY <1>4 DEF ToSet
    <3>2. x = s[m + i] /\ m + i \in 1 .. n
      BY <1>4, <2>2, <3>1
    <3> QED BY <1>1, <3>2 DEF ToSet
  <2> QED BY <2>4, <2>5, <2>6
<1>6. ASSUME Once(s) PROVE Once(rest) /\ ToSet(Chunk) \cap ToSet(rest) = {}
  <2>1. \A i, j \in 1 .. n : s[i] = s[j] => i = j
    BY <1>1, <1>6 DEF Once, n
  <2> HIDE DEF s
  <2>2. \A i, j \in 1 .. n - m : rest[i] = rest[j] => i = j
    <3> SUFFICES ASSUME NEW i \in 1 .. n - m, NEW j \in 1 .. n - m, rest[i] = rest[j] PROVE i = j
      OBVIOUS
    <3>1. m + i \in 1 .. n /\ m + j \in 1 .. n /\ (m + i = m + j => i = j)
      BY <1>1, <1>4
    <3>2. s[m + i] = s[m + j]
      BY <1>4
    <3> QED BY <2>1, <3>1, <3>2
  <2>3. \A i \in 1 .. m, j \in 1 .. n - m : Chunk[i] # rest[j]
    <3> TAKE i \in 1 .. m, j \in 1 .. n - m
    <3>1. i \in 1 .. n /\ m + j \in 1 .. n /\ i # m + j
      BY <1>1, <1>4
    <3> QED BY <1>4, <2>1, <3>1
  <2> QED BY <1>4, <2>2, <2>3 DEF Once, ToSet
<1>7. PICK lost : answer = SetToSeq(Logged(ToSet(Chunk) \ lost))
  BY DEF Answers
<1>8. /\ Logged(ToSet(Chunk) \ lost) \in SUBSET Tasks /\ Logged(ToSet(Chunk) \ lost) \subseteq ToSet(Chunk)
      /\ Logged(ToSet(Chunk)) \in SUBSET Tasks
  BY <1>4 DEF ToSet, Logged
<1>9. answer \in Seq(Tasks) /\ Once(answer) /\ ToSet(answer) \subseteq ToSet(Chunk)
  BY <1>7, <1>8, FiniteTasks, ListedOnce
<1>10. ToSet(SetToSeq(Logged(ToSet(Chunk)))) = Logged(ToSet(Chunk))
  BY <1>8, FiniteTasks, ListedOnce
<1> QED BY <1>4, <1>5, <1>6, <1>9, <1>10 DEF rest, Whole

(* Time already read and the answer are of different tasks, if each was to *)
(* be asked for once.                                                      *)
LEMMA ReadTimesInv ==
  ASSUME ActivityInv, ReadTimes, UNCHANGED crm
  PROVE  ActivityInv'
<1>1. work \in WorkRead /\ crm \in Portal /\ crm' = crm /\ work.pc = "times"
  BY DEF ActivityInv, ActivityTypeOK, ReadTimes
<1>2. PICK answer \in Answers :
        work' = [work EXCEPT !.ownTimes = @ \o answer, !.withTime = Rest, !.partLost = @ \/ ~Whole(answer)]
  BY DEF ReadTimes
<1> DEFINE hours == work.ownTimes \o answer
           rest == Rest
           gone == work.partLost \/ ~Whole(answer)
<1>3. /\ rest \in Seq(Tasks) /\ answer \in Seq(Tasks) /\ Once(answer)
      /\ ToSet(answer) \subseteq ToSet(Chunk) /\ ToSet(work.withTime) = ToSet(Chunk) \cup ToSet(rest)
      /\ Whole(answer) => ToSet(answer) = Logged(ToSet(Chunk))
      /\ Once(work.withTime) => Once(rest) /\ ToSet(Chunk) \cap ToSet(rest) = {}
  BY <1>1, TimesAsked
<1>4. /\ work.ownTimes \in Seq(Tasks) /\ hours \in Seq(Tasks) /\ ToSet(hours) = ToSet(work.ownTimes) \cup ToSet(answer)
      /\ Once(work.ownTimes) /\ ToSet(work.ownTimes) \cap ToSet(answer) = {} => Once(hours)
  <2>1. work.ownTimes \in Seq(Tasks)
    BY <1>1 DEF WorkRead
  <2> QED BY <1>3, <2>1, OnceTogether
<1>5. gone \in BOOLEAN
  BY <1>1 DEF WorkRead, Whole
<1>6. work' = [work EXCEPT !.ownTimes = hours, !.withTime = rest, !.partLost = gone]
  BY <1>2
<1> HIDE DEF hours, rest, gone
<1>7. /\ work' \in WorkRead /\ work'.pc = work.pc /\ work'.own = work.own /\ work'.withTime = rest /\ work'.ownTimes = hours
      /\ work'.kind = work.kind /\ work'.changes = work.changes /\ work'.partLost = gone /\ work'.start = work.start
      /\ work'.items = work.items /\ work'.bound = work.bound /\ work'.boundTo = work.boundTo
      /\ work'.boundTimes = work.boundTimes /\ work'.relatedLost = work.relatedLost
      /\ work'.shifted = work.shifted /\ work'.asking = work.asking
  BY <1>1, <1>3, <1>4, <1>5, <1>6 DEF WorkRead
<1>8. ReadInOrder'
  BY <1>1, <1>7 DEF ActivityInv, ReadInOrder
<1>9. FoundOnce'
  BY <1>1, <1>3, <1>4, <1>7 DEF ActivityInv, FoundOnce
<1>10. OwnOnce'
  BY <1>1, <1>3, <1>4, <1>7 DEF ActivityInv, OwnOnce
<1>11. CalmLoad' /\ EveryInstanceOnce'
  <2> SUFFICES ASSUME work.kind = "crm", work.changes = 0, ~gone, ShortLists
               PROVE  CalmOwn' /\ CalmBound'
    BY <1>1, <1>7, SameCrm DEF CalmLoad, CalmReading, EveryInstanceOnce
  <2>1. /\ ToSet(work.own) = BoundTo(Client) /\ Whole(answer)
        /\ ToSet(work.ownTimes) \cup ToSet(work.withTime) = Logged(BoundTo(Client))
    BY <1>1 DEF gone, ActivityInv, CalmLoad, CalmReading, CalmOwn
  <2>2. Logged(ToSet(Chunk)) = ToSet(Chunk)
    BY <1>3, <2>1 DEF Logged
  <2>3. ToSet(hours) \cup ToSet(rest) = Logged(BoundTo(Client))
    BY <1>3, <1>4, <2>1, <2>2
  <2> QED BY <1>1, <1>7, <2>1, <2>3, SameCrm DEF CalmOwn, CalmBound
<1> QED BY <1>1, <1>7, <1>8, <1>9, <1>10, <1>11 DEF ActivityInv, ActivityTypeOK

LEMMA TimesReadInv ==
  ASSUME ActivityInv, TimesRead, UNCHANGED crm
  PROVE  ActivityInv'
<1>1. work \in WorkRead /\ crm \in Portal /\ crm' = crm /\ work.pc = "times" /\ work.withTime = <<>>
  BY DEF ActivityInv, ActivityTypeOK, TimesRead
<1> DEFINE next == AfterOwn
<1>2. (next = "linked" /\ work.kind = "crm") \/ (next = "meetings" /\ work.kind = "group")
  BY <1>1 DEF WorkRead, AfterOwn
<1>3. work' = [work EXCEPT !.pc = next] /\ next \in LoadSteps
  BY <1>2 DEF TimesRead, LoadSteps
<1> HIDE DEF next
<1>4. /\ work' \in WorkRead /\ work'.pc = next /\ work'.own = work.own /\ work'.withTime = work.withTime
      /\ work'.kind = work.kind /\ work'.changes = work.changes /\ work'.partLost = work.partLost /\ work'.start = work.start
      /\ work'.items = work.items /\ work'.bound = work.bound /\ work'.boundTo = work.boundTo
      /\ work'.boundTimes = work.boundTimes /\ work'.relatedLost = work.relatedLost /\ work'.ownTimes = work.ownTimes
      /\ work'.shifted = work.shifted /\ work'.asking = work.asking
  BY <1>1, <1>3 DEF WorkRead
<1>5. ReadInOrder'
  BY <1>1, <1>2, <1>4 DEF ActivityInv, ReadInOrder
<1>6. FoundOnce' /\ OwnOnce'
  BY <1>1, <1>2, <1>4 DEF ActivityInv, FoundOnce, OwnOnce
<1>7. CalmLoad' /\ EveryInstanceOnce'
  <2> SUFFICES ASSUME work.kind = "crm", work.changes = 0, ~work.partLost, ShortLists
               PROVE  CalmOwn' /\ CalmBound'
    BY <1>2, <1>4, SameCrm, <1>1 DEF CalmLoad, CalmReading, EveryInstanceOnce
  <2>1. /\ ToSet(work.own) = BoundTo(Client)
        /\ ToSet(work.ownTimes) \cup ToSet(work.withTime) = Logged(BoundTo(Client))
    BY <1>1 DEF ActivityInv, CalmLoad, CalmReading, CalmOwn
  <2>2. ToSet(work.withTime) = {}
    BY <1>1 DEF ToSet
  <2> QED BY <1>1, <1>2, <1>4, <2>1, <2>2, SameCrm DEF CalmOwn, CalmBound
<1> QED BY <1>1, <1>4, <1>5, <1>6, <1>7 DEF ActivityInv, ActivityTypeOK

LEMMA OwnCallFailsInv ==
  ASSUME ActivityInv, OwnCallFails, UNCHANGED crm
  PROVE  ActivityInv'
<1>1. work \in WorkRead /\ crm \in Portal /\ crm' = crm /\ work.pc \in {"tasks", "times"}
  BY DEF ActivityInv, ActivityTypeOK, OwnCallFails
<1>2. /\ work' \in WorkRead /\ work'.pc = "failed" /\ work'.own = work.own /\ work'.ownTimes = work.ownTimes
      /\ work'.items = work.items /\ work'.bound = work.bound /\ work'.boundTimes = work.boundTimes
      /\ work'.shifted = work.shifted /\ work'.asking = work.asking
  BY <1>1 DEF WorkRead, OwnCallFails, LoadSteps
<1>3. ReadInOrder' /\ FoundOnce' /\ OwnOnce' /\ CalmLoad' /\ EveryInstanceOnce'
  BY <1>2 DEF ActivityInv, ReadInOrder, FoundOnce, OwnOnce, CalmLoad, CalmOwn, CalmBound, EveryInstanceOnce
<1> QED BY <1>1, <1>2, <1>3 DEF ActivityInv, ActivityTypeOK

LEMMA ReadLinkedInv ==
  ASSUME ActivityInv, ReadLinked, UNCHANGED crm
  PROVE  ActivityInv'
<1>1. work \in WorkRead /\ crm \in Portal /\ crm' = crm /\ work.pc = "linked"
  BY DEF ActivityInv, ActivityTypeOK, ReadLinked
<1>2. work' = [work EXCEPT !.items = LinkedItems, !.asked = Asked(LinkedItems), !.pc = "bound"]
  BY DEF ReadLinked, LinkedItems
<1> DEFINE items == LinkedItems
           asked == Asked(items)
<1>3. items \in SUBSET LinkedItem
  BY <1>1 DEF LinkedItems, LinkedItem, Portal
<1>4. \A i, j \in items : i.id = j.id => i = j
  BY DEF LinkedItems
<1>5. asked = PlainElements
  <2>1. \A e \in Elements : crm.elements[e] \in TimeFields
    BY <1>1 DEF Portal
  <2>2. \A e \in asked : e \in PlainElements
    BY <2>1 DEF Asked, LinkedItems, PlainElements, FieldTime, TimeFields
  <2>3. ASSUME NEW e \in PlainElements PROVE e \in asked
    <3> DEFINE i == [id |-> e, field |-> crm.elements[e]]
    <3>1. i \in items /\ i.id = e /\ i.field = "plain"
      BY DEF LinkedItems, PlainElements
    <3>2. ~FieldTime(i)
      BY <3>1 DEF FieldTime
    <3> HIDE DEF items, i
    <3> QED BY <3>1, <3>2 DEF Asked
  <2> QED BY <2>2, <2>3
<1>6. PlainElements \in SUBSET Elements /\ "bound" \in LoadSteps
  BY DEF PlainElements, LoadSteps
<1> HIDE DEF items, asked
<1>7. /\ work' \in WorkRead /\ work'.pc = "bound" /\ work'.own = work.own /\ work'.withTime = work.withTime
      /\ work'.kind = work.kind /\ work'.changes = work.changes /\ work'.partLost = work.partLost
      /\ work'.items = items /\ work'.asked = asked /\ work'.bound = work.bound /\ work'.ownTimes = work.ownTimes
      /\ work'.boundTimes = work.boundTimes /\ work'.relatedLost = work.relatedLost
      /\ work'.start = work.start /\ work'.asking = work.asking /\ work'.shifted = work.shifted
  BY <1>1, <1>2, <1>3, <1>5, <1>6 DEF WorkRead, items, asked
<1>8. ReadInOrder'
  BY <1>1, <1>7 DEF ActivityInv, ReadInOrder
<1>9. Once(<<>>) /\ ToSet(<<>>) = {} /\ work.bound = <<>> /\ work.withTime = <<>> /\ work.asking = {}
  BY <1>1 DEF ActivityInv, ReadInOrder, Once, ToSet
<1>10. FoundOnce' /\ OwnOnce'
  BY <1>1, <1>4, <1>7, <1>9 DEF ActivityInv, FoundOnce, OwnOnce
<1>11. CalmLoad' /\ EveryInstanceOnce'
  <2> SUFFICES ASSUME work.kind = "crm", work.changes = 0, ~work.partLost, ShortLists
               PROVE  CalmOwn' /\ CalmBound'
    BY <1>1, <1>7, SameCrm DEF CalmLoad, CalmReading, EveryInstanceOnce
  <2>1. CalmOwn
    BY DEF ActivityInv, CalmLoad, CalmReading
  <2>2. CalmOwn'
    BY <1>1, <1>7, <2>1, SameCrm DEF CalmOwn
  <2>3. BoundSoFar' = {}
    BY <1>5, <1>7, <1>1, <1>9, SameCrm DEF BoundSoFar, BoundToAny
  <2>4. ToSet(work.bound)' = {} /\ ToSet(work.withTime)' = {} /\ Logged(ToSet(work.bound))' = {}
    BY <1>7, <1>9 DEF Logged
  <2>5. CalmBound'
    BY <1>1, <1>5, <1>7, <1>9, <2>3, <2>4, SameCrm DEF CalmBound, items
  <2> QED BY <2>2, <2>5
<1> QED BY <1>1, <1>7, <1>8, <1>10, <1>11 DEF ActivityInv, ActivityTypeOK

LEMMA BoundReadInv ==
  ASSUME ActivityInv, BoundRead, UNCHANGED crm
  PROVE  ActivityInv'
<1>1. work \in WorkRead /\ crm \in Portal /\ crm' = crm /\ work.pc = "bound" /\ work.asking = {}
  BY DEF ActivityInv, ActivityTypeOK, BoundRead
<1>2. work' = [work EXCEPT !.pc = "boundTimes"]
  BY DEF BoundRead
<1>3. work' \in WorkRead
  BY <1>1, <1>2 DEF WorkRead, LoadSteps
<1>4. /\ work'.pc = "boundTimes" /\ work'.own = work.own /\ work'.withTime = work.withTime
      /\ work'.kind = work.kind /\ work'.changes = work.changes /\ work'.partLost = work.partLost
      /\ work'.items = work.items /\ work'.asked = work.asked /\ work'.bound = work.bound /\ work'.ownTimes = work.ownTimes
      /\ work'.boundTimes = work.boundTimes /\ work'.relatedLost = work.relatedLost
      /\ work'.start = work.start /\ work'.asking = work.asking /\ work'.shifted = work.shifted
  BY <1>1, <1>2 DEF WorkRead
<1>5. ReadInOrder' /\ FoundOnce' /\ OwnOnce'
  BY <1>1, <1>4 DEF ActivityInv, ReadInOrder, FoundOnce, OwnOnce
<1>6. CalmLoad' /\ EveryInstanceOnce'
  <2> SUFFICES ASSUME work.kind = "crm", work.changes = 0, ~work.partLost, ShortLists
               PROVE  CalmOwn' /\ CalmBound'
    BY <1>1, <1>4, SameCrm DEF CalmLoad, CalmReading, EveryInstanceOnce
  <2>1. CalmOwn /\ CalmBound /\ work.boundTimes = <<>>
    BY <1>1 DEF ActivityInv, CalmLoad, CalmReading, ReadInOrder
  <2>2. CalmOwn'
    BY <1>1, <1>4, <2>1, SameCrm DEF CalmOwn
  <2>3. BoundToAny(PlainElements \ work.asked)' = BoundToAny(PlainElements \ work.asked)
        /\ Logged(ToSet(work.bound))' = Logged(ToSet(work.bound))
    BY <1>1, <1>4 DEF BoundTo, PlainElements, BoundToAny, Logged
  <2>4. ToSet(work.boundTimes) = {}
    BY <2>1 DEF ToSet
  <2>5. BoundSoFar = BoundToAny(PlainElements \ work.asked)
    BY <1>1 DEF BoundSoFar
  <2>6. CalmBound'
    BY <1>1, <1>4, <2>1, <2>3, <2>4, <2>5, SameCrm DEF CalmBound
  <2> QED BY <2>2, <2>6
<1> QED BY <1>1, <1>3, <1>5, <1>6 DEF ActivityInv, ActivityTypeOK

LEMMA ReadBoundTimesInv ==
  ASSUME ActivityInv, ReadBoundTimes, UNCHANGED crm
  PROVE  ActivityInv'
<1>1. work \in WorkRead /\ crm \in Portal /\ crm' = crm /\ work.pc = "boundTimes"
  BY DEF ActivityInv, ActivityTypeOK, ReadBoundTimes
<1>2. PICK answer \in Answers :
        work' = [work EXCEPT !.boundTimes = @ \o answer, !.withTime = Rest, !.partLost = @ \/ ~Whole(answer)]
  BY DEF ReadBoundTimes
<1> DEFINE hours == work.boundTimes \o answer
           rest == Rest
           gone == work.partLost \/ ~Whole(answer)
<1>3. /\ rest \in Seq(Tasks) /\ answer \in Seq(Tasks) /\ Once(answer)
      /\ ToSet(answer) \subseteq ToSet(Chunk) /\ ToSet(work.withTime) = ToSet(Chunk) \cup ToSet(rest)
      /\ Whole(answer) => ToSet(answer) = Logged(ToSet(Chunk))
      /\ Once(work.withTime) => Once(rest) /\ ToSet(Chunk) \cap ToSet(rest) = {}
  BY <1>1, TimesAsked
<1>4. /\ work.boundTimes \in Seq(Tasks) /\ hours \in Seq(Tasks) /\ ToSet(hours) = ToSet(work.boundTimes) \cup ToSet(answer)
      /\ Once(work.boundTimes) /\ ToSet(work.boundTimes) \cap ToSet(answer) = {} => Once(hours)
  <2>1. work.boundTimes \in Seq(Tasks)
    BY <1>1 DEF WorkRead
  <2> QED BY <1>3, <2>1, OnceTogether
<1>5. gone \in BOOLEAN
  BY <1>1 DEF WorkRead, Whole
<1>6. work' = [work EXCEPT !.boundTimes = hours, !.withTime = rest, !.partLost = gone]
  BY <1>2
<1> HIDE DEF hours, rest, gone
<1>7. /\ work' \in WorkRead /\ work'.pc = work.pc /\ work'.own = work.own /\ work'.withTime = rest /\ work'.boundTimes = hours
      /\ work'.kind = work.kind /\ work'.changes = work.changes /\ work'.partLost = gone /\ work'.start = work.start
      /\ work'.items = work.items /\ work'.bound = work.bound /\ work'.boundTo = work.boundTo
      /\ work'.ownTimes = work.ownTimes /\ work'.relatedLost = work.relatedLost /\ work'.asked = work.asked
      /\ work'.shifted = work.shifted /\ work'.asking = work.asking
  BY <1>1, <1>3, <1>4, <1>5, <1>6 DEF WorkRead
<1>8. ReadInOrder' /\ OwnOnce'
  BY <1>1, <1>7 DEF ActivityInv, ReadInOrder, OwnOnce
<1>9. FoundOnce'
  BY <1>1, <1>3, <1>4, <1>7 DEF ActivityInv, FoundOnce
<1>10. CalmLoad' /\ EveryInstanceOnce'
  <2> SUFFICES ASSUME work.kind = "crm", work.changes = 0, ~gone, ShortLists
               PROVE  CalmOwn' /\ CalmBound'
    BY <1>1, <1>7, SameCrm DEF CalmLoad, CalmReading, EveryInstanceOnce
  <2>1. CalmOwn /\ CalmBound /\ Whole(answer)
    BY <1>1 DEF gone, ActivityInv, CalmLoad, CalmReading
  <2>2. CalmOwn'
    BY <1>1, <1>7, <2>1, SameCrm DEF CalmOwn
  <2>3. BoundToAny(PlainElements \ work.asked)' = BoundToAny(PlainElements \ work.asked)
        /\ Logged(ToSet(work.bound))' = Logged(ToSet(work.bound))
    BY <1>1, <1>7 DEF BoundTo, PlainElements, BoundToAny, Logged
  <2>4. ToSet(work.boundTimes) \cup ToSet(work.withTime) = Logged(ToSet(work.bound))
    BY <1>1, <2>1 DEF CalmBound
  <2>5. Logged(ToSet(Chunk)) = ToSet(Chunk)
    BY <1>3, <2>4 DEF Logged
  <2>6. ToSet(hours) \cup ToSet(rest) = Logged(ToSet(work.bound))
    BY <1>3, <1>4, <2>1, <2>4, <2>5
  <2>7. CalmBound'
    BY <1>1, <1>7, <2>1, <2>3, <2>6, SameCrm DEF CalmBound
  <2> QED BY <2>2, <2>7
<1> QED BY <1>1, <1>7, <1>8, <1>9, <1>10 DEF ActivityInv, ActivityTypeOK

LEMMA BoundTimesReadInv ==
  ASSUME ActivityInv, BoundTimesRead, UNCHANGED crm
  PROVE  ActivityInv'
<1>1. work \in WorkRead /\ crm \in Portal /\ crm' = crm /\ work.pc = "boundTimes" /\ work.withTime = <<>>
  BY DEF ActivityInv, ActivityTypeOK, BoundTimesRead
<1>2. work' = [work EXCEPT !.pc = "done"] /\ "done" \in LoadSteps
  BY DEF BoundTimesRead, LoadSteps
<1>3. /\ work' \in WorkRead /\ work'.pc = "done" /\ work'.own = work.own /\ work'.withTime = work.withTime
      /\ work'.kind = work.kind /\ work'.changes = work.changes /\ work'.partLost = work.partLost
      /\ work'.items = work.items /\ work'.asked = work.asked /\ work'.bound = work.bound /\ work'.ownTimes = work.ownTimes
      /\ work'.boundTimes = work.boundTimes /\ work'.relatedLost = work.relatedLost
      /\ work'.start = work.start /\ work'.asking = work.asking /\ work'.shifted = work.shifted
  BY <1>1, <1>2 DEF WorkRead
<1>4. ReadInOrder' /\ FoundOnce' /\ OwnOnce'
  BY <1>1, <1>3 DEF ActivityInv, ReadInOrder, FoundOnce, OwnOnce
<1>5. CalmLoad'
  <2> SUFFICES ASSUME work.kind = "crm", work.changes = 0, ~work.partLost, ShortLists
               PROVE  CalmOwn' /\ CalmBound'
    BY <1>1, <1>3, SameCrm DEF CalmLoad, CalmReading
  <2>1. CalmOwn /\ CalmBound
    BY <1>1 DEF ActivityInv, CalmLoad, CalmReading
  <2>2. CalmOwn'
    BY <1>1, <1>3, <2>1, SameCrm DEF CalmOwn
  <2>3. ToSet(work.withTime) = {} /\ PlainElements \ {} = PlainElements
    BY <1>1 DEF ToSet
  <2>4. work.asked = {} => ToSet(work.boundTimes) = Logged(BoundToAny(PlainElements))
    BY <1>1, <2>1, <2>3 DEF CalmBound
  <2>5. CalmBound'
    BY <1>1, <1>3, <2>1, <2>4, SameCrm DEF CalmBound
  <2> QED BY <2>2, <2>5
<1>6. EveryInstanceOnce'
  <2>1. work.kind = "crm"
    BY <1>1 DEF ActivityInv, ReadInOrder
  <2> QED BY <1>3, <2>1 DEF EveryInstanceOnce
<1> QED BY <1>1, <1>3, <1>4, <1>5, <1>6 DEF ActivityInv, ActivityTypeOK

LEMMA RelatedCallFailsInv ==
  ASSUME ActivityInv, RelatedCallFails, UNCHANGED crm
  PROVE  ActivityInv'
<1>1. work \in WorkRead /\ crm \in Portal /\ crm' = crm /\ work.pc \in {"linked", "bound", "boundTimes"}
  BY DEF ActivityInv, ActivityTypeOK, RelatedCallFails
<1>2. work' = [work EXCEPT !.pc = "done", !.items = {}, !.bound = <<>>, !.boundTimes = <<>>, !.relatedLost = TRUE]
  BY DEF RelatedCallFails, RelatedFails, WithoutRelated
<1>3. <<>> \in Seq(Tasks) /\ "done" \in LoadSteps
  BY DEF LoadSteps
<1>4. /\ work' \in WorkRead /\ work'.pc = "done" /\ work'.own = work.own /\ work'.boundTimes = <<>>
      /\ work'.kind = work.kind /\ work'.changes = work.changes /\ work'.partLost = work.partLost
      /\ work'.items = {} /\ work'.bound = <<>> /\ work'.ownTimes = work.ownTimes /\ work'.relatedLost
      /\ work'.asking = work.asking /\ work'.shifted = work.shifted
  BY <1>1, <1>2, <1>3 DEF WorkRead
<1>5. ReadInOrder' /\ OwnOnce'
  BY <1>1, <1>4 DEF ActivityInv, ReadInOrder, OwnOnce
<1>6. FoundOnce'
  <2>1. Once(<<>>) /\ ToSet(<<>>) = {}
    BY DEF Once, ToSet
  <2> QED BY <1>4, <2>1 DEF ActivityInv, FoundOnce
<1>7. CalmLoad' /\ EveryInstanceOnce'
  <2>1. BoundTo(Client)' = BoundTo(Client) /\ Logged(BoundTo(Client))' = Logged(BoundTo(Client)) /\ work.kind = "crm"
    BY <1>1 DEF BoundTo, Logged, ActivityInv, ReadInOrder
  <2> QED BY <1>1, <1>4, <2>1, SameCrm DEF ActivityInv, CalmLoad, CalmReading, CalmOwn, CalmBound, EveryInstanceOnce
<1> QED BY <1>1, <1>4, <1>5, <1>6, <1>7 DEF ActivityInv, ActivityTypeOK

LEMMA MeetingsInv ==
  ASSUME ActivityInv, ReadMeetings \/ MeetingsFail, UNCHANGED crm
  PROVE  ActivityInv'
<1>1. work \in WorkRead /\ crm \in Portal /\ crm' = crm /\ work.pc = "meetings"
  BY DEF ActivityInv, ActivityTypeOK, ReadMeetings, MeetingsFail
<1>2. work.kind = "group"
  BY <1>1 DEF ActivityInv, ReadInOrder
<1>3. crm.events \in Events
  BY <1>1 DEF Portal
<1> DEFINE met == Meetings(crm.events)
<1>4. met \in Seq(Instances) /\ Once(met) /\ ToSet(met) = ToSet(crm.events) \ {NoMeeting}
  BY <1>3, MeetingsOnce
<1>5. IsInjective(met)
  <2>1. DOMAIN met = 1 .. Len(met)
    BY <1>4
  <2> HIDE DEF met
  <2> QED BY <1>4, <2>1 DEF Once, IsInjective
<1> HIDE DEF met
<1>6. /\ work' \in WorkRead /\ work'.pc = "done" /\ work'.own = work.own /\ work'.kind = work.kind
      /\ work'.items = work.items /\ work'.bound = work.bound /\ work'.ownTimes = work.ownTimes
      /\ work'.boundTimes = work.boundTimes /\ work'.asking = work.asking /\ work'.shifted = work.shifted
      /\ work'.meetings = met \/ work'.meetingsError
  <2>1. "done" \in LoadSteps
    BY DEF LoadSteps
  <2>2. CASE ReadMeetings
    <3>1. work' = [work EXCEPT !.meetings = met, !.pc = "done"]
      BY <2>2 DEF ReadMeetings, met
    <3> QED BY <1>1, <1>4, <2>1, <3>1 DEF WorkRead
  <2>3. CASE MeetingsFail
    <3>1. work' = [work EXCEPT !.meetingsError = TRUE, !.pc = "done"]
      BY <2>3 DEF MeetingsFail
    <3> QED BY <1>1, <2>1, <3>1 DEF WorkRead
  <2> QED BY <2>2, <2>3
<1>7. ReadInOrder' /\ FoundOnce' /\ OwnOnce' /\ CalmLoad'
  BY <1>1, <1>2, <1>6 DEF ActivityInv, ReadInOrder, FoundOnce, OwnOnce, CalmLoad, CalmReading
<1>8. EveryInstanceOnce'
  BY <1>1, <1>4, <1>5, <1>6 DEF EveryInstanceOnce
<1> QED BY <1>1, <1>6, <1>7, <1>8 DEF ActivityInv, ActivityTypeOK

LEMMA ReadBoundInv ==
  ASSUME ActivityInv, ReadBound, UNCHANGED crm
  PROVE  ActivityInv'
<1>1. work \in WorkRead /\ crm \in Portal /\ crm' = crm /\ work.pc = "bound"
  BY DEF ActivityInv, ActivityTypeOK, ReadBound
<1>2. PICK e \in (IF work.asking = {} THEN work.asked ELSE work.asking) : \E page \in Pages(BoundTo(e)) :
        LET new == page \ Known(ToSet(work.bound)) IN
          work' = [work EXCEPT !.asked = @ \ {e}, !.asking = IF Ends(page) THEN {} ELSE {e},
                               !.start = IF Ends(page) THEN 0 ELSE @ + TaskPage,
                               !.partLost = @ \/ page # PageFrom(BoundTo(e), work.start),
                               !.boundTo = @ \cup UNION {crm.tasks[t].bound : t \in page},
                               !.bound = @ \o SetToSeq(new),
                               !.withTime = @ \o SetToSeq(Logged(new))]
  BY DEF ReadBound
<1> DEFINE theirs == BoundTo(e)
           entire == PageFrom(theirs, work.start)
<1>3. PICK page \in Pages(theirs) :
        LET new == page \ Known(ToSet(work.bound)) IN
          work' = [work EXCEPT !.asked = @ \ {e}, !.asking = IF Ends(page) THEN {} ELSE {e},
                               !.start = IF Ends(page) THEN 0 ELSE @ + TaskPage,
                               !.partLost = @ \/ page # entire,
                               !.boundTo = @ \cup UNION {crm.tasks[t].bound : t \in page},
                               !.bound = @ \o SetToSeq(new),
                               !.withTime = @ \o SetToSeq(Logged(new))]
  BY <1>2
<1> DEFINE fresh == page \ Known(ToSet(work.bound))
           found == work.bound \o SetToSeq(fresh)
           hours == work.withTime \o SetToSeq(Logged(fresh))
           to == work.boundTo \cup UNION {crm.tasks[t].bound : t \in page}
           left == work.asked \ {e}
           asking == IF Ends(page) THEN {} ELSE {e}
           start == IF Ends(page) THEN 0 ELSE work.start + TaskPage
           gone == work.partLost \/ page # entire
<1>4. /\ theirs \in SUBSET Tasks /\ work.start \in Nat /\ TaskPage \in Nat \ {0}
      /\ e \in Elements /\ left \in SUBSET Elements /\ asking \in SUBSET Elements
      /\ gone \in BOOLEAN /\ start \in Nat /\ (asking = {} => start = 0) /\ \A x, y \in asking : x = y
  BY <1>1, ActivityAssumption DEF BoundTo, WorkRead
<1>5. /\ entire \in SUBSET Tasks /\ entire \in SUBSET theirs
      /\ Newest(theirs, work.start) \cup entire = Newest(theirs, work.start + TaskPage) /\ Newest(theirs, 0) = {}
  <2> HIDE DEF theirs
  <2> QED BY <1>4, FrontGrows
<1>6. page \in SUBSET Tasks /\ (page = entire \/ page = {})
  BY <1>3, <1>5 DEF Pages
<1>7. /\ fresh \in SUBSET Tasks /\ Logged(fresh) \in SUBSET Tasks /\ Logged(fresh) \subseteq fresh
      /\ fresh \cap ToSet(work.bound) = {} /\ fresh \cap ToSet(work.own) = {}
      /\ fresh = page \ (ToSet(work.own) \cup ToSet(work.bound))
  BY <1>6 DEF Logged, Known
<1>8. work' = [work EXCEPT !.asked = left, !.asking = asking, !.start = start, !.partLost = gone,
                           !.boundTo = to, !.bound = found, !.withTime = hours]
  BY <1>3
<1> HIDE DEF fresh, entire
<1>9. /\ work.bound \in Seq(Tasks) /\ work.withTime \in Seq(Tasks)
      /\ found \in Seq(Tasks) /\ ToSet(found) = ToSet(work.bound) \cup fresh
      /\ Once(work.bound) /\ fresh \cap ToSet(work.bound) = {} => Once(found)
      /\ hours \in Seq(Tasks) /\ ToSet(hours) = ToSet(work.withTime) \cup Logged(fresh)
      /\ Once(work.withTime) /\ Logged(fresh) \cap ToSet(work.withTime) = {} => Once(hours)
  <2>1. work.bound \in Seq(Tasks) /\ work.withTime \in Seq(Tasks)
    BY <1>1 DEF WorkRead
  <2> QED BY <2>1, <1>7, FoundNewTasks
<1>10. to \in SUBSET (Elements \cup {Client})
  <2>1. \A t \in page : crm.tasks[t].bound \in SUBSET (Elements \cup {Client})
    BY <1>1, <1>6 DEF Portal, Bindings
  <2>2. work.boundTo \in SUBSET (Elements \cup {Client})
    BY <1>1 DEF WorkRead
  <2> QED BY <2>1, <2>2
<1> HIDE DEF found, hours, to, left, asking, start, gone
<1>11. /\ work' \in WorkRead /\ work'.pc = "bound" /\ work'.own = work.own /\ work'.withTime = hours
       /\ work'.kind = work.kind /\ work'.changes = work.changes /\ work'.partLost = gone
       /\ work'.items = work.items /\ work'.asked = left /\ work'.bound = found /\ work'.ownTimes = work.ownTimes
       /\ work'.boundTimes = work.boundTimes /\ work'.relatedLost = work.relatedLost
       /\ work'.start = start /\ work'.asking = asking /\ work'.shifted = work.shifted
  BY <1>1, <1>4, <1>8, <1>9, <1>10 DEF WorkRead
<1>12. ReadInOrder' /\ OwnOnce'
  BY <1>1, <1>4, <1>11 DEF ActivityInv, ReadInOrder, OwnOnce
<1>13. ToSet(work.boundTimes) = {} /\ ToSet(work.withTime) \subseteq ToSet(work.bound) /\ Once(work.withTime)
  BY <1>1 DEF ActivityInv, ReadInOrder, FoundOnce, ToSet
<1>14. FoundOnce'
  <2>1. Once(found) /\ Once(hours) /\ ToSet(hours) \subseteq ToSet(found) /\ ToSet(found) \cap ToSet(work.own) = {}
    BY <1>7, <1>9, <1>13 DEF ActivityInv, FoundOnce
  <2> QED BY <1>1, <1>11, <1>13, <2>1 DEF ActivityInv, FoundOnce
<1>15. CalmLoad' /\ EveryInstanceOnce'
  <2> SUFFICES ASSUME work.kind = "crm", work.changes = 0, ~gone, ShortLists
               PROVE  CalmOwn' /\ CalmBound'
    BY <1>1, <1>11, SameCrm DEF CalmLoad, CalmReading, EveryInstanceOnce
  <2>1. CalmOwn /\ CalmBound /\ page = entire
    BY <1>1 DEF gone, ActivityInv, CalmLoad, CalmReading
  <2>2. CalmOwn'
    BY <1>1, <1>11, <2>1, SameCrm DEF CalmOwn
  <2>3. /\ ToSet(work.own) = BoundTo(Client) /\ ToSet(work.bound) = BoundSoFar
        /\ ToSet(work.withTime) = Logged(ToSet(work.bound))
        /\ work.asked \subseteq PlainElements /\ work.asking \subseteq PlainElements
    BY <1>1, <2>1 DEF CalmOwn, CalmBound
  <2> DEFINE before == Newest(theirs, work.start) \ BoundTo(Client)
             after == Newest(theirs, work.start + TaskPage) \ BoundTo(Client)
             others == BoundToAny(PlainElements \ (work.asked \cup work.asking \cup {e}))
  <2>4. /\ e \in PlainElements
        /\ (work.asking = {} /\ e \in work.asked /\ work.start = 0) \/ work.asking = {e}
    BY <1>1, <1>2, <2>3 DEF ActivityInv, ReadInOrder
  <2>5. BoundSoFar = others \cup before
    <3>1. CASE work.asking = {} /\ e \in work.asked /\ work.start = 0
      <4>1. before = {} /\ work.asked \cup work.asking \cup {e} = work.asked \cup work.asking
        BY <1>5, <3>1
      <4> QED BY <3>1, <4>1 DEF BoundSoFar
    <3>2. CASE work.asking = {e}
      <4>1. UNION {Newest(BoundTo(x), work.start) : x \in {e}} = Newest(theirs, work.start)
        OBVIOUS
      <4>2. work.asked \cup work.asking \cup {e} = work.asked \cup work.asking
        BY <3>2
      <4> QED BY <3>2, <4>1, <4>2 DEF BoundSoFar
    <3> QED BY <2>4, <3>1, <3>2
  <2>6. ToSet(found) = others \cup after
    <3>1. ToSet(found) = ToSet(work.bound) \cup (entire \ BoundTo(Client))
      BY <1>7, <1>9, <2>1, <2>3
    <3> QED BY <1>5, <2>3, <2>5, <3>1
  <2>7. ToSet(hours) = Logged(ToSet(found))
    <3>1. \A A, B : Logged(A \cup B) = Logged(A) \cup Logged(B)
      BY DEF Logged
    <3> QED BY <1>9, <2>3, <3>1
  <2>8. others \cup after = BoundToAny(PlainElements \ (left \cup asking))
                              \cup ((UNION {Newest(BoundTo(x), start) : x \in asking}) \ BoundTo(Client))
    <3>1. CASE Ends(page)
      <4>1. asking = {} /\ Newest(theirs, work.start + TaskPage) = theirs
        <5>1. Cardinality(theirs) <= MaxTasks
          BY <1>4 DEF ShortLists
        <5> HIDE DEF theirs
        <5> QED BY <1>1, <1>4, <2>1, <3>1, <5>1, NothingBehind DEF asking, entire
      <4>2. PlainElements \ (left \cup asking) = (PlainElements \ (work.asked \cup work.asking \cup {e})) \cup {e}
        BY <2>4, <4>1 DEF left
      <4>3. \A E, x : BoundToAny(E \cup {x}) = BoundToAny(E) \cup (BoundTo(x) \ BoundTo(Client))
        BY DEF BoundToAny
      <4>4. UNION {Newest(BoundTo(x), start) : x \in asking} = {}
        BY <4>1
      <4> QED BY <4>1, <4>2, <4>3, <4>4
    <3>2. CASE ~Ends(page)
      <4>1. asking = {e} /\ start = work.start + TaskPage
        BY <3>2 DEF asking, start
      <4>2. PlainElements \ (left \cup asking) = PlainElements \ (work.asked \cup work.asking \cup {e})
        BY <2>4, <4>1 DEF left
      <4>3. UNION {Newest(BoundTo(x), work.start + TaskPage) : x \in {e}} = Newest(theirs, work.start + TaskPage)
        OBVIOUS
      <4> QED BY <4>1, <4>2, <4>3
    <3> QED BY <3>1, <3>2
  <2>9. /\ BoundSoFar' = ToSet(found) /\ ToSet(work.bound)' = ToSet(found) /\ ToSet(work.withTime)' = ToSet(hours)
        /\ Logged(ToSet(work.bound))' = Logged(ToSet(found))
    <3>1. /\ work'.asked = left /\ work'.asking = asking /\ work'.start = start /\ PlainElements' = PlainElements
          /\ crm' = crm
      BY <1>1, <1>11, SameCrm
    <3>2. BoundSoFar' = BoundToAny(PlainElements \ (left \cup asking))
                          \cup ((UNION {Newest(BoundTo(x), start) : x \in asking}) \ BoundTo(Client))
      BY <3>1 DEF BoundSoFar, BoundToAny, BoundTo, Newest, Ahead
    <3>3. ToSet(work.bound)' = ToSet(found) /\ ToSet(work.withTime)' = ToSet(hours)
      BY <1>11
    <3> QED BY <1>1, <2>6, <2>8, <3>2, <3>3 DEF Logged
  <2>10. left \subseteq PlainElements /\ asking \subseteq PlainElements
    BY <2>3, <2>4 DEF left, asking
  <2>11. CalmBound'
    BY <1>1, <1>11, <2>1, <2>7, <2>9, <2>10, SameCrm DEF CalmBound
  <2> QED BY <2>2, <2>11
<1> QED BY <1>1, <1>11, <1>12, <1>14, <1>15 DEF ActivityInv, ActivityTypeOK

LEMMA StepActivityInv == ActivityInv /\ [ActivityNext]_activityVars => ActivityInv'
<1> SUFFICES ASSUME ActivityInv, [ActivityNext]_activityVars PROVE ActivityInv'
  OBVIOUS
<1>1. CASE UNCHANGED activityVars
  <2>1. crm' = crm /\ work' = work
    BY <1>1 DEF activityVars
  <2>2. ActivityTypeOK' /\ ReadInOrder' /\ FoundOnce' /\ EveryInstanceOnce'
    BY <2>1 DEF ActivityInv, ActivityTypeOK, ReadInOrder, FoundOnce, EveryInstanceOnce
  <2>3. OwnOnce'
    BY <2>1, SameCrm DEF ActivityInv, OwnOnce, Newest, Ahead
  <2>4. CalmReading' => CalmReading
    BY <2>1, SameCrm DEF CalmReading
  <2>5. CalmOwn => CalmOwn'
    BY <2>1, SameCrm DEF CalmOwn, Newest, Ahead, Logged
  <2>6. /\ BoundSoFar' = BoundSoFar /\ Logged(ToSet(work.bound))' = Logged(ToSet(work.bound))
        /\ BoundToAny(PlainElements \ work.asked)' = BoundToAny(PlainElements \ work.asked)
    BY <2>1 DEF BoundSoFar, BoundToAny, BoundTo, PlainElements, Newest, Ahead, Logged
  <2>7. CalmBound => CalmBound'
    BY <2>1, <2>6, SameCrm DEF CalmBound
  <2> QED BY <2>2, <2>3, <2>4, <2>5, <2>7 DEF ActivityInv, CalmLoad
<1>2. CASE TaskChanged \/ ElementChanged
  BY <1>2, ChangedInv
<1>3. CASE UNCHANGED crm /\ (ReadTasks \/ ReadTimes \/ TimesRead \/ OwnCallFails)
  BY <1>3, ReadTasksInv, ReadTimesInv, TimesReadInv, OwnCallFailsInv
<1>4. CASE UNCHANGED crm /\ (ReadLinked \/ ReadBound \/ BoundRead \/ ReadBoundTimes \/ BoundTimesRead \/ RelatedCallFails)
  BY <1>4, ReadLinkedInv, ReadBoundInv, BoundReadInv, ReadBoundTimesInv, BoundTimesReadInv, RelatedCallFailsInv
<1>5. CASE UNCHANGED crm /\ (ReadMeetings \/ MeetingsFail)
  BY <1>5, MeetingsInv
<1> QED BY <1>1, <1>2, <1>3, <1>4, <1>5 DEF ActivityNext

(* A list with another behind it, of which nothing comes twice: what comes *)
(* twice comes so in the first.                                            *)
LEMMA TwiceInFront ==
  ASSUME NEW T, NEW a \in Seq(T), NEW b \in Seq(T), Once(b), ToSet(a) \cap ToSet(b) = {}
  PROVE  /\ a \o b \in Seq(T) /\ ToSet(a \o b) = ToSet(a) \cup ToSet(b)
         /\ (~work.shifted => Once(a)) => OnlyShifted(a \o b, a)
<1> DEFINE m == Len(a)
           n == Len(b)
           c == a \o b
<1>1. c \in Seq(T) /\ ToSet(c) = ToSet(a) \cup ToSet(b) /\ (Once(a) => Once(c))
  BY OnceTogether
<1>2. m \in Nat /\ n \in Nat /\ DOMAIN a = 1 .. m /\ DOMAIN b = 1 .. n
  OBVIOUS
<1>3. /\ Len(c) = m + n /\ DOMAIN c = 1 .. (m + n)
      /\ \A i \in 1 .. (m + n) : c[i] = IF i <= m THEN a[i] ELSE b[i - m]
  BY ConcatProperties, <1>2
<1>4. ASSUME ~work.shifted => Once(a), NEW i \in DOMAIN c, NEW j \in DOMAIN c, i < j, c[i] = c[j]
      PROVE  j <= Len(a) /\ work.shifted
  <2> HIDE DEF c, m, n
  <2>1. i \in 1 .. m + n /\ j \in 1 .. m + n /\ i # j
    BY <1>2, <1>3, <1>4
  <2>2. work.shifted
    BY <1>1, <1>3, <1>4, <2>1 DEF Once
  <2>3. ASSUME ~(j <= m) PROVE FALSE
    <3>1. c[j] = b[j - m] /\ j - m \in 1 .. n
      BY <1>2, <1>3, <2>1, <2>3
    <3>2. CASE i <= m
      <4>1. c[i] = a[i] /\ i \in 1 .. m
        BY <1>2, <1>3, <2>1, <3>2
      <4>2. a[i] \in ToSet(a) /\ b[j - m] \in ToSet(b)
        BY <1>2, <3>1, <4>1 DEF ToSet
      <4> QED BY <1>4, <3>1, <4>1, <4>2
    <3>3. CASE ~(i <= m)
      <4>1. c[i] = b[i - m] /\ i - m \in 1 .. n
        BY <1>2, <1>3, <2>1, <3>3
      <4>2. i - m = j - m
        BY <1>4, <3>1, <4>1 DEF Once, n
      <4> QED BY <1>2, <2>1, <4>2
    <3> QED BY <3>2, <3>3
  <2> QED BY <2>2, <2>3 DEF m
<1> QED BY <1>1, <1>4 DEF OnlyShifted

(* What is read in order can be shown.                                     *)
LEMMA RowsOnce ==
  ASSUME ActivityInv
  PROVE  /\ OnlyShifted(Rows, work.own)
         /\ ToSet(Rows) = ToSet(work.own) \cup {i.id : i \in {j \in work.items : FieldTime(j) \/ Untracked(j)}} \cup ToSet(work.bound)
<1>1. work \in WorkRead
  BY DEF ActivityInv, ActivityTypeOK
<1> DEFINE shown == {j \in work.items : FieldTime(j) \/ Untracked(j)}
           ids == [i \in DOMAIN ElementRows |-> ElementRows[i].id]
           T == Elements \cup Tasks
<1>3. work.items \in SUBSET LinkedItem /\ \A i, j \in work.items : i.id = j.id => i = j
  BY <1>1 DEF WorkRead, ActivityInv, FoundOnce
<1>4. shown \in SUBSET LinkedItem /\ \A i, j \in shown : i.id = j.id => i = j
  BY <1>3
<1>5. IsFiniteSet(shown)
  <2>1. Elements \subseteq Elements \cup Tasks
    OBVIOUS
  <2>2. IsFiniteSet(Elements)
    BY <2>1, ActivityAssumption, FS_Subset
  <2> HIDE DEF shown
  <2> DEFINE f == [i \in shown |-> i.id]
  <2>3. f \in Injection(shown, Elements)
    BY <1>4 DEF LinkedItem, Injection, IsInjective
  <2> HIDE DEF f
  <2> QED BY <2>2, <2>3, FS_Injection
<1>6. ElementRows \in Seq(LinkedItem) /\ Once(ElementRows) /\ ToSet(ElementRows) = shown
  <2>1. ElementRows = SetToSeq(shown)
    BY DEF ElementRows
  <2> HIDE DEF shown
  <2> QED BY <1>4, <1>5, <2>1, ListedOnce
<1>7. ids \in Seq(Elements) /\ Once(ids) /\ ToSet(ids) = {i.id : i \in shown}
  <2> DEFINE n == Len(ElementRows)
  <2>1. n \in Nat /\ DOMAIN ElementRows = 1 .. n
    BY <1>6
  <2>2. \A i \in 1 .. n : ElementRows[i] \in shown
    BY <1>6, <2>1 DEF ToSet
  <2>3. \A i \in shown : i.id \in Elements
    BY <1>4 DEF LinkedItem
  <2> HIDE DEF shown, n
  <2>4. ids \in [1 .. n -> Elements] /\ \A i \in 1 .. n : ids[i] = ElementRows[i].id
    BY <2>1, <2>2, <2>3
  <2>5. ids \in Seq(Elements) /\ Len(ids) = n /\ DOMAIN ids = 1 .. n
    BY <2>1, <2>4
  <2> HIDE DEF ids
  <2>6. Once(ids)
    <3>1. \A i, j \in 1 .. n : ElementRows[i] = ElementRows[j] => i = j
      BY <1>6 DEF Once, n
    <3> QED BY <1>4, <2>2, <2>4, <2>5, <3>1 DEF Once
  <2>7. \A x \in ToSet(ids) : x \in {i.id : i \in shown}
    BY <2>2, <2>4, <2>5 DEF ToSet
  <2>8. \A x \in shown : \E i \in 1 .. n : x = ElementRows[i]
    BY <1>6, <2>1 DEF ToSet
  <2>9. \A x \in {i.id : i \in shown} : x \in ToSet(ids)
    BY <2>4, <2>5, <2>8 DEF ToSet
  <2> QED BY <2>5, <2>6, <2>7, <2>9
<1>8. /\ work.own \in Seq(Tasks) /\ work.bound \in Seq(Tasks) /\ Once(work.bound)
      /\ ToSet(work.bound) \cap ToSet(work.own) = {} /\ (~work.shifted => Once(work.own))
  BY <1>1 DEF WorkRead, ActivityInv, FoundOnce, OwnOnce
<1>9. Rows = work.own \o (ids \o work.bound)
  BY DEF Rows
<1> HIDE DEF ids, shown
<1>10. ToSet(ids) \subseteq Elements /\ ToSet(work.bound) \subseteq Tasks /\ ToSet(work.own) \subseteq Tasks
  <2>1. \A s \in Seq(Tasks) : ToSet(s) \subseteq Tasks
    BY DEF ToSet
  <2>2. ToSet(ids) \subseteq Elements
    BY <1>7 DEF ToSet
  <2> QED BY <1>8, <2>1, <2>2
<1>11. work.own \in Seq(T) /\ ids \in Seq(T) /\ work.bound \in Seq(T)
  <2>1. \A U : U \subseteq T => Seq(U) \subseteq Seq(T)
    <3> HIDE DEF T
    <3> QED OBVIOUS
  <2> QED BY <1>7, <1>8, <2>1
<1>12. ToSet(work.own) \cap ToSet(ids) = {} /\ ToSet(ids) \cap ToSet(work.bound) = {}
  BY <1>10, ActivityAssumption
<1> HIDE DEF T
<1> DEFINE behind == ids \o work.bound
<1>13. behind \in Seq(T) /\ Once(behind) /\ ToSet(behind) = ToSet(ids) \cup ToSet(work.bound)
  BY <1>7, <1>8, <1>11, <1>12, OnceTogether
<1>14. Rows = work.own \o behind
  BY <1>9
<1> HIDE DEF behind
<1>15. OnlyShifted(Rows, work.own) /\ ToSet(Rows) = ToSet(work.own) \cup ToSet(behind)
  <2>1. ToSet(work.own) \cap ToSet(behind) = {}
    BY <1>8, <1>12, <1>13
  <2> QED BY <1>8, <1>11, <1>13, <1>14, <2>1, TwiceInFront
<1> QED BY <1>7, <1>13, <1>15 DEF shown

(* And so can the time read of it.                                         *)
LEMMA RecordsOnce ==
  ASSUME ActivityInv
  PROVE  /\ OnlyShifted(Records, work.ownTimes)
         /\ ToSet(Records) = ToSet(work.ownTimes) \cup ElementTime \cup ToSet(work.boundTimes)
<1> DEFINE T == Elements \cup Tasks
           ids == SetToSeq(ElementTime)
<1>1. work \in WorkRead
  BY DEF ActivityInv, ActivityTypeOK
<1>2. ElementTime \in SUBSET Elements
  BY <1>1 DEF ElementTime, WorkRead, LinkedItem
<1>3. ids \in Seq(Elements) /\ Once(ids) /\ ToSet(ids) = ElementTime
  <2>1. ElementTime \in SUBSET (Elements \cup Tasks)
    BY <1>2
  <2>2. IsFiniteSet(ElementTime)
    BY <2>1, ActivityAssumption, FS_Subset
  <2> QED BY <1>2, <2>2, ListedOnce
<1>4. /\ work.ownTimes \in Seq(Tasks) /\ work.boundTimes \in Seq(Tasks) /\ Once(work.boundTimes)
      /\ ToSet(work.ownTimes) \subseteq ToSet(work.own) /\ ToSet(work.boundTimes) \subseteq ToSet(work.bound)
      /\ ToSet(work.bound) \cap ToSet(work.own) = {} /\ (~work.shifted => Once(work.ownTimes))
  BY <1>1 DEF WorkRead, ActivityInv, FoundOnce, OwnOnce
<1>5. Records = work.ownTimes \o (ids \o work.boundTimes)
  BY DEF Records
<1> HIDE DEF ids
<1>6. ToSet(work.ownTimes) \subseteq Tasks /\ ToSet(work.boundTimes) \subseteq Tasks
  <2>1. \A s \in Seq(Tasks) : ToSet(s) \subseteq Tasks
    BY DEF ToSet
  <2> QED BY <1>4, <2>1
<1>7. work.ownTimes \in Seq(T) /\ ids \in Seq(T) /\ work.boundTimes \in Seq(T)
  <2>1. \A U : U \subseteq T => Seq(U) \subseteq Seq(T)
    <3> HIDE DEF T
    <3> QED OBVIOUS
  <2> QED BY <1>3, <1>4, <2>1
<1>8. ToSet(work.ownTimes) \cap ToSet(ids) = {} /\ ToSet(ids) \cap ToSet(work.boundTimes) = {}
  BY <1>2, <1>3, <1>6, ActivityAssumption
<1> HIDE DEF T
<1> DEFINE behind == ids \o work.boundTimes
<1>9. behind \in Seq(T) /\ Once(behind) /\ ToSet(behind) = ToSet(ids) \cup ToSet(work.boundTimes)
  BY <1>3, <1>4, <1>7, <1>8, OnceTogether
<1>10. Records = work.ownTimes \o behind
  BY <1>5
<1> HIDE DEF behind
<1>11. OnlyShifted(Records, work.ownTimes) /\ ToSet(Records) = ToSet(work.ownTimes) \cup ToSet(behind)
  <2>1. ToSet(work.ownTimes) \cap ToSet(behind) = {}
    BY <1>4, <1>8, <1>9
  <2> QED BY <1>4, <1>7, <1>9, <1>10, <2>1, TwiceInFront
<1> QED BY <1>3, <1>9, <1>11

(* What the invariant says of a load that is shown.                        *)
LEMMA InvActivity ==
  ActivityInv => NoRowTwice /\ EveryElementSeen /\ CalmTimeExact /\ EveryInstanceOnce
<1> SUFFICES ASSUME ActivityInv PROVE NoRowTwice /\ EveryElementSeen /\ CalmTimeExact /\ EveryInstanceOnce
  OBVIOUS
<1>1. work \in WorkRead /\ crm \in Portal
  BY DEF ActivityInv, ActivityTypeOK
<1>2. NoRowTwice
  BY RowsOnce, RecordsOnce DEF NoRowTwice
<1>3. EveryElementSeen
  <2>1. \A i \in work.items : FieldTime(i) \/ Untracked(i) \/ i.id \in work.boundTo
    BY DEF Untracked
  <2>2. \A i \in work.items : FieldTime(i) \/ Untracked(i) => i.id \in ToSet(Rows)
    BY RowsOnce
  <2> QED BY <2>1, <2>2 DEF EveryElementSeen
<1>4. CalmTimeExact
  <2> SUFFICES ASSUME work.pc = "done", work.kind = "crm", Calm, WithinBound
               PROVE  LET Source(b) == b = Client \/ (b \in Elements /\ crm.elements[b] = "plain")
                      IN  ToSet(Records) = {t \in Tasks : crm.tasks[t].logged /\ \E b \in crm.tasks[t].bound : Source(b)}
                                             \cup {e \in Elements : crm.elements[e] = "finished"}
    BY DEF CalmTimeExact
  <2> DEFINE Source(b) == b = Client \/ (b \in Elements /\ crm.elements[b] = "plain")
             sourced == {t \in Tasks : crm.tasks[t].logged /\ \E b \in crm.tasks[t].bound : Source(b)}
             finished == {e \in Elements : crm.elements[e] = "finished"}
  <2>0. CalmReading /\ ~work.relatedLost /\ work.asked = {}
    BY DEF CalmReading, Calm, WithinBound, ShortLists
  <2>1. /\ ToSet(work.ownTimes) = Logged(BoundTo(Client)) /\ work.items = LinkedItems
        /\ ToSet(work.boundTimes) = Logged(BoundToAny(PlainElements))
    BY <2>0 DEF ActivityInv, CalmLoad, CalmOwn, CalmBound
  <2>2. ElementTime = finished
    <3>1. ElementTime = {i.id : i \in {j \in LinkedItems : j.field = "finished"}}
      BY <2>1 DEF ElementTime
    <3>2. \A x \in ElementTime : x \in finished
      BY <3>1 DEF LinkedItems
    <3>3. ASSUME NEW e \in finished PROVE e \in ElementTime
      <4> DEFINE i == [id |-> e, field |-> crm.elements[e]]
      <4>1. i \in LinkedItems /\ i.id = e /\ i.field = "finished"
        BY DEF LinkedItems
      <4> HIDE DEF i
      <4> QED BY <3>1, <4>1
    <3> QED BY <3>2, <3>3
  <2>3. Logged(BoundTo(Client)) \cup Logged(BoundToAny(PlainElements)) = sourced
    <3>1. \A t \in sourced : t \in Logged(BoundTo(Client)) \cup Logged(BoundToAny(PlainElements))
      BY DEF Logged, BoundTo, BoundToAny, PlainElements
    <3>2. \A t \in Logged(BoundTo(Client)) : t \in sourced
      BY DEF Logged, BoundTo
    <3>3. \A t \in Logged(BoundToAny(PlainElements)) : t \in sourced
      BY DEF Logged, BoundTo, BoundToAny, PlainElements
    <3> QED BY <3>1, <3>2, <3>3
  <2>4. ToSet(Records) = ToSet(work.ownTimes) \cup ElementTime \cup ToSet(work.boundTimes)
    BY RecordsOnce
  <2> HIDE DEF sourced, finished
  <2>5. ToSet(Records) = sourced \cup finished
    BY <2>1, <2>2, <2>3, <2>4
  <2> QED BY <2>5 DEF sourced, finished
<1>5. EveryInstanceOnce
  BY DEF ActivityInv
<1> QED BY <1>2, <1>3, <1>4, <1>5

(* No step takes away what the client's own tasks brought.                 *)
LEMMA StepKeepsOwnWork ==
  ActivityInv /\ [ActivityNext]_activityVars => [OwnWorkSurvives]_activityVars
<1> SUFFICES ASSUME ActivityInv, ActivityNext, work.pc # "tasks", work'.pc # "tasks"
             PROVE  work'.own = work.own /\ ToSet(work.ownTimes) \subseteq ToSet(work'.ownTimes)
  BY DEF OwnWorkSurvives
<1>1. work \in WorkRead
  BY DEF ActivityInv, ActivityTypeOK
<1>2. CASE ReadTimes
  <2>1. PICK answer \in Answers :
          work' = [work EXCEPT !.ownTimes = @ \o answer, !.withTime = Rest, !.partLost = @ \/ ~Whole(answer)]
    BY <1>2 DEF ReadTimes
  <2>2. answer \in Seq(Tasks) /\ work.ownTimes \in Seq(Tasks)
    BY <1>1, TimesAsked DEF WorkRead
  <2>3. work'.own = work.own /\ work'.ownTimes = work.ownTimes \o answer
    BY <1>1, <2>1 DEF WorkRead
  <2>4. ToSet(work.ownTimes \o answer) = ToSet(work.ownTimes) \cup ToSet(answer)
    BY <2>2, OnceTogether
  <2> QED BY <2>3, <2>4
<1>3. CASE TaskChanged \/ ElementChanged
  <2>1. work'.own = work.own /\ work'.ownTimes = work.ownTimes
    BY <1>1, <1>3 DEF TaskChanged, ElementChanged, WorkRead
  <2> QED BY <2>1
<1>4. CASE OwnCallFails \/ RelatedCallFails
  BY <1>1, <1>4 DEF OwnCallFails, RelatedCallFails, RelatedFails, WithoutRelated, WorkRead
<1>5. CASE ReadLinked \/ BoundRead \/ ReadBoundTimes \/ BoundTimesRead \/ TimesRead
  BY <1>1, <1>5 DEF ReadLinked, BoundRead, ReadBoundTimes, BoundTimesRead, TimesRead, WorkRead
<1>6. CASE ReadBound
  BY <1>1, <1>6 DEF ReadBound, WorkRead
<1>7. CASE ReadMeetings \/ MeetingsFail
  BY <1>1, <1>7 DEF ReadMeetings, MeetingsFail, WorkRead
<1>8. ~ReadTasks
  BY DEF ReadTasks
<1> QED BY <1>2, <1>3, <1>4, <1>5, <1>6, <1>7, <1>8 DEF ActivityNext

(* A load of a project's work counts everything once, accounts for every   *)
(* linked element, and loses nothing of what it could read to what it      *)
(* could not.                                                              *)
THEOREM LoadsCountOnce == ActivitySpec => LoadCountsOnce
<1>1. ActivitySpec => []ActivityInv
  BY InitActivityInv, StepActivityInv, PTL DEF ActivitySpec
<1>2. ActivitySpec => [](NoRowTwice /\ EveryElementSeen /\ CalmTimeExact /\ EveryInstanceOnce)
  BY <1>1, InvActivity, PTL
<1>3. ActivitySpec => [][OwnWorkSurvives]_activityVars
  BY <1>1, StepKeepsOwnWork, PTL DEF ActivitySpec
<1> QED BY <1>2, <1>3 DEF LoadCountsOnce

-----------------------------------------------------------------------------
(* The pages of marketing and sales (MarketingReport).                     *)

Money(S) == [e \in S |-> e.amount]

IsPriced(S) == IsFiniteSet(S) /\ \A e \in S : e.amount \in Int

LEMMA AmountsAre ==
  ASSUME NEW S, IsPriced(S)
  PROVE  Amounts(S) = SumOver(Money(S), S) /\ Amounts(S) \in Int
<1> DEFINE adds(f) == f = [s \in SUBSET S |-> IF s = {} THEN 0 ELSE First(s).amount + f[s \ {First(s)}]]
           iter == CHOOSE f : adds(f)
<1>1. Amounts(S) = iter[S]
  BY DEF Amounts, MapThenSumSet, MapThenFoldSet, First
<1>2. IsFiniteSet(S) /\ \A x \in S : Money(S)[x] \in Int
  BY DEF IsPriced, Money
<1>3. \A s \in SUBSET S : s # {} => Money(S)[First(s)] = First(s).amount
  BY FirstIn DEF Money
<1>4. \A f : AddsUp(f, Money(S), S) <=> adds(f)
  BY <1>3 DEF AddsUp
<1> HIDE DEF adds
<1>5. \E f : adds(f)
  BY <1>2, <1>4, SumsExist
<1>6. AddsUp(iter, Money(S), S)
  BY <1>4, <1>5
<1> HIDE DEF iter
<1>7. S \in SUBSET S
  OBVIOUS
<1>8. Amounts(S) = SumOver(Money(S), S)
  BY <1>1, <1>2, <1>6, <1>7, TotalIsTheSum
<1> QED BY <1>2, <1>8, TotalType

(* A column of the table of a report.                                      *)
Column(rows, f) == [k \in DOMAIN rows |-> rows[k][f]]

LEMMA ColumnsAddUp ==
  ASSUME NEW rows, NEW D, D = DOMAIN rows, IsFiniteSet(D), NEW f
  PROVE  ColumnSum(rows, f) = SumOver(Column(rows, f), D)
<1> DEFINE adds(g) == g = [s \in SUBSET D |-> IF s = {} THEN 0 ELSE rows[First(s)][f] + g[s \ {First(s)}]]
           iter == CHOOSE g : adds(g)
<1>1. ColumnSum(rows, f) = iter[D]
  BY DEF ColumnSum, MapThenSumSet, MapThenFoldSet, First
<1>2. \A s \in SUBSET D : s # {} => Column(rows, f)[First(s)] = rows[First(s)][f]
  BY FirstIn DEF Column
<1>3. \A g : AddsUp(g, Column(rows, f), D) <=> adds(g)
  BY <1>2 DEF AddsUp
<1> HIDE DEF adds
<1>4. \E g : adds(g)
  BY <1>3, SumsExist
<1>5. AddsUp(iter, Column(rows, f), D)
  BY <1>3, <1>4
<1> HIDE DEF iter
<1>6. D \in SUBSET D
  OBVIOUS
<1> QED BY <1>1, <1>5, <1>6, TotalIsTheSum

(* The elements of a row, and those in a state.                            *)
At(S, field, k) == { x \in S : x[field] = k }

Now(S, s) == { e \in S : e.semantic = s }

(* A column that counts the elements of each row counts them all.          *)
LEMMA ColumnCounts ==
  ASSUME NEW S, IsFiniteSet(S), NEW J, IsFiniteSet(J), NEW field, \A x \in S : x[field] \in J,
         NEW rows, DOMAIN rows = J, NEW f, \A k \in J : rows[k][f] = Cardinality(At(S, field, k))
  PROVE  ColumnSum(rows, f) = Cardinality(S)
<1> DEFINE of == [x \in S |-> x[field]]
           cut == [k \in J |-> At(S, field, k)]
<1>1. (\A x \in S : of[x] \in J) /\ CutBy(cut, S, of, J)
  BY DEF CutBy, At
<1>2. \A k \in J : Column(rows, f)[k] = Cardinality(cut[k])
  BY DEF Column
<1> HIDE DEF of, cut
<1>3. SumOver(Column(rows, f), J) = Cardinality(S)
  BY <1>1, <1>2, CountByParts
<1> QED BY <1>3, ColumnsAddUp

(* One that adds up their amounts adds up all amounts.                     *)
LEMMA ColumnEarns ==
  ASSUME NEW S, IsPriced(S), NEW J, IsFiniteSet(J), NEW field, \A x \in S : x[field] \in J,
         NEW rows, DOMAIN rows = J, NEW f, \A k \in J : rows[k][f] = Amounts(At(S, field, k))
  PROVE  ColumnSum(rows, f) = Amounts(S)
<1> DEFINE of == [x \in S |-> x[field]]
           cut == [k \in J |-> At(S, field, k)]
<1>1. (\A x \in S : of[x] \in J) /\ CutBy(cut, S, of, J)
  BY DEF CutBy, At
<1>2. IsFiniteSet(S) /\ \A x \in S : Money(S)[x] \in Int
  BY DEF IsPriced, Money
<1>3. ASSUME NEW k \in J PROVE Column(rows, f)[k] = SumOver(Money(S), cut[k])
  <2>1. cut[k] \subseteq S /\ rows[k][f] = Amounts(cut[k])
    BY DEF At
  <2> HIDE DEF cut
  <2>2. IsFiniteSet(cut[k]) /\ IsPriced(cut[k])
    BY <1>2, <2>1, FS_Subset DEF IsPriced, Money
  <2>3. SumOver(Money(cut[k]), cut[k]) = SumOver(Money(S), cut[k])
    <3>1. \A x \in cut[k] : Money(cut[k])[x] = Money(S)[x]
      BY <2>1 DEF Money
    <3> QED BY <2>2, <3>1, TotalAgrees
  <2> QED BY <2>1, <2>2, <2>3, AmountsAre DEF Column
<1> HIDE DEF of, cut
<1>4. SumOver(Column(rows, f), J) = SumOver(Money(S), S)
  BY <1>1, <1>2, <1>3, TotalByParts
<1> QED BY <1>4, ColumnsAddUp, AmountsAre

(* What a page has of a load.                                              *)
IsData(d) == IsPriced(d.leads) /\ IsPriced(d.created) /\ IsPriced(d.won)

CardsOfCrm(I, C, S, M, G, X, D) ==
  [id : I, section : C, source : S, manager : M, stage : G, semantic : X, created : D, closed : D, amount : Int]

LEMMA RuledArePriced ==
  ASSUME NEW E, IsFiniteSet(E), NEW ruled, NEW stages,
         \A e \in E : e.amount \in Int /\ \A v : [e EXCEPT !.semantic = v].amount = e.amount
  PROVE  IsPriced(Ruled(E, ruled, stages))
<1> DEFINE sem(e) == IF e.stage = None THEN "process" ELSE StageSemantic(ruled, stages, e.stage)
           now == [e \in E |-> [e EXCEPT !.semantic = sem(e)]]
<1>1. Ruled(E, ruled, stages) = {now[e] : e \in E}
  BY DEF Ruled
<1>2. \A e \in E : now[e].amount \in Int
  OBVIOUS
<1> HIDE DEF now
<1>3. IsFiniteSet({now[e] : e \in E})
  BY FiniteImage
<1> QED BY <1>1, <1>2, <1>3 DEF IsPriced

(* What LoadMarketing returns has amounts that can be added up.            *)
LEMMA LoadsAreData ==
  ASSUME NEW I, NEW C, NEW S, NEW M, NEW G, NEW X, NEW D,
         NEW elements \in SUBSET CardsOfCrm(I, C, S, M, G, X, D), IsFiniteSet(elements),
         NEW parts, NEW ruled, NEW stages, NEW failing, NEW period
  PROVE  IsData(LoadMarketing(elements, parts, ruled, stages, failing, period))
<1> DEFINE Of(role) == { e \in elements : parts[e.section] = role /\ e.section \notin failing }
           Created(role) == { e \in Of(role) : e.created \in period }
           Closed == { e \in Of("SALES") : e.closed \in period }
           known == IF "stages" \in failing THEN [s \in {} |-> {}] ELSE stages
           d == LoadMarketing(elements, parts, ruled, stages, failing, period)
<1>1. \A e \in elements : e.amount \in Int /\ \A v : [e EXCEPT !.semantic = v].amount = e.amount
  BY DEF CardsOfCrm
<1>2. \A role : Created(role) \subseteq elements /\ Closed \subseteq elements
  OBVIOUS
<1>3. d.leads = Ruled(Created("TRAFFIC"), ruled, known) /\ d.created = Ruled(Created("SALES"), ruled, known)
      /\ d.won = { e \in Ruled(Closed, ruled, known) : e.semantic = "success" }
  BY DEF LoadMarketing
<1> HIDE DEF Created, Closed, known, d
<1>4. \A E \in SUBSET elements : IsPriced(Ruled(E, ruled, known))
  BY <1>1, FS_Subset, RuledArePriced
<1>5. IsPriced(d.won)
  <2>1. IsPriced(Ruled(Closed, ruled, known))
    BY <1>2, <1>4
  <2> QED BY <1>3, <2>1, FS_Subset DEF IsPriced
<1> QED BY <1>2, <1>3, <1>4, <1>5 DEF IsData, d

(* The list a figure opens, by kind.                                       *)
Listed(d, picked, kind, field, key) == MarketingItems(d, picked, [kind |-> kind, field |-> field, key |-> key])

Within(S, field, key) == IF field = "any" THEN S ELSE At(S, field, key)

LEMMA ListsAre ==
  ASSUME NEW d, NEW picked, NEW field, NEW key
  PROVE  /\ Listed(d, picked, "leads", field, key) = Within(d.leads, field, key)
         /\ Listed(d, picked, "qualified", field, key) = Within(Qualified(d, picked), field, key)
         /\ Listed(d, picked, "sales", field, key) = Within(d.won, field, key)
         /\ Listed(d, picked, "deals", field, key) = Within(d.created, field, key)
         /\ Listed(d, picked, "inwork", field, key) = Within(Now(d.created, "process"), field, key)
         /\ Listed(d, picked, "won", field, key) = Within(Now(d.created, "success"), field, key)
         /\ Listed(d, picked, "lost", field, key) = Within(Now(d.created, "fail"), field, key)
<1>1. ASSUME NEW kind PROVE Listed(d, picked, kind, field, key) = Within(ItemsOf(d, picked, kind), field, key)
  <2>1. CASE field = "any"
    BY <2>1 DEF Listed, MarketingItems, Within
  <2>2. CASE field # "any"
    BY <2>2 DEF Listed, MarketingItems, Within, At
  <2> QED BY <2>1, <2>2
<1>2. /\ ItemsOf(d, picked, "leads") = d.leads /\ ItemsOf(d, picked, "qualified") = Qualified(d, picked)
      /\ ItemsOf(d, picked, "sales") = d.won /\ ItemsOf(d, picked, "deals") = d.created
      /\ ItemsOf(d, picked, "inwork") = Now(d.created, "process")
      /\ ItemsOf(d, picked, "won") = Now(d.created, "success")
      /\ ItemsOf(d, picked, "lost") = Now(d.created, "fail")
  BY DEF ItemsOf, Now
<1> QED BY <1>1, <1>2

(* Numbers that count the lists open them.                                 *)
LEMMA ChannelOpens ==
  ASSUME NEW d, NEW picked, NEW n, NEW field, NEW key,
         n.leads = Cardinality(Listed(d, picked, "leads", field, key)),
         n.qualified = Cardinality(Listed(d, picked, "qualified", field, key)),
         n.sales = Cardinality(Listed(d, picked, "sales", field, key))
  PROVE  Opens(d, picked, ChannelLinks(n), field, key)
<1> DEFINE items(kind) == Cardinality(Listed(d, picked, kind, field, key))
<1>1. n.leads = items("leads") /\ n.qualified = items("qualified") /\ n.sales = items("sales")
  OBVIOUS
<1>2. ASSUME NEW kind \in DOMAIN ChannelLinks(n) PROVE ChannelLinks(n)[kind] = items(kind)
  <2> HIDE DEF items
  <2> QED BY <1>1 DEF ChannelLinks
<1> QED BY <1>2 DEF Opens, Listed

LEMMA SalesOpen ==
  ASSUME NEW d, NEW picked, NEW r, NEW field, NEW key,
         r.created = Cardinality(Listed(d, picked, "deals", field, key)),
         r.inWork = Cardinality(Listed(d, picked, "inwork", field, key)),
         r.won = Cardinality(Listed(d, picked, "won", field, key)),
         r.lost = Cardinality(Listed(d, picked, "lost", field, key)),
         r.sales = Cardinality(Listed(d, picked, "sales", field, key))
  PROVE  Opens(d, picked, SalesLinks(r), field, key)
<1> DEFINE items(kind) == Cardinality(Listed(d, picked, kind, field, key))
<1>1. /\ r.created = items("deals") /\ r.inWork = items("inwork") /\ r.won = items("won") /\ r.lost = items("lost")
      /\ r.sales = items("sales")
  OBVIOUS
<1>2. ASSUME NEW kind \in DOMAIN SalesLinks(r) PROVE SalesLinks(r)[kind] = items(kind)
  <2> HIDE DEF items
  <2> QED BY <1>1 DEF SalesLinks
<1> QED BY <1>2 DEF Opens, Listed

(* A row of sales is of its elements.                                      *)
LEMMA SalesRowIs ==
  ASSUME NEW created, NEW won
  PROVE  LET r == SalesRow(created, won) IN
           /\ r.created = Cardinality(created) /\ r.inWork = Cardinality(Now(created, "process"))
           /\ r.won = Cardinality(Now(created, "success"))
           /\ r.lost = Cardinality(Now(created, "fail"))
           /\ r.sales = Cardinality(won) /\ r.revenue = Amounts(won)
BY DEF SalesRow, Now

(* The rows of channels, and what they add up to.                          *)
ChannelTable(d, outlay, picked) == [k \in ChannelKeys(d, outlay) |-> NumbersOf(d, outlay, picked, k)]

LEMMA ChannelsAre ==
  ASSUME NEW d, NEW outlay, NEW picked, NEW k \in ChannelKeys(d, outlay)
  PROVE  LET n == ChannelTable(d, outlay, picked)[k] IN
           /\ n.leads = Cardinality(At(d.leads, "source", k))
           /\ n.qualified = Cardinality(At(Qualified(d, picked), "source", k))
           /\ n.sales = Cardinality(At(d.won, "source", k))
           /\ n.revenue = Amounts(At(d.won, "source", k))
BY DEF ChannelTable, NumbersOf, At

LEMMA ReportIs ==
  ASSUME NEW d, NEW outlay, NEW picked
  PROVE  LET r == ChannelReport(d, outlay, picked)
             C == ChannelTable(d, outlay, picked)
             n == r.total.numbers IN
           /\ DOMAIN r.rows = ChannelKeys(d, outlay) /\ \A k \in ChannelKeys(d, outlay) : r.rows[k].numbers = C[k]
           /\ n.leads = ColumnSum(C, "leads") /\ n.qualified = ColumnSum(C, "qualified")
           /\ n.sales = ColumnSum(C, "sales") /\ n.revenue = ColumnSum(C, "revenue")
<1> \A n : ChannelMetrics(n).numbers = n
  BY DEF ChannelMetrics
<1> DEFINE C == ChannelTable(d, outlay, picked)
           t == [spent |-> ColumnSum(C, "spent"), paid |-> ColumnSum(C, "paid"),
                 leads |-> ColumnSum(C, "leads"), qualified |-> ColumnSum(C, "qualified"),
                 sales |-> ColumnSum(C, "sales"), revenue |-> ColumnSum(C, "revenue")]
<1>1. ChannelReport(d, outlay, picked) =
        [rows |-> [k \in ChannelKeys(d, outlay) |-> ChannelMetrics(C[k])], total |-> ChannelMetrics(t)]
  BY DEF ChannelReport, ChannelTable
<1>2. /\ t.leads = ColumnSum(C, "leads") /\ t.qualified = ColumnSum(C, "qualified")
      /\ t.sales = ColumnSum(C, "sales") /\ t.revenue = ColumnSum(C, "revenue")
  OBVIOUS
<1> HIDE DEF C, t
<1> QED BY <1>1, <1>2 DEF C

(* The total row counts everything once, whatever the source.              *)
LEMMA TotalsAre ==
  ASSUME NEW d, IsData(d), NEW outlay, IsFiniteSet(outlay), NEW picked
  PROVE  LET n == ChannelReport(d, outlay, picked).total.numbers IN
           /\ n.leads = Cardinality(d.leads) /\ n.qualified = Cardinality(Qualified(d, picked))
           /\ n.sales = Cardinality(d.won) /\ n.revenue = Amounts(d.won)
<1> DEFINE C == ChannelTable(d, outlay, picked)
           J == ChannelKeys(d, outlay)
<1>1. IsFiniteSet(d.leads) /\ IsFiniteSet(d.won) /\ IsPriced(d.won)
  BY DEF IsData, IsPriced
<1>2. Qualified(d, picked) \subseteq d.leads /\ IsFiniteSet(Qualified(d, picked))
  <2>1. Qualified(d, picked) \subseteq d.leads
    BY DEF Qualified
  <2> QED BY <1>1, <2>1, FS_Subset
<1>3. IsFiniteSet(J) /\ \A x \in d.leads \cup d.won \cup outlay : x.source \in J
  <2> DEFINE A == d.leads \cup d.won \cup outlay
             of == [x \in A |-> x.source]
  <2>1. IsFiniteSet(A)
    BY <1>1, FS_Union
  <2>2. J = {of[x] : x \in A}
    BY DEF ChannelKeys
  <2> HIDE DEF of, J
  <2>3. IsFiniteSet(J)
    BY <2>1, <2>2, FiniteImage
  <2> QED BY <2>2, <2>3 DEF of
<1>4. DOMAIN C = J
  BY DEF ChannelTable
<1> HIDE DEF C, J
<1>5. \A k \in J : /\ C[k].leads = Cardinality(At(d.leads, "source", k))
                   /\ C[k].qualified = Cardinality(At(Qualified(d, picked), "source", k))
                   /\ C[k].sales = Cardinality(At(d.won, "source", k))
                   /\ C[k].revenue = Amounts(At(d.won, "source", k))
  BY ChannelsAre DEF C, J
<1>6. ColumnSum(C, "leads") = Cardinality(d.leads)
  <2>1. IsFiniteSet(d.leads) /\ \A x \in d.leads : x["source"] \in J
    BY <1>1, <1>3
  <2>2. IsFiniteSet(J) /\ DOMAIN C = J /\ \A k \in J : C[k]["leads"] = Cardinality(At(d.leads, "source", k))
    BY <1>3, <1>4, <1>5
  <2> QED BY <2>1, <2>2, ColumnCounts
<1>7. ColumnSum(C, "qualified") = Cardinality(Qualified(d, picked))
  <2>1. IsFiniteSet(Qualified(d, picked)) /\ \A x \in Qualified(d, picked) : x["source"] \in J
    BY <1>2, <1>3
  <2>2. IsFiniteSet(J) /\ DOMAIN C = J /\ \A k \in J : C[k]["qualified"] = Cardinality(At(Qualified(d, picked), "source", k))
    BY <1>3, <1>4, <1>5
  <2> QED BY <2>1, <2>2, ColumnCounts
<1>8. ColumnSum(C, "sales") = Cardinality(d.won)
  <2>1. IsFiniteSet(d.won) /\ \A x \in d.won : x["source"] \in J
    BY <1>1, <1>3
  <2>2. IsFiniteSet(J) /\ DOMAIN C = J /\ \A k \in J : C[k]["sales"] = Cardinality(At(d.won, "source", k))
    BY <1>3, <1>4, <1>5
  <2> QED BY <2>1, <2>2, ColumnCounts
<1>9. ColumnSum(C, "revenue") = Amounts(d.won)
  <2>1. IsPriced(d.won) /\ \A x \in d.won : x["source"] \in J
    BY <1>1, <1>3
  <2>2. IsFiniteSet(J) /\ DOMAIN C = J /\ \A k \in J : C[k]["revenue"] = Amounts(At(d.won, "source", k))
    BY <1>3, <1>4, <1>5
  <2> QED BY <2>1, <2>2, ColumnEarns
<1> QED BY <1>6, <1>7, <1>8, <1>9, ReportIs DEF C

(* The rows of a breakdown, and that they add up.                          *)
LEMMA BreakdownIs ==
  ASSUME NEW d, IsData(d), NEW field
  PROVE  LET rows == SalesBreakdown(d, field)
             J == SalesKeys(d, field) IN
           /\ DOMAIN rows = J /\ IsFiniteSet(J) /\ \A x \in d.created \cup d.won : x[field] \in J
           /\ \A k \in J :
                /\ rows[k].created = Cardinality(At(d.created, field, k))
                /\ rows[k].inWork = Cardinality(At(Now(d.created, "process"), field, k))
                /\ rows[k].won = Cardinality(At(Now(d.created, "success"), field, k))
                /\ rows[k].lost = Cardinality(At(Now(d.created, "fail"), field, k))
                /\ rows[k].sales = Cardinality(At(d.won, field, k)) /\ rows[k].revenue = Amounts(At(d.won, field, k))
<1> DEFINE rows == SalesBreakdown(d, field)
           J == SalesKeys(d, field)
           A == d.created \cup d.won
           of == [x \in A |-> x[field]]
<1>1. IsFiniteSet(A)
  BY FS_Union DEF IsData, IsPriced
<1>2. J = {of[x] : x \in A}
  BY DEF SalesKeys
<1>3. IsFiniteSet(J) /\ \A x \in A : x[field] \in J
  <2> HIDE DEF J, A
  <2>1. IsFiniteSet({of[x] : x \in A})
    <3> HIDE DEF of
    <3> QED BY <1>1, FiniteImage
  <2> QED BY <1>2, <2>1
<1>4. rows = [k \in J |-> SalesRow(At(d.created, field, k), At(d.won, field, k))]
  BY DEF SalesBreakdown, At
<1>5. ASSUME NEW k
      PROVE  \A s : Now(At(d.created, field, k), s) = At(Now(d.created, s), field, k)
  BY DEF Now, At
<1> HIDE DEF rows, J, of
<1>6. \A k \in J : rows[k] = SalesRow(At(d.created, field, k), At(d.won, field, k))
  BY <1>4
<1>7. \A k \in J : /\ rows[k].created = Cardinality(At(d.created, field, k))
                   /\ rows[k].inWork = Cardinality(At(Now(d.created, "process"), field, k))
                   /\ rows[k].won = Cardinality(At(Now(d.created, "success"), field, k))
                   /\ rows[k].lost = Cardinality(At(Now(d.created, "fail"), field, k))
                   /\ rows[k].sales = Cardinality(At(d.won, field, k)) /\ rows[k].revenue = Amounts(At(d.won, field, k))
  BY <1>5, <1>6, SalesRowIs
<1> QED BY <1>3, <1>4, <1>7 DEF rows, J

LEMMA BreakdownAddsUp ==
  ASSUME NEW d, IsData(d), NEW field, NEW f \in {"created", "inWork", "won", "lost", "sales", "revenue"}
  PROVE  ColumnSum(SalesBreakdown(d, field), f) = SalesRow(d.created, d.won)[f]
<1> DEFINE rows == SalesBreakdown(d, field)
           J == SalesKeys(d, field)
<1>1. /\ DOMAIN rows = J /\ IsFiniteSet(J) /\ \A x \in d.created \cup d.won : x[field] \in J
      /\ \A k \in J :
           /\ rows[k].created = Cardinality(At(d.created, field, k))
           /\ rows[k].inWork = Cardinality(At(Now(d.created, "process"), field, k))
           /\ rows[k].won = Cardinality(At(Now(d.created, "success"), field, k))
           /\ rows[k].lost = Cardinality(At(Now(d.created, "fail"), field, k))
           /\ rows[k].sales = Cardinality(At(d.won, field, k))
           /\ rows[k].revenue = Amounts(At(d.won, field, k))
  BY BreakdownIs
<1>2. IsFiniteSet(d.created) /\ IsFiniteSet(d.won) /\ IsPriced(d.won)
  BY DEF IsData, IsPriced
<1>3. \A s : IsFiniteSet(Now(d.created, s)) /\ \A x \in Now(d.created, s) : x[field] \in J
  <2>1. \A s : Now(d.created, s) \subseteq d.created
    BY DEF Now
  <2> QED BY <1>1, <1>2, <2>1, FS_Subset
<1> DEFINE r == SalesRow(d.created, d.won)
<1>4. /\ r.created = Cardinality(d.created) /\ r.inWork = Cardinality(Now(d.created, "process"))
      /\ r.won = Cardinality(Now(d.created, "success")) /\ r.lost = Cardinality(Now(d.created, "fail"))
      /\ r.sales = Cardinality(d.won) /\ r.revenue = Amounts(d.won)
  BY SalesRowIs
<1> HIDE DEF rows, J, r
<1>5. CASE f = "created"
  <2>1. ColumnSum(rows, f) = Cardinality(d.created)
    <3>1. IsFiniteSet(d.created) /\ \A x \in d.created : x[field] \in J
      BY <1>1, <1>2, <1>3
    <3>2. IsFiniteSet(J) /\ DOMAIN rows = J /\ \A k \in J : rows[k][f] = Cardinality(At(d.created, field, k))
      BY <1>1, <1>5
    <3> QED BY <3>1, <3>2, ColumnCounts
  <2> QED BY <1>4, <1>5, <2>1 DEF rows, r
<1>6. CASE f = "inWork"
  <2>1. ColumnSum(rows, f) = Cardinality(Now(d.created, "process"))
    <3>1. IsFiniteSet(Now(d.created, "process")) /\ \A x \in Now(d.created, "process") : x[field] \in J
      BY <1>1, <1>2, <1>3
    <3>2. IsFiniteSet(J) /\ DOMAIN rows = J /\ \A k \in J : rows[k][f] = Cardinality(At(Now(d.created, "process"), field, k))
      BY <1>1, <1>6
    <3> QED BY <3>1, <3>2, ColumnCounts
  <2> QED BY <1>4, <1>6, <2>1 DEF rows, r
<1>7. CASE f = "won"
  <2>1. ColumnSum(rows, f) = Cardinality(Now(d.created, "success"))
    <3>1. IsFiniteSet(Now(d.created, "success")) /\ \A x \in Now(d.created, "success") : x[field] \in J
      BY <1>1, <1>2, <1>3
    <3>2. IsFiniteSet(J) /\ DOMAIN rows = J /\ \A k \in J : rows[k][f] = Cardinality(At(Now(d.created, "success"), field, k))
      BY <1>1, <1>7
    <3> QED BY <3>1, <3>2, ColumnCounts
  <2> QED BY <1>4, <1>7, <2>1 DEF rows, r
<1>8. CASE f = "lost"
  <2>1. ColumnSum(rows, f) = Cardinality(Now(d.created, "fail"))
    <3>1. IsFiniteSet(Now(d.created, "fail")) /\ \A x \in Now(d.created, "fail") : x[field] \in J
      BY <1>1, <1>2, <1>3
    <3>2. IsFiniteSet(J) /\ DOMAIN rows = J /\ \A k \in J : rows[k][f] = Cardinality(At(Now(d.created, "fail"), field, k))
      BY <1>1, <1>8
    <3> QED BY <3>1, <3>2, ColumnCounts
  <2> QED BY <1>4, <1>8, <2>1 DEF rows, r
<1>9. CASE f = "sales"
  <2>1. ColumnSum(rows, f) = Cardinality(d.won)
    <3>1. IsFiniteSet(d.won) /\ \A x \in d.won : x[field] \in J
      BY <1>1, <1>2, <1>3
    <3>2. IsFiniteSet(J) /\ DOMAIN rows = J /\ \A k \in J : rows[k][f] = Cardinality(At(d.won, field, k))
      BY <1>1, <1>9
    <3> QED BY <3>1, <3>2, ColumnCounts
  <2> QED BY <1>4, <1>9, <2>1 DEF rows, r
<1>10. CASE f = "revenue"
  <2>1. ColumnSum(rows, f) = Amounts(d.won)
    <3>1. IsPriced(d.won) /\ \A x \in d.won : x[field] \in J
      BY <1>1, <1>2, <1>3
    <3>2. IsFiniteSet(J) /\ DOMAIN rows = J /\ \A k \in J : rows[k][f] = Amounts(At(d.won, field, k))
      BY <1>1, <1>10
    <3> QED BY <3>1, <3>2, ColumnEarns
  <2> QED BY <1>4, <1>10, <2>1 DEF rows, r
<1> QED BY <1>5, <1>6, <1>7, <1>8, <1>9, <1>10

(* Both halves of the theorem, for the data of any load.                   *)
LEMMA FiguresDoOpen ==
  ASSUME NEW d, IsData(d), NEW outlay, IsFiniteSet(outlay), NEW picked
  PROVE  FiguresOpenLists(d, outlay, picked)
<1> DEFINE channels == ChannelReport(d, outlay, picked)
           total == SalesRow(d.created, d.won)
<1>1. ASSUME NEW k \in DOMAIN channels.rows
      PROVE  LET n == channels.rows[k].numbers IN
               Opens(d, picked, ChannelLinks(n), "source", k) /\ Earned(d, picked, n, "source", k)
  <2> DEFINE n == channels.rows[k].numbers
  <2>1. /\ n.leads = Cardinality(At(d.leads, "source", k))
        /\ n.qualified = Cardinality(At(Qualified(d, picked), "source", k))
        /\ n.sales = Cardinality(At(d.won, "source", k))
        /\ n.revenue = Amounts(At(d.won, "source", k))
    BY ReportIs, ChannelsAre
  <2> HIDE DEF n
  <2>2. /\ Listed(d, picked, "leads", "source", k) = At(d.leads, "source", k)
        /\ Listed(d, picked, "qualified", "source", k) = At(Qualified(d, picked), "source", k)
        /\ Listed(d, picked, "sales", "source", k) = At(d.won, "source", k)
    BY ListsAre DEF Within
  <2>3. Opens(d, picked, ChannelLinks(n), "source", k)
    BY <2>1, <2>2, ChannelOpens
  <2>4. Earned(d, picked, n, "source", k)
    BY <2>1, <2>2 DEF Earned, Listed
  <2> QED BY <2>3, <2>4 DEF n
<1>2. /\ Opens(d, picked, ChannelLinks(channels.total.numbers), "any", None)
      /\ Earned(d, picked, channels.total.numbers, "any", None)
  <2> DEFINE n == channels.total.numbers
  <2>1. /\ n.leads = Cardinality(d.leads) /\ n.qualified = Cardinality(Qualified(d, picked))
        /\ n.sales = Cardinality(d.won) /\ n.revenue = Amounts(d.won)
    BY TotalsAre
  <2> HIDE DEF n
  <2>2. /\ Listed(d, picked, "leads", "any", None) = d.leads
        /\ Listed(d, picked, "qualified", "any", None) = Qualified(d, picked)
        /\ Listed(d, picked, "sales", "any", None) = d.won
    BY ListsAre DEF Within
  <2>3. Opens(d, picked, ChannelLinks(n), "any", None)
    BY <2>1, <2>2, ChannelOpens
  <2> QED BY <2>1, <2>2, <2>3 DEF Earned, Listed, n
<1>3. ASSUME NEW field \in {"source", "manager"}, NEW k \in DOMAIN SalesBreakdown(d, field)
      PROVE  LET r == SalesBreakdown(d, field)[k] IN
               Opens(d, picked, SalesLinks(r), field, k) /\ Earned(d, picked, r, field, k)
  <2> DEFINE r == SalesBreakdown(d, field)[k]
  <2>1. /\ r.created = Cardinality(At(d.created, field, k)) /\ r.inWork = Cardinality(At(Now(d.created, "process"), field, k))
        /\ r.won = Cardinality(At(Now(d.created, "success"), field, k)) /\ r.lost = Cardinality(At(Now(d.created, "fail"), field, k))
        /\ r.sales = Cardinality(At(d.won, field, k)) /\ r.revenue = Amounts(At(d.won, field, k))
    BY BreakdownIs
  <2> HIDE DEF r
  <2>2. /\ Listed(d, picked, "deals", field, k) = At(d.created, field, k)
        /\ Listed(d, picked, "inwork", field, k) = At(Now(d.created, "process"), field, k)
        /\ Listed(d, picked, "won", field, k) = At(Now(d.created, "success"), field, k)
        /\ Listed(d, picked, "lost", field, k) = At(Now(d.created, "fail"), field, k)
        /\ Listed(d, picked, "sales", field, k) = At(d.won, field, k)
    BY ListsAre DEF Within
  <2>3. Opens(d, picked, SalesLinks(r), field, k)
    BY <2>1, <2>2, SalesOpen
  <2> QED BY <2>1, <2>2, <2>3 DEF Earned, Listed, r
<1>4. Opens(d, picked, SalesLinks(total), "any", None) /\ Earned(d, picked, total, "any", None)
  <2>1. /\ total.created = Cardinality(d.created) /\ total.inWork = Cardinality(Now(d.created, "process"))
        /\ total.won = Cardinality(Now(d.created, "success")) /\ total.lost = Cardinality(Now(d.created, "fail"))
        /\ total.sales = Cardinality(d.won) /\ total.revenue = Amounts(d.won)
    BY SalesRowIs
  <2> HIDE DEF total
  <2>2. /\ Listed(d, picked, "deals", "any", None) = d.created
        /\ Listed(d, picked, "inwork", "any", None) = Now(d.created, "process")
        /\ Listed(d, picked, "won", "any", None) = Now(d.created, "success")
        /\ Listed(d, picked, "lost", "any", None) = Now(d.created, "fail")
        /\ Listed(d, picked, "sales", "any", None) = d.won
    BY ListsAre DEF Within
  <2>3. Opens(d, picked, SalesLinks(total), "any", None)
    BY <2>1, <2>2, SalesOpen
  <2> QED BY <2>1, <2>2, <2>3 DEF Earned, Listed
<1>5. SalesReport(d).total = total
  BY DEF SalesReport
<1> HIDE DEF channels, total
<1> QED BY <1>1, <1>2, <1>3, <1>4, <1>5 DEF FiguresOpenLists, channels

LEMMA PagesDoAgree ==
  ASSUME NEW d, IsData(d), NEW outlay, IsFiniteSet(outlay), NEW picked
  PROVE  PagesShowTheSame(d, outlay, picked)
<1> DEFINE total == SalesRow(d.created, d.won)
           sales == SalesReport(d)
           n == ChannelReport(d, outlay, picked).total.numbers
<1>1. sales.total = total /\ sales.byChannel = SalesBreakdown(d, "source") /\ sales.byManager = SalesBreakdown(d, "manager")
  BY DEF SalesReport
<1>2. n.sales = total.sales /\ n.revenue = total.revenue
  BY TotalsAre, SalesRowIs
<1> HIDE DEF total, sales, n
<1>3. \A field : \A f \in {"created", "inWork", "won", "lost", "sales", "revenue"} :
        ColumnSum(SalesBreakdown(d, field), f) = total[f]
  BY BreakdownAddsUp DEF total
<1>4. \A rows \in {sales.byChannel, sales.byManager}, f \in {"created", "inWork", "won", "lost", "sales", "revenue"} :
        ColumnSum(rows, f) = sales.total[f]
  <2>1. \A f \in {"created", "inWork", "won", "lost", "sales", "revenue"} :
          ColumnSum(sales.byChannel, f) = total[f] /\ ColumnSum(sales.byManager, f) = total[f]
    <3> TAKE f \in {"created", "inWork", "won", "lost", "sales", "revenue"}
    <3>1. ColumnSum(SalesBreakdown(d, "source"), f) = total[f]
      BY <1>3
    <3>2. ColumnSum(SalesBreakdown(d, "manager"), f) = total[f]
      BY <1>3
    <3> QED BY <1>1, <3>1, <3>2
  <2> QED BY <1>1, <2>1
<1>5. n.sales = sales.total.sales /\ n.revenue = sales.total.revenue
  BY <1>1, <1>2
<1> QED BY <1>4, <1>5 DEF PagesShowTheSame, sales, n

(* The forecast of a month.                                                *)
LEMMA RoundedAtLeast ==
  ASSUME NEW a \in Nat, NEW b \in Nat \ {0}, NEW n \in Nat, n * b <= a
  PROVE  RoundedDiv(a, b) >= n
<1> DEFINE q == RoundedDiv(a, b)
<1>1. q \in Nat /\ 2 * a + b < (q + 1) * (2 * b)
  <2> DEFINE x == 2 * a + b
             y == 2 * b
  <2>1. x \in Nat /\ y \in Nat \ {0}
    OBVIOUS
  <2> HIDE DEF x, y
  <2>2. x \div y \in Nat /\ x < (x \div y + 1) * y
    BY <2>1, Z3
  <2> QED BY <2>2 DEF RoundedDiv, x, y
<1> HIDE DEF q
<1>2. ASSUME q < n PROVE FALSE
  <2>1. (q + 1) * b <= n * b
    BY <1>1, <1>2
  <2>2. (q + 1) * (2 * b) = 2 * ((q + 1) * b)
    BY <1>1
  <2> QED BY <1>1, <2>1, <2>2
<1> QED BY <1>1, <1>2 DEF q

(* Whatever is planned and however far the month has come: a forecast is   *)
(* never below what is already there, is the fact of a month that is over  *)
(* and nothing of one to come (planFact).                                  *)
THEOREM ForecastsAreFair ==
  ASSUME NEW plan, NEW fact \in Nat, NEW month \in Int, NEW current \in Int, NEW day \in Nat, NEW total \in Nat \ {0}
  PROVE  ForecastIsFair(plan, fact, month, current, day, total)
<1> DEFINE elapsed == Progress(month, current, day, total)
           ahead == RoundedDiv(fact * total, elapsed)
           row == PlanFactRow(plan, fact, elapsed, total)
<1>1. elapsed \in Nat /\ (month < current => elapsed = total) /\ (month > current => elapsed = 0)
  BY DEF Progress
<1> HIDE DEF elapsed
<1>2. /\ row.fact = fact
      /\ elapsed <= 0 => row.forecast = 0
      /\ elapsed > 0 /\ elapsed >= total => row.forecast = fact
      /\ elapsed > 0 /\ elapsed < total => row.forecast = ahead
  <2> DEFINE done == IF plan = None THEN None ELSE PercentOf(fact, plan)
             forecast == CASE elapsed <= 0 -> 0 [] elapsed >= total -> fact [] OTHER -> ahead
  <2>1. row = [plan |-> plan, fact |-> fact, done |-> done, forecast |-> forecast]
    BY DEF PlanFactRow
  <2> HIDE DEF ahead, done, row
  <2>2. /\ elapsed <= 0 => forecast = 0
        /\ elapsed > 0 /\ elapsed >= total => forecast = fact
        /\ elapsed > 0 /\ elapsed < total => forecast = ahead
    BY <1>1
  <2> HIDE DEF forecast
  <2> QED BY <2>1, <2>2
<1> HIDE DEF row
<1>3. ASSUME elapsed > 0, elapsed < total PROVE ahead >= fact
  <2>1. fact * elapsed <= fact * total /\ fact * total \in Nat
    BY <1>1, <1>3
  <2> QED BY <1>1, <1>3, <2>1, RoundedAtLeast
<1> QED BY <1>1, <1>2, <1>3 DEF ForecastIsFair, row, elapsed

(* In every CRM, with every spend, outcome of stages and failure of a      *)
(* reading: the figures of the marketing and sales pages are the lists     *)
(* they open, and the pages agree (marketingReport, salesReport,           *)
(* marketingItems).                                                        *)
THEOREM MarketingPagesAgree ==
  ASSUME NEW I, NEW C, NEW S, NEW M, NEW G, NEW X, NEW D,
         NEW elements \in SUBSET CardsOfCrm(I, C, S, M, G, X, D), IsFiniteSet(elements),
         NEW parts, NEW ruled, NEW stages, NEW failing, NEW period, NEW outlay, IsFiniteSet(outlay), NEW picked
  PROVE  LET d == LoadMarketing(elements, parts, ruled, stages, failing, period) IN
           FiguresOpenLists(d, outlay, picked) /\ PagesShowTheSame(d, outlay, picked)
BY LoadsAreData, FiguresDoOpen, PagesDoAgree
=============================================================================
