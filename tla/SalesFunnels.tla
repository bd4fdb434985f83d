---------------------------- MODULE SalesFunnels ----------------------------
(***************************************************************************)
(* The nightly snapshot of deals by funnel and outcome: read from Bitrix24 *)
(* whole, then written row by row in one transaction, which also deletes   *)
(* rows no deal is behind any more.  Nothing keeps two runs apart.         *)
(*                                                                         *)
(* A key is a funnel with an outcome; a row is known by its number of      *)
(* deals, 0 where there is no row.  A row written in a transaction is      *)
(* locked until it ends; other transactions see what was committed.        *)
(***************************************************************************)
EXTENDS Integers, FiniteSets

CONSTANTS
  Keys,       \* funnel and outcome
  Syncs,      \* runs of the job
  MaxDeals    \* bound on the deals of a key

ASSUME SalesFunnelsAssumption == MaxDeals \in Nat /\ IsFiniteSet(Syncs)

VARIABLES
  deals,     \* [Keys -> Nat]: deals in Bitrix24
  snapshot,  \* [Keys -> Nat]: committed rows
  sync,      \* the runs
  whole      \* what the last run that met no other has read

funnelVars == <<deals, snapshot, sync, whole>>

NoRows == [k \in Keys |-> 0]

NoSync == [pc |-> "idle", read |-> NoRows, todo |-> {}, written |-> {}, stale |-> {}, met |-> FALSE]

FunnelsInit ==
  /\ deals \in [Keys -> 0 .. MaxDeals] /\ snapshot = NoRows
  /\ sync = [r \in Syncs |-> NoSync]
  /\ whole = [known |-> TRUE, rows |-> NoRows]

DealMoves ==
  /\ \E k, l \in Keys : k # l /\ deals[k] > 0 /\ deals[l] < MaxDeals
                          /\ deals' = [deals EXCEPT ![k] = @ - 1, ![l] = @ + 1]
  /\ UNCHANGED <<snapshot, sync, whole>>

(* fetchAllDeals.  A call that fails leaves the last snapshot as it is.    *)
FetchDeals(r) ==
  /\ sync[r].pc = "idle"
  /\ sync' = [sync EXCEPT ![r] = [NoSync EXCEPT !.pc = "read", !.read = deals]]
  /\ UNCHANGED <<deals, snapshot, whole>>

Writing == {r \in Syncs : sync[r].pc \in {"writing", "deleting"}}

Begin(r) ==
  /\ sync[r].pc = "read"
  /\ sync' = [q \in Syncs |->
       IF q = r THEN [sync[r] EXCEPT !.pc = "writing", !.todo = {k \in Keys : sync[r].read[k] > 0}, !.met = Writing # {}]
       ELSE IF q \in Writing THEN [sync[q] EXCEPT !.met = TRUE] ELSE sync[q]]
  /\ UNCHANGED <<deals, snapshot, whole>>

Free(r, k) == \A q \in Writing \ {r} : k \notin sync[q].written

Upsert(r) ==
  /\ sync[r].pc = "writing"
  /\ \E k \in sync[r].todo :
       Free(r, k) /\ sync' = [sync EXCEPT ![r].todo = @ \ {k}, ![r].written = @ \cup {k}]
  /\ UNCHANGED <<deals, snapshot, whole>>

Stale_Never(r) == {}

Stale(r) == {k \in Keys : snapshot[k] > 0 /\ sync[r].read[k] = 0}

FindStale(r) ==
  /\ sync[r].pc = "writing" /\ sync[r].todo = {}
  /\ sync' = [sync EXCEPT ![r].pc = "deleting", ![r].stale = Stale(r)]
  /\ UNCHANGED <<deals, snapshot, whole>>

RowsAfter(r) ==
  [k \in Keys |-> IF k \in sync[r].written THEN sync[r].read[k]
                  ELSE IF k \in sync[r].stale THEN 0 ELSE snapshot[k]]

Commit(r) ==
  /\ sync[r].pc = "deleting" /\ \A k \in sync[r].stale : Free(r, k)
  /\ snapshot' = RowsAfter(r)
  /\ whole' = IF sync[r].met THEN [known |-> FALSE, rows |-> NoRows] ELSE [known |-> TRUE, rows |-> sync[r].read]
  /\ sync' = [sync EXCEPT ![r] = NoSync]
  /\ UNCHANGED deals

(* A write fails, or the database ends one of two runs that wait for each  *)
(* other; nothing of the run is left.                                      *)
Abort(r) ==
  /\ sync[r].pc # "idle" /\ sync' = [sync EXCEPT ![r] = NoSync]
  /\ UNCHANGED <<deals, snapshot, whole>>

FunnelsNext ==
  \/ DealMoves
  \/ \E r \in Syncs : FetchDeals(r) \/ Begin(r) \/ Upsert(r) \/ FindStale(r) \/ Commit(r) \/ Abort(r)

(* listSalesFunnels: nothing where there is no row.                        *)
FunnelReport == [k \in Keys |-> snapshot[k]]

-----------------------------------------------------------------------------
(* The report shows one reading of Bitrix24, whole: no row of another      *)
(* night stays beside it, none is missing, at any moment of a run and      *)
(* after one that failed, unless two runs wrote at once; and then the next *)
(* run that meets no other sets it right.                                  *)
SnapshotOfOneReading == whole.known => FunnelReport = whole.rows
=============================================================================
