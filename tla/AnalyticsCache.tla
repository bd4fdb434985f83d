--------------------------- MODULE AnalyticsCache ---------------------------
(***************************************************************************)
(* The analytics data of one project in the memory of the server process:  *)
(* a cache with two ages, one shared load at a time, and invalidation when *)
(* the settings the data is read under are changed.                        *)
(*                                                                         *)
(* A page reads the settings, then looks at the cache and joins or starts  *)
(* a load without giving way to others.  Data is known only by the version *)
(* of the settings it was read under.                                      *)
(***************************************************************************)
EXTENDS Naturals, FiniteSets

CONSTANTS
  Requests,     \* pages that can be in progress at once
  Loads,        \* rounds of Bitrix24 calls that can be in progress at once
  NoLoad,
  MaxVersion    \* bound on the number of times the settings are saved

ASSUME LoadAssumption == NoLoad \notin Loads /\ IsFiniteSet(Loads)

ASSUME VersionAssumption == MaxVersion \in Nat

VARIABLES
  settings,  \* version of the settings in the database
  owed,      \* saves whose invalidation has not run yet
  epoch,     \* number of invalidations so far
  cache,     \* CacheEntry of the project
  inflight,  \* the load registered for the project
  loads,     \* rounds of calls in progress
  req        \* what each page has read and is waiting for

vars == <<settings, owed, epoch, cache, inflight, loads, req>>

-----------------------------------------------------------------------------
Versions == 0..MaxVersion

Ages == {"none", "fresh", "stale", "old"}

CacheEntry == [age : Ages, version : Versions, epoch : Versions]

Cached(age, v, n) == [age |-> age, version |-> v, epoch |-> n]

NoCache == Cached("none", 0, 0)

Load == [running : BOOLEAN, version : Versions, epoch : Versions]

Round(v, n) == [running |-> TRUE, version |-> v, epoch |-> n]

NoRound == [running |-> FALSE, version |-> 0, epoch |-> 0]

ReqSteps == {"idle", "read", "wait"}

Request == [at : ReqSteps, version : Versions, load : Loads \cup {NoLoad}]

Req(at, v, l) == [at |-> at, version |-> v, load |-> l]

IdleReq == Req("idle", 0, NoLoad)

Init ==
  /\ settings = 0 /\ owed = 0 /\ epoch = 0
  /\ cache = NoCache
  /\ inflight = NoLoad
  /\ loads = [l \in Loads |-> NoRound]
  /\ req = [r \in Requests |-> IdleReq]

-----------------------------------------------------------------------------
(* Names ending in an underscore and a fault are faulty variants of the    *)
(* definition that follows them; no specification uses them.               *)

(* Time fields, stage rules or the project's link are saved, and then      *)
(* invalidateAnalytics drops the data and forgets the load in progress.    *)

SaveSettings ==
  /\ settings < MaxVersion
  /\ settings' = settings + 1
  /\ owed' = owed + 1
  /\ UNCHANGED <<epoch, cache, inflight, loads, req>>

Invalidate_KeepsInflight ==
  /\ owed > 0
  /\ owed' = owed - 1
  /\ epoch' = epoch + 1
  /\ cache' = NoCache
  /\ UNCHANGED <<settings, inflight, loads, req>>

Invalidate ==
  /\ owed > 0
  /\ owed' = owed - 1
  /\ epoch' = epoch + 1
  /\ cache' = NoCache
  /\ inflight' = NoLoad
  /\ UNCHANGED <<settings, loads, req>>

(* Five minutes pass, then a day.                                          *)
Age ==
  /\ \/ cache.age = "fresh" /\ cache' = Cached("stale", cache.version, cache.epoch)
     \/ cache.age = "stale" /\ cache' = Cached("old", cache.version, cache.epoch)
  /\ UNCHANGED <<settings, owed, epoch, inflight, loads, req>>

-----------------------------------------------------------------------------
(* loadAnalytics.                                                          *)

ReadSettings(r) ==
  /\ req[r].at = "idle"
  /\ req' = [req EXCEPT ![r] = Req("read", settings, NoLoad)]
  /\ UNCHANGED <<settings, owed, epoch, cache, inflight, loads>>

ServeFresh(r) ==
  /\ req[r].at = "read"
  /\ cache.age = "fresh"
  /\ req' = [req EXCEPT ![r] = IdleReq]
  /\ UNCHANGED <<settings, owed, epoch, cache, inflight, loads>>

(* loadOnce: the page shares the registered load or registers one of its   *)
(* own, which will read under the settings the page has read.              *)
StartLoad(l, v) ==
  /\ ~loads[l].running
  /\ loads' = [loads EXCEPT ![l] = Round(v, epoch)]
  /\ inflight' = l

LoadOnce_AlwaysStarts(l, v) == StartLoad(l, v)

LoadOnce(l, v) ==
  \/ inflight = l /\ UNCHANGED <<inflight, loads>>
  \/ inflight = NoLoad /\ StartLoad(l, v)

ServeStale(r) ==
  /\ req[r].at = "read"
  /\ cache.age = "stale"
  /\ \E l \in Loads : LoadOnce(l, req[r].version)
  /\ req' = [req EXCEPT ![r] = IdleReq]
  /\ UNCHANGED <<settings, owed, epoch, cache>>

(* With nothing young enough to show, or at any age when the reader asked  *)
(* for a refresh, the page waits.                                          *)
WaitForLoad_NoPromise(r) ==
  /\ req[r].at = "read"
  /\ \E l \in Loads : LoadOnce(l, req[r].version)
  /\ req' = [req EXCEPT ![r] = Req("wait", req[r].version, NoLoad)]
  /\ UNCHANGED <<settings, owed, epoch, cache>>

WaitForLoad(r) ==
  /\ req[r].at = "read"
  /\ \E l \in Loads :
       /\ LoadOnce(l, req[r].version)
       /\ req' = [req EXCEPT ![r] = Req("wait", req[r].version, l)]
  /\ UNCHANGED <<settings, owed, epoch, cache>>

(* The load ends: everyone who waits for it is answered, with its data or, *)
(* if it failed, with older data or none.                                  *)

Ended(l) ==
  /\ loads' = [loads EXCEPT ![l] = NoRound]
  /\ req' = [r \in Requests |-> IF req[r].load = l THEN IdleReq ELSE req[r]]

LoadSucceeds(l) ==
  /\ loads[l].running
  /\ IF inflight = l
     THEN /\ cache' = Cached("fresh", loads[l].version, loads[l].epoch)
          /\ inflight' = NoLoad
     ELSE UNCHANGED <<cache, inflight>>
  /\ Ended(l)
  /\ UNCHANGED <<settings, owed, epoch>>

LoadFails_StaysRegistered(l) ==
  /\ loads[l].running
  /\ Ended(l)
  /\ UNCHANGED <<settings, owed, epoch, cache, inflight>>

LoadFails(l) ==
  /\ loads[l].running
  /\ inflight' = IF inflight = l THEN NoLoad ELSE inflight
  /\ Ended(l)
  /\ UNCHANGED <<settings, owed, epoch, cache>>

-----------------------------------------------------------------------------
Next ==
  \/ SaveSettings
  \/ Invalidate
  \/ Age
  \/ \E r \in Requests : ReadSettings(r) \/ ServeFresh(r) \/ ServeStale(r) \/ WaitForLoad(r)
  \/ \E l \in Loads : LoadSucceeds(l) \/ LoadFails(l)

Spec == Init /\ [][Next]_vars

(* Fairness: a round of Bitrix24 calls ends (every call has a timeout),    *)
(* and a page that has read the settings goes on.                          *)
FairSpec ==
  /\ Spec
  /\ \A l \in Loads : WF_vars(LoadSucceeds(l) \/ LoadFails(l))
  /\ \A r \in Requests : WF_vars(ServeFresh(r) \/ ServeStale(r) \/ WaitForLoad(r))

-----------------------------------------------------------------------------
(* Type invariant.                                                         *)
TypeOK ==
  /\ settings \in Versions /\ owed \in Versions /\ epoch \in Versions
  /\ cache \in CacheEntry
  /\ inflight \in Loads \cup {NoLoad}
  /\ loads \in [Loads -> Load]
  /\ req \in [Requests -> Request]
  /\ \A r \in Requests : req[r].at = "wait" <=> req[r].load # NoLoad

(* What is cached was loaded from start to end since the last              *)
(* invalidation: a load that was running when the settings changed never   *)
(* reaches the cache, though it ends long after.                           *)
CachedSinceInvalidation == cache.age # "none" => cache.epoch = epoch

(* Pages that ask for the project between two invalidations share one      *)
(* round of Bitrix24 calls.                                                *)
OneRoundOfCalls ==
  \A k, l \in Loads :
    loads[k].running /\ loads[l].running /\ loads[k].epoch = loads[l].epoch => k = l

(* A page that waits, waits for a load that is running: no page is left    *)
(* behind by a load that ended or was forgotten.                           *)
WaitersHaveALoad ==
  \A r \in Requests : req[r].at = "wait" => loads[req[r].load].running

(* What the cache and the shared loads owe the pages at any moment.        *)
CacheSound == TypeOK /\ CachedSinceInvalidation /\ OneRoundOfCalls /\ WaitersHaveALoad

(* Every page is answered in the end, whatever fails and whatever is       *)
(* invalidated meanwhile.                                                  *)
PagesAnswered == \A r \in Requests : req[r].at = "read" ~> req[r].at = "idle"

=============================================================================
