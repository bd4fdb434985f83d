----------------------------- MODULE MCReports -----------------------------
(***************************************************************************)
(* Figures and books of a small portal.  The reports over its activity     *)
(* (Reports) and its books (Ledger) have no state in common: one of the    *)
(* two moves, the other keeps its first state.  The books are of two       *)
(* portals: "here" with two projects, one of them archived, and "there",   *)
(* whose rows no session of "here" may reach.                              *)
(***************************************************************************)
EXTENDS Reports, Ledger, TLC

VARIABLE part

(* Nobody reads the reports: a support month without hours.                *)
StillReports ==
  /\ zone = [before |-> 0, after |-> 0, shift |-> 0] /\ now = FirstInstant
  /\ world = NoActivity /\ month = [NoMonth EXCEPT !.rate = 0]

(* The books with a request under way: nobody reads them.                  *)
StillBooks ==
  /\ cats = FirstCats /\ streams = FirstStreams /\ entries = [e \in Entries |-> Absent]
  /\ journal = [e \in Entries |-> 0] /\ reqs = [r \in Reqs |-> [Idle EXCEPT !.pc = "commit"]]
  /\ ops = 0 /\ late = {}

MCInit ==
  /\ part \in {"reports", "books"}
  /\ IF part = "reports" THEN ReportsInit /\ StillBooks ELSE StillReports /\ Init

MCNext ==
  /\ UNCHANGED part
  /\ \/ part = "reports" /\ ReportsNext /\ UNCHANGED vars
     \/ part = "books" /\ Next /\ UNCHANGED reportVars

MCSpec == MCInit /\ [][MCNext]_<<reportVars, vars, part>>

-----------------------------------------------------------------------------
AYear == <<2, 1, 2, 1, 2, 1, 2, 1, 2, 1, 2, 1>>

Actors == [boss |-> [portal |-> "here", role |-> "MANAGER", user |-> "boss"],
           ann |-> [portal |-> "here", role |-> "EMPLOYEE", user |-> "ann"]]

SomeProjects ==
  {[id |-> "p1", portal |-> "here", name |-> 1, status |-> "ACTIVE", members |-> {"ann"}],
   [id |-> "p2", portal |-> "here", name |-> 2, status |-> "ARCHIVED", members |-> {}],
   [id |-> "q1", portal |-> "there", name |-> 1, status |-> "ACTIVE", members |-> {}]}

ACategory(portal, kind) ==
  [exists |-> TRUE, portal |-> portal, kind |-> kind, name |-> "n1", archived |-> FALSE]

SomeCats == 1 :> ACategory("here", "EXPENSE") @@ 2 :> ACategory("here", "INCOME")
              @@ 3 :> ACategory("there", "EXPENSE")

SomeStreams == 1 :> [exists |-> TRUE, portal |-> "here", project |-> "p1", archived |-> FALSE]
                 @@ 2 :> [exists |-> TRUE, portal |-> "there", project |-> "q1", archived |-> FALSE]

AnEntry(portal, project, category, stream) ==
  [exists |-> TRUE, portal |-> portal, deleted |-> FALSE, project |-> project,
   category |-> category, direction |-> "EXPENSE", stream |-> stream,
   planned |-> None]

SomeEntries == 1 :> AnEntry("here", "p1", 1, 1) @@ 2 :> AnEntry("there", "q1", 3, 2)

AFact(budget, amount, day, created) ==
  [budget |-> budget, amount |-> amount, day |-> day, created |-> created]

(* The first day is of the month of this day, the last of a later one;     *)
(* two entries were created at once.                                       *)
SomeFacts == 1 :> AFact("FACT", 1, 1, 7) @@ 2 :> AFact("FACT", 2, 1, 7) @@ 3 :> AFact("PLAN", 4, 3, 7)

SameRequests == Permutations(Reqs)

(* Zones for TLC.  Six hours make a day, and the clocks go forward, back, *)
(* or not at all, by an hour, east or west of UTC.                         *)
AZone(before, after, shift) == [before |-> before, after |-> after, shift |-> shift]

SmallZones ==
  { AZone(b, b, 0) : b \in {-2, 0, 3} }
    \cup { z \in { AZone(b, b + c, s) : b \in {-1, 1}, c \in {-1, 1}, s \in 12 .. 17 } : KeepsDays(z) }

OneZone == {AZone(3, 3, 0)}

SameForAll == Permutations(People) \cup SameRequests
=============================================================================
