---------------------------- MODULE PortalTokens ----------------------------
(***************************************************************************)
(* A portal's installation (lib/bitrix/auth, client, events, portal-data   *)
(* and the routes of api/bitrix): every opening of the app posts to the    *)
(* install URL with the opener's tokens, calls of Bitrix24 refresh the     *)
(* stored pair when it expires, and an uninstall deactivates or purges.    *)
(* Calls of Bitrix24 and writes of the row may fail at any time.           *)
(*                                                                         *)
(* A pair of tokens is an index into pairs.  A request keeps what it has   *)
(* read; "saw" is the pair that was stored when it last looked.  All       *)
(* requests are of one server process and end together when it stops.      *)
(***************************************************************************)
EXTENDS Integers, Sequences

CONSTANTS
  None,
  People, Admins,   \* who opens the app, the admins of Bitrix24 among them
  Requests,         \* slots for requests running at once
  MaxPairs, MaxEras,
  RefreshOnce       \* whether Bitrix24 takes a refresh token only once

ASSUME AdminsAssumption == Admins \subseteq People /\ RefreshOnce \in BOOLEAN /\ None \notin Nat

VARIABLES
  installed,   \* Bitrix24 has the application
  pairs,       \* the pairs of tokens issued
  portal,      \* the row of the portal; its era counts the rows there were
  stocked,     \* the portal has a category
  seeds,       \* how often the defaults were created since it had none
  reqs,
  lost,        \* pairs refreshed whose successor was never stored
  overtaken,   \* openings that counted no category before the first one came
  revived      \* an opening kept a token an uninstall had taken meanwhile

categoryVars == <<stocked, seeds, overtaken>>
tokenVars == <<installed, pairs, portal, categoryVars, reqs, lost, revived>>

NoPortal == [exists |-> FALSE, era |-> 0, active |-> FALSE, auth |-> None, refresh |-> None]

Free ==
  [op |-> "none", pc |-> "none", user |-> None, pair |-> None, keep |-> FALSE, saw |-> None,
   era |-> 0, auth |-> None, refresh |-> None, retried |-> FALSE, calls |-> 0]

TokenInit ==
  /\ installed = FALSE /\ pairs = <<>> /\ portal = NoPortal /\ stocked = FALSE /\ seeds = 0
  /\ reqs = [r \in Requests |-> Free]
  /\ lost = {} /\ overtaken = {} /\ revived = FALSE

At(r, pc) == reqs[r].pc = pc

Step(r, req) == reqs' = [reqs EXCEPT ![r] = req]

Issue(by) == pairs' = Append(pairs, [by |-> by, fresh |-> TRUE, usable |-> TRUE, alive |-> TRUE])

Here(r) == portal.exists /\ portal.era = reqs[r].era

-----------------------------------------------------------------------------
(* Bitrix24 and the process.                                               *)

Install ==
  /\ ~installed /\ installed' = TRUE
  /\ UNCHANGED <<pairs, portal, categoryVars, reqs, lost, revived>>

Expire ==
  \E p \in DOMAIN pairs :
    /\ pairs[p].fresh /\ portal.auth = p
    /\ pairs' = [pairs EXCEPT ![p].fresh = FALSE]
    /\ UNCHANGED <<installed, portal, categoryVars, reqs, lost, revived>>

(* A request at "store" holds a pair that nobody else will store.          *)
Crash ==
  /\ \E r \in Requests : reqs[r] # Free
  /\ lost' = lost \cup { reqs[r].refresh : r \in { q \in Requests : At(q, "store") } }
  /\ reqs' = [r \in Requests |-> Free] /\ overtaken' = {}
  /\ UNCHANGED <<installed, pairs, portal, stocked, seeds, revived>>

-----------------------------------------------------------------------------
(* Opening the app: POST /api/bitrix/install.                              *)

Open(r) ==
  \E u \in People :
    /\ installed /\ reqs[r] = Free /\ Len(pairs) < MaxPairs
    /\ Issue(u)
    /\ Step(r, [Free EXCEPT !.op = "open", !.pc = "look", !.user = u, !.pair = Len(pairs) + 1, !.calls = 2])
    /\ UNCHANGED <<installed, portal, categoryVars, lost, revived>>

(* shouldKeepPortalToken: user.admin is asked with the opener's token and  *)
(* may fail.                                                               *)
KeepToken_Never(u, answered) == FALSE

KeepToken_IfKnown(u, answered) == portal.exists /\ ~(u \in Admins /\ answered)

KeepToken(u, answered) ==
  portal.exists /\ portal.auth # None /\ portal.active /\ ~(u \in Admins /\ answered)

Look(r) ==
  /\ reqs[r].op = "open" /\ At(r, "look")
  /\ \E answered \in BOOLEAN :
       /\ answered => pairs[reqs[r].pair].alive
       /\ Step(r, [reqs[r] EXCEPT !.pc = "upsert", !.saw = portal.auth,
                                  !.keep = KeepToken(reqs[r].user, answered)])
  /\ UNCHANGED <<installed, pairs, portal, categoryVars, lost, revived>>

(* upsertPortalFromInstall                                                 *)
Upsert(r) ==
  /\ At(r, "upsert")
  /\ LET q == reqs[r]
         row == CASE ~portal.exists -> [exists |-> TRUE, era |-> portal.era + 1, active |-> TRUE,
                                        auth |-> q.pair, refresh |-> q.pair]
                  [] portal.exists /\ q.keep -> [portal EXCEPT !.active = TRUE]
                  [] OTHER -> [portal EXCEPT !.active = TRUE, !.auth = q.pair, !.refresh = q.pair]
     IN  /\ portal' = row
         /\ revived' = IF row.auth = None THEN revived \/ q.saw # None ELSE FALSE
         /\ Step(r, [q EXCEPT !.pc = "count", !.era = row.era, !.auth = row.auth])
  /\ UNCHANGED <<installed, pairs, categoryVars, lost>>

(* Any category counts, archived or not; those that are not used by an     *)
(* entry may all be deleted.                                               *)
CountCategories_NotAtAll(r) ==
  /\ At(r, "count")
  /\ Step(r, [reqs[r] EXCEPT !.pc = "seed"])
  /\ UNCHANGED <<installed, pairs, portal, categoryVars, lost, revived>>

CountCategories(r) ==
  /\ At(r, "count")
  /\ Step(r, [reqs[r] EXCEPT !.pc = IF Here(r) /\ stocked THEN "call" ELSE "seed"])
  /\ UNCHANGED <<installed, pairs, portal, categoryVars, lost, revived>>

AboutToSeed == { r \in Requests : At(r, "seed") /\ Here(r) }

(* The defaults cannot refer to a row that has been purged, nor have the   *)
(* names of categories that have come meanwhile (@@unique).                *)
SeedCategories(r) ==
  /\ At(r, "seed")
  /\ \/ /\ Here(r)
        /\ seeds' = seeds + 1 /\ stocked' = TRUE /\ overtaken' = AboutToSeed \ {r}
        /\ Step(r, [reqs[r] EXCEPT !.pc = "call"])
     \/ /\ ~Here(r) \/ stocked
        /\ Step(r, Free) /\ overtaken' = overtaken \ {r} /\ UNCHANGED <<stocked, seeds>>
  /\ UNCHANGED <<installed, pairs, portal, lost, revived>>

(* An administrator adds the first category, or deletes the last one.      *)
CategoryAdded ==
  /\ portal.exists /\ ~stocked
  /\ stocked' = TRUE /\ overtaken' = AboutToSeed
  /\ UNCHANGED <<installed, pairs, portal, seeds, reqs, lost, revived>>

CategoriesEmptied ==
  /\ portal.exists /\ stocked
  /\ stocked' = FALSE /\ seeds' = 0 /\ overtaken' = {}
  /\ UNCHANGED <<installed, pairs, portal, reqs, lost, revived>>

-----------------------------------------------------------------------------
(* A call of Bitrix24 with the row a request has read (callBitrix): those  *)
(* that bind the menu and the uninstall event, and those of pages and jobs.*)

Background(r) ==
  /\ reqs[r] = Free /\ portal.exists /\ portal.active
  /\ Step(r, [Free EXCEPT !.op = "page", !.pc = "call", !.era = portal.era, !.auth = portal.auth,
                          !.saw = portal.auth, !.calls = 1])
  /\ UNCHANGED <<installed, pairs, portal, categoryVars, lost, revived>>

(* The next call of the request, or its end; an opener has its user synced *)
(* with the token posted, which UserDirectory models.                      *)
Done(r) ==
  Step(r, IF reqs[r].calls = 1 THEN Free
          ELSE [reqs[r] EXCEPT !.pc = "call", !.calls = @ - 1, !.retried = FALSE])

Call(r) ==
  /\ At(r, "call")
  /\ LET q == reqs[r] IN
       IF q.auth # None /\ pairs[q.auth].alive /\ ~pairs[q.auth].fresh /\ ~q.retried
       THEN Step(r, [q EXCEPT !.pc = "reread"])
       ELSE Done(r)
  /\ UNCHANGED <<installed, pairs, portal, categoryVars, lost, revived>>

Reread(r) ==
  /\ At(r, "reread")
  /\ IF Here(r) /\ portal.refresh # None
     THEN Step(r, [reqs[r] EXCEPT !.pc = "oauth", !.refresh = portal.refresh, !.saw = portal.auth])
     ELSE Done(r)
  /\ UNCHANGED <<installed, pairs, portal, categoryVars, lost, revived>>

(* The token is used up once Bitrix24 has answered, whether the answer     *)
(* comes or not (or cannot be read).                                       *)
OAuth(r) ==
  /\ At(r, "oauth")
  /\ LET q == reqs[r]
         old == pairs[q.refresh]
     IN  \/ /\ old.usable /\ old.alive /\ Len(pairs) < MaxPairs
            /\ pairs' = Append([pairs EXCEPT ![q.refresh].usable = ~RefreshOnce],
                               [by |-> old.by, fresh |-> TRUE, usable |-> TRUE, alive |-> TRUE])
            /\ \/ Step(r, [q EXCEPT !.pc = "store", !.auth = Len(pairs) + 1]) /\ UNCHANGED lost
               \/ Done(r) /\ lost' = lost \cup {q.refresh}
         \/ Done(r) /\ UNCHANGED <<pairs, lost>>
  /\ UNCHANGED <<installed, portal, categoryVars, revived>>

(* refreshAccessToken: both tokens are stored, whatever the row holds now, *)
(* unless the update fails.                                                *)
StorePair_AccessOnly(r) ==
  /\ At(r, "store")
  /\ \/ /\ Here(r) /\ portal' = [portal EXCEPT !.auth = reqs[r].auth]
        /\ Step(r, [reqs[r] EXCEPT !.pc = "reload"]) /\ UNCHANGED lost
     \/ Done(r) /\ lost' = lost \cup {reqs[r].refresh} /\ UNCHANGED portal
  /\ UNCHANGED <<installed, pairs, categoryVars, revived>>

StorePair(r) ==
  /\ At(r, "store")
  /\ \/ /\ Here(r) /\ portal' = [portal EXCEPT !.auth = reqs[r].auth, !.refresh = reqs[r].auth]
        /\ Step(r, [reqs[r] EXCEPT !.pc = "reload"]) /\ UNCHANGED lost
     \/ Done(r) /\ lost' = lost \cup {reqs[r].refresh} /\ UNCHANGED portal
  /\ UNCHANGED <<installed, pairs, categoryVars, revived>>

Reload(r) ==
  /\ At(r, "reload")
  /\ IF Here(r) THEN Step(r, [reqs[r] EXCEPT !.pc = "call", !.auth = portal.auth, !.retried = TRUE])
     ELSE Done(r)
  /\ UNCHANGED <<installed, pairs, portal, categoryVars, lost, revived>>

-----------------------------------------------------------------------------
(* ONAPPUNINSTALL, with or without clearing the data; Bitrix24 takes back  *)
(* every token.  A purge that meets an entry being written is rolled back  *)
(* whole.                                                                  *)
Revoked == [p \in DOMAIN pairs |-> [pairs[p] EXCEPT !.alive = FALSE]]

Uninstall_KeepsTokens ==
  /\ installed /\ portal.exists /\ installed' = FALSE /\ pairs' = Revoked
  /\ \/ portal' = [portal EXCEPT !.active = FALSE] /\ UNCHANGED categoryVars
     \/ /\ portal.era < MaxEras /\ portal' = [NoPortal EXCEPT !.era = portal.era]
        /\ stocked' = FALSE /\ seeds' = 0 /\ overtaken' = {}
     \/ UNCHANGED <<portal, categoryVars>>
  /\ UNCHANGED <<reqs, lost, revived>>

Uninstall ==
  /\ installed /\ portal.exists /\ installed' = FALSE /\ pairs' = Revoked
  /\ \/ portal' = [portal EXCEPT !.active = FALSE, !.auth = None, !.refresh = None] /\ UNCHANGED categoryVars
     \/ /\ portal.era < MaxEras /\ portal' = [NoPortal EXCEPT !.era = portal.era]
        /\ stocked' = FALSE /\ seeds' = 0 /\ overtaken' = {}
     \/ UNCHANGED <<portal, categoryVars>>
  /\ UNCHANGED <<reqs, lost, revived>>

TokenNext ==
  \/ Install \/ Expire \/ Crash \/ Uninstall \/ CategoryAdded \/ CategoriesEmptied
  \/ \E r \in Requests :
       \/ Open(r) \/ Look(r) \/ Upsert(r) \/ CountCategories(r) \/ SeedCategories(r)
       \/ Background(r) \/ Call(r) \/ Reread(r) \/ OAuth(r) \/ StorePair(r) \/ Reload(r)

-----------------------------------------------------------------------------
(* While the app is installed, the refresh token stored is one Bitrix24    *)
(* still takes, however many requests refresh at once, unless the pair     *)
(* that replaces it was lost on its way to the row: in the answer, in a    *)
(* failed update or in a stop of the server (refreshAccessToken).          *)
RefreshTokenWorks ==
  portal.refresh # None /\ pairs[portal.refresh].alive =>
    \/ pairs[portal.refresh].usable
    \/ portal.refresh \in lost
    \/ \E r \in Requests : At(r, "store") /\ reqs[r].refresh = portal.refresh

(* The token of an admin is replaced by an employee's only by a request    *)
(* that had looked before the admin's was stored (keepTokens, ADR-037).    *)
AdminTokenStays ==
  (portal.auth # None /\ portal'.auth # None /\ pairs[portal.auth].alive) =>
    (pairs[portal.auth].by \in Admins /\ pairs'[portal'.auth].by \notin Admins =>
       \E r \in Requests : reqs[r] # reqs'[r] /\ reqs[r].saw # portal.auth)

(* An uninstalled portal is left without tokens, and gets none back but by *)
(* a refresh that was under way (handleBitrixEvent).                       *)
UninstallForgets ==
  ~portal'.active /\ portal'.auth # None =>
    \/ ~portal.active /\ portal.auth # None
    \/ \E r \in Requests : At(r, "store") /\ reqs'[r] # reqs[r]

(* A portal in use has a token to call Bitrix24 with, except when it was   *)
(* uninstalled while an employee was opening it; the next opening gives it *)
(* one (shouldKeepPortalToken).                                            *)
ActiveHasToken == portal.active /\ portal.auth = None => revived

(* The default categories are created for a portal that has none; beside   *)
(* others they are put only by an opening that counted before the first    *)
(* of those came (upsertPortalFromInstall).                                *)
DefaultsOnce ==
  seeds' > seeds => ~stocked \/ \E r \in overtaken : At(r, "seed") /\ reqs'[r] # reqs[r]

(* What is installed keeps tokens that work, the best it was given, until  *)
(* it is uninstalled.                                                      *)
PortalStaysUsable ==
  /\ [](RefreshTokenWorks /\ ActiveHasToken)
  /\ [][AdminTokenStays /\ UninstallForgets /\ DefaultsOnce]_tokenVars
=============================================================================
