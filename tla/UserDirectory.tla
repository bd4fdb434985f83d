--------------------------- MODULE UserDirectory ---------------------------
(***************************************************************************)
(* The employees of a portal (lib/bitrix/users, auth.syncCurrentUser,      *)
(* lib/auth/resolve): accounts are created and switched on and off by      *)
(* pulls of Bitrix24's staff list, read by offset in pages, and by the     *)
(* people who sign in.  Pulls of different requests may overlap.           *)
(*                                                                         *)
(* People are numbered in the order Bitrix24 lists them.  "fresh" says     *)
(* that the staff is the one the process began with; "calm" that no        *)
(* process with an older view ran beside it either.                        *)
(***************************************************************************)
EXTENDS Integers, Sequences, FiniteSets, FiniteSetsExt

CONSTANTS
  Staff,        \* the people of the portal, a set of numbers
  Pulls,        \* slots for pulls running at once
  PageSize,     \* 50 in the code
  Installer,    \* the person whose tokens the portal's row holds
  MaxChanges    \* changes of the staff and of roles

ASSUME DirectoryAssumption ==
  Staff \subseteq Nat /\ IsFiniteSet(Staff) /\ PageSize \in Nat \ {0} /\ Installer \in Staff

VARIABLES
  staff,      \* the active users of Bitrix24, and the admins among them
  admins,
  wereAdmins, \* everyone Bitrix24 ever had, or the database was given, as an admin
  accounts,
  pulls,
  signing,    \* a sign-in: what Bitrix24 answered, and whether it still holds
  changes

directoryVars == <<staff, admins, wereAdmins, accounts, pulls, signing, changes>>

NoPull == [pc |-> "idle", start |-> 0, list |-> <<>>, seen |-> {}, last |-> FALSE,
           fresh |-> TRUE, calm |-> TRUE]
NoSign == [pc |-> "idle", me |-> 0, isAdmin |-> FALSE, fresh |-> TRUE]
NoAccount == [known |-> FALSE, isActive |-> FALSE, isBitrixAdmin |-> FALSE, role |-> "EMPLOYEE"]

DirectoryInit ==
  /\ staff \in SUBSET Staff /\ Installer \in staff
  /\ admins = {Installer} /\ wereAdmins = admins
  /\ accounts = [p \in Staff |-> NoAccount]
  /\ pulls = [s \in Pulls |-> NoPull]
  /\ signing = NoSign
  /\ changes = 0

Outdated ==
  \/ \E s \in Pulls : pulls[s].pc # "idle" /\ ~pulls[s].fresh
  \/ signing.pc # "idle" /\ ~signing.fresh

(* Bitrix24 hires and dismisses, makes admins and no admins of people.     *)
StaffChanges ==
  /\ changes < MaxChanges /\ changes' = changes + 1
  /\ \E p \in Staff :
       \/ staff' = staff \cup {p} /\ staff' # staff /\ admins' = admins
       \/ staff' = staff \ {p} /\ staff' \notin {staff, {}} /\ admins' = admins \ {p}
       \/ staff' = staff /\ p \in staff /\ admins' \in {admins \cup {p}, admins \ {p}} \ {admins}
  /\ wereAdmins' = wereAdmins \cup admins'
  /\ pulls' = [s \in Pulls |-> [pulls[s] EXCEPT !.fresh = FALSE, !.calm = FALSE]]
  /\ signing' = [signing EXCEPT !.fresh = FALSE]
  /\ UNCHANGED accounts

(* A role is given in the database: the application has no screen for it.  *)
GrantRole ==
  /\ changes < MaxChanges /\ changes' = changes + 1
  /\ \E p \in Staff :
       /\ accounts[p].known /\ accounts[p].role = "EMPLOYEE"
       /\ \/ accounts' = [accounts EXCEPT ![p].role = "MANAGER"] /\ UNCHANGED wereAdmins
          \/ accounts' = [accounts EXCEPT ![p].role = "ADMIN"] /\ wereAdmins' = wereAdmins \cup {p}
  /\ UNCHANGED <<staff, admins, pulls, signing>>

-----------------------------------------------------------------------------
(* A pull of the staff.                                                    *)

SyncStart(s) ==
  /\ pulls[s].pc = "idle"
  /\ pulls' = [pulls EXCEPT ![s] = [NoPull EXCEPT !.pc = "page", !.calm = ~Outdated]]
  /\ UNCHANGED <<staff, admins, wereAdmins, accounts, signing, changes>>

(* The staff in the order of their numbers.                                *)
Listed ==
  CHOOSE list \in [1 .. Cardinality(staff) -> staff] :
    \A i, j \in 1 .. Cardinality(staff) : i < j => list[i] < list[j]

SyncPage(s) ==
  /\ pulls[s].pc = "page"
  /\ LET upTo == Min({pulls[s].start + PageSize, Len(Listed)})
         list == SubSeq(Listed, pulls[s].start + 1, upTo) IN
       pulls' = [pulls EXCEPT ![s].pc = IF list = <<>> THEN "end" ELSE "save",
                              ![s].list = list,
                              ![s].last = Len(list) < PageSize, ![s].start = @ + PageSize]
  /\ UNCHANGED <<staff, admins, wereAdmins, accounts, signing, changes>>

(* Bitrix24 answers with something that is no list, which is read as the   *)
(* last page.                                                              *)
SyncBlank(s) ==
  /\ pulls[s].pc = "page"
  /\ pulls' = [t \in Pulls |-> [pulls[t] EXCEPT !.pc = IF t = s THEN "end" ELSE @,
                                               !.fresh = @ /\ t # s, !.calm = FALSE]]
  /\ UNCHANGED <<staff, admins, wereAdmins, accounts, signing, changes>>

SyncedUser_RoleToo(was) ==
  [was EXCEPT !.known = TRUE, !.isActive = TRUE, !.role = "EMPLOYEE"]

SyncedUser_NewOnly(was) == IF was.known THEN was ELSE [was EXCEPT !.known = TRUE, !.isActive = TRUE]

SyncedUser(was) == [was EXCEPT !.known = TRUE, !.isActive = TRUE]

SyncSave(s) ==
  /\ pulls[s].pc = "save"
  /\ LET u == Head(pulls[s].list) IN
       /\ accounts' = [accounts EXCEPT ![u] = SyncedUser(@)]
       /\ pulls' = [pulls EXCEPT ![s].list = Tail(@), ![s].seen = @ \cup {u},
                                 ![s].pc = IF Len(pulls[s].list) > 1 THEN "save"
                                           ELSE IF pulls[s].last THEN "end" ELSE "page"]
  /\ UNCHANGED <<staff, admins, wereAdmins, signing, changes>>

Gone(seen) == IF seen = {} THEN {} ELSE Staff \ seen

SyncEnd(s) ==
  /\ pulls[s].pc = "end"
  /\ accounts' = [p \in Staff |-> IF p \in Gone(pulls[s].seen)
                                    THEN [accounts[p] EXCEPT !.isActive = FALSE] ELSE accounts[p]]
  /\ pulls' = [pulls EXCEPT ![s] = NoPull]
  /\ UNCHANGED <<staff, admins, wereAdmins, signing, changes>>

(* syncUsersIfStale swallows the failure of a call.                        *)
SyncFails(s) ==
  /\ pulls[s].pc = "page"
  /\ pulls' = [pulls EXCEPT ![s] = NoPull]
  /\ UNCHANGED <<staff, admins, wereAdmins, accounts, signing, changes>>

-----------------------------------------------------------------------------
(* Signing in with the person's own token; an opening that brings none is  *)
(* answered for the portal's, and so signs in the one who installed it.    *)

Asked_PortalToken(me) == Installer

Asked(me) == me

SignIn(p) ==
  /\ signing.pc = "idle"
  /\ \E me \in {p, Installer} :
       /\ {me, Asked(me)} \subseteq staff
       /\ signing' = [pc |-> "asked", me |-> me, isAdmin |-> Asked(me) \in admins, fresh |-> TRUE]
  /\ UNCHANGED <<staff, admins, wereAdmins, accounts, pulls, changes>>

SignedIn(was, isAdmin) ==
  [known |-> TRUE, isActive |-> TRUE, isBitrixAdmin |-> isAdmin,
   role |-> IF isAdmin THEN "ADMIN" ELSE was.role]

SignInSave ==
  /\ signing.pc = "asked"
  /\ accounts' = [accounts EXCEPT ![signing.me] = SignedIn(@, signing.isAdmin)]
  /\ signing' = NoSign
  /\ UNCHANGED <<staff, admins, wereAdmins, pulls, changes>>

DirectoryNext ==
  \/ StaffChanges \/ GrantRole
  \/ \E s \in Pulls :
       \/ SyncStart(s) \/ SyncPage(s) \/ SyncBlank(s) \/ SyncSave(s)
       \/ SyncEnd(s) \/ SyncFails(s)
  \/ (\E p \in Staff : SignIn(p)) \/ SignInSave

-----------------------------------------------------------------------------
(* Properties.                                                             *)

ResolveRole(account) == IF account.isBitrixAdmin THEN "ADMIN" ELSE account.role

Acting == {p \in Staff : accounts[p].known /\ accounts[p].isActive}

(* A pull during which the staff stayed the same, and no other process     *)
(* held an older view of it, ends with exactly the staff active, however   *)
(* it was paged and whoever signed in meanwhile.                           *)
CalmPullExact ==
  \A s \in Pulls : pulls[s].pc = "end" /\ pulls'[s].pc = "idle" /\ pulls[s].calm => Acting' = staff

(* No account is an admin's that Bitrix24 never had as one and nobody made *)
(* one, even when people sign in while the portal's token is an admin's.   *)
AdminsOfBitrix == \A p \in Staff : ResolveRole(accounts[p]) = "ADMIN" => p \in wereAdmins

(* A role that was given is not taken back by a pull or a sign-in, also    *)
(* of someone who is no admin of Bitrix24.                                 *)
GivenRoleStays ==
  \A p \in Staff :
    /\ accounts[p].role # "EMPLOYEE" => accounts'[p].role # "EMPLOYEE"
    /\ accounts[p].role = "ADMIN" => accounts'[p].role = "ADMIN"

(* People are on, and may do, what Bitrix24 and the application's own      *)
(* administrators say.                                                     *)
DirectoryFollowsBitrix ==
  AdminsOfBitrix /\ [][AdminsOfBitrix' /\ CalmPullExact /\ GivenRoleStays]_directoryVars
=============================================================================
