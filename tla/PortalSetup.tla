---------------------------- MODULE PortalSetup -----------------------------
(***************************************************************************)
(* «Настройка под портал»: what each section of the CRM is for and which   *)
(* sections of the app are shown.  The page sends all it shows; roles are  *)
(* written one by one, the portal last.  «Продажи и обращения» reads the   *)
(* roles and is kept for ten minutes under the time of the last save.      *)
(***************************************************************************)
EXTENDS Integers, FiniteSets

CONSTANTS
  Wizards,       \* setup pages and overview pages open at once
  CrmSections,  \* sections of the CRM
  SmartSections,\* those that can be deleted in Bitrix24
  AppSections,  \* sections of the app that can be switched off
  MaxSaves      \* bound on completed saves

ASSUME SetupAssumption == SmartSections \subseteq CrmSections

VARIABLES
  there,      \* sections there are in the CRM
  roles,      \* saved roles, "none" where there is none
  disabled,   \* sections of the app that are switched off
  completed,  \* number of the last completed save, 0 before the first
  partly,     \* a save stopped after some of its roles
  wizard,     \* the setup pages
  lastSetup,  \* what was saved last, if no other save overlapped it
  overview    \* the overview kept last, with the save it is kept under, and one being read

setupVars == <<there, roles, disabled, completed, partly, wizard, lastSetup, overview>>

-----------------------------------------------------------------------------
Roles == {"TRAFFIC", "PROJECTS"}

DefaultRole(s) == IF s \in SmartSections THEN "PROJECTS" ELSE "TRAFFIC"

RoleOf(s) == IF roles[s] = "none" THEN DefaultRole(s) ELSE roles[s]

RolesNow == [s \in CrmSections |-> RoleOf(s)]

NoRoles == [s \in CrmSections |-> "none"]

NoPage == [pc |-> "closed", roles |-> NoRoles, off |-> {}, todo |-> {}, known |-> {}, overlapped |-> FALSE]

NoSetup == [known |-> FALSE, roles |-> NoRoles, off |-> {}]

NoOverview == [pc |-> "none", key |-> 0, roles |-> NoRoles]

SetupInit ==
  /\ there = CrmSections /\ roles \in [CrmSections -> Roles \cup {"none"}] /\ disabled = {} /\ completed = 0 /\ partly = FALSE
  /\ wizard = [a \in Wizards |-> NoPage] /\ lastSetup = NoSetup
  /\ overview = [kept |-> NoOverview, read |-> NoOverview]

ListedSections(p) == {s \in CrmSections : wizard[p].roles[s] # "none"}

Busy == {a \in Wizards : wizard[a].pc = "saving"}

-----------------------------------------------------------------------------
(* The page.  When the settings cannot be read it shows none of the CRM's  *)
(* sections and all of the app's; saving that switches them all on.        *)

OpenSetup(a) ==
  /\ wizard[a].pc = "closed" /\ completed < MaxSaves
  /\ \/ wizard' = [wizard EXCEPT ![a] = [NoPage EXCEPT !.pc = "open", !.off = disabled,
                     !.roles = [s \in CrmSections |-> IF s \in there THEN RoleOf(s) ELSE "none"]]]
     \/ wizard' = [wizard EXCEPT ![a] = [NoPage EXCEPT !.pc = "open", !.off = disabled]]  \* sections not listed
     \/ wizard' = [wizard EXCEPT ![a] = [NoPage EXCEPT !.pc = "open"]]                    \* no answer
  /\ UNCHANGED <<there, roles, disabled, completed, partly, lastSetup, overview>>

Choose(a) ==
  /\ wizard[a].pc = "open"
  /\ \/ \E s \in ListedSections(a), r \in Roles : wizard' = [wizard EXCEPT ![a].roles[s] = r]
     \/ \E k \in AppSections :
          wizard' = [wizard EXCEPT ![a].off = IF k \in @ THEN @ \ {k} ELSE @ \cup {k}]
  /\ UNCHANGED <<there, roles, disabled, completed, partly, lastSetup, overview>>

SectionDeleted ==
  /\ \E s \in SmartSections \cap there : there' = there \ {s}
  /\ UNCHANGED <<roles, disabled, completed, partly, wizard, lastSetup, overview>>

(* saveSetup, which lists the CRM's sections once, at its start, and takes *)
(* roles of those only.                                                    *)

BeginSave(a) ==
  /\ wizard[a].pc = "open" /\ completed < MaxSaves
  /\ wizard' = [b \in Wizards |->
       IF b = a THEN [wizard[a] EXCEPT !.pc = "saving", !.todo = ListedSections(a), !.known = there,
                                     !.overlapped = Busy # {}]
       ELSE IF b \in Busy THEN [wizard[b] EXCEPT !.overlapped = TRUE] ELSE wizard[b]]
  /\ lastSetup' = NoSetup
  /\ UNCHANGED <<there, roles, disabled, completed, partly, overview>>

Upserted_NotDefaults(a, s) == IF wizard[a].roles[s] = DefaultRole(s) THEN roles[s] ELSE wizard[a].roles[s]

Upserted(a, s) == wizard[a].roles[s]

SaveRole(a) ==
  /\ wizard[a].pc = "saving"
  /\ \E s \in wizard[a].todo \cap wizard[a].known :
       /\ roles' = [roles EXCEPT ![s] = Upserted(a, s)]
       /\ wizard' = [wizard EXCEPT ![a].todo = @ \ {s}]
  /\ UNCHANGED <<there, disabled, completed, partly, lastSetup, overview>>

(* A section that is gone, or a failing write, stops the save where it is. *)
SaveStops(a) ==
  /\ wizard[a].pc = "saving"
  /\ partly' = (partly \/ wizard[a].todo # ListedSections(a))
  /\ wizard' = [wizard EXCEPT ![a].pc = "open", ![a].todo = {}, ![a].known = {}]
  /\ UNCHANGED <<there, roles, disabled, completed, lastSetup, overview>>

CompleteSave(a) ==
  /\ wizard[a].pc = "saving" /\ wizard[a].todo = {} /\ completed < MaxSaves
  /\ disabled' = wizard[a].off /\ completed' = completed + 1 /\ partly' = FALSE
  /\ lastSetup' = IF wizard[a].overlapped THEN NoSetup
                  ELSE [known |-> TRUE, roles |-> wizard[a].roles, off |-> wizard[a].off]
  /\ wizard' = [wizard EXCEPT ![a] = NoPage]
  /\ UNCHANGED <<there, roles, overview>>

-----------------------------------------------------------------------------
(* loadCrmOverview, under the save its session was read with.  One kept    *)
(* under an earlier save is not looked at again.                           *)

OverviewKey_OfPortal == 0

OverviewKey == completed

Visible == overview.kept.pc = "kept" /\ overview.kept.key = OverviewKey

OverviewAsked ==
  /\ overview.read.pc = "none" /\ ~Visible
  /\ overview' = [overview EXCEPT !.read = [NoOverview EXCEPT !.pc = "entered", !.key = OverviewKey]]
  /\ UNCHANGED <<there, roles, disabled, completed, partly, wizard, lastSetup>>

OverviewListed ==
  /\ overview.read.pc = "entered"
  /\ overview' = [overview EXCEPT !.read.pc = "listed", !.read.roles = RolesNow]
  /\ UNCHANGED <<there, roles, disabled, completed, partly, wizard, lastSetup>>

(* An answer with an error is kept as long as any other.                   *)
OverviewKept ==
  /\ overview.read.pc = "listed"
  /\ overview' = [kept |-> IF overview.read.key = OverviewKey THEN [overview.read EXCEPT !.pc = "kept"] ELSE overview.kept,
                  read |-> NoOverview]
  /\ UNCHANGED <<there, roles, disabled, completed, partly, wizard, lastSetup>>

OverviewExpires ==
  /\ overview.kept.pc = "kept" /\ overview' = [overview EXCEPT !.kept = NoOverview]
  /\ UNCHANGED <<there, roles, disabled, completed, partly, wizard, lastSetup>>

SetupNext ==
  \/ \E a \in Wizards :
       OpenSetup(a) \/ Choose(a) \/ BeginSave(a) \/ SaveRole(a) \/ SaveStops(a) \/ CompleteSave(a)
  \/ SectionDeleted
  \/ OverviewAsked \/ OverviewListed \/ OverviewKept \/ OverviewExpires

-----------------------------------------------------------------------------
(* Properties.                                                             *)

(* After a save that no other overlapped, the portal is as the page showed *)
(* it: every section listed has the role chosen, a role put back to the    *)
(* usual one included, and the app shows what was left switched on.        *)
SetupAsShown ==
  lastSetup.known /\ Busy = {} /\ ~partly =>
    /\ disabled = lastSetup.off
    /\ \A s \in CrmSections : lastSetup.roles[s] # "none" => RoleOf(s) = lastSetup.roles[s]

(* An overview shown after a save is of the roles that save has left, also *)
(* one that was being read, or kept, when roles were written one by one,   *)
(* unless a save stopped half way.                                         *)
OverviewOfLastSetup ==
  Busy = {} /\ ~partly /\ Visible => overview.kept.roles = RolesNow

(* A portal is as its setup was saved, and is shown so.                    *)
SetupInForce == SetupAsShown /\ OverviewOfLastSetup
=============================================================================
