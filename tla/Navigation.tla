----------------------------- MODULE Navigation -----------------------------
(***************************************************************************)
(* Moving about the app: the menu, tabs and lists of links a reader is     *)
(* shown, the guard of every page, and the redirects between them, while   *)
(* the portal's sections are switched off and on.  What the menu and the   *)
(* top bar show was read when the app was opened, what a page shows when   *)
(* it was rendered.  A path is the sequence of its parts.                  *)
(***************************************************************************)
EXTENDS Integers, Sequences, SequencesExt, FiniteSets, FiniteSetsExt

CONSTANT MaxSwitches  \* bound on saves of the setup

ASSUME NavigationAssumption == MaxSwitches \in Nat

VARIABLES
  role,      \* of the reader
  member,    \* whether the reader is a member of the project
  off,       \* sections that are switched off
  menu,      \* what the menu knows of them
  at,        \* the path asked for, and what came of it since the last save
  switches   \* number of saves so far

navigationVars == <<role, member, off, menu, at, switches>>

-----------------------------------------------------------------------------
(* lib/sections.ts and lib/permissions.                                    *)

OptionalSections == {"analytics", "automation", "sales", "history"}

SectionHref ==
  [k \in OptionalSections |->
     CASE k = "analytics" -> <<"analytics">> [] k = "automation" -> <<"settings", "auto-finance">>
       [] k = "sales" -> <<"marketing">> [] k = "history" -> <<"history">>]

SectionsOfPath(path) == {k \in OptionalSections : IsPrefix(SectionHref[k], path)}

Home == <<>>

HomePath_OfAll(r, disabled) == IF r # "EMPLOYEE" THEN <<"analytics">> ELSE <<"finance", "overview">>

HomePath(r, disabled) ==
  IF r # "EMPLOYEE" /\ "analytics" \notin disabled THEN <<"analytics">>
  ELSE IF r # "EMPLOYEE" /\ "sales" \notin disabled THEN <<"marketing">>
  ELSE <<"finance", "overview">>

Managers == {"ADMIN", "MANAGER"}

Everyone == Managers \cup {"EMPLOYEE"}

-----------------------------------------------------------------------------
(* The guards of the pages, each written in its page: who may see it, the  *)
(* section it needs, where others are sent.                                *)

Page(roles, section, back) == [roles |-> roles, section |-> section, back |-> back]

Project == <<"projects", "p">>

Sub(path, names) == {path \o <<n>> : n \in names}

AnalyticsPages == {<<"analytics">>} \cup Sub(<<"analytics">>, {"team", "meetings", "hours", "tasks"})

(* analyticsPage, channelPage.                                             *)
ChannelPages == {<<"marketing">>} \cup Sub(<<"marketing">>, {"sales", "items"})

OpenPages ==
  {<<"projects">>, <<"finance">>, <<"finance", "overview">>, <<"pricing">>, <<"how-it-works">>, <<"implementation">>}
    \cup {Project} \cup Sub(Project, {"finance", "team"})

AdminPages == {<<"setup">>} \cup Sub(<<"settings">>, {"stages", "brand", "time-fields", "crm-sources"})

ProjectAnalytics == {Project \o <<"analytics">>, <<"report", "projects", "p">>}

Moved == [path \in {<<"automation">>, <<"sales-funnels">>} |->
            IF path = <<"automation">> THEN <<"settings", "auto-finance">> ELSE <<"marketing", "funnels">>]

Funnels_AnySection == Page(Managers, {}, Home)

Funnels == Page(Managers, {"sales"}, Home)

GuardOf(path) ==
  CASE path \in AnalyticsPages -> Page(Managers, {"analytics"}, Home)
    [] path \in ChannelPages -> Page(Managers, {"sales"}, Home)
    [] path = <<"marketing", "funnels">> -> Funnels
    [] path = <<"history">> -> Page(Managers, {"history"}, Home)
    [] path = <<"settings", "auto-finance">> -> Page(Managers, {"automation"}, Home)
    [] path \in {<<"settings">>, <<"settings", "categories">>} -> Page(Managers, {}, Home)
    [] path \in AdminPages -> Page({"ADMIN"}, {}, Home)
    [] path \in Sub(<<"projects">>, {"new", "import"}) \cup Sub(Project, {"edit"}) -> Page(Managers, {}, <<"projects">>)
    [] path \in ProjectAnalytics -> Page(Managers, {"analytics"}, Project)
    [] path = Project \o <<"history">> -> Page(Managers, {}, Project)
    [] path \in OpenPages -> Page(Everyone, {}, Home)

Paths ==
  {Home} \cup AnalyticsPages \cup ChannelPages \cup OpenPages \cup AdminPages \cup ProjectAnalytics \cup DOMAIN Moved
    \cup {<<"marketing", "funnels">>, <<"history">>, <<"settings">>, Project \o <<"history">>, Project \o <<"edit">>}
    \cup Sub(<<"settings">>, {"auto-finance", "categories"}) \cup Sub(<<"projects">>, {"new", "import"})

Admitted(g) == role \in g.roles /\ g.section \cap off = {}

(* A project of which the reader is not a member does not exist for him.   *)
Missing(path) == IsPrefix(Project, path) /\ role = "EMPLOYEE" /\ ~member

-----------------------------------------------------------------------------
(* The menu (nav.tsx): a card has screens; the one that covers the path    *)
(* closest is lit.                                                         *)

Screen(href) == [href |-> href, exact |-> FALSE, roles |-> Everyone]

Exact(href) == [Screen(href) EXCEPT !.exact = TRUE]

Card(href, base, roles, screens) == [href |-> href, base |-> base, roles |-> roles, screens |-> screens]

Items ==
  {Card(<<"analytics">>, <<"analytics">>, Managers,
        {Exact(<<"analytics">>), Screen(<<"analytics", "team">>), Screen(<<"analytics", "meetings">>)}),
   Card(<<"marketing">>, <<"marketing">>, Managers,
        {Exact(<<"marketing">>), Screen(<<"marketing", "sales">>), Screen(<<"marketing", "funnels">>)}),
   Card(<<"projects">>, <<"projects">>, Everyone,
        {Screen(<<"projects">>), [Screen(<<"projects", "new">>) EXCEPT !.roles = Managers]}),
   Card(<<"finance", "overview">>, <<"finance">>, Everyone,
        {Screen(<<"finance", "overview">>), Screen(<<"finance">>)}),
   Card(<<"settings">>, <<"settings">>, Managers,
        {Screen(<<"settings">>), Screen(<<"settings", "stages">>), Screen(<<"history">>), Screen(<<"pricing">>)}),
   Card(<<"how-it-works">>, <<"how-it-works">>, Everyone,
        {Screen(<<"how-it-works">>), Screen(<<"implementation">>)})}

Covers(path, s) == IF s.exact THEN path = s.href ELSE IsPrefix(s.href, path)

MatchLength_OfItem(path, i) == IF IsPrefix(i.base, path) THEN Len(i.base) ELSE -1

MatchLength(path, i) ==
  Max({IF IsPrefix(i.base, path) THEN Len(i.base) ELSE -1} \cup {Len(s.href) : s \in {x \in i.screens : Covers(path, x)}})

ActiveItem(items, path) ==
  {i \in items : MatchLength(path, i) >= 0 /\ \A j \in items : MatchLength(path, j) <= MatchLength(path, i)}

ActiveScreen(screens, path) ==
  LET covering == {s \in screens : Covers(path, s)} IN
    {s \in covering : \A x \in covering : Len(x.href) <= Len(s.href)}

VisibleScreens_OfRole(screens, disabled) == {s \in screens : role \in s.roles}

VisibleScreens(screens, disabled) == {s \in screens : role \in s.roles /\ SectionsOfPath(s.href) \cap disabled = {}}

VisibleItems(disabled) == {i \in Items : role \in i.roles /\ SectionsOfPath(i.href) \cap disabled = {}}

MenuLinks(disabled) ==
  {i.href : i \in VisibleItems(disabled)}
    \cup {s.href : s \in UNION {VisibleScreens(i.screens, disabled) : i \in VisibleItems(disabled)}}

(* The tabs of the top bar (sectionTabs): the screens of the card that     *)
(* covers the page, whether or not the reader has that card in the menu;   *)
(* «Ещё» is no card of the top bar.                                        *)
TopBar == {i \in Items : i.base # <<"how-it-works">>}

TabLinks(path, disabled) ==
  LET tabs == UNION {VisibleScreens(i.screens, disabled) : i \in ActiveItem(TopBar, path)}
  IN  IF Cardinality(tabs) > 1 THEN {s.href : s \in tabs} ELSE {}

(* Links of the pages to each other, which know what the server knew: all  *)
(* that may be among them, whatever the data and the plan are.             *)
AutoFinance == <<"settings", "auto-finance">>

SettingsLinks_WithAll(disabled) ==
  Sub(<<"settings">>, {"categories", "auto-finance"}) \cup (IF role = "ADMIN" THEN AdminPages \cup {<<"pricing">>} ELSE {})

SettingsLinks(disabled) ==
  (IF "automation" \in disabled THEN {} ELSE {AutoFinance}) \cup {<<"settings", "categories">>}
    \cup (IF role = "ADMIN" THEN AdminPages \cup {<<"pricing">>, AutoFinance} ELSE {})

TabAnalytics(disabled) == role \in Managers /\ "analytics" \notin disabled

(* The head and the tabs, over every page of a project.                    *)
ProjectTabs(disabled) ==
  {Project} \cup Sub(Project, {"finance", "team"} \cup (IF role \in Managers THEN {"history", "edit"} ELSE {})
                                \cup (IF TabAnalytics(disabled) THEN {"analytics"} ELSE {}))

ListButtons == IF role \in Managers THEN Sub(<<"projects">>, {"new", "import"}) ELSE {}

(* Its buttons and, for a new portal, the first steps.                     *)
OverviewLinks ==
  {<<"pricing">>} \cup (IF role \in Managers THEN {<<"projects", "new">>, <<"projects">>, <<"finance">>, <<"how-it-works">>} ELSE {})
    \cup (IF role = "ADMIN" THEN {<<"setup">>, <<"settings", "time-fields">>} ELSE {})

When(on, links) == IF on THEN links ELSE {}

PageLinks(path, disabled) ==
  When(path = <<"settings">>, SettingsLinks(disabled))
    \cup When(path = AutoFinance, {<<"settings">>})
    \cup When(path = <<"setup">>, {<<"settings", "time-fields">>, <<"settings", "stages">>, <<"implementation">>})
    \cup When(path = <<"projects">>, ListButtons)
    \cup When(path = <<"finance", "overview">>, OverviewLinks)
    \cup When(path \in AnalyticsPages, AnalyticsPages \cup {Project \o <<"analytics">>, <<"projects", "new">>})
    \cup When(path \in ChannelPages \cup {<<"marketing", "funnels">>},
              ChannelPages \cup {<<"marketing", "funnels">>, <<"pricing">>})
    \cup When(path = <<"marketing", "funnels">> /\ role = "ADMIN", {<<"setup">>})
    \cup When(IsPrefix(Project, path), ProjectTabs(disabled) \cup {<<"pricing">>})
    \cup When(path \in ProjectAnalytics, ProjectAnalytics)
    \cup When(path = <<"report", "projects", "p">>, {<<"settings", "brand">>})

-----------------------------------------------------------------------------
AskedFor(path, by) ==
  [path |-> path, asked |-> IF by = "link" THEN path ELSE Home, by |-> by, pc |-> "asked", hops |-> 0, fresh |-> FALSE]

NavigationInit ==
  /\ role \in Everyone /\ member \in BOOLEAN /\ off \in SUBSET OptionalSections /\ menu = off
  /\ at = AskedFor(Home, "address") /\ switches = 0

(* A link of the menu, of the top bar or of the page, or an address that   *)
(* was kept, as is a link of what was shown before a switch.               *)
Follow ==
  /\ at.pc = "shown"
  /\ \/ \E path \in MenuLinks(menu) \cup TabLinks(at.path, menu) :
          at' = AskedFor(path, IF menu = off THEN "link" ELSE "address")
     \/ at.fresh /\ \E path \in PageLinks(at.path, off) : at' = AskedFor(path, "link")
     \/ \E path \in Paths : at' = AskedFor(path, "address")
  /\ UNCHANGED <<role, member, off, menu, switches>>

RedirectHome ==
  /\ at.pc = "asked" /\ at.path = Home
  /\ at' = [at EXCEPT !.path = HomePath(role, off), !.hops = @ + 1]
  /\ UNCHANGED <<role, member, off, menu, switches>>

RedirectMoved ==
  /\ at.pc = "asked" /\ at.path \in DOMAIN Moved
  /\ at' = [at EXCEPT !.path = Moved[@], !.hops = @ + 1]
  /\ UNCHANGED <<role, member, off, menu, switches>>

Guarded == at.pc = "asked" /\ at.path # Home /\ at.path \notin DOMAIN Moved

SendBack ==
  /\ Guarded /\ ~Admitted(GuardOf(at.path))
  /\ at' = [at EXCEPT !.path = GuardOf(@).back, !.hops = @ + 1]
  /\ UNCHANGED <<role, member, off, menu, switches>>

Show ==
  /\ Guarded /\ Admitted(GuardOf(at.path))
  /\ at' = [at EXCEPT !.pc = IF Missing(at.path) THEN "missing" ELSE "shown", !.fresh = TRUE]
  /\ UNCHANGED <<role, member, off, menu, switches>>

GoBack ==
  /\ at.pc = "missing" /\ at' = AskedFor(Home, "address")
  /\ UNCHANGED <<role, member, off, menu, switches>>

(* An administrator saves the setup; a redirect or a link that is under    *)
(* way then is one of the changed portal.                                  *)
Switch ==
  /\ switches < MaxSwitches /\ switches' = switches + 1
  /\ \E s \in SUBSET OptionalSections : off' = s
  /\ at' = [at EXCEPT !.hops = 0, !.by = "address", !.asked = Home, !.fresh = FALSE]
  /\ UNCHANGED <<role, member, menu>>

(* The app is opened again.                                                *)
OpenAgain ==
  /\ menu # off /\ menu' = off
  /\ UNCHANGED <<role, member, off, at, switches>>

NavigationNext ==
  Follow \/ RedirectHome \/ RedirectMoved \/ SendBack \/ Show \/ GoBack \/ Switch \/ OpenAgain

-----------------------------------------------------------------------------
(* Properties.                                                             *)

(* Whatever is switched off, nobody is sent round in a circle: the pages   *)
(* send those they do not admit to «/», and «/» sends everyone to a page   *)
(* that admits him.                                                        *)
SentToAPage == at.hops <= 3 /\ (at.pc # "asked" => at.path \in Paths \ ({Home} \cup DOMAIN Moved))

(* Links that are shown to those whom their pages do not admit: «Стадии    *)
(* CRM» and the brand of the report to managers, «Авторасчёт финансов»     *)
(* under the team when it is switched off, and on the tariffs the tabs of  *)
(* the settings to employees.                                              *)
Misleading(link) ==
  \/ role = "MANAGER" /\ link \in {<<"settings", "stages">>, <<"settings", "brand">>}
  \/ role = "ADMIN" /\ link = AutoFinance /\ "automation" \in off
  \/ role = "EMPLOYEE" /\ link \in {<<"settings">>, <<"settings", "stages">>, <<"history">>}

(* A link that is shown leads to the page it names, in the menu, the top   *)
(* bar and on the pages, for every role and whatever is switched off; but  *)
(* for those above, which lead home.                                       *)
LinksLeadThere ==
  at.pc # "asked" /\ at.by = "link" =>
    at.path = IF Misleading(at.asked) THEN HomePath(role, off) ELSE at.asked

(* A page under a section that is switched off is not shown: the list of   *)
(* sections and the guards written in the pages agree.                     *)
SwitchedOffNotShown == at.pc = "asked" /\ at'.pc = "shown" => SectionsOfPath(at.path) \cap off = {}

(* On the page of a link of the menu exactly that card and that screen are *)
(* lit.                                                                    *)
OwnLinkLit ==
  at.pc = "shown" =>
    \A i \in VisibleItems(menu) : \A s \in VisibleScreens(i.screens, menu) :
      s.href = at.path =>
        ActiveItem(VisibleItems(menu), at.path) = {i} /\ ActiveScreen(VisibleScreens(i.screens, menu), at.path) = {s}

(* Every way through the app ends at the page it promised, or at one that  *)
(* is allowed.                                                             *)
WaysLeadThere == [](SentToAPage /\ LinksLeadThere /\ OwnLinkLit) /\ [][SwitchedOffNotShown]_navigationVars
=============================================================================
