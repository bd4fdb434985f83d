------------------------------ MODULE CrmPicker -----------------------------
(***************************************************************************)
(* Picking what a project is made from: deals and companies, smart         *)
(* processes and the groups of «Проекты».  The sections offered are read   *)
(* when a picker opens, from the sources added in the settings and from    *)
(* Bitrix24; the server asks again for every list.  The lists of the       *)
(* project form ignore an answer that a newer choice has overtaken; the    *)
(* list of the bulk import does not.                                       *)
(***************************************************************************)
EXTENDS Integers, FiniteSets

CONSTANTS
  BuiltIn,   \* deals and companies
  Smart,     \* smart processes
  Queries,   \* what can be searched for
  MaxAsked   \* bound on requests in flight

CONSTANTS NoSection, Groups, NoQuery

ASSUME PickerAssumption ==
  /\ BuiltIn # {} /\ BuiltIn \cap Smart = {} /\ NoQuery \in Queries /\ MaxAsked \in Nat
  /\ Groups # NoSection /\ {NoSection, Groups} \cap (BuiltIn \cup Smart) = {}

VARIABLES
  live,        \* smart processes of the portal
  configured,  \* smart processes added as sources
  ignored,     \* smart processes marked «Не использовать»
  picker       \* an open list

pickerVars == <<live, configured, ignored, picker>>

-----------------------------------------------------------------------------
Kinds == {"crm", "groups", "bulk"}

NoPicker == [kind |-> "none", sources |-> {}, reading |-> FALSE, section |-> NoSection, q |-> NoQuery, rows |-> {},
             loading |-> FALSE, failed |-> FALSE, more |-> FALSE, asked |-> {}, calm |-> TRUE, gone |-> {}, refused |-> {}]

PickerInit ==
  /\ live \in SUBSET Smart /\ configured = {} /\ ignored \in SUBSET Smart /\ picker = NoPicker

(* crm.type.list can fail, and then tells of no smart process.             *)
Listed(answers) == IF answers THEN live ELSE {}

Offered(answers) == BuiltIn \cup ((configured \cup Listed(answers)) \ ignored)

Importable_AddedOnly(answers) == BuiltIn \cup configured

Importable(answers) == BuiltIn \cup configured \cup Listed(answers)

-----------------------------------------------------------------------------
(* The portal and its settings.                                            *)

(* What a picker offers from sources that are no more.                     *)
Gone(lives, sources) == picker.sources \ (BuiltIn \cup lives \cup sources)

Portal(lives, sources) ==
  /\ live' = lives /\ configured' = sources
  /\ picker' = [picker EXCEPT !.gone = @ \cup Gone(lives, sources)]
  /\ UNCHANGED ignored

CreateType == \E s \in Smart \ live : Portal(live \cup {s}, configured)

DeleteType == \E s \in live : Portal(live \ {s}, configured)

AddImportSource == \E s \in live \ configured : Portal(live, configured \cup {s})

RemoveImportSource == \E s \in configured : Portal(live, configured \ {s})

SaveRole ==
  /\ \E s \in Smart : ignored' = IF s \in ignored THEN ignored \ {s} ELSE ignored \cup {s}
  /\ UNCHANGED <<live, configured, picker>>

-----------------------------------------------------------------------------
(* Requests of a list.                                                     *)

Overtaken_Heard(p) == p.asked

(* A request whose choice has changed is not listened to any more.         *)
Overtaken(p) == IF p.kind = "bulk" THEN p.asked ELSE {[r EXCEPT !.heard = FALSE] : r \in p.asked}

Fetch(p, page) ==
  [p EXCEPT !.loading = TRUE, !.failed = FALSE, !.calm = p.asked = {} /\ (p.calm \/ page = 0),
            !.asked = Overtaken(p) \cup {[section |-> p.section, q |-> p.q, page |-> page, heard |-> TRUE]}]

CanAsk == Cardinality(picker.asked) < MaxAsked

OpenPicker ==
  /\ picker.kind = "none"
  /\ \E kind \in Kinds :
       picker' = IF kind = "groups" THEN Fetch([NoPicker EXCEPT !.kind = kind, !.section = Groups], 0)
                 ELSE [NoPicker EXCEPT !.kind = kind, !.reading = TRUE]
  /\ UNCHANGED <<live, configured, ignored>>

(* The form starts with the first of deals and companies.                  *)
SourcesCome ==
  /\ picker.reading
  /\ \E answers \in BOOLEAN :
       LET p == [picker EXCEPT !.reading = FALSE, !.sources = Offered(answers)] IN
         picker' = IF picker.kind = "crm" /\ picker.section = NoSection
                   THEN Fetch([p EXCEPT !.section = CHOOSE s \in BuiltIn : TRUE], 0)
                   ELSE p
  /\ UNCHANGED <<live, configured, ignored>>

SourcesFail ==
  /\ picker.reading /\ picker' = [picker EXCEPT !.reading = FALSE, !.failed = TRUE]
  /\ UNCHANGED <<live, configured, ignored>>

(* The bulk import offers the groups too, also before the sources come.    *)
ChooseSection ==
  /\ picker.kind \in {"crm", "bulk"} /\ CanAsk
  /\ \E s \in picker.sources \cup (IF picker.kind = "bulk" THEN {Groups} ELSE {}) :
       /\ s # picker.section /\ picker' = Fetch([picker EXCEPT !.section = s], 0)
  /\ UNCHANGED <<live, configured, ignored>>

(* To the tab of the groups, or of smart processes with none chosen.  What *)
(* was loading stays so.                                                   *)
LeaveSection ==
  /\ picker.kind = "crm" /\ picker.section # NoSection
  /\ picker' = [picker EXCEPT !.section = NoSection, !.asked = Overtaken(picker)]
  /\ UNCHANGED <<live, configured, ignored>>

TypeQuery ==
  /\ picker.kind # "none" /\ picker.section # NoSection /\ CanAsk
  /\ \E q \in Queries \ {picker.q} : picker' = Fetch([picker EXCEPT !.q = q], 0)
  /\ UNCHANGED <<live, configured, ignored>>

ShowMore ==
  /\ picker.kind = "bulk" /\ picker.more /\ ~picker.loading /\ CanAsk
  /\ picker' = Fetch(picker, 1)
  /\ UNCHANGED <<live, configured, ignored>>

(* A failure leaves the rows of the choice before, and where to read on.   *)
Failed(p, r) == IF r.heard THEN [p EXCEPT !.failed = TRUE, !.calm = FALSE] ELSE p

Answered(r) == [picker EXCEPT !.asked = @ \ {r}, !.loading = IF r.heard THEN FALSE ELSE @]

(* A list of elements, after the section was found to be importable.       *)
ItemsCome ==
  /\ \E r \in picker.asked, answers \in BOOLEAN, full \in BOOLEAN :
       LET row == [section |-> r.section, q |-> r.q, page |-> r.page]
           heard == [Answered(r) EXCEPT !.rows = IF r.page = 0 THEN {row} ELSE @ \cup {row},
                                        !.more = full /\ r.page = 0 /\ r.section # Groups] IN
         /\ r.section = Groups \/ r.section \in Importable(answers)
         /\ picker' = IF r.heard THEN heard ELSE Answered(r)
  /\ UNCHANGED <<live, configured, ignored>>

(* Refused as not importable, which is remembered unless the portal did    *)
(* not tell its smart processes.                                           *)
SectionRefused ==
  /\ \E r \in picker.asked, answers \in BOOLEAN :
       /\ r.section # Groups /\ r.section \notin Importable(answers)
       /\ picker' = [Failed(Answered(r), r) EXCEPT !.refused = IF answers THEN @ \cup {r.section} ELSE @]
  /\ UNCHANGED <<live, configured, ignored>>

ItemsFail ==
  /\ \E r \in picker.asked : picker' = Failed(Answered(r), r)
  /\ UNCHANGED <<live, configured, ignored>>

ClosePicker ==
  /\ picker.kind # "none" /\ picker' = NoPicker
  /\ UNCHANGED <<live, configured, ignored>>

PickerNext ==
  \/ CreateType \/ DeleteType \/ AddImportSource \/ RemoveImportSource \/ SaveRole
  \/ OpenPicker \/ SourcesCome \/ SourcesFail \/ ChooseSection \/ LeaveSection \/ TypeQuery \/ ShowMore
  \/ ItemsCome \/ SectionRefused \/ ItemsFail \/ ClosePicker

-----------------------------------------------------------------------------
(* Properties.                                                             *)

(* A list that is not loading and has not failed shows elements of the     *)
(* section and the search chosen, however the answers came.  The bulk      *)
(* import promises it only when its requests neither overlap nor fail.     *)
ItemsOfTheChoice ==
  picker.section # NoSection /\ ~picker.loading /\ ~picker.failed /\ (picker.kind = "bulk" => picker.calm) =>
    /\ \A row \in picker.rows : row.section = picker.section /\ row.q = picker.q
    /\ \E row \in picker.rows : row.page = 0

(* A section that was offered is refused only when its source was removed  *)
(* after the offer, or the portal did not tell its smart processes.        *)
OfferedCanBePicked == picker.refused \subseteq picker.gone

(* What a picker shows is what was chosen and can be picked.               *)
PickerSound == ItemsOfTheChoice /\ OfferedCanBePicked
=============================================================================
