---------------------------- MODULE CrmSettings -----------------------------
(***************************************************************************)
(* How a portal reads its CRM: which stages of a section mean what, and    *)
(* the fields time is kept in.  Each has a page whose copy of the settings *)
(* grows old while it is open, and both are read by the elements shown on  *)
(* a project, which are kept in memory for five minutes.                   *)
(*                                                                         *)
(* One CRM section with one stage per funnel.  Bitrix24 reads every stage  *)
(* as "process"; a mapping is the pair of the hours' field and the         *)
(* minutes' field.                                                         *)
(***************************************************************************)
EXTENDS Integers, FiniteSets

CONSTANTS
  Editors,    \* settings pages open at once
  SectionStages,     \* stages of the section
  HourField,  \* a field for hours,
  MinuteField,\* and one for minutes
  NoField     \* "not used"

ASSUME CrmSettingsAssumption == NoField \notin {HourField, MinuteField} /\ IsFiniteSet(Editors)

VARIABLES
  rules,    \* outcomes set by the portal, "none" where there is no rule
  mapping,  \* the time fields of the section
  fields,   \* fields there are in Bitrix24
  editor,   \* the settings pages
  last,     \* what was saved last, and whether another save overlapped it
  related   \* the elements of a project: cached, being read

settingsVars == <<rules, mapping, fields, editor, last, related>>

-----------------------------------------------------------------------------
Outcomes == {"process", "closed"}

NoRules == [s \in SectionStages |-> "none"]

Unmapped == <<NoField, NoField>>

Mappings == {HourField, NoField} \X {MinuteField, NoField}

ReadAs(s) == IF rules[s] = "none" THEN "process" ELSE rules[s]

NoEditor == [kind |-> "none", pc |-> "closed", stages |-> {}, initial |-> NoRules, values |-> NoRules,
           fields |-> Unmapped, overlapped |-> FALSE]

Nothing == [kind |-> "none", stages |-> {}, values |-> NoRules, fields |-> Unmapped]

(* Linked elements are known by the settings they were read under.         *)
UnderNow == [there |-> TRUE, raced |-> FALSE, mapping |-> mapping, rules |-> rules]

Mixed == [there |-> TRUE, raced |-> TRUE, mapping |-> Unmapped, rules |-> NoRules]

NoneRead == [Mixed EXCEPT !.there = FALSE]

SettingsInit ==
  /\ rules \in [SectionStages -> {"none", "closed"}] /\ mapping \in Mappings
  /\ fields = {HourField, MinuteField}
  /\ editor = [p \in Editors |-> NoEditor]
  /\ last = Nothing
  /\ related = [cached |-> NoneRead, reading |-> NoneRead]

Saving == {p \in Editors : editor[p].pc \notin {"closed", "open"}}

(* A save that begins while another goes on, and the other, overlap.       *)
Begun(p, pc) ==
  [q \in Editors |->
     IF q = p THEN [editor[p] EXCEPT !.pc = pc, !.overlapped = Saving # {}]
     ELSE IF q \in Saving THEN [editor[q] EXCEPT !.overlapped = TRUE] ELSE editor[q]]

(* Elements being read while a setting is written may be of either.        *)
Written == [related EXCEPT !.reading = IF @.there THEN Mixed ELSE NoneRead]

-----------------------------------------------------------------------------
(* SectionStages (SectionCard).  A funnel whose part of the batch failed is shown *)
(* without stages.                                                         *)

OpenStages(p) ==
  /\ editor[p].pc = "closed"
  /\ \E shown \in SUBSET SectionStages :
       LET v == [s \in SectionStages |-> IF s \in shown THEN ReadAs(s) ELSE "none"]
       IN  editor' = [editor EXCEPT ![p] = [NoEditor EXCEPT !.kind = "stages", !.pc = "open", !.stages = shown,
                                                          !.initial = v, !.values = v]]
  /\ UNCHANGED <<rules, mapping, fields, last, related>>

ChooseOutcome(p) ==
  /\ editor[p].pc = "open" /\ editor[p].kind = "stages"
  /\ \E s \in editor[p].stages, o \in Outcomes : editor' = [editor EXCEPT ![p].values[s] = o]
  /\ UNCHANGED <<rules, mapping, fields, last, related>>

(* «Сохранить» is off while the page is as it was loaded, after a save     *)
(* too.  The section's rules are deleted, then those that differ from what *)
(* Bitrix24 says are inserted; the two are not one transaction.            *)
RulesLeft_OfOthers(p) == [s \in SectionStages |-> IF editor[p].values[s] \in {"none", "process"} THEN rules[s] ELSE "none"]

RulesLeft(p) == NoRules

SaveStages(p) ==
  /\ editor[p].pc = "open" /\ editor[p].kind = "stages" /\ editor[p].values # editor[p].initial
  /\ rules' = RulesLeft(p) /\ editor' = Begun(p, "deleted") /\ related' = Written
  /\ last' = Nothing
  /\ UNCHANGED <<mapping, fields>>

Sent(p) == {s \in SectionStages : editor[p].values[s] \notin {"none", "process"}}

InsertRules(p) ==
  /\ editor[p].pc = "deleted" /\ \A s \in Sent(p) : rules[s] = "none"
  /\ rules' = [s \in SectionStages |-> IF s \in Sent(p) THEN editor[p].values[s] ELSE rules[s]]
  /\ editor' = [editor EXCEPT ![p].pc = "stored"] /\ related' = Written
  /\ UNCHANGED <<mapping, fields, last>>

(* The insertion fails, because another save put a rule of a stage first   *)
(* or for a reason of its own.  The rules stay deleted, and what is kept in *)
(* memory is not forgotten.                                                *)
InsertFails(p) ==
  /\ editor[p].pc = "deleted"
  /\ editor' = [editor EXCEPT ![p].pc = "open"]
  /\ last' = Nothing
  /\ related' = [related EXCEPT !.cached = IF @.there THEN Mixed ELSE NoneRead]
  /\ UNCHANGED <<rules, mapping, fields>>

-----------------------------------------------------------------------------
(* Time fields (Editor).                                                   *)

OpenMapping(p) ==
  /\ editor[p].pc = "closed"
  /\ editor' = [editor EXCEPT ![p] = [NoEditor EXCEPT !.kind = "mapping", !.pc = "open", !.fields = mapping]]
  /\ UNCHANGED <<rules, mapping, fields, last, related>>

ChooseFields(p) ==
  /\ editor[p].pc = "open" /\ editor[p].kind = "mapping"
  /\ \E f \in Mappings : editor' = [editor EXCEPT ![p].fields = f]
  /\ UNCHANGED <<rules, mapping, fields, last, related>>

FieldDeleted ==
  /\ fields = {HourField, MinuteField} /\ \E f \in fields : fields' = fields \ {f}
  /\ UNCHANGED <<rules, mapping, editor, last, related>>

Removes_WithoutHours(f) == f[1] = NoField

Removes(f) == f = Unmapped

(* The fields are checked in Bitrix24; «Убрать» asks for none.             *)
CheckFields(p) ==
  /\ editor[p].pc = "open" /\ editor[p].kind = "mapping"
  /\ Removes(editor[p].fields) \/ {editor[p].fields[1], editor[p].fields[2]} \subseteq fields \cup {NoField}
  /\ editor' = Begun(p, "checked") /\ last' = Nothing
  /\ UNCHANGED <<rules, mapping, fields, related>>

StoreMapping(p) ==
  /\ editor[p].pc = "checked"
  /\ mapping' = IF Removes(editor[p].fields) THEN Unmapped ELSE editor[p].fields
  /\ editor' = [editor EXCEPT ![p].pc = "stored"] /\ related' = Written
  /\ UNCHANGED <<rules, fields, last>>

(* Only then is what is kept in memory forgotten.                          *)
Forgotten_KeptOfTheProject == related

Forgotten == [related EXCEPT !.cached = NoneRead]

SaveEnds(p) ==
  /\ editor[p].pc = "stored"
  /\ editor' = [editor EXCEPT ![p].pc = "open"] /\ related' = Forgotten
  /\ last' = IF editor[p].overlapped THEN Nothing
             ELSE [kind |-> editor[p].kind, stages |-> editor[p].stages, values |-> editor[p].values, fields |-> editor[p].fields]
  /\ UNCHANGED <<rules, mapping, fields>>

-----------------------------------------------------------------------------
(* Elements linked to a project (loadRelated): the settings are read, then *)
(* Bitrix24, and the elements are kept, whatever was saved meanwhile.      *)

BeginRelated ==
  /\ ~related.cached.there /\ ~related.reading.there
  /\ related' = [related EXCEPT !.reading = IF Saving = {} THEN UnderNow ELSE Mixed]
  /\ UNCHANGED <<rules, mapping, fields, editor, last>>

RelatedRead ==
  /\ related.reading.there
  /\ related' = [cached |-> related.reading, reading |-> NoneRead]
  /\ UNCHANGED <<rules, mapping, fields, editor, last>>

(* Five minutes pass, or Bitrix24 does not answer.                         *)
RelatedGone ==
  /\ \/ related.cached.there /\ related' = [related EXCEPT !.cached = NoneRead]
     \/ related.reading.there /\ related' = [related EXCEPT !.reading = NoneRead]
  /\ UNCHANGED <<rules, mapping, fields, editor, last>>

SettingsNext ==
  \/ \E p \in Editors :
       \/ OpenStages(p) \/ ChooseOutcome(p) \/ SaveStages(p) \/ InsertRules(p) \/ InsertFails(p)
       \/ OpenMapping(p) \/ ChooseFields(p) \/ CheckFields(p) \/ StoreMapping(p) \/ SaveEnds(p)
  \/ FieldDeleted
  \/ BeginRelated \/ RelatedRead \/ RelatedGone

-----------------------------------------------------------------------------
(* Properties.                                                             *)

(* After a save that no other save overlapped, every stage the page showed *)
(* is read as the page showed it, those put back to what Bitrix24 says     *)
(* included, however old the page was.                                     *)
RulesAsShown == last.kind = "stages" => \A s \in last.stages : ReadAs(s) = last.values[s]

(* And time is taken from exactly the fields that were chosen.             *)
MappingAsShown == last.kind = "mapping" => mapping = last.fields

(* Elements kept in memory are read as the settings of now say, unless a   *)
(* save has not ended, or was going on while they were read.               *)
RelatedUnderSaved == Saving = {} /\ related.cached.there /\ ~related.cached.raced => related.cached = UnderNow

(* The CRM is read as the settings pages promised when they were saved.    *)
SettingsInForce == RulesAsShown /\ MappingAsShown /\ RelatedUnderSaved
=============================================================================
