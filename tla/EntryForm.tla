------------------------------ MODULE EntryForm -----------------------------
(***************************************************************************)
(* The form an entry is added, edited or copied with.  It asks for the     *)
(* directions of the project each time one is chosen, and forgets a chosen *)
(* direction the project does not have; whatever the answers do, an edit   *)
(* must keep what nobody touched.  An edit sends every field that is not   *)
(* blank; a blank one leaves the entry as it was.  The other checks of the *)
(* server are in Ledger.                                                   *)
(***************************************************************************)
EXTENDS Integers, FiniteSets

CONSTANTS
  FormProjects,
  Directions, HomeOf,   \* directions (streams), and the project of each
  Texts,                \* what the other fields can hold
  Blank,
  MaxPending            \* bound on requests in flight

ASSUME FormAssumption ==
  /\ HomeOf \in [Directions -> FormProjects] /\ MaxPending \in Nat
  /\ Blank \notin FormProjects \cup Directions \cup Texts

VARIABLES
  stored,    \* the entry in the ledger
  archived,  \* archived directions
  form

formVars == <<stored, archived, form>>

-----------------------------------------------------------------------------
FormRow(p, s, text) == [project |-> p, stream |-> s, text |-> text]

FormRows ==
  {row \in {FormRow(p, s, t) : p \in FormProjects, s \in Directions \cup {Blank}, t \in Texts \cup {Blank}} :
     row.stream # Blank => HomeOf[row.stream] = row.project}

EmptyRow(p) == FormRow(p, Blank, Blank)

NoForm == [pc |-> "closed", kind |-> "new", row |-> EmptyRow(Blank), shown |-> {},
           asked |-> {}, failed |-> FALSE, touched |-> {}, body |-> EmptyRow(Blank), sends |-> FALSE]

FormInit == /\ stored \in FormRows /\ archived = {} /\ form = NoForm

StreamsOf(p) == {s \in Directions \ archived : HomeOf[s] = p}

ArchiveDirection ==
  /\ \E s \in Directions \ archived : archived' = archived \cup {s}
  /\ UNCHANGED <<stored, form>>

-----------------------------------------------------------------------------
(* Directions of the chosen project.                                       *)

Unheard_Never(asked) == asked

(* The answers for a project chosen before are ignored.                    *)
Unheard(asked) == {[a EXCEPT !.heard = FALSE] : a \in asked}

AskStreams(f, p) ==
  IF p = Blank THEN f
  ELSE [f EXCEPT !.asked = Unheard(@) \cup {[project |-> p, heard |-> TRUE]}, !.failed = FALSE]

KeptStream_None(stream, streams) == Blank

KeptStream(stream, streams) == IF stream \in streams THEN stream ELSE Blank

StreamsCome ==
  /\ \E a \in form.asked :
       LET f == [form EXCEPT !.asked = @ \ {a}] IN
         form' = IF ~a.heard THEN f
                 ELSE [f EXCEPT !.shown = StreamsOf(a.project), !.row.stream = KeptStream(@, StreamsOf(a.project))]
  /\ UNCHANGED <<stored, archived>>

(* What was shown for another project stays.                               *)
StreamsFail ==
  /\ \E a \in form.asked : form' = [form EXCEPT !.asked = @ \ {a}, !.failed = @ \/ a.heard]
  /\ UNCHANGED <<stored, archived>>

-----------------------------------------------------------------------------
(* A person at the form.                                                   *)

(* On the page of a project the project is chosen from the start.          *)
OpenForm ==
  /\ form.pc = "closed"
  /\ \/ \E p \in FormProjects \cup {Blank} :
          form' = AskStreams([NoForm EXCEPT !.pc = "open", !.row = EmptyRow(p)], p)
     \/ \E kind \in {"edit", "copy"} :
          form' = AskStreams([NoForm EXCEPT !.pc = "open", !.kind = kind, !.row = stored], stored.project)
  /\ UNCHANGED <<stored, archived>>

Touch(field, row) ==
  /\ row # form.row /\ form' = [form EXCEPT !.row = row, !.touched = @ \cup {field}]
  /\ UNCHANGED <<stored, archived>>

PickProject ==
  /\ form.pc # "closed" /\ Cardinality(form.asked) < MaxPending
  /\ \E p \in FormProjects \ {form.row.project} :
       form' = AskStreams([form EXCEPT !.row.project = p, !.touched = @ \cup {"project"}], p)
  /\ UNCHANGED <<stored, archived>>

PickStream ==
  /\ form.pc # "closed" /\ form.row.project # Blank /\ form.shown # {}
  /\ \E s \in form.shown \cup {Blank} : Touch("stream", [form.row EXCEPT !.stream = s])

WriteText ==
  /\ form.pc # "closed"
  /\ \E t \in Texts \cup {Blank} : Touch("text", [form.row EXCEPT !.text = t])

(* A new entry tells of a direction only when some are shown.              *)
SendsStream(f) == f.kind = "edit" \/ (f.row.project # Blank /\ f.shown # {})

SubmitForm ==
  /\ form.pc = "open"
  /\ form' = [form EXCEPT !.pc = "sent", !.body = form.row, !.sends = SendsStream(form)]
  /\ UNCHANGED <<stored, archived>>

CloseForm ==
  /\ form.pc = "open" /\ form' = NoForm
  /\ UNCHANGED <<stored, archived>>

-----------------------------------------------------------------------------
(* The server.                                                             *)

EntryAccepted(body, sends) ==
  /\ body.project # Blank
  /\ sends /\ body.stream # Blank => body.stream \notin archived /\ HomeOf[body.stream] = body.project

(* The texts and the person of an entry can be changed and not cleared.    *)
EntryUpdated(entry, body) == [body EXCEPT !.text = IF @ = Blank THEN entry.text ELSE @]

Back == [form EXCEPT !.pc = "open", !.body = EmptyRow(Blank), !.sends = FALSE]

(* The answer may be lost, and then the form stays open.                   *)
EntrySaved ==
  /\ form.pc = "sent" /\ EntryAccepted(form.body, form.sends)
  /\ stored' = IF form.kind = "edit" THEN EntryUpdated(stored, form.body) ELSE stored
  /\ form' \in {NoForm, Back}
  /\ UNCHANGED archived

EntryRefused ==
  /\ form.pc = "sent" /\ form' = Back
  /\ UNCHANGED <<stored, archived>>

FormNext ==
  \/ ArchiveDirection \/ StreamsCome \/ StreamsFail
  \/ OpenForm \/ PickProject \/ PickStream \/ WriteText \/ SubmitForm \/ CloseForm
  \/ EntrySaved \/ EntryRefused

-----------------------------------------------------------------------------
(* Properties.                                                             *)

(* Once the answers are in, the form offers directions of the chosen       *)
(* project only and has one of them chosen or none, in whatever order the  *)
(* projects were chosen and the answers came, unless the last one failed.  *)
StreamsOfTheProject ==
  form.pc # "closed" /\ form.row.project # Blank /\ ~form.failed /\ (\A a \in form.asked : ~a.heard) =>
    /\ \A s \in form.shown : HomeOf[s] = form.row.project
    /\ form.row.stream \in form.shown \cup {Blank}

(* An edit leaves a field nobody touched as it was: a direction too,       *)
(* unless the project was changed or the direction archived.               *)
UntouchedStays ==
  \A field \in DOMAIN stored \ form.touched :
    stored'[field] # stored[field] =>
      field = "stream" /\ ("project" \in form.touched \/ stored.stream \in archived)

(* However the answers come, the form writes what its user chose and       *)
(* nothing else.                                                           *)
FormKeepsEntry == StreamsOfTheProject /\ [][StreamsOfTheProject' /\ UntouchedStays]_formVars
=============================================================================
