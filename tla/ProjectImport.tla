--------------------------- MODULE ProjectImport ----------------------------
(***************************************************************************)
(* «Добавить списком»: many projects made one after another from elements  *)
(* picked in Bitrix24 or lines typed in.  The page knows which elements    *)
(* have projects from one reading at its opening; the server does not look *)
(* when it makes one, so that only the page keeps an element from a second *)
(* project.  Others make projects too, with pages of their own.            *)
(***************************************************************************)
EXTENDS Integers, FiniteSets

CONSTANTS
  Picks,    \* elements of Bitrix24
  Lines,    \* lines that can be typed
  MaxMade   \* bound on projects made from one element or line

ASSUME ImportAssumption == Picks \cap Lines = {} /\ "none" \notin Picks \cup Lines /\ MaxMade \in Nat

VARIABLES
  made,    \* number of projects made from each element and line
  page,    \* the page
  excused  \* elements and lines of whose project the page could not know

importVars == <<made, page, excused>>

-----------------------------------------------------------------------------
Drafts == Picks \cup Lines

NoImport == [pc |-> "closed", reading |-> "no", answer |-> {}, linked |-> {}, picked |-> {}, text |-> {},
             run |-> "none", asked |-> {}, left |-> {}, at |-> "none", done |-> {}, failed |-> FALSE]

ImportInit ==
  /\ made = [d \in Drafts |-> 0] /\ page = NoImport /\ excused = {}

Linked == {d \in Picks : made[d] > 0}

(* On another page, or a run left for another screen, which goes on.       *)
SomebodyMakes ==
  /\ \E d \in Picks :
       /\ made[d] < MaxMade /\ made' = [made EXCEPT ![d] = @ + 1]
       /\ excused' = IF made[d] = 0 /\ (page.pc = "closed" \/ (page.reading = "asked" /\ d \notin page.picked \cup page.left))
                      THEN excused ELSE excused \cup {d}
  /\ UNCHANGED page

OpenImport ==
  /\ page.pc = "closed" /\ page' = [NoImport EXCEPT !.pc = "open", !.reading = "asked"]
  /\ UNCHANGED <<made, excused>>

ReadLinked ==
  /\ page.reading = "asked" /\ page' = [page EXCEPT !.reading = "read", !.answer = Linked]
  /\ UNCHANGED <<made, excused>>

(* The answer may come when something is picked, or after a run, whose     *)
(* projects it may leave out.  Without it the page knows only its own.     *)
LinkedCome ==
  /\ page.reading = "read"
  /\ page' = [page EXCEPT !.reading = "no", !.answer = {}, !.linked = page.answer]
  /\ excused' = excused \cup (page.linked \ page.answer)
  /\ UNCHANGED made

Toggled(set, d) == IF d \in set THEN set \ {d} ELSE set \cup {d}

Pickable == Picks \ page.linked

(* Also while projects are being made.                                     *)
Toggle ==
  /\ page.pc # "closed"
  /\ \E d \in Pickable :
       /\ page' = [page EXCEPT !.picked = Toggled(@, d)]
       /\ excused' = IF page.reading # "no" /\ made[d] > 0 THEN excused \cup {d} ELSE excused
  /\ UNCHANGED made

TypeLine ==
  /\ page.pc # "closed"
  /\ \E l \in Lines : /\ page' = [page EXCEPT !.text = Toggled(@, l)]
                      /\ excused' = IF made[l] > 0 THEN excused \cup {l} ELSE excused
  /\ UNCHANGED made

-----------------------------------------------------------------------------
(* run: what was chosen when the button was pressed, one by one.           *)

Run ==
  /\ page.pc = "open"
  /\ \E mode \in {"bitrix", "list"} :
       LET drafts == IF mode = "bitrix" THEN page.picked ELSE page.text IN
         /\ drafts # {}
         /\ page' = [page EXCEPT !.pc = "running", !.run = mode, !.asked = drafts, !.left = drafts]
         /\ excused' = excused \cup {d \in drafts \cap Picks : page.reading # "no" /\ made[d] > 0}
  /\ UNCHANGED made

Between == page.pc = "running" /\ page.at = "none"

(* The answer of a request may be lost, and then the project counts as not *)
(* made.                                                                   *)
CreateDraft ==
  /\ Between
  /\ \E d \in page.left, answered \in BOOLEAN :
       /\ made[d] < MaxMade /\ made' = [made EXCEPT ![d] = @ + 1]
       /\ excused' = IF answered THEN excused ELSE excused \cup {d}
       /\ page' = [page EXCEPT !.left = @ \ {d}, !.at = IF answered THEN d ELSE "none", !.failed = @ \/ ~answered]

Refused ==
  /\ Between
  /\ \E d \in page.left : page' = [page EXCEPT !.left = @ \ {d}, !.failed = TRUE]
  /\ UNCHANGED <<made, excused>>

(* Its direction and its package of hours, each of which can be refused;   *)
(* the project counts as made all the same.                                *)
Direct ==
  /\ page.pc = "running" /\ page.at # "none"
  /\ \E refused \in BOOLEAN :
       page' = [page EXCEPT !.at = "none", !.done = @ \cup {page.at}, !.failed = @ \/ refused]
  /\ UNCHANGED <<made, excused>>

Remaining_All == page.picked

Remaining == page.picked \ page.done

TextLeft_Cleared == IF page.run = "list" THEN {} ELSE page.text

(* A list is cleared when nothing failed, with what was typed meanwhile;   *)
(* otherwise it stays whole, with the lines that have projects now.        *)
TextLeft == IF page.run = "list" /\ ~page.failed THEN {} ELSE page.text

EndRun ==
  /\ Between /\ page.left = {}
  /\ page' = [page EXCEPT !.pc = "open", !.linked = @ \cup (page.done \cap Picks), !.picked = Remaining, !.text = TextLeft,
                          !.run = "none", !.asked = {}, !.done = {}, !.failed = FALSE]
  /\ excused' = excused \cup IF page.failed THEN page.text ELSE {}
  /\ UNCHANGED made

(* Also in the middle of a run, of whose projects the page then keeps      *)
(* nothing.                                                                *)
CloseImport ==
  /\ page.pc # "closed" /\ page' = NoImport
  /\ UNCHANGED <<made, excused>>

ImportNext ==
  \/ SomebodyMakes
  \/ OpenImport \/ ReadLinked \/ LinkedCome \/ Toggle \/ TypeLine
  \/ Run \/ CreateDraft \/ Refused \/ Direct \/ EndRun \/ CloseImport

-----------------------------------------------------------------------------
(* Properties.                                                             *)

(* However often a run is repeated after failures, a page gives an element *)
(* one project, and a line of a list that was made whole too, unless an    *)
(* answer was lost, the list of elements with projects had not come, or    *)
(* somebody else made one meanwhile.                                       *)
OneProjectEach(d) == made[d] > 1 => d \in excused

(* What a run was to make and did not make, or is not known to have made,  *)
(* is still picked, or typed, after it.                                    *)
NothingPickedIsLost ==
  page.pc = "running" /\ page'.pc = "open" =>
    (page.asked \cap (page.picked \cup page.text)) \ page.done \subseteq page'.picked \cup page'.text

(* An import that is repeated until nothing is left makes each project     *)
(* once.                                                                   *)
ImportMakesEach == [](\A d \in Drafts : OneProjectEach(d)) /\ [][NothingPickedIsLost]_importVars
=============================================================================
