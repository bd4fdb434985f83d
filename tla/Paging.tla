------------------------------- MODULE Paging -------------------------------
(***************************************************************************)
(* Lists of Bitrix24 read page by page (lib/bitrix: tasks of a project,    *)
(* elements of a CRM section, elements linked to a client, all deals):     *)
(* offsets into a list that others change meanwhile, a short page taken    *)
(* for the last one, pages asked for alone or many in one batch, a cap.    *)
(*                                                                         *)
(* Elements are numbers in the order of their ids.  A kind of walk is a    *)
(* record: newest first or oldest first ("desc"), whether the pages after  *)
(* the first come in batches, whether elements seen are skipped, and       *)
(* whether a walk that reaches the cap says so.                            *)
(***************************************************************************)
EXTENDS Integers, Sequences, SequencesExt, FiniteSets

CONSTANTS
  PageLen,      \* 50
  MaxRows,      \* the cap of every walk, a multiple of PageLen
  MaxElement,   \* bound on the elements there ever are
  FirstElements \* how many there are before a walk starts

ASSUME PagingAssumption ==
  /\ PageLen \in Nat \ {0} /\ MaxRows \in Nat \ {0} /\ MaxRows % PageLen = 0
  /\ MaxElement \in Nat /\ FirstElements \subseteq Nat

VARIABLES
  list,     \* the elements there are, in the order of their ids
  newest,   \* the newest element there ever was
  walk      \* the walk, and what happened to the list meanwhile

pagingVars == <<list, newest, walk>>

ProjectTasks == [desc |-> TRUE, batched |-> TRUE, skips |-> FALSE, tells |-> FALSE]
CrmElements == [desc |-> FALSE, batched |-> FALSE, skips |-> FALSE, tells |-> TRUE]
Linked == [desc |-> TRUE, batched |-> FALSE, skips |-> TRUE, tells |-> TRUE]
Deals == [desc |-> FALSE, batched |-> TRUE, skips |-> FALSE, tells |-> TRUE]

SectionItems == CrmElements

PagingInit ==
  /\ newest \in FirstElements /\ list = [e \in 1 .. newest |-> e]
  /\ walk \in [kind : {ProjectTasks, CrmElements, SectionItems, Linked, Deals}, pc : {"page"}, start : {0}, rows : {<<>>},
               truncated : {FALSE}, stayed : {1 .. newest}, came : {FALSE}, left : {FALSE}, missing : {FALSE}]

-----------------------------------------------------------------------------
(* Bitrix24.                                                               *)

ElementAdded ==
  /\ walk.pc = "page" /\ newest < MaxElement
  /\ newest' = newest + 1 /\ list' = Append(list, newest + 1)
  /\ walk' = [walk EXCEPT !.came = TRUE]

(* It is deleted, or no longer matches what is asked for.                  *)
ElementLeaves ==
  /\ walk.pc = "page"
  /\ \E i \in DOMAIN list :
       /\ list' = SubSeq(list, 1, i - 1) \o SubSeq(list, i + 1, Len(list))
       /\ walk' = [walk EXCEPT !.stayed = @ \ {list[i]}, !.left = TRUE]
  /\ UNCHANGED newest

InOrder(kind) == IF kind.desc THEN Reverse(list) ELSE list

PageAt(kind, start) ==
  LET all == InOrder(kind) IN
    SubSeq(all, start + 1, IF start + PageLen > Len(all) THEN Len(all) ELSE start + PageLen)

-----------------------------------------------------------------------------
(* The walk.                                                               *)

Taken_AsTheyCome(kind, rows, page) == rows \o page

(* Row by row, those already there left out.                               *)
Skipping(rows, page) ==
  LET out[i \in 0 .. Len(page)] ==
        IF i = 0 THEN rows
        ELSE IF page[i] \in ToSet(out[i - 1]) THEN out[i - 1] ELSE Append(out[i - 1], page[i])
  IN  out[Len(page)]

Taken(kind, rows, page) == IF kind.skips THEN Skipping(rows, page) ELSE rows \o page

LastPage_NothingNew(kind, rows, page) == Len(Taken(kind, rows, page)) < Len(rows) + PageLen

LastPage(kind, rows, page) == Len(page) < PageLen

NextStart_Overlaps(start) == start + PageLen - 1

NextStart(start) == start + PageLen

Capped(start) == start + PageLen >= MaxRows

Read(page, missing) ==
  LET rows == Taken(walk.kind, walk.rows, page)
      last == LastPage(walk.kind, walk.rows, page)
      full == ~last /\ Capped(walk.start)
  IN  walk' = [walk EXCEPT !.rows = SubSeq(rows, 1, IF Len(rows) > MaxRows THEN MaxRows ELSE Len(rows)),
                           !.start = NextStart(@),
                           !.pc = IF last \/ full THEN "done" ELSE "page",
                           !.truncated = full /\ walk.kind.tells,
                           !.missing = @ \/ missing]

ReadPage ==
  /\ walk.pc = "page" /\ Read(PageAt(walk.kind, walk.start), FALSE)
  /\ UNCHANGED <<list, newest>>

(* A part of a batch that fails is not in its answer, and reads as an      *)
(* empty page; a project's first page is asked for alone, the deals' in    *)
(* the first batch.  A failed call ends the walk with an error.            *)
PageMissing ==
  /\ walk.pc = "page" /\ walk.kind.batched
  /\ walk.start > 0 \/ walk.kind = Deals
  /\ Read(<<>>, TRUE)
  /\ UNCHANGED <<list, newest>>

CallFails ==
  /\ walk.pc = "page" /\ walk' = [walk EXCEPT !.pc = "failed"]
  /\ UNCHANGED <<list, newest>>

PagingNext == ElementAdded \/ ElementLeaves \/ ReadPage \/ PageMissing \/ CallFails

-----------------------------------------------------------------------------
(* Properties.                                                             *)

Got == ToSet(walk.rows)

(* A list that nobody changes, read without a missing page, is read whole  *)
(* and in order, or its first MaxRows elements are; when something is left *)
(* out the walk says so, except the one over a project's tasks, which is   *)
(* cut at 2000 silently.                                                   *)
CalmWalkExact ==
  walk.pc = "done" /\ ~walk.came /\ ~walk.left /\ ~walk.missing =>
    LET all == InOrder(walk.kind) IN
      /\ IsPrefix(walk.rows, all)
      /\ walk.rows # all => Len(walk.rows) = MaxRows /\ (walk.truncated \/ ~walk.kind.tells)

(* Whatever happens meanwhile, nothing is counted twice by a walk that     *)
(* goes from the oldest on, nor by one that skips what it has seen.        *)
NoElementTwice == ~walk.kind.desc \/ walk.kind.skips => IsInjective(walk.rows)

(* What stayed in the list throughout is missed only when another element  *)
(* left and moved it up, when a page was missing, or behind the cap.       *)
MissedOnlyByMoves ==
  walk.pc = "done" /\ ~walk.left /\ ~walk.missing /\ walk.start < MaxRows => walk.stayed \subseteq Got

(* A walk reads each element once and leaves out nothing it could have     *)
(* read.                                                                   *)
WalkSound == CalmWalkExact /\ NoElementTwice /\ MissedOnlyByMoves
=============================================================================
