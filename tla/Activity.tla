------------------------------ MODULE Activity ------------------------------
(***************************************************************************)
(* One load of a project's work from Bitrix24 (loadFromBitrix): the tasks  *)
(* of its work group or of its CRM client, their time records, the CRM     *)
(* elements linked to the client, the tasks bound to those elements and    *)
(* their records, the meetings of the group.  Each is a call of its own,   *)
(* between which people go on working; each can fail.  Lists of tasks are  *)
(* read page by page, the newest task first, their records for some tasks  *)
(* at a time.                                                              *)
(*                                                                         *)
(* A task is known by its bindings and whether time is logged on it, an    *)
(* element by its section and its time field: "ignored" (its section is    *)
(* not used), "plain" (no time in the field), "open" and "finished" (time  *)
(* in the field).  Rows and time records are named by their owner.         *)
(***************************************************************************)
EXTENDS Integers, Sequences, SequencesExt, FiniteSets, Functions

CONSTANTS
  Elements,   \* elements linked to the client
  Tasks,      \* tasks of the portal: their ids, a newer one has a higher
  Client,     \* the project's own group or CRM client, as a binding of tasks
  TaskPage,   \* 50: tasks of a page, and tasks whose records are asked for
              \* at once
  MaxTasks,   \* 2000: bound on the tasks of a list and on those taken from
              \* bindings
  MaxChanges  \* bound on what people change while the load runs

(* A task has the id Bitrix24 gave it, above zero; an element is given one *)
(* below zero (relatedAsActivity).                                         *)
ASSUME ActivityAssumption ==
  /\ Client \notin Elements /\ IsFiniteSet(Elements \cup Tasks) /\ Elements \cap Tasks = {}
  /\ Tasks \subseteq Nat /\ TaskPage \in Nat \ {0} /\ MaxTasks \in Nat /\ MaxTasks % TaskPage = 0

VARIABLES
  crm,   \* elements, tasks and calendar events of Bitrix24
  work   \* the load: its step, what it has read, what went wrong

activityVars == <<crm, work>>

-----------------------------------------------------------------------------
(* Bitrix24.  An event is an instance of a recurring meeting, or one that  *)
(* never counts: cancelled, whole day, without an end.                     *)

Instances == {<<"m", 1>>, <<"m", 2>>, <<"n", 1>>}

NoMeeting == <<"m", 0>>

Seqs(S, n) == UNION {[1 .. k -> S] : k \in 0 .. n}

TimeFields == {"ignored", "plain", "open", "finished"}

Bindings == SUBSET (Elements \cup {Client})

Quiet(kind) ==
  [kind |-> kind, pc |-> "tasks", start |-> 0, own |-> <<>>, ownTimes |-> <<>>, items |-> {},
   asked |-> {}, asking |-> {}, bound |-> <<>>, boundTo |-> {}, withTime |-> <<>>, boundTimes |-> <<>>,
   meetings |-> <<>>, meetingsError |-> FALSE, relatedLost |-> FALSE, partLost |-> FALSE,
   shifted |-> FALSE, changes |-> 0]

ActivityInit ==
  \/ /\ crm \in [elements : [Elements -> TimeFields],
                 tasks : [Tasks -> [bound : Bindings \ {{}}, logged : BOOLEAN]], events : {<<>>}]
     /\ work = Quiet("crm")
  \/ /\ crm \in [elements : {[e \in Elements |-> "ignored"]},
                 tasks : {[t \in Tasks |-> [bound |-> {Client}, logged |-> TRUE]]},
                 events : Seqs(Instances \cup {NoMeeting}, 3)]
     /\ work = Quiet("group")

Going == work.pc \notin {"done", "failed"}

CanChange == Going /\ work.changes < MaxChanges

(* Work that the list of the client's tasks shifts under is marked: a task *)
(* came or went between two of its pages.                                  *)
TaskChanged ==
  /\ CanChange
  /\ \E t \in Tasks, b \in Bindings, l \in BOOLEAN :
       /\ crm.tasks[t] # [bound |-> b, logged |-> l]
       /\ crm' = [crm EXCEPT !.tasks[t] = [bound |-> b, logged |-> l]]
       /\ LET between == work.pc = "tasks" /\ work.start > 0 /\ (Client \in b <=> Client \notin crm.tasks[t].bound)
          IN  work' = [work EXCEPT !.changes = @ + 1, !.shifted = @ \/ between]

ElementChanged ==
  /\ CanChange
  /\ work' = [work EXCEPT !.changes = @ + 1]
  /\ \E e \in Elements, f \in TimeFields \ {"ignored"} :
       /\ crm.elements[e] \notin {"ignored", f} /\ crm' = [crm EXCEPT !.elements[e] = f]

-----------------------------------------------------------------------------
(* The project's own tasks, with the time records of those that had any.   *)

BoundTo(b) == {t \in Tasks : b \in crm.tasks[t].bound}

Logged(ts) == {t \in ts : crm.tasks[t].logged}

(* What Bitrix24 answers for a page: the tasks that have "start" newer     *)
(* ones and up to a page more before them now, whatever was before when    *)
(* the page before was read.                                               *)
Ahead(ts, t) == Cardinality({u \in ts : u > t})

PageFrom(ts, start) == {t \in ts : start <= Ahead(ts, t) /\ Ahead(ts, t) < start + TaskPage}

(* A page that could not be read, in a batch with others, is an empty page *)
(* to the code; the first page is a call of its own.                       *)
Pages(ts) == {PageFrom(ts, work.start)} \cup (IF work.start > 0 THEN {{}} ELSE {})

(* A list ends with a page that is not full, or at the bound.              *)
Ends_AtTheFirst(page) == TRUE

Ends(page) == Cardinality(page) < TaskPage \/ work.start + TaskPage >= MaxTasks

ReadTasks ==
  /\ work.pc = "tasks"
  /\ \E page \in Pages(BoundTo(Client)) :
       work' = [work EXCEPT !.own = @ \o SetToSeq(page), !.withTime = @ \o SetToSeq(Logged(page)),
                            !.partLost = @ \/ page # PageFrom(BoundTo(Client), work.start),
                            !.start = IF Ends(page) THEN 0 ELSE @ + TaskPage,
                            !.pc = IF Ends(page) THEN "times" ELSE "tasks"]

AfterOwn == IF work.kind = "crm" THEN "linked" ELSE "meetings"

(* Records are asked for by task id, some tasks at once: a task listed     *)
(* twice among them is asked about once.  The records of a task whose part *)
(* of the batch failed are not in the answer, and nothing tells.           *)
Chunk == SubSeq(work.withTime, 1, Min({TaskPage, Len(work.withTime)}))

Rest == SubSeq(work.withTime, Len(Chunk) + 1, Len(work.withTime))

Answers == {SetToSeq(Logged(ToSet(Chunk) \ lost)) : lost \in {{}} \cup {{t} : t \in ToSet(Chunk)}}

Whole(answer) == answer = SetToSeq(Logged(ToSet(Chunk)))

ReadTimes ==
  /\ work.pc = "times" /\ work.withTime # <<>>
  /\ \E answer \in Answers :
       work' = [work EXCEPT !.ownTimes = @ \o answer, !.withTime = Rest, !.partLost = @ \/ ~Whole(answer)]

TimesRead ==
  /\ work.pc = "times" /\ work.withTime = <<>>
  /\ work' = [work EXCEPT !.pc = AfterOwn]

(* Without them there is nothing to show: the load fails.                  *)
OwnCallFails ==
  /\ work.pc \in {"tasks", "times"}
  /\ work' = [work EXCEPT !.pc = "failed"]

-----------------------------------------------------------------------------
(* Elements linked to the client.  Those of sections that are not used are *)
(* not asked for.  Tasks are asked for by the elements without time in the *)
(* field only, some bindings at a time.                                    *)

FieldTime(item) == item.field \in {"open", "finished"}

Asked_AllOfThem(items) == {i.id : i \in items}

Asked(items) == {i.id : i \in {j \in items : ~FieldTime(j)}}

ReadLinked ==
  /\ work.pc = "linked"
  /\ LET items == {[id |-> e, field |-> crm.elements[e]] : e \in {x \in Elements : crm.elements[x] # "ignored"}}
     IN  work' = [work EXCEPT !.items = items, !.asked = Asked(items), !.pc = "bound"]

Known_OwnOnly(seen) == ToSet(work.own)

Known(seen) == ToSet(work.own) \cup seen

ReadBound ==
  /\ work.pc = "bound"
  /\ work.asking = {} => Len(work.bound) < MaxTasks
  /\ \E e \in IF work.asking = {} THEN work.asked ELSE work.asking : \E page \in Pages(BoundTo(e)) :
       LET new == page \ Known(ToSet(work.bound)) IN
         work' = [work EXCEPT !.asked = @ \ {e}, !.asking = IF Ends(page) THEN {} ELSE {e},
                              !.start = IF Ends(page) THEN 0 ELSE @ + TaskPage,
                              !.partLost = @ \/ page # PageFrom(BoundTo(e), work.start),
                              !.boundTo = @ \cup UNION {crm.tasks[t].bound : t \in page},
                              !.bound = @ \o SetToSeq(new),
                              !.withTime = @ \o SetToSeq(Logged(new))]

BoundRead ==
  /\ work.pc = "bound" /\ work.asking = {} /\ (work.asked = {} \/ Len(work.bound) >= MaxTasks)
  /\ work' = [work EXCEPT !.pc = "boundTimes"]

ReadBoundTimes ==
  /\ work.pc = "boundTimes" /\ work.withTime # <<>>
  /\ \E answer \in Answers :
       work' = [work EXCEPT !.boundTimes = @ \o answer, !.withTime = Rest, !.partLost = @ \/ ~Whole(answer)]

BoundTimesRead ==
  /\ work.pc = "boundTimes" /\ work.withTime = <<>>
  /\ work' = [work EXCEPT !.pc = "done"]

(* A failure here takes away all that linked elements would have brought.  *)
WithoutRelated == [work EXCEPT !.pc = "done", !.items = {}, !.bound = <<>>, !.boundTimes = <<>>, !.relatedLost = TRUE]

RelatedFails_LoadToo == [WithoutRelated EXCEPT !.own = <<>>, !.ownTimes = <<>>]

RelatedFails == WithoutRelated

RelatedCallFails == work.pc \in {"linked", "bound", "boundTimes"} /\ work' = RelatedFails

(* Meetings of the group's calendar, each instance once.                   *)

SameMeeting_ById(m, n) == m[1] = n[1]

SameMeeting(m, n) == m = n

Meetings(events) ==
  LET out[n \in 0 .. Len(events)] ==
        IF n = 0 THEN <<>>
        ELSE IF events[n] = NoMeeting \/ \E m \in ToSet(out[n - 1]) : SameMeeting(m, events[n]) THEN out[n - 1]
        ELSE Append(out[n - 1], events[n])
  IN  out[Len(events)]

ReadMeetings ==
  /\ work.pc = "meetings"
  /\ work' = [work EXCEPT !.meetings = Meetings(crm.events), !.pc = "done"]

MeetingsFail ==
  /\ work.pc = "meetings"
  /\ work' = [work EXCEPT !.meetingsError = TRUE, !.pc = "done"]

ActivityNext ==
  \/ TaskChanged \/ ElementChanged
  \/ /\ \/ ReadTasks \/ ReadTimes \/ TimesRead \/ OwnCallFails
        \/ ReadLinked \/ ReadBound \/ BoundRead \/ ReadBoundTimes \/ BoundTimesRead \/ RelatedCallFails
        \/ ReadMeetings \/ MeetingsFail
     /\ UNCHANGED crm

-----------------------------------------------------------------------------
(* What the project shows (relatedAsActivity): an element is a row when it *)
(* has time, or no task is bound to it; its time is a record once it is    *)
(* finished.                                                               *)

Untracked_WhenAsked(item) == FALSE

Untracked(item) == ~FieldTime(item) /\ item.id \notin work.boundTo

ElementRows == SetToSeq({i \in work.items : FieldTime(i) \/ Untracked(i)})

ElementTime == {i.id : i \in {j \in work.items : j.field = "finished"}}

Rows == work.own \o ([i \in DOMAIN ElementRows |-> ElementRows[i].id] \o work.bound)

Records == work.ownTimes \o (SetToSeq(ElementTime) \o work.boundTimes)

-----------------------------------------------------------------------------
(* Properties.                                                             *)

(* No task and no element is listed or its time counted twice, though a    *)
(* task may be bound to the client and to several elements, and be bound   *)
(* anew while the load goes on.  Repeats of the client's own list alone    *)
(* are kept, and come only of tasks that came or went between its pages.   *)
OnlyShifted(rows, own) ==
  \A i, j \in DOMAIN rows : i < j /\ rows[i] = rows[j] => j <= Len(own) /\ work.shifted

NoRowTwice == OnlyShifted(Rows, work.own) /\ OnlyShifted(Records, work.ownTimes)

(* Every linked element is accounted for: it is a row, or a task bound to  *)
(* it is, whatever failed to be read or changed meanwhile.                 *)
EveryElementSeen ==
  work.pc = "done" /\ ~work.relatedLost =>
    \A i \in work.items : i.id \in ToSet(Rows) \/ i.id \in work.boundTo

(* On a portal where nobody works meanwhile, with no list longer than the  *)
(* bound, so that every element is asked about and every task seen, time   *)
(* counted is exactly the time logged on tasks of the client and of        *)
(* elements without time in the field, and the time of finished elements:  *)
(* an element with its own time does not bring the time of its tasks.      *)
Calm == work.changes = 0 /\ ~work.relatedLost /\ ~work.partLost

WithinBound == work.asked = {} /\ \A b \in Elements \cup {Client} : Cardinality(BoundTo(b)) <= MaxTasks

CalmTimeExact ==
  work.pc = "done" /\ work.kind = "crm" /\ Calm /\ WithinBound =>
    LET Source(b) == b = Client \/ (b \in Elements /\ crm.elements[b] = "plain")
    IN  ToSet(Records) = {t \in Tasks : crm.tasks[t].logged /\ \E b \in crm.tasks[t].bound : Source(b)}
                           \cup {e \in Elements : crm.elements[e] = "finished"}

(* The project's own tasks and hours, once read, are shown whatever else   *)
(* fails.                                                                  *)
OwnWorkSurvives ==
  work.pc # "tasks" /\ work'.pc # "tasks" => work'.own = work.own /\ ToSet(work.ownTimes) \subseteq ToSet(work'.ownTimes)

(* Every instance of a recurring meeting is counted, once, however often   *)
(* Bitrix24 lists it.                                                      *)
EveryInstanceOnce ==
  work.pc = "done" /\ work.kind = "group" /\ ~work.meetingsError =>
    IsInjective(work.meetings) /\ ToSet(work.meetings) = ToSet(crm.events) \ {NoMeeting}

(* A load counts everything once, and what it could not read costs nothing *)
(* of what it could.                                                       *)
LoadCountsOnce ==
  /\ [](NoRowTwice /\ EveryElementSeen /\ CalmTimeExact /\ EveryInstanceOnce)
  /\ [][OwnWorkSurvives]_activityVars
=============================================================================
