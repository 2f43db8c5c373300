------------------------------ MODULE Calendar ------------------------------
(***************************************************************************)
(* Events and their occurrences, attendance, and the task board.  A series *)
(* is one row; its occurrences are computed whenever they are needed       *)
(* (expand).  Recording attendance looks up the occurrence before its      *)
(* transaction; every other operation is one transaction.                  *)
(*                                                                         *)
(* A day is a number, a time a half of a day, and time zones are left out: *)
(* a series keeps its wall-clock times.  Groups stand for the sections and *)
(* roles of an audience and for the role a task is assigned to.            *)
(***************************************************************************)
EXTENDS ClubRecords

CONSTANTS
  MonthDays,       \* lengths of the months of a year
  MaxOccurrences,  \* maxOccurrencesPerEvent
  EventId,         \* ids of events
  Series,          \* contents of events
  EventDays,       \* dates of exceptions and of attendance
  LastDay,         \* the last day of the calendar
  Windows,         \* ranges of days that are looked at
  Statuses,        \* attendance states
  TaskForms        \* contents of tasks

ASSUME CalendarAssumption ==
  /\ MonthDays \in Seq(28 .. 31) /\ MonthDays # << >>
  /\ MaxOccurrences \in Nat \ {0}
  /\ "none" \notin Statuses
  /\ LastDay \in Nat /\ EventDays \subseteq 1 .. LastDay
  /\ \A w \in Windows : w.to \in 1 .. LastDay /\ w.from \in 1 .. w.to
  /\ \A c \in Series : /\ c.start \in Nat \ {0, 1} /\ c.end \in Nat /\ c.until \in Nat /\ c.allDay \in BOOLEAN
                        /\ c.recurrence \in {"none", "weekly", "biweekly", "monthly"}
  (* 14000 days in the code, where a request is for 1100 at most and an event lasts 366. *)
  /\ 366 + 31 <= 7 * MaxOccurrences
  /\ \A w \in Windows : (w.to - w.from) + 366 + 31 <= 7 * MaxOccurrences
  /\ \A t \in TaskForms : /\ DOMAIN t = {"assignee", "role", "linked", "due", "recurrence"}
                          /\ t.due \in Nat /\ t.recurrence \in {"none", "weekly", "monthly", "yearly"}

VARIABLES
  events,      \* events by id: [state] with a content when there is one
  exceptions,  \* live rows of event_exceptions: <<event, day>>
  audience,    \* live rows of event_audiences: <<event, group>>
  attendance,  \* live rows of event_attendance
  sheet,       \* the occurrence a recording has looked up, and its entries
  tasks        \* tasks in the order of their creation

calendarVars == <<events, exceptions, audience, attendance, sheet, tasks>>

NoSheet == [event |-> 0]

CalendarInit ==
  /\ events = [e \in EventId |-> [state |-> "absent"]]
  /\ exceptions = {} /\ audience = {} /\ attendance = {}
  /\ sheet = NoSheet
  /\ tasks = << >>
-----------------------------------------------------------------------------
(* Dates.  Months are counted on over the years.                           *)

MonthLength(k) == MonthDays[((k - 1) % Len(MonthDays)) + 1]
FirstDay[k \in Nat \ {0}] == IF k = 1 THEN 1 ELSE FirstDay[k - 1] + MonthLength(k - 1)
MonthOf(day) == CHOOSE k \in 1 .. day : FirstDay[k] <= day /\ day < FirstDay[k + 1]
DayInMonth(day) == day - FirstDay[MonthOf(day)]

DayOf(time) == time \div 2
Midnight(day) == 2 * day
Half(time) == time % 2

AddMonthsOverflowing(day, n) == FirstDay[MonthOf(day) + n] + DayInMonth(day)
(* addMonthClamped: the day stays within the target month. *)
AddMonths(day, n) ==
  FirstDay[MonthOf(day) + n] + Min({DayInMonth(day), MonthLength(MonthOf(day) + n) - 1})
-----------------------------------------------------------------------------
(* expand: the occurrences of one event.                                   *)

(* Of all-day events only the dates count; they last at least one day.     *)
StartOf(e) == IF e.allDay THEN Midnight(DayOf(e.start)) ELSE e.start
EndOf(e) == IF e.allDay THEN Max({Midnight(DayOf(e.end)), StartOf(e) + 2}) ELSE e.end
SpanDays(e) == DayOf(EndOf(e)) - DayOf(StartOf(e))

StepDays(e) == IF e.recurrence = "weekly" THEN 7 ELSE 14

(* The start of occurrence k, and whether the month has that day.          *)
StartAt(e, k) ==
  CASE e.recurrence \in {"weekly", "biweekly"} -> StartOf(e) + 2 * StepDays(e) * k
    [] e.recurrence = "monthly" ->
         Midnight(FirstDay[MonthOf(DayOf(StartOf(e))) + k] + DayInMonth(DayOf(StartOf(e)))) + Half(StartOf(e))
    [] OTHER -> StartOf(e)
HasDay(e, k) ==
  e.recurrence = "monthly" => DayInMonth(DayOf(StartOf(e))) < MonthLength(MonthOf(DayOf(StartOf(e))) + k)
EndAt(e, k) == Midnight(DayOf(StartAt(e, k)) + SpanDays(e)) + Half(EndOf(e))

Repeats(e) == e.recurrence # "none"

JumpToWindow(e, from) ==
  IF ~Repeats(e) \/ Midnight(from) <= StartOf(e) THEN 0
  ELSE Max({0, IF e.recurrence = "monthly" THEN MonthOf(from) - MonthOf(DayOf(StartOf(e))) - 1
               ELSE (from - DayOf(StartOf(e))) \div StepDays(e) - 1})
(* A little before the window, so that what reaches into it is included.   *)
Jump(e, from) ==
  IF ~Repeats(e) \/ Midnight(from) <= StartOf(e) THEN 0
  ELSE Max({0, IF e.recurrence = "monthly"
               THEN MonthOf(from) - MonthOf(DayOf(StartOf(e))) - SpanDays(e) \div 28 - 1
               ELSE (from - DayOf(StartOf(e))) \div StepDays(e) - SpanDays(e) \div StepDays(e) - 1})

(* Nothing at or after this occurrence is looked at. *)
Past(e, k, to) ==
  \/ StartAt(e, k) >= Midnight(to + 1)
  \/ e.until # 0 /\ StartAt(e, k) >= Midnight(e.until + 1)

(* The dates of the occurrences from .. to; off are the excluded dates.    *)
Expand(e, off, from, to) ==
  LET first == Jump(e, from)
      tries == IF Repeats(e) THEN first .. first + MaxOccurrences - 1 ELSE {0}
      stop == Min({k \in tries : Past(e, k, to)} \cup {first + MaxOccurrences})
  IN {DayOf(StartAt(e, k)) : k \in {j \in tries : /\ j < stop /\ HasDay(e, j)
                                                  /\ EndAt(e, j) > Midnight(from)
                                                  /\ DayOf(StartAt(e, j)) \notin off}}

LiveEvents == {e \in EventId : events[e].state = "live"}
Excluded(e) == {x[2] : x \in {y \in exceptions : y[1] = e}}
Occurrences(e, from, to) == Expand(events[e], Excluded(e), from, to)
OccurrenceOn(e, day) == e \in LiveEvents /\ day \in Occurrences(e, day, day)
-----------------------------------------------------------------------------
(* Events. *)

ValidEvent(c) ==
  /\ c.start <= c.end /\ c.end - c.start <= 2 * 366
  /\ c.until # 0 => c.until >= DayOf(c.start)

RowsOf(rows, e) == {r \in rows : r[1] = e}

(* writeAudiences: the audience is exactly the groups given, all live.     *)
WriteEvent(e, c, gs) ==
  /\ ValidEvent(c) /\ gs \subseteq LiveGroups
  /\ events' = [events EXCEPT ![e] = [state |-> "live", start |-> c.start, end |-> c.end, allDay |-> c.allDay,
                                     recurrence |-> c.recurrence, until |-> c.until]]
  /\ audience' = (audience \ RowsOf(audience, e)) \cup ({e} \X gs)
  /\ UNCHANGED <<exceptions, attendance, sheet, tasks>>
CreateEvent(e, c, gs) == events[e].state = "absent" /\ WriteEvent(e, c, gs)
(* The exceptions are kept, also when the series moves. *)
UpdateEvent(e, c, gs) == events[e].state = "live" /\ WriteEvent(e, c, gs)

DeleteEvent(e) ==
  /\ e \in LiveEvents
  /\ events' = [events EXCEPT ![e].state = "deleted"]
  /\ audience' = audience \ RowsOf(audience, e)
  /\ exceptions' = exceptions \ RowsOf(exceptions, e)
  /\ attendance' = {a \in attendance : a.event # e}
  /\ UNCHANGED <<sheet, tasks>>

(* Any date can be excluded or restored, also one without an occurrence.   *)
SetEventException(e, day, excluded) ==
  /\ e \in LiveEvents
  /\ exceptions' = IF excluded THEN exceptions \cup {<<e, day>>} ELSE exceptions \ {<<e, day>>}
  /\ UNCHANGED <<events, audience, attendance, sheet, tasks>>

MayWriteMembers == "members_core" \in scopes

EventRequest ==
  /\ Spend("event") /\ ScopeGuard("calendar")
  /\ \E e \in EventId :
       \/ \E c \in Series, gs \in SUBSET Group : CreateEvent(e, c, gs) \/ UpdateEvent(e, c, gs)
       \/ DeleteEvent(e)
       \/ \E day \in EventDays, excluded \in BOOLEAN : SetEventException(e, day, excluded)
-----------------------------------------------------------------------------
(* Attendance. *)

(* TrainerScope: the groups of the members with the e-mail of the login.   *)
TrainerGroups ==
  {l[2] : l \in {k \in inGroup : k[1] \in LiveMembers /\ contact[k[1]].live /\ contact[k[1]].email # 0}}
Allows(e, trainer) == trainer => \E g \in TrainerGroups \cap LiveGroups : <<e, g>> \in audience

(* The handler and the store look up the event before the transaction.     *)
FindOccurrence(e, day, entries, trainer) ==
  /\ Spend("attend")
  /\ MayWriteMembers
  /\ sheet = NoSheet
  /\ OccurrenceOn(e, day) /\ Allows(e, trainer)
  /\ sheet' = [event |-> e, day |-> day, entries |-> entries]
  /\ UNCHANGED <<events, exceptions, audience, attendance, tasks>>

(* All entries or none; "none" clears. *)
SetAttendance ==
  /\ sheet # NoSheet
  /\ sheet' = NoSheet
  /\ LET who == DOMAIN sheet.entries
         old == {a \in attendance : a.event = sheet.event /\ a.day = sheet.day /\ a.member \in who}
         new == {[event |-> sheet.event, day |-> sheet.day, member |-> m, status |-> sheet.entries[m]] :
                   m \in {n \in who : sheet.entries[n] # "none"}}
     IN attendance' = IF who \subseteq LiveMembers THEN (attendance \ old) \cup new ELSE attendance
  /\ UNCHANGED <<events, exceptions, audience, tasks, budget>>

AttendanceRequest ==
  \E e \in EventId, day \in EventDays, trainer \in BOOLEAN :
     \E who \in SUBSET Member \ {{}} : \E entries \in [who -> Statuses \cup {"none"}] :
        FindOccurrence(e, day, entries, trainer)

-----------------------------------------------------------------------------
(* Tasks. *)

ValidTask(t) ==
  /\ t.assignee = Nobody \/ t.role = 0
  /\ t.recurrence # "none" => t.due # 0

(* requireRefs *)
LiveRefs(t) ==
  /\ {t.assignee, t.linked} \subseteq LiveMembers \cup {Nobody}
  /\ t.role \in LiveGroups \cup {0}

TaskRow(t, status) ==
  [live |-> TRUE, status |-> status, assignee |-> t.assignee, role |-> t.role,
   linked |-> t.linked, due |-> t.due, recurrence |-> t.recurrence]

NextDue(t) ==
  CASE t.recurrence = "weekly" -> t.due + 7
    [] t.recurrence = "monthly" -> AddMonths(t.due, 1)
    [] OTHER -> AddMonths(t.due, Len(MonthDays))

(* nextOccurrence: the follow-up of a recurring task just finished.        *)
FollowUp(t, status, before) ==
  IF status = "done" /\ before # "done" /\ t.recurrence # "none"
  THEN <<TaskRow([t EXCEPT !.due = NextDue(t)], "open")>> ELSE << >>

CreateTask(t, status) ==
  /\ ValidTask(t) /\ LiveRefs(t)
  /\ tasks' = Append(tasks, TaskRow(t, status))

UpdateTask(i, t, status) ==
  /\ tasks[i].live
  /\ ValidTask(t) /\ LiveRefs(t)
  /\ tasks' = [tasks EXCEPT ![i] = TaskRow(t, status)] \o FollowUp(t, status, tasks[i].status)

DeleteTask(i) ==
  /\ tasks[i].live
  /\ tasks' = [tasks EXCEPT ![i].live = FALSE]

TaskAccess == "members_core" \in scopes

TaskRequest ==
  /\ Spend("task") /\ TaskAccess
  /\ \/ \E t \in TaskForms, status \in {"open", "in_progress", "done"} :
          CreateTask(t, status) \/ \E i \in DOMAIN tasks : UpdateTask(i, t, status)
     \/ \E i \in DOMAIN tasks : DeleteTask(i)
  /\ UNCHANGED <<events, exceptions, audience, attendance, sheet>>
-----------------------------------------------------------------------------
(* DeleteMember and DeleteNamed, as far as this module's tables go.  Tasks *)
(* keep the deleted member or role and show none.                          *)
DeleteAttendanceOf(m) ==
  /\ attendance' = {a \in attendance : a.member # m}
  /\ UNCHANGED <<events, exceptions, audience, sheet, tasks>>

DeleteAudienceOf(g) ==
  /\ audience' = {a \in audience : a[2] # g}
  /\ UNCHANGED <<events, exceptions, attendance, sheet, tasks>>

CalendarNext == EventRequest \/ AttendanceRequest \/ SetAttendance \/ TaskRequest
-----------------------------------------------------------------------------
(* The occurrences as the series describes them, counted from the first. *)
Numbers(e) == IF Repeats(events[e]) THEN 0 .. LastDay \div 7 ELSE {0}
Happens(e, k) ==
  LET c == events[e]
  IN /\ HasDay(c, k)
     /\ c.until # 0 => DayOf(StartAt(c, k)) <= c.until
     /\ <<e, DayOf(StartAt(c, k))>> \notin exceptions

(* Whatever days are looked at, the occurrences listed are all that overlap*)
(* them and no others, for every repetition and length: jumping ahead to   *)
(* the window loses none that reaches into it, a month without the day     *)
(* loses only its own, and an occurrence is found on the day it starts     *)
(* (unless it takes no time at midnight; expand, OccurrenceOn).            *)
OccurrencesComplete ==
  \A e \in LiveEvents :
     LET c == events[e]
         happening == {k \in Numbers(e) : Happens(e, k)}
     IN /\ \A w \in Windows :
             Occurrences(e, w.from, w.to) =
               {DayOf(StartAt(c, k)) : k \in {j \in happening : /\ DayOf(StartAt(c, j)) <= w.to
                                                                /\ EndAt(c, j) > Midnight(w.from)}}
        /\ \A day \in EventDays :
             StartOf(c) < EndOf(c) =>
               (OccurrenceOn(e, day) <=> \E k \in happening : DayOf(StartAt(c, k)) = day)

(* Finishing a recurring task leaves one open task for its next date: in   *)
(* the next week, month or year, and no month is skipped because it is     *)
(* shorter (nextOccurrence, addMonthClamped).                              *)
SeriesContinues ==
  [][\A i \in DOMAIN tasks :
       tasks'[i].status = "done" /\ tasks[i].status # "done" /\ tasks'[i].recurrence # "none" =>
         /\ Len(tasks') = Len(tasks) + 1
         /\ LET done == tasks'[i]
                next == tasks'[Len(tasks')]
            IN /\ next.status = "open" /\ next.due > done.due
               /\ done.recurrence = "weekly" => next.due = done.due + 7
               /\ done.recurrence # "weekly" =>
                    MonthOf(next.due) = MonthOf(done.due) + (IF done.recurrence = "monthly" THEN 1 ELSE Len(MonthDays))]_calendarVars
=============================================================================
