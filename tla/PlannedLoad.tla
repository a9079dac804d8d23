----------------------------- MODULE PlannedLoad -----------------------------
(***************************************************************************)
(* The calendar of expected loads (load_schedule.py): windows of the day,  *)
(* once or weekly, that the page, the assistant (assistant_routes.py       *)
(* 370-412) and the copy of the learned profile (server.py 6605) write and *)
(* the forecast reads (forecaster.py 2058-2086).  Times are half hours;    *)
(* every write is synchronous in the event loop.                           *)
(***************************************************************************)
EXTENDS Integers, FiniteSetsExt

CONSTANTS
  DayLength,   \* hours of a day
  Workdays, RestDays,  \* the days of the week, 0 .. n - 1
  Dates,       \* calendar days
  NoDate,
  Spans,       \* bound: pairs of start and end that windows have
  Watts,       \* bound: their watts
  Sleeps,      \* bound: pairs of sleep_start and sleep_end; equal ones: none
  IdleWatts,   \* effective parasitic draw
  LossPercent,    \* inverter overhead in percent
  MaxWrites    \* bound: writes of the calendar

Weekdays == Workdays \cup RestDays

ASSUME CalendarAssumption ==
  /\ DayLength \in Nat /\ DayLength >= 2
  /\ Workdays # {} /\ RestDays # {} /\ Workdays \cap RestDays = {}
  /\ Weekdays \subseteq Nat /\ \E n \in Weekdays : Weekdays = 0..n
  /\ Dates \subseteq Nat /\ NoDate \notin Dates
  /\ (Spans \cup Sleeps) \subseteq (0..2 * DayLength - 1) \X (0..2 * DayLength - 1)
  /\ Watts \cup {IdleWatts, LossPercent} \subseteq Nat

VARIABLES
  calendar,  \* the device's record: mode, sleep and windows
  offZone,   \* half hours by which the zone's hours are off the clock's
  writes,    \* writes so far
  copied,    \* history: the profile, since it was copied and nothing else written
  wanted      \* history: since an event was asked for and nothing else written,
             \* its watts and the hours it was asked for

calendarVars == <<calendar, offZone, writes, copied, wanted>>

CalendarHours == 0..DayLength - 1
Cells == Dates \X CalendarHours
WeekdayOf(date) == date % (Max(Weekdays) + 1)

-----------------------------------------------------------------------------
(* Windows *)

\* [from, to), over midnight when it starts later than it ends.
InWindow(t, from, to) ==
  \/ from < to /\ from <= t /\ t < to
  \/ from > to /\ (t >= from \/ t < to)

\* An hour is covered when it begins in the window; old windows without a kind
\* have days and repeat weekly.
Covers(w, date, hour) ==
  /\ InWindow(2 * hour, w.start, w.end)
  /\ IF w.kind = "once" THEN w.date = date ELSE WeekdayOf(date) \in w.weekdays

CellsOf(w) == {c \in Cells : Covers(w, c[1], c[2])}

\* What is kept of a window: one of a date that has none is dropped, a weekly
\* one without days gets all.
Normal(w) ==
  IF w.kind = "once" THEN [w EXCEPT !.weekdays = {}]
  ELSE [w EXCEPT !.kind = "weekly", !.date = NoDate,
                 !.weekdays = IF @ = {} THEN Weekdays ELSE @]
Normalised(ws) == {Normal(w) : w \in {x \in ws : x.kind = "once" => x.date # NoDate}}

ScheduledLoad(ws, date, hour) ==
  LET due == {w \in ws : Covers(w, date, hour)} IN SumFunction([w \in due |-> w.watts])

\* One window for each bucket of the profile, on the days of its half of the week.
WindowsOf(profile) ==
  {[id |-> 2 * b[1] + b[2], start |-> 2 * b[1], end |-> 2 * ((b[1] + 1) % DayLength),
    watts |-> profile[b], kind |-> "weekly", date |-> NoDate,
    weekdays |-> IF b[2] = 1 THEN RestDays ELSE Workdays] : b \in DOMAIN profile}

FreshId == Max({2 * DayLength} \cup {w.id : w \in calendar.windows}) + 1

-----------------------------------------------------------------------------
(* The forecast's load of an hour *)

UnitSleeps(hour) == InWindow((2 * hour + offZone) % (2 * DayLength), calendar.sleep[1], calendar.sleep[2])

Lossy(base) == (base * (100 + LossPercent)) \div 100

\* Nothing planned means the inverter is off.
PlannedDraw(date, hour) ==
  LET base == ScheduledLoad(calendar.windows, date, hour) IN
  IF base = 0 THEN 0 ELSE Lossy(base) + (IF UnitSleeps(hour) THEN 0 ELSE IdleWatts)

\* The learned profile's, in a bucket it has.
LearnedDraw(profile, date, hour) ==
  LET base == profile[<<hour, IF WeekdayOf(date) \in RestDays THEN 1 ELSE 0>>] IN
  IF UnitSleeps(hour) \/ base = 0 THEN 0 ELSE Lossy(base) + IdleWatts

-----------------------------------------------------------------------------
NoProfile == << >>
NoEvent == [watts |-> 0, cells |-> {}]

WindowShape(id, span, watts, kind, date, days) ==
  [id |-> id, start |-> span[1], end |-> span[2], watts |-> watts,
   kind |-> kind, date |-> date, weekdays |-> days]

\* The file as an earlier version may have left it.
CalendarInit ==
  /\ calendar \in [mode: {"scheduled"}, sleep: {<<0, 0>>}, windows: {{}} \cup
       { {WindowShape(2 * DayLength, span, watts, "legacy", NoDate, days)} :
           span \in Spans, days \in {Workdays, RestDays, Weekdays}, watts \in Watts }]
  /\ offZone \in {0, 1}
  /\ writes = 0 /\ copied = NoProfile /\ wanted = NoEvent

Write(mode, sleep, ws, profile, event) ==
  /\ writes < MaxWrites
  /\ writes' = writes + 1
  /\ calendar' = [mode |-> mode, sleep |-> sleep, windows |-> Normalised(ws)]
  /\ copied' = profile /\ wanted' = event
  /\ UNCHANGED offZone

\* The page posts the whole record as it had loaded and changed it.
SaveCalendar ==
  \E mode \in {"historical", "scheduled"}, sleep \in Sleeps,
     span \in Spans, watts \in Watts, date \in Dates \cup {NoDate}, days \in SUBSET Weekdays :
    \E kind \in {"once", "weekly"} :
      \E ws \in SUBSET {WindowShape(2 * DayLength, span, watts, kind, date, days)} :
        Write(mode, sleep, ws, NoProfile, NoEvent)

Profiles == UNION {[B -> Watts \cup {0}] : B \in {CalendarHours \X {0, 1},
                                                  {<<DayLength - 1, 0>>, <<0, 1>>}}}

CopyLearned ==
  \E sleep \in Sleeps, profile \in Profiles :
    Write("scheduled", sleep, WindowsOf(profile), profile, NoEvent)

\* Mutant: what the request leaves open is cleared.
Overwritten(old, new) == new

\* The fields of the request that are set, over the old event's.
Merged(old, new) ==
  [new EXCEPT !.date = IF @ = NoDate THEN old.date ELSE @,
              !.weekdays = IF @ = {} THEN old.weekdays ELSE @]

\* The hours the user means: on the date or the days of the request, or on
\* those the event had; none for a date nobody gave.
Meant(new, olds) ==
  CASE new.kind = "once" /\ new.date # NoDate -> CellsOf(new)
    [] new.kind = "once" /\ new.date = NoDate ->
         {c \in Cells : InWindow(2 * c[2], new.start, new.end) /\ \E old \in olds : old.date = c[1]}
    [] new.kind = "weekly" /\ new.weekdays # {} -> CellsOf(new)
    [] OTHER ->
         {c \in Cells : /\ InWindow(2 * c[2], new.start, new.end)
                        /\ \A old \in olds : old.weekdays # {} => WeekdayOf(c[1]) \in old.weekdays}

\* The assistant's tool: the event of that id is changed, or one is added.
ScheduleUpsert(id) ==
  \E span \in Spans, watts \in Watts, date \in Dates \cup {NoDate}, days \in SUBSET Weekdays,
     kind \in {"once", "weekly"} :
    LET before == Normalised(calendar.windows)
        new == WindowShape(id, span, watts, kind, date, days)
        olds == {w \in before : w.id = id} IN
    Write("scheduled", calendar.sleep,
          (before \ olds) \cup (IF olds = {} THEN {new} ELSE {Merged(old, new) : old \in olds}),
          NoProfile, [watts |-> watts, cells |-> Meant(new, olds)])

ScheduleDelete(id) ==
  Write(calendar.mode, calendar.sleep, {w \in Normalised(calendar.windows) : w.id # id},
        NoProfile, NoEvent)

CalendarNext ==
  \/ SaveCalendar \/ CopyLearned
  \/ \E id \in {w.id : w \in calendar.windows} \cup {FreshId} : ScheduleUpsert(id)
  \/ \E w \in calendar.windows : ScheduleDelete(w.id)

CalendarSpec == CalendarInit /\ [][CalendarNext]_calendarVars

-----------------------------------------------------------------------------
\* Old windows mean the same once they are rewritten (load_schedule.py 22).
MigrationKeepsPlan ==
  \A c \in Cells :
    ScheduledLoad(Normalised(calendar.windows), c[1], c[2]) = ScheduledLoad(calendar.windows, c[1], c[2])

\* Copying the learned profile into the calendar does not change the forecast
\* of an hour that was learned and in which the unit is awake, the last hour
\* of the day included (load_schedule.py 231).
CopyKeepsForecast ==
  \A c \in Cells :
    LET bucket == <<c[2], IF WeekdayOf(c[1]) \in RestDays THEN 1 ELSE 0>> IN
    bucket \in DOMAIN copied /\ ~UnitSleeps(c[2]) =>
      PlannedDraw(c[1], c[2]) = LearnedDraw(copied, c[1], c[2])

\* What the assistant was asked to plan is in the forecast in all hours it was
\* asked for, also when the request left the days as they were
\* (assistant_agent.py 335).
AskedIsPlanned ==
  \A c \in wanted.cells : ScheduledLoad(calendar.windows, c[1], c[2]) >= wanted.watts

\* Rewriting, copying and changing the calendar keep what was planned.
PlanIsKept == MigrationKeepsPlan /\ CopyKeepsForecast /\ AskedIsPlanned
=============================================================================
