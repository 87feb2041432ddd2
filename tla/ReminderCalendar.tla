--------------------------- MODULE ReminderCalendar ---------------------------
(***************************************************************************)
(* When a reminder or a task falls due (domain/src/lib/zoned-time.ts,      *)
(* notifications/reminder.ts, tasks/due-date.ts).                          *)
(*                                                                         *)
(* Instants and wall clocks are numbers of one unit, Day of them to a day; *)
(* a wall clock is its calendar day times Day plus its time of day, so the *)
(* normalising of months and years by Date.UTC is plain addition.  A zone  *)
(* gives the offset of each instant: before up to its change, after from   *)
(* then on; one change is all that days this close together can meet.      *)
(* Parsing of dates and times and the seconds below the minute are left    *)
(* out.                                                                    *)
(***************************************************************************)
LOCAL INSTANCE Integers
LOCAL INSTANCE FiniteSetsExt

Day == 12

\* zoneOffsetMs.
Offset(zone, instant) == IF instant < zone.change THEN zone.before ELSE zone.after

WallClockIn(zone, instant) == instant + Offset(zone, instant)

\* Three probes, a day apart; the earliest candidate that reads as asked, or else
\* the latest candidate.
ZonedInstant(zone, clock) ==
  LET candidates == { clock - Offset(zone, probe) : probe \in {clock - Day, clock, clock + Day} }
      valid      == { ts \in candidates : clock - ts = Offset(zone, ts) }
  IN IF valid # {} THEN Min(valid) ELSE Max(candidates)

AddCalendarDays(clock, days) == clock + days * Day

ShiftDays(zone, from, days) ==
  IF days = 0 THEN from ELSE ZonedInstant(zone, AddCalendarDays(WallClockIn(zone, from), days))

\* anchor.mode "date" carries the day and the time of day.
FirstOccurrence(zone, anchor, now) ==
  CASE anchor.mode = "from_now" -> now
    [] anchor.mode = "instant"  -> ShiftDays(zone, anchor.at, anchor.offsetDays)
    [] anchor.mode = "date"     -> ZonedInstant(zone, AddCalendarDays(anchor.at, anchor.offsetDays))

\* The roll-forward loop.
RECURSIVE RollForward(_, _, _, _)
RollForward(zone, next, days, now) ==
  IF next > now THEN next ELSE RollForward(zone, ShiftDays(zone, next, days), days, now)

\* until holds notAfter and maxOccurrences; NoBound stands for an absent one.
NoBound == 1000
Ended   == 0 - NoBound

NextOccurrence(zone, days, lastDue, now, occurrence, until) ==
  LET next == RollForward(zone, ShiftDays(zone, lastDue, days), days, now)
  IN IF occurrence >= until.maxOccurrences \/ next > until.notAfter THEN Ended ELSE next

UntilReached(until, at, occurrence) == occurrence > until.maxOccurrences \/ at > until.notAfter

\* resolveDueDate of an anchor_relative specification.
ResolveDueDate(zone, anchorDay, timeOfDay, offsetDays) ==
  ZonedInstant(zone, AddCalendarDays(anchorDay * Day + timeOfDay, offsetDays))
-----------------------------------------------------------------------------
(***************************************************************************)
(* ReminderCalendar against its meaning: a zone without a change, zones    *)
(* that spring forward or fall back by two units, west and east of UTC,    *)
(* with the change at four times of a day.                                 *)
(***************************************************************************)
LOCAL Zones ==
  { [change |-> 4 * Day + c, before |-> o, after |-> o + jump] :
      c \in {0, 1, 5, 11}, o \in {-5, 0, 4}, jump \in {-2, 0, 2} }
LOCAL Instants == 0 .. 8 * Day
LOCAL Clocks   == Day .. 7 * Day
LOCAL Reading(zone, clock) == { i \in clock - Day .. clock + Day : WallClockIn(zone, i) = clock }
LOCAL NoUntil == [maxOccurrences |-> NoBound, notAfter |-> NoBound]

\* zonedInstant finds the instant that reads as asked although it probes only three:
\* the earlier of two; and where the hour is skipped, the instant as far past the
\* change as the clock asked is past the gap's start, "forward past the gap".
ASSUME ZonedInstantIsRight ==
  \A z \in Zones, c \in Clocks :
    LET is == Reading(z, c)
    IN IF is # {} THEN ZonedInstant(z, c) = Min(is)
       ELSE /\ WallClockIn(z, ZonedInstant(z, c)) = c + (z.after - z.before)
            /\ ZonedInstant(z, c) >= z.change

\* "Chase them daily at 09:00 means 09:00 local every day": shifting by days keeps
\* the wall clock, unless the target day has no such hour.
ASSUME ShiftKeepsTheClock ==
  \A z \in Zones, i \in 2 * Day .. 6 * Day, d \in {-1, 0, 1, 2} :
    LET c == AddCalendarDays(WallClockIn(z, i), d)
    IN Reading(z, c) # {} /\ d # 0 => WallClockIn(z, ShiftDays(z, i, d)) = c

\* Every step of the roll-forward loop advances, so it ends, on the first occurrence
\* of the series after now; a backlog gives one chase, not one per missed day.
ASSUME BacklogCollapses ==
  \A z \in Zones, last \in {2 * Day, 3 * Day + 1, 4 * Day - 3}, d \in 1 .. 2, now \in 2 * Day .. 6 * Day :
    LET series[n \in 1 .. 5] == IF n = 1 THEN ShiftDays(z, last, d) ELSE ShiftDays(z, series[n - 1], d)
        next == NextOccurrence(z, d, last, now, 1, NoUntil)
    IN /\ \A n \in 1 .. 4 : series[n] < series[n + 1]
       /\ next = Min({ i \in { series[n] : n \in 1 .. 5 } : i > now })

\* A series meets its valves the same way from both sides: what nextOccurrence lets be
\* scheduled, untilReached lets be sent when it falls due.
ASSUME ValvesAgree ==
  \A m \in 1 .. 3, na \in 3 * Day .. 5 * Day, occ \in 1 .. 3, now \in {2 * Day, 3 * Day + 5, 4 * Day} :
    LET z     == [change |-> 0, before |-> 0, after |-> 0]
        until == [maxOccurrences |-> m, notAfter |-> na]
        next  == NextOccurrence(z, 1, 2 * Day, now, occ, until)
    IN next # Ended => ~UntilReached(until, next, occ + 1)

\* A task due some days from its anchor is due at the configured local time of that
\* day, and a reminder anchored to a date at the same time falls on the same instant.
ASSUME DueDateAndReminderAgree ==
  \A z \in Zones, day \in 2 .. 5, t \in 0 .. Day - 1, off \in -1 .. 1 :
    LET due == ResolveDueDate(z, day, t, off)
    IN /\ Reading(z, (day + off) * Day + t) # {} => WallClockIn(z, due) = (day + off) * Day + t
       /\ due = FirstOccurrence(z, [mode |-> "date", at |-> day * Day + t, offsetDays |-> off], 0)

\* The rhythm does not survive a skipped hour: from the day after, the series goes on
\* at the hour it was pushed to, since each occurrence is shifted from the last.
ASSUME SkippedHourMovesTheSeries ==
  \E z \in Zones, last \in 2 * Day .. 4 * Day :
    LET first  == ShiftDays(z, last, 1)
        second == ShiftDays(z, first, 1)
        c      == AddCalendarDays(WallClockIn(z, last), 2)
    IN Reading(z, c) # {} /\ WallClockIn(z, second) # c
=============================================================================
