-------------------------- MODULE MCReminderSeries ---------------------------
(* Instances of ReminderSeries for TLC: its timers are the numbers 1 .. MaxRows. *)
EXTENDS ReminderSeries, ReminderCalendar, TLC

Timers == 1 .. MaxRows

Workers == Permutations(Worker)
=============================================================================
