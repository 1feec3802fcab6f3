------------------------------- MODULE Hours -------------------------------
(***************************************************************************)
(* Working hours and maintenance windows: which instants a schedule and a  *)
(* list of windows cover.  A window that is written down names days and    *)
(* ranges of the clock; a range that ends before it starts belongs to the  *)
(* day it starts on and reaches into the next.                             *)
(***************************************************************************)
EXTENDS Integers, FiniteSets, SequencesExt

CONSTANT DayLength   \* minutes of a day

ASSUME DayAssumption == DayLength \in Nat \ {0}

Weekdays == 0..6
Minutes  == 0..DayLength - 1

-----------------------------------------------------------------------------
(* What may be written down.                                               *)

\* _parse_range: 24:00 is an end, and no range is empty.
IsRange(r) == r.start \in Minutes /\ r.end \in 0..DayLength /\ r.start # r.end

\* _parse_window; a schedule is a sequence of windows.
IsWindow(w) == w.days \subseteq Weekdays /\ \A r \in w.ranges : IsRange(r)

\* parse_config: a maintenance window is one-off or weekly, never both, and
\* names only groups and miners that exist.
IsMaintenance(w, groups, miners) ==
    /\ w.groups \subseteq groups /\ w.miners \subseteq miners
    /\ IF w.weekly THEN IsWindow(w) /\ w.days # {} /\ w.ranges # {}
       ELSE w.start < w.end

-----------------------------------------------------------------------------
(* What is in force.                                                       *)

CrossesMidnight(r) == r.start > r.end

\* Mutant: Monday has no day before it.
NoDayBefore(day) == day - 1

DayBefore(day) == (day - 1) % 7

InRange(r, days, day, minute) ==
    IF CrossesMidnight(r)
    THEN \/ day \in days /\ minute >= r.start
         \/ DayBefore(day) \in days /\ minute < r.end
    ELSE day \in days /\ r.start <= minute /\ minute < r.end

\* is_working_time, and _in_weekly after it.
InWindows(windows, day, minute) ==
    \E w \in windows : \E r \in w.ranges : InRange(r, w.days, day, minute)

\* covers: a window that names nobody is for the whole fleet.
Covers(w, m) ==
    \/ w.groups = {} /\ w.miners = {}
    \/ m.id \in w.miners
    \/ m.group \in w.groups

\* active: `now` is an instant, and what the clock on the wall shows then.
InForce(w, now) ==
    IF w.weekly THEN InWindows({w}, now.day, now.minute)
    ELSE w.start <= now.at /\ (w.forever \/ now.at < w.end)

\* active_for: a window of the configuration or one that was started by hand.
ActiveFor(windows, m, now) == \E w \in windows : Covers(w, m) /\ InForce(w, now)

-----------------------------------------------------------------------------
(* The same, as one would say it.                                          *)

WeekLength == 7 * DayLength

\* A range lasts from its start until its end comes next.
Lasts(r) == IF r.end > r.start THEN r.end - r.start ELSE r.end - r.start + DayLength

\* Each listed day begins each range once, and the week is a circle.
IsCovered(windows, day, minute) ==
    \E w \in windows : \E r \in w.ranges, begun \in w.days :
        (day * DayLength + minute - (begun * DayLength + r.start)) % WeekLength < Lasts(r)
=============================================================================
