----------------------------- MODULE WallClock -----------------------------
(***************************************************************************)
(* The due-time arithmetic of src/src/schedule.ts: the next instant at     *)
(* which a wall clock shows a time, on any day or on one weekday, across   *)
(* the hours a zone skips or repeats.                                      *)
(*                                                                         *)
(* Instants are numbers of ticks since an origin, so many to a day.  What  *)
(* the ICU formatter reports is Offset(z, t): local time minus UTC at t.   *)
(***************************************************************************)
EXTENDS Integers

CONSTANTS
  DayLen,        \* ticks in a day (DAY_MS)
  WeekLen,       \* days in a week
  Offset(_, _),  \* Offset(z, t): the UTC offset zone z has in force at t
  EveryDay       \* the weekday of a daily schedule (null)

ASSUME WallClockAssumption ==
  /\ DayLen \in Nat \ {0}
  /\ WeekLen \in Nat \ {0}
  /\ EveryDay \notin 0..(WeekLen - 1)

(* zoneParts read as one number: the local date and time shown at t. *)
ZoneParts(z, t) == t + Offset(z, t)

LocalDate(z, t) == ZoneParts(z, t) \div DayLen

Weekday(day) == day % WeekLen

(* the candidates are tried in the other order                             *)
InstantLaterFirst(z, day, at) ==
  LET naive == day * DayLen + at
      early == naive - Offset(z, naive - DayLen)
      later == naive - Offset(z, naive + DayLen)
  IN IF ZoneParts(z, later) = naive THEN later ELSE early

(* instantForWallClock: the offsets a day before and a day after are the   *)
(* two candidates; the earlier instant that shows the wall clock wins, and *)
(* a wall clock never shown is read with the offset before the gap.        *)
InstantForWallClock(z, day, at) ==
  LET naive == day * DayLen + at
      early == naive - Offset(z, naive - DayLen)
      later == naive - Offset(z, naive + DayLen)
  IN IF ZoneParts(z, early) = naive THEN early
     ELSE IF ZoneParts(z, later) = naive THEN later
     ELSE early

(* The local days computeNextRun walks over: today and a week and a day.   *)
Walk(window, from) ==
  {day \in LocalDate(window.zone, from) .. (LocalDate(window.zone, from) + WeekLen + 1) :
     window.weekday \in {EveryDay, Weekday(day)}}

(* computeNextRun: the first day of the walk whose instant is still ahead. *)
StillAhead(window, from) ==
  {day \in Walk(window, from) : InstantForWallClock(window.zone, day, window.at) > from}

ComputeNextRun(window, from) ==
  LET day == CHOOSE d \in StillAhead(window, from) : \A e \in StillAhead(window, from) : d <= e
  IN InstantForWallClock(window.zone, day, window.at)

(* A walk that finds nothing throws. *)
Throws(window, from) == StillAhead(window, from) = {}

-----------------------------------------------------------------------------
(* What it should compute, said without its search *)

(* the instant a day's run belongs to: the first that shows the wall       *)
(* clock, and when the zone skips it, the time it would have been had the  *)
(* offset before the gap stayed in force                                   *)
DueInstant(z, day, at) ==
  LET naive == day * DayLen + at
      near == (naive - 2 * DayLen)..(naive + 2 * DayLen)
      showing == {t \in near : ZoneParts(z, t) = naive}
      past == {t \in near : ZoneParts(z, t) > naive}
      First(S) == CHOOSE t \in S : \A u \in S : t <= u
  IN IF showing # {} THEN First(showing) ELSE naive - Offset(z, First(past) - 1)

(* next is the first of the window's runs after from, over all days        *)
IsNextDue(window, from, next) ==
  LET today == LocalDate(window.zone, from)
      due == {DueInstant(window.zone, day, window.at) :
                day \in {d \in (today - 2)..(today + WeekLen + 2) : window.weekday \in {EveryDay, Weekday(d)}}}
  IN next \in due /\ next > from /\ \A t \in due : t > from => next <= t

(* What the arithmetic takes from a zone, at the instants T: an offset is  *)
(* less than a day; within a day of an instant there is at most one        *)
(* transition; an hour repeated across midnight takes the local date back  *)
(* by one at most; and what a gap skips is, read with the offset before    *)
(* it, a later time of the same date.                                      *)
Regular(z, T) ==
  /\ \A t \in T : Offset(z, t) \in (1 - DayLen)..(DayLen - 1)
  /\ \A t \in T : \E change \in (t - DayLen)..(t + DayLen) :
       \A u \in (t - DayLen)..(t + DayLen) :
         Offset(z, u) = IF u < change THEN Offset(z, t - DayLen) ELSE Offset(z, t + DayLen)
  /\ \A t, u \in T : t <= u => LocalDate(z, t) <= LocalDate(z, u) + 1
  /\ \A t \in T :
       LET before == Offset(z, t - 1)
           after == Offset(z, t)
       IN \A local \in (t + before)..(t + after - 1) : local \div DayLen = (local + after - before) \div DayLen
=============================================================================
