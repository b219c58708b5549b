------------------------------ MODULE DueTimes ------------------------------
(***************************************************************************)
(* The scheduler (Schedules) beside the arithmetic it arms and advances    *)
(* its rows with (WallClock): what computeNextRun answers on the days the  *)
(* scheduler's clock shows.                                                *)
(***************************************************************************)
EXTENDS Schedules, WallClock

CONSTANT Zones   \* the zones schedules are set in

(* the columns at_time, weekday and timezone of a row                      *)
Columns == [zone : Zones, weekday : 0..(WeekLen - 1) \cup {EveryDay}, at : 0..(DayLen - 1)]

Instants(today) == (today * DayLen)..(today * DayLen + DayLen - 1)

(* a search that ends without a day, or with the wrong one                 *)
Fails(window, from) ==
  \/ Throws(window, from)
  \/ ~IsNextDue(window, from, ComputeNextRun(window, from))

Astray ==
  [today \in 0..MaxTime |->
     {search \in [window : Columns, from : Instants(today)] : Fails(search.window, search.from)}]

(* On whatever day it is asked, computeNextRun names the first run of its  *)
(* window still ahead, in every zone: a wall clock shown twice runs at its *)
(* first showing, one never shown runs late on the same day, and the walk  *)
(* of nine days always finds one (schedule.ts 281-354).                    *)
NextRunIsNextDue == Astray[clock] = {}
=============================================================================
