---------------------------- MODULE MCSchedules ----------------------------
(* A small instance of DueTimes: days of six ticks, weeks of three days.   *)
(* The scheduler's clock counts whole days, and the windows of its rows    *)
(* fire at midnight, daily, in a zone without transitions.                 *)
EXTENDS DueTimes

CONSTANTS daily, broken

Greenwich == [before |-> 0, after |-> 0, at |-> DayLen]
Midnight == [zone |-> Greenwich, weekday |-> EveryDay, at |-> 0]

Table == [t \in 0..(MaxTime + MaxAhead + 1) |-> ComputeNextRun(Midnight, t * DayLen) \div DayLen]

MCNextRun(v, t) == Table[t]
MCPeriod(v) == Day
MCAhead == [w \in Processes |-> 0]

-----------------------------------------------------------------------------
(* every regular zone that changes its offset at most once, from the second *)
(* day to the fourth                                                        *)
Offsets == {-2, 0, 1, 3}
MCOffset(z, t) == IF t < z.at THEN z.before ELSE z.after
MCZones == {z \in [before : Offsets, after : Offsets, at : DayLen..(3 * DayLen)] :
              Regular(z, (-DayLen)..(5 * DayLen))}
=============================================================================
