------------------------------ MODULE MCSchedules -----------------------------
(* Constants for the runs of Schedules. *)
EXTENDS Schedules, TLC

CONSTANTS s1, s2, agent, dashboard

(* The ids of schedules are random: no action tells them apart. *)
ScheduleIds == Permutations({s1, s2})
===============================================================================
