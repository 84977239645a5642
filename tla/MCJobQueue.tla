------------------------------ MODULE MCJobQueue ------------------------------
(* Constants for the runs of JobQueue. *)
EXTENDS JobQueue

CONSTANTS j1, j2, w1, w2, c1, c2, idA, idB

(* Each worker has an id of its own ... *)
DistinctIds == [w \in Workers |-> IF w = w1 THEN idA ELSE idB]

(* ... or all share one, as the dashboard's run-once requests do. *)
SharedId == [w \in Workers |-> idA]

TwoAttempts == [j \in Jobs |-> 2]
OneOrTwoAttempts == [j \in Jobs |-> IF j = j1 THEN 2 ELSE 1]
===============================================================================
