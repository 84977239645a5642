------------------------------ MODULE MCScanJob -------------------------------
(* Constants for the runs of ScanJob. *)
EXTENDS ScanJob, TLC

CONSTANTS i1, i2, i3, job, w1, id, c1

TwoConfigurations == {<<FALSE, {"security", "exact", "quality"}>>, <<TRUE, {"near"}>>}

OneWorker == [w \in {w1} |-> id]
TwoAttempts == [j \in {job} |-> 2]
OneAttempt == [j \in {job} |-> 1]

ItemSymmetry == Permutations({i1, i2, i3})
===============================================================================
