----------------------------- MODULE JobLifecycle -----------------------------
(***************************************************************************)
(* The life of a job as its status column shows it, for a reader who knows *)
(* nothing of leases, clocks, clients or processes:                        *)
(*                                                                         *)
(*    absent -> queued -> running -> succeeded                             *)
(*                 |         |  \-> queued (attempts remain)               *)
(*                 |         |  \-> failed (attempts exhausted)            *)
(*                 |         |  \-> running (claimed again after a crash)  *)
(*                 |         \-> cancel_requested -> cancelled             *)
(*                 \-> cancelled                                           *)
(*    failed, cancelled -> queued (retried by hand)                        *)
(*                                                                         *)
(* One step of the queue can move several jobs, as a claim does that       *)
(* sweeps expired leases.                                                  *)
(***************************************************************************)
EXTENDS Naturals

CONSTANTS
    Jobs,
    Budget           \* attempts each job may use before it fails for good

VARIABLES
    status,
    tries            \* attempts used since the job was queued or retried

vars == <<status, tries>>

Statuses == {"absent", "queued", "running", "cancel_requested",
             "succeeded", "failed", "cancelled"}

Init ==
    /\ status = [j \in Jobs |-> "absent"]
    /\ tries = [j \in Jobs |-> 0]

Becomes(j, s, t) == status'[j] = s /\ tries'[j] = t

Enqueue(j) == status[j] = "absent" /\ Becomes(j, "queued", 0)

Start(j) ==
    /\ status[j] \in {"queued", "running"}
    /\ tries[j] < Budget[j]
    /\ Becomes(j, "running", tries[j] + 1)

Succeed(j) == status[j] = "running" /\ Becomes(j, "succeeded", tries[j])

Requeue(j) ==
    /\ status[j] = "running"
    /\ tries[j] < Budget[j]
    /\ Becomes(j, "queued", tries[j])

Fail(j) ==
    /\ status[j] = "running"
    /\ tries[j] = Budget[j]
    /\ Becomes(j, "failed", tries[j])

Cancel(j) ==
    \/ status[j] = "running" /\ Becomes(j, "cancel_requested", tries[j])
    \/ status[j] \in {"queued", "cancel_requested"} /\ Becomes(j, "cancelled", tries[j])

Retry(j) == status[j] \in {"failed", "cancelled"} /\ Becomes(j, "queued", 0)

Stays(j) == Becomes(j, status[j], tries[j])

Moves(j) ==
    \/ Enqueue(j) \/ Start(j) \/ Succeed(j) \/ Requeue(j)
    \/ Fail(j) \/ Cancel(j) \/ Retry(j)

Next ==
    /\ status' \in [Jobs -> Statuses]
    /\ tries' \in [Jobs -> Nat]
    /\ \A j \in Jobs : Moves(j) \/ Stays(j)

Spec == Init /\ [][Next]_vars
===============================================================================
