------------------------------- MODULE JobLease -------------------------------
(***************************************************************************)
(* What the claim/heartbeat/finish protocol of the durable job queue       *)
(* promises about leases and attempts, without rows, statuses or clients:  *)
(*                                                                         *)
(*   - a job is granted to a worker id only when nobody holds an unexpired *)
(*     lease on it, and only while its attempt budget lasts;               *)
(*   - only an unexpired lease can be renewed;                             *)
(*   - a lease may be dropped at any time (the job was finished, failed or *)
(*     swept after expiry);                                                *)
(*   - the budget is refilled only together with dropping the lease.       *)
(*                                                                         *)
(* JobQueue implements this specification (see Leases in JobQueue), even   *)
(* in the presence of every read/write race the queue has.                 *)
(***************************************************************************)
EXTENDS Naturals

CONSTANTS
    Jobs,            \* job ids
    WorkerIds,       \* values of the lease_owner column
    None,            \* SQL NULL
    Budget,          \* max_attempts of each job
    LeaseDuration    \* ticks a granted or renewed lease lasts

VARIABLES
    clock,           \* wall clock of the host
    holder,          \* [Jobs -> WorkerIds \cup {None}]
    deadline,        \* [Jobs -> Nat \cup {None}]
    grants           \* [Jobs -> Nat]: grants since the last refill

vars == <<clock, holder, deadline, grants>>

Init ==
    /\ clock = 0
    /\ holder = [j \in Jobs |-> None]
    /\ deadline = [j \in Jobs |-> None]
    /\ grants = [j \in Jobs |-> 0]

Free(j) == holder[j] = None \/ deadline[j] <= clock

Renew(j) ==
    /\ holder[j] # None
    /\ deadline[j] > clock
    /\ deadline' = [deadline EXCEPT ![j] = clock + LeaseDuration]
    /\ UNCHANGED <<clock, holder, grants>>

(* Several leases can be swept by one claim. *)
Drop(S) ==
    /\ holder' = [j \in Jobs |-> IF j \in S THEN None ELSE holder[j]]
    /\ deadline' = [j \in Jobs |-> IF j \in S THEN None ELSE deadline[j]]
    /\ UNCHANGED <<clock, grants>>

(* One claim sweeps the expired leases S and grants job j, in one transaction. *)
Grant(S, j, id) ==
    /\ Free(j)
    /\ j \notin S
    /\ grants[j] < Budget[j]
    /\ \A k \in S : Free(k)
    /\ holder' = [k \in Jobs |-> IF k = j THEN id
                                 ELSE IF k \in S THEN None ELSE holder[k]]
    /\ deadline' = [k \in Jobs |-> IF k = j THEN clock + LeaseDuration
                                   ELSE IF k \in S THEN None ELSE deadline[k]]
    /\ grants' = [grants EXCEPT ![j] = @ + 1]
    /\ UNCHANGED clock

Refill(j) ==
    /\ holder' = [holder EXCEPT ![j] = None]
    /\ deadline' = [deadline EXCEPT ![j] = None]
    /\ grants' = [grants EXCEPT ![j] = 0]
    /\ UNCHANGED clock

Pass ==
    /\ clock' = clock + 1
    /\ UNCHANGED <<holder, deadline, grants>>

Next ==
    \/ \E j \in Jobs, id \in WorkerIds, S \in SUBSET Jobs : Grant(S, j, id)
    \/ \E j \in Jobs : Renew(j) \/ Refill(j)
    \/ \E S \in SUBSET Jobs : Drop(S)
    \/ Pass

Spec == Init /\ [][Next]_vars

===============================================================================
